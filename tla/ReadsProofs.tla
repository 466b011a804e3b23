---------------------------- MODULE ReadsProofs ----------------------------
(***************************************************************************)
(* Proofs about what an answer is made of: Paging, Policy, LegacyHistory.  *)
(*                                                                         *)
(* Paging, for any items, texts, views, requests and limits.  First what   *)
(* offsets are (Ends, Base, At), what a selection has, and what one page   *)
(* adds to what a client has received: fragments, excerpts or names; then  *)
(* the invariant: a client that can go on stands right behind what it got, *)
(* and what it got is what there was to read where and when it began.      *)
(*                                                                         *)
(* Policy, for any records.  What weighing one candidate after the other   *)
(* comes to, so what a briefing leaves out; then that candidates which     *)
(* change places leave verdicts that show the same.                        *)
(*                                                                         *)
(* LegacyHistory, for any generations and number of views.  The views are  *)
(* in the order of their publication; the walk over the links finds every  *)
(* view before another one and ends within its steps; so the history as of *)
(* a view is what was published until then.                                *)
(***************************************************************************)
EXTENDS Reads, Induction, FiniteSetTheorems

----------------------------------------------------------------------------
(* Offsets *)

LEMMA EndsAre ==
    ASSUME NEW w \in Seq(Nat)
    PROVE  /\ Ends(w) \in [0..Len(w) -> Nat]
           /\ Ends(w)[0] = 0
           /\ \A n \in 1..Len(w) : Ends(w)[n] = Ends(w)[n - 1] + w[n]
<1> DEFINE Step(f, n) == IF n = 0 THEN 0 ELSE f[n - 1] + w[n]
           Is(f) == f = [n \in 0..Len(w) |-> Step(f, n)]
           N == Len(w)
           G == [x \in Nat \X (1..N) |-> x[1] + w[x[2]]]
<1>0. N \in Nat /\ \A k \in 1..N : w[k] \in Nat
  OBVIOUS
<1> HIDE DEF N
<1>1. G \in [Nat \X (1..N) -> Nat]
  BY <1>0
<1>2. \A x \in Nat, k \in 1..N : G[<<x, k>>] = x + w[k]
  OBVIOUS
<1> HIDE DEF G
<1>c. 0 \in Nat
  OBVIOUS
<1>3. PICK f \in [0..N -> Nat] : Iterates(f, 0, G, N)
  BY <1>0, <1>1, <1>c, Recursion
<1>d. f[0] = 0 /\ \A k \in 1..N : f[k] = G[<<f[k - 1], k>>]
  BY <1>3 DEF Iterates
<1>4. \A k \in 1..N : f[k - 1] \in Nat
  BY <1>0, <1>3
<1>5. \A k \in 0..N : f[k] = Step(f, k)
  <2>1. \A k \in 1..N : f[k] = f[k - 1] + w[k]
    BY <1>2, <1>d, <1>4
  <2> QED BY <1>0, <1>d, <2>1
<1>6. Is(f)
  BY <1>3, <1>5, Zenon DEF N
<1>7. Is(Ends(w))
  BY <1>6, Zenon DEF Ends
<1> DEFINE e == Ends(w)
<1>8. e = [n \in 0..N |-> IF n = 0 THEN 0 ELSE e[n - 1] + w[n]]
  BY <1>7, Zenon DEF N
<1> HIDE DEF e
<1>9. e[0] = 0 /\ \A n \in 1..N : e[n] = e[n - 1] + w[n]
  BY <1>0, <1>8
<1>10. e \in [0..N -> Nat]
  <2> DEFINE T == {k \in 0..N : e[k] \in Nat}
  <2>1. 0 \in T /\ \A k \in 0..N - 1 : k \in T => k + 1 \in T
    <3>1. \A k \in 0..N - 1 : k + 1 \in 1..N /\ e[k + 1] = e[k] + w[k + 1]
      BY <1>0, <1>9
    <3>2. 0 \in T
      BY <1>0, <1>9
    <3>3. ASSUME NEW k \in 0..N - 1, k \in T PROVE k + 1 \in T
      <4>1. k + 1 \in 1..N /\ k + 1 \in 0..N /\ e[k + 1] = e[k] + w[k + 1]
        BY <1>0, <3>1
      <4>2. w[k + 1] \in Nat /\ e[k] \in Nat
        BY <1>0, <3>3, <4>1
      <4> QED BY <4>1, <4>2
    <3> QED BY <3>2, <3>3
  <2> HIDE DEF T
  <2>2. 0..N \subseteq T
    BY <1>0, <2>1, ReachesAll
  <2>3. \A k \in 0..N : e[k] \in Nat
    BY <2>2 DEF T
  <2>4. e = [n \in 0..N |-> e[n]]
    BY <1>8, Zenon
  <2> QED BY <2>3, <2>4, Zenon
<1> QED BY <1>9, <1>10 DEF e, N

\* Widths that are not zero put the ends in their order.
LEMMA EndsRise ==
    ASSUME NEW w \in Seq(Nat \ {0}), NEW m \in 0..Len(w), NEW n \in 0..Len(w), m < n
    PROVE  Ends(w)[m] < Ends(w)[n]
<1> DEFINE e == Ends(w)
           N == Len(w)
           T == {k \in 0..N - m - 1 : e[m] < e[m + 1 + k]}
<1>0. w \in Seq(Nat)
  OBVIOUS
<1>1. e \in [0..N -> Nat] /\ \A k \in 1..N : e[k] = e[k - 1] + w[k]
  BY <1>0, EndsAre, Zenon
<1>2. N \in Nat /\ \A k \in 1..N : w[k] \in Nat /\ w[k] > 0
  OBVIOUS
<1> HIDE DEF e
<1>a. m \in 0..N /\ n \in 0..N /\ m < n
  OBVIOUS
<1> HIDE DEF N
<1>3. 0 \in T
  <2>1. m + 1 \in 1..N /\ (m + 1) - 1 = m /\ 0 \in 0..N - m - 1 /\ m + 1 + 0 = m + 1
    BY <1>2, <1>a
  <2>2. e[m + 1] = e[m] + w[m + 1]
    BY <1>1, <2>1
  <2>3. e[m] \in Nat
    BY <1>1, <1>a
  <2> QED BY <1>2, <2>1, <2>2, <2>3
<1>4. ASSUME NEW k \in 0..N - m - 1 - 1, k \in T PROVE k + 1 \in T
  <2>1. m + 1 + k \in 0..N /\ m + 2 + k \in 1..N /\ (m + 2 + k) - 1 = m + 1 + k
    BY <1>2, <1>4, <1>a
  <2>2. e[m + 2 + k] = e[m + 1 + k] + w[m + 2 + k]
    BY <1>1, <2>1
  <2>3. e[m] \in Nat /\ e[m + 1 + k] \in Nat /\ w[m + 2 + k] \in Nat /\ w[m + 2 + k] > 0
    BY <1>1, <1>2, <1>a, <2>1
  <2>4. m + 1 + (k + 1) = m + 2 + k /\ k + 1 \in 0..N - m - 1
    BY <1>2, <1>4, <1>a
  <2>5. e[m] < e[m + 1 + k]
    BY <1>4
  <2>6. e[m] < e[m + 2 + k]
    <3> DEFINE low == e[m]
               mid == e[m + 1 + k]
               high == e[m + 2 + k]
               width == w[m + 2 + k]
    <3>1. low \in Nat /\ mid \in Nat /\ width \in Nat /\ width > 0 /\ high = mid + width /\ low < mid
      BY <2>2, <2>3, <2>5, Zenon
    <3> HIDE DEF low, mid, high, width
    <3>2. low < high
      BY <3>1
    <3> QED BY <3>2, Zenon DEF low, high
  <2> QED BY <2>4, <2>6
<1>5. n - m - 1 \in 0..N - m - 1 /\ N - m - 1 \in Nat /\ m + 1 + (n - m - 1) = n
  BY <1>2, <1>a
<1> HIDE DEF T
<1>6. 0..N - m - 1 \subseteq T
  BY <1>3, <1>4, <1>5, ReachesAll
<1>7. e[m] < e[m + 1 + (n - m - 1)]
  BY <1>5, <1>6 DEF T
<1> QED BY <1>5, <1>7 DEF e

\* The boundaries of a text lie between 0 and its length, and both are some.
LEMMA Texts ==
    ASSUME NEW text \in Seq(1..4)
    PROVE  /\ Length(text) \in Nat
           /\ 0 \in Boundaries(text) /\ Length(text) \in Boundaries(text)
           /\ \A x \in Boundaries(text) : x \in Nat /\ x <= Length(text)
           /\ Length(text) = 0 <=> text = <<>>
<1>1. text \in Seq(Nat) /\ text \in Seq(Nat \ {0})
  OBVIOUS
<1>2. Ends(text) \in [0..Len(text) -> Nat] /\ Ends(text)[0] = 0
  BY <1>1, EndsAre
<1>3. \A n \in 0..Len(text) : n < Len(text) => Ends(text)[n] < Length(text)
  BY <1>1, EndsRise DEF Length
<1>4. Length(text) \in Nat
  BY <1>2 DEF Length
<1>5. 0 \in 0..Len(text) /\ Len(text) \in 0..Len(text)
  OBVIOUS
<1>6. 0 \in Boundaries(text) /\ Length(text) \in Boundaries(text)
  BY <1>2, <1>5, Zenon DEF Boundaries, Length
<1>7. ASSUME NEW x \in Boundaries(text) PROVE x \in Nat /\ x <= Length(text)
  <2>1. PICK n \in 0..Len(text) : x = Ends(text)[n]
    BY DEF Boundaries
  <2>2. CASE n = Len(text)
    BY <1>4, <2>1, <2>2 DEF Length
  <2>3. CASE n < Len(text)
    BY <1>2, <1>3, <1>4, <2>1, <2>3
  <2> QED BY <2>2, <2>3
<1>8. Length(text) = 0 <=> Len(text) = 0
  <2>1. Len(text) = 0 => Length(text) = 0
    BY <1>2 DEF Length
  <2>2. Len(text) # 0 => Length(text) # 0
    BY <1>2, <1>3, <1>4
  <2> QED BY <2>1, <2>2
<1>9. Len(text) = 0 <=> text = <<>>
  OBVIOUS
<1> QED BY <1>4, <1>6, <1>7, <1>8, <1>9

\* Where the members of a selection begin.
LEMMA Bases ==
    ASSUME NEW s \in Seq(Member)
    PROVE  /\ \A i \in 1..Len(s) + 1 : Base(s, i) \in Nat
           /\ Base(s, 1) = 0 /\ Total(s) = Base(s, Len(s) + 1)
           /\ \A i \in 1..Len(s) : Base(s, i + 1) = Base(s, i) + Length(s[i].text) + 1
           /\ \A i, j \in 1..Len(s) + 1 : i < j => Base(s, i) < Base(s, j)
<1> DEFINE w == [n \in DOMAIN s |-> Length(s[n].text) + 1]
<1>0. Len(s) \in Nat /\ \A n \in 1..Len(s) : s[n] \in Member
  OBVIOUS
<1>a. \A m \in Member : m.text \in Seq(1..4)
  BY DEF Member
<1>1. \A n \in 1..Len(s) : s[n].text \in Seq(1..4)
  BY <1>0, <1>a, Zenon
<1>b. \A i \in 1..Len(s) + 1 : i - 1 \in 0..Len(s)
  BY <1>0
<1>2. \A n \in 1..Len(s) : Length(s[n].text) + 1 \in Nat \ {0}
  BY <1>1, Texts
<1>3. w \in [1..Len(s) -> Nat \ {0}] /\ w \in [1..Len(s) -> Nat]
  BY <1>2
<1>4. \A n \in 1..Len(s) : w[n] = Length(s[n].text) + 1
  OBVIOUS
<1>5. MemberEnds(s) = Ends(w)
  BY Zenon DEF MemberEnds
<1> HIDE DEF w
<1>6. w \in Seq(Nat \ {0}) /\ w \in Seq(Nat) /\ Len(w) = Len(s)
  BY <1>3, FunctionIsSeq
<1>7. /\ MemberEnds(s) \in [0..Len(s) -> Nat] /\ MemberEnds(s)[0] = 0
      /\ \A n \in 1..Len(s) : MemberEnds(s)[n] = MemberEnds(s)[n - 1] + w[n]
  BY <1>5, <1>6, EndsAre
<1>8. \A m, n \in 0..Len(s) : m < n => MemberEnds(s)[m] < MemberEnds(s)[n]
  BY <1>5, <1>6, EndsRise
<1>9. \A i \in 1..Len(s) + 1 : Base(s, i) \in Nat
  BY <1>7, <1>b, Zenon DEF Base
<1>10. Base(s, 1) = 0 /\ Total(s) = Base(s, Len(s) + 1)
  <2>1. 1 - 1 = 0 /\ (Len(s) + 1) - 1 = Len(s)
    BY <1>0
  <2> QED BY <1>7, <2>1, Zenon DEF Base, Total
<1>11. ASSUME NEW i \in 1..Len(s)
       PROVE  Base(s, i + 1) = Base(s, i) + Length(s[i].text) + 1
  <2>1. Base(s, i + 1) = MemberEnds(s)[i]
    <3>1. (i + 1) - 1 = i
      BY <1>0
    <3> QED BY <3>1, Zenon DEF Base
  <2>2. Base(s, i) = MemberEnds(s)[i - 1]
    BY DEF Base
  <2>3. Length(s[i].text) \in Nat
    BY <1>1, Texts
  <2>4. MemberEnds(s)[i - 1] \in Nat
    BY <1>0, <1>7
  <2> QED BY <1>4, <1>7, <2>1, <2>2, <2>3, <2>4
<1>12. \A i, j \in 1..Len(s) + 1 : i < j => Base(s, i) < Base(s, j)
  <2>1. \A i, j \in 1..Len(s) + 1 : i < j => i - 1 < j - 1
    BY <1>0
  <2> QED BY <1>8, <1>b, <2>1, Zenon DEF Base
<1> QED BY <1>9, <1>10, <1>11, <1>12

\* The member that an offset is in.
LEMMA AtIs ==
    ASSUME NEW s \in Seq(Member), NEW i \in 1..Len(s), NEW offset \in Nat,
           Base(s, i) <= offset, offset < Base(s, i + 1)
    PROVE  At(s, offset) = i
<1>1. \A j \in 1..Len(s) + 1 : Base(s, j) \in Nat
  BY Bases
<1>2. \A a, b \in 1..Len(s) + 1 : a < b => Base(s, a) < Base(s, b)
  BY Bases
<1>3. ASSUME NEW j \in 1..Len(s), Base(s, j) <= offset, offset < Base(s, j + 1) PROVE j = i
  <2>1. ~(j < i)
    <3>1. j < i => j + 1 <= i /\ j + 1 \in 1..Len(s) + 1 /\ i \in 1..Len(s) + 1
      OBVIOUS
    <3>2. j < i => Base(s, j + 1) <= Base(s, i)
      BY <1>1, <1>2, <3>1
    <3> QED BY <1>1, <1>3, <3>1, <3>2
  <2>2. ~(i < j)
    <3>1. i < j => i + 1 <= j /\ i + 1 \in 1..Len(s) + 1 /\ j \in 1..Len(s) + 1
      OBVIOUS
    <3>2. i < j => Base(s, i + 1) <= Base(s, j)
      BY <1>1, <1>2, <3>1
    <3> QED BY <1>1, <1>3, <3>1, <3>2
  <2> QED BY <2>1, <2>2
<1>4. DOMAIN s = 1..Len(s)
  OBVIOUS
<1> QED BY <1>3, <1>4, Zenon DEF At

\* The last boundary that is not behind a byte is one.
LEMMA Utf8EndIs ==
    ASSUME NEW text \in Seq(1..4), NEW end \in Nat
    PROVE  Utf8End(text, end) \in Boundaries(text)
<1> DEFINE e == Ends(text)
           N == Len(text)
           Best(m, k) == e[m] <= end /\ \A j \in 0..k : e[j] <= end => e[j] <= e[m]
           T == {k \in 0..N : \E m \in 0..k : Best(m, k)}
<1>1. N \in Nat /\ e \in [0..N -> Nat] /\ e[0] = 0
  <2>1. text \in Seq(Nat)
    OBVIOUS
  <2> QED BY <2>1, EndsAre
<1> HIDE DEF e, N
<1>2. 0 \in T
  <2>1. 0 \in 0..0 /\ 0 \in 0..N /\ \A j \in 0..0 : j = 0
    BY <1>1
  <2>2. Best(0, 0)
    BY <1>1, <2>1
  <2> QED BY <2>1, <2>2
<1>3. ASSUME NEW k \in 0..N - 1, k \in T PROVE k + 1 \in T
  <2>1. PICK m \in 0..k : Best(m, k)
    BY <1>3
  <2>2. /\ k \in Nat /\ k + 1 \in 0..N /\ k + 1 \in 0..k + 1 /\ m \in 0..k + 1 /\ m \in 0..N
        /\ \A j \in 0..k + 1 : j \in 0..k \/ j = k + 1
    BY <1>1
  <2>3. e[m] \in Nat /\ e[k + 1] \in Nat /\ \A j \in 0..k : e[j] \in Nat
    <3>1. \A j \in 0..k : j \in 0..N
      BY <1>1
    <3> QED BY <1>1, <2>2, <3>1
  <2>4. CASE e[k + 1] <= end /\ e[m] <= e[k + 1]
    <3>1. \A j \in 0..k : e[j] <= end => e[j] <= e[k + 1]
      BY <2>1, <2>3, <2>4
    <3>2. Best(k + 1, k + 1)
      BY <2>2, <2>3, <2>4, <3>1
    <3> QED BY <2>2, <3>2
  <2>5. CASE ~(e[k + 1] <= end /\ e[m] <= e[k + 1])
    <3>1. e[k + 1] <= end => e[k + 1] <= e[m]
      BY <2>3, <2>5
    <3>2. Best(m, k + 1)
      BY <2>1, <2>2, <3>1
    <3> QED BY <2>2, <3>2
  <2> QED BY <2>4, <2>5
<1> HIDE DEF T
<1>4. 0..N \subseteq T
  BY <1>1, <1>2, <1>3, ReachesAll
<1>5. N \in T
  BY <1>1, <1>4
<1>6. PICK m \in 0..N : Best(m, N)
  BY <1>5 DEF T
<1>7. /\ \A x : x \in Boundaries(text) <=> \E n \in 0..N : x = e[n]
      /\ e[m] \in Boundaries(text)
  BY Zenon DEF Boundaries, e, N
<1>8. \A y \in Boundaries(text) : y <= end => y <= e[m]
  BY <1>6, <1>7
<1>9. \E x \in Boundaries(text) : x <= end /\ \A y \in Boundaries(text) : y <= end => y <= x
  BY <1>6, <1>7, <1>8, Zenon
<1> QED BY <1>9, Zenon DEF Utf8End

\* A form of a text ends at a boundary of it.
LEMMA EndIs ==
    ASSUME NEW text \in Seq(1..4), NEW form \in Form
    PROVE  /\ EndOf(text, form) \in Boundaries(text)
           /\ EndOf(text, form) \in Nat /\ EndOf(text, form) <= Length(text)
<1>1. Utf8End(text, Excerpt) \in Boundaries(text)
  BY LimitAssumption, Utf8EndIs
<1>2. 0 \in Boundaries(text) /\ Length(text) \in Boundaries(text)
  BY Texts
<1>3. EndOf(text, form) \in Boundaries(text)
  BY <1>1, <1>2 DEF EndOf
<1> QED BY <1>3, Texts

----------------------------------------------------------------------------
(* Selections *)

LEMMA KeptIs ==
    ASSUME NEW ids \in Seq(Id), NEW gone
    PROVE  Kept(ids, gone) \in Seq(Id \ gone)
<1> DEFINE N == Len(ids)
           Left == Seq(Id \ gone)
           Step(f, n) == IF n = 0 THEN <<>>
                         ELSE IF ids[n] \in gone THEN f[n - 1] ELSE Append(f[n - 1], ids[n])
           Is(f) == f = [n \in 0..N |-> Step(f, n)]
           G == [x \in Left \X (1..N) |->
                   IF ids[x[2]] \in gone THEN x[1] ELSE Append(x[1], ids[x[2]])]
<1>1. N \in Nat /\ \A k \in 1..N : ids[k] \in Id
  OBVIOUS
<1>2. <<>> \in Left /\ \A x \in Left, id \in Id \ gone : Append(x, id) \in Left
  OBVIOUS
<1> HIDE DEF N, Left
<1>3. G \in [Left \X (1..N) -> Left]
  <2>1. ASSUME NEW x \in Left, NEW k \in 1..N
        PROVE  (IF ids[k] \in gone THEN x ELSE Append(x, ids[k])) \in Left
    BY <1>1, <1>2
  <2> QED BY <2>1
<1>4. \A x \in Left, k \in 1..N :
         G[<<x, k>>] = IF ids[k] \in gone THEN x ELSE Append(x, ids[k])
  OBVIOUS
<1> HIDE DEF G
<1>5. PICK f \in [0..N -> Left] : Iterates(f, <<>>, G, N)
  BY <1>1, <1>2, <1>3, Recursion
<1>6. f[0] = <<>> /\ \A k \in 1..N : f[k] = G[<<f[k - 1], k>>]
  BY <1>5 DEF Iterates
<1>7. \A k \in 1..N : f[k - 1] \in Left
  BY <1>1, <1>5
<1>8. \A k \in 0..N : f[k] = Step(f, k)
  <2>1. \A k \in 1..N : f[k] = IF ids[k] \in gone THEN f[k - 1] ELSE Append(f[k - 1], ids[k])
    BY <1>4, <1>6, <1>7
  <2>2. \A k \in 0..N : k = 0 \/ (k # 0 /\ k \in 1..N)
    BY <1>1
  <2> QED BY <1>6, <2>1, <2>2, Zenon
<1>9. Is(f)
  BY <1>5, <1>8, Zenon
<1> DEFINE e == Remaining(ids, gone)
<1>10. Is(e)
  BY <1>9, Zenon DEF Remaining, N
<1> HIDE DEF e
<1>11. \A k \in 0..N : e[k] = Step(e, k)
  BY <1>10, Zenon
<1>12. e[N] \in Left
  <2> DEFINE T == {k \in 0..N : e[k] \in Left}
  <2>1. 0 \in T
    BY <1>1, <1>2, <1>11
  <2>2. ASSUME NEW k \in 0..N - 1, k \in T PROVE k + 1 \in T
    <3>1. k + 1 \in 1..N /\ k + 1 \in 0..N /\ (k + 1) - 1 = k /\ k + 1 # 0
      BY <1>1
    <3>2. e[k + 1] = IF ids[k + 1] \in gone THEN e[k] ELSE Append(e[k], ids[k + 1])
      BY <1>11, <3>1
    <3>3. e[k] \in Left /\ ids[k + 1] \in Id
      BY <1>1, <2>2, <3>1
    <3> QED BY <1>2, <3>1, <3>2, <3>3
  <2> HIDE DEF T
  <2>3. 0..N \subseteq T
    BY <1>1, <2>1, <2>2, ReachesAll
  <2>4. N \in 0..N
    BY <1>1
  <2> QED BY <2>3, <2>4 DEF T
<1> QED BY <1>12, Zenon DEF e, Kept, N, Left

LEMMA ViewsAre ==
    ASSUME NEW view \in DOMAIN Views
    PROVE  /\ Views[view] \in View /\ Views[view].ids \in Seq(Id)
           /\ Views[view].place \in Places
<1>1. Views[view] \in View
  BY ViewsAssumption
<1> QED BY <1>1 DEF View

LEMMA RequestsAre ==
    ASSUME NEW req \in Requests
    PROVE  /\ req \in ReadRequest /\ req.op \in Op /\ req.compact \in BOOLEAN
           /\ req.ids \in Seq(Id) /\ req.branches \in SUBSET Branch
           /\ req.task \in Task \cup {None} /\ req.incoming \in BOOLEAN \cup {None}
<1>1. req \in ReadRequest
  BY RequestsAssumption
<1> QED BY <1>1 DEF ReadRequest

\* A selection says what there is to read and has no text of an item that is gone.
LEMMA Selects ==
    ASSUME NEW req \in Requests, NEW view \in DOMAIN Views, NEW gone, NEW order \in Seq(Id)
    PROVE  LET s == Selection(req, view, gone, order)
           IN /\ s \in Seq(Member)
              /\ \A n \in DOMAIN s : s[n].id \in gone => s[n].text = <<>>
<1>1. \A id \in Id : Evidence(id) \in Member /\ Placeholder(id) \in Member
  BY TextAssumption DEF Evidence, Placeholder, Member
<1>2. \A id : Evidence(id).id = id /\ Placeholder(id).text = <<>>
  BY DEF Evidence, Placeholder
<1>3. ASSUME NEW ids \in Seq(Id)
      PROVE  LET s == Ranked(Kept(ids, gone))
             IN /\ s \in Seq(Member)
                /\ \A n \in DOMAIN s : s[n].id \notin gone
  <2> DEFINE kept == Kept(ids, gone)
             s == Ranked(kept)
             N == Len(kept)
  <2>1. kept \in Seq(Id \ gone)
    BY KeptIs
  <2> HIDE DEF kept
  <2>2. N \in Nat /\ DOMAIN kept = 1..N /\ \A n \in 1..N : kept[n] \in Id \ gone
    BY <2>1
  <2> HIDE DEF N
  <2>3. s = [n \in 1..N |-> Evidence(kept[n])]
    BY <2>2, Zenon DEF Ranked
  <2> HIDE DEF s
  <2>4. s \in [1..N -> Member]
    BY <1>1, <2>2, <2>3
  <2>5. s \in Seq(Member) /\ DOMAIN s = 1..N
    BY <2>2, <2>4, FunctionIsSeq
  <2>6. \A n \in 1..N : s[n].id = kept[n]
    BY <1>2, <2>3
  <2> QED BY <2>2, <2>5, <2>6, Zenon DEF s, kept
<1>4. LET s == Shown(req, view, gone)
      IN /\ s \in Seq(Member)
         /\ \A n \in DOMAIN s : s[n].id \in gone => s[n].text = <<>>
  <2> DEFINE known(id) == \/ id \in ToSet(Views[view].ids)
                          \/ \E v \in retained : v < view /\ InHistory(req, view, v, id)
             evidence(id) == IF known(id) /\ id \notin gone THEN Evidence(id) ELSE Placeholder(id)
             s == Shown(req, view, gone)
             N == Len(req.ids)
  <2>1. N \in Nat /\ DOMAIN req.ids = 1..N /\ \A n \in 1..N : req.ids[n] \in Id
    <3>1. req.ids \in Seq(Id)
      BY RequestsAre
    <3> QED BY <3>1
  <2>2. s = [n \in 1..N |-> evidence(req.ids[n])]
    BY <2>1, Zenon DEF Shown
  <2> HIDE DEF N, known, s
  <2>3. s \in [1..N -> Member]
    BY <1>1, <2>1, <2>2
  <2>4. s \in Seq(Member) /\ DOMAIN s = 1..N
    BY <2>1, <2>3, FunctionIsSeq
  <2>5. \A id : evidence(id).id \in gone => evidence(id).text = <<>>
    BY <1>2
  <2>6. \A n \in 1..N : s[n] = evidence(req.ids[n])
    BY <2>2, Zenon
  <2> HIDE DEF evidence
  <2>7. \A n \in 1..N : s[n].id \in gone => s[n].text = <<>>
    BY <2>5, <2>6, Zenon
  <2> QED BY <2>4, <2>7, Zenon DEF s
<1>5. Views[view].ids \in Seq(Id)
  BY ViewsAre
<1>6. CASE req.op = "show"
  BY <1>4, <1>6, Zenon DEF Selection
<1>7. CASE req.op = "brief"
  <2>1. Selection(req, view, gone, order) = Ranked(Kept(Views[view].ids, gone))
    BY <1>7 DEF Selection
  <2> QED BY <1>3, <1>5, <2>1
<1>8. CASE req.op = "search"
  <2>1. Selection(req, view, gone, order) = Ranked(Kept(order, gone))
    BY <1>8 DEF Selection
  <2> QED BY <1>3, <2>1
<1>9. req.op \in Op
  BY RequestsAre
<1> QED BY <1>6, <1>7, <1>8, <1>9 DEF Op

LEMMA OrdersAre ==
    ASSUME NEW view \in DOMAIN Views, NEW req, \A k \in DOMAIN saved : saved[k] \in Seq(Id)
    PROVE  Orders(view, req) \subseteq Seq(Id)
<1> DEFINE kept == Kept(Views[view].ids, forgotten)
           N == Len(kept)
<1>1. kept \in Seq(Id)
  <2>1. Views[view].ids \in Seq(Id)
    BY ViewsAre
  <2>2. kept \in Seq(Id \ forgotten)
    BY <2>1, KeptIs
  <2> QED BY <2>2
<1> HIDE DEF kept
<1>2. N \in Nat /\ DOMAIN kept = 1..N /\ kept \in [1..N -> Id]
  BY <1>1
<1> HIDE DEF N
<1>3. IsFiniteSet(1..N)
  BY <1>2, FS_Interval
<1>4. kept \in Surjection(1..N, ToSet(kept))
  BY <1>2 DEF Surjection, ToSet
<1>5. IsFiniteSet(ToSet(kept)) /\ ToSet(kept) \subseteq Id
  BY <1>2, <1>3, <1>4, FS_Surjection DEF ToSet
<1>6. ASSUME NEW S \in SUBSET ToSet(kept) PROVE SetToSeqs(S) \subseteq Seq(Id)
  <2>1. Cardinality(S) \in Nat /\ S \subseteq Id
    BY <1>5, FS_Subset, FS_CardinalityType
  <2>2. \A f \in [1..Cardinality(S) -> S] : f \in [1..Cardinality(S) -> Id]
    BY <2>1
  <2>3. \A f \in [1..Cardinality(S) -> Id] : f \in Seq(Id)
    BY <2>1, FunctionIsSeq
  <2> QED BY <2>2, <2>3, Zenon DEF SetToSeqs
<1>7. CASE Key(view, req) \in DOMAIN saved
  BY <1>7 DEF Orders
<1>8. CASE Key(view, req) \notin DOMAIN saved
  BY <1>6, <1>8 DEF Orders, kept
<1> QED BY <1>7, <1>8

----------------------------------------------------------------------------
(* What a client has received of a selection s, in the forms F: a chain r of parts *)

PartOf(F, s, a) ==
    /\ a.member \in 1..Len(s)
    /\ a.id = s[a.member].id
    /\ a.form \in F
    /\ a.stop \in Boundaries(s[a.member].text)
    /\ a.form # "text" => a.stop = EndOf(s[a.member].text, a.form)

Follows(s, a, b) ==
    \/ /\ b.member = a.member
       /\ a.form = "text" /\ b.form = "text"
       /\ b.start = a.stop
       /\ a.stop < Length(s[a.member].text)
    \/ /\ b.member = a.member + 1
       /\ a.form = "listed" => b.form = "listed"
       /\ b.start = 0
       /\ a.stop = EndOf(s[a.member].text, a.form)

\* b goes on where r ended.
Begins(s, r, b) ==
    IF r = <<>> THEN b.member = 1 /\ b.start = 0 ELSE Follows(s, r[Len(r)], b)

Chain(F, s, r) ==
    /\ r \in Seq(Part)
    /\ \A n \in 1..Len(r) : PartOf(F, s, r[n])
    /\ r # <<>> => r[1].member = 1 /\ r[1].start = 0
    /\ \A n \in 1..Len(r) - 1 : Follows(s, r[n], r[n + 1])

\* Part a has its member to the end of its form.
Ended(s, a) == a.stop = EndOf(s[a.member].text, a.form)

\* How many members of s the first n parts of r have to the end.
WholeTo(s, r, n) ==
    IF n = 0 THEN 0 ELSE IF Ended(s, r[n]) THEN r[n].member ELSE r[n].member - 1

WholeOf(s, r) == WholeTo(s, r, Len(r))

LEMMA TextOf ==
    ASSUME NEW s \in Seq(Member), NEW i \in 1..Len(s)
    PROVE  /\ s[i] \in Member /\ s[i].text \in Seq(1..4) /\ s[i].id \in Id
           /\ Length(s[i].text) \in Nat
           /\ \A x \in Boundaries(s[i].text) : x \in Nat /\ x <= Length(s[i].text)
<1>1. s[i] \in Member
  OBVIOUS
<1>2. s[i].text \in Seq(1..4) /\ s[i].id \in Id
  BY <1>1 DEF Member
<1> QED BY <1>1, <1>2, Texts

\* A part begins in the first member that has not ended yet.
LEMMA WholeBefore ==
    ASSUME NEW F, NEW s \in Seq(Member), NEW r, Chain(F, s, r), NEW n \in 0..Len(r) - 1
    PROVE  WholeTo(s, r, n) = r[n + 1].member - 1
<1>1. Len(r) \in Nat /\ r # <<>>
  BY DEF Chain
<1>2. CASE n = 0
  <2>1. r[n + 1].member = 1
    BY <1>1, <1>2 DEF Chain
  <2> QED BY <1>2, <2>1 DEF WholeTo
<1>3. CASE n # 0
  <2>1. n \in 1..Len(r) - 1 /\ n \in 1..Len(r) /\ n + 1 \in 1..Len(r)
    BY <1>1, <1>3
  <2>2. Follows(s, r[n], r[n + 1]) /\ PartOf(F, s, r[n]) /\ PartOf(F, s, r[n + 1])
    BY <2>1, Zenon DEF Chain
  <2> DEFINE a == r[n]
             b == r[n + 1]
  <2> HIDE DEF a, b
  <2>3. a.member \in 1..Len(s) /\ Length(s[a.member].text) \in Nat
    BY <2>2, TextOf DEF PartOf, a
  <2>4. a.member \in Int /\ b.member \in Int
    BY <2>2, <2>3 DEF PartOf, b
  <2>5. Follows(s, a, b)
    BY <2>2 DEF a, b
  <2>6. (IF Ended(s, a) THEN a.member ELSE a.member - 1) = b.member - 1
    <3>1. CASE b.member = a.member /\ a.form = "text" /\ a.stop < Length(s[a.member].text)
      <4>1. ~Ended(s, a)
        BY <2>3, <3>1 DEF Ended, EndOf
      <4> QED BY <3>1, <4>1
    <3>2. CASE b.member = a.member + 1 /\ Ended(s, a)
      BY <2>4, <3>2
    <3> QED BY <2>5, <3>1, <3>2 DEF Follows, Ended
  <2> QED BY <1>3, <2>6, Zenon DEF WholeTo, a, b
<1> QED BY <1>2, <1>3

\* The members up to WholeOf were received to the end, and no others.
LEMMA Covers ==
    ASSUME NEW F, NEW s \in Seq(Member), NEW r, Chain(F, s, r)
    PROVE  /\ WholeOf(s, r) \in 0..Len(s)
           /\ \A j \in 1..Len(s) :
                j <= WholeOf(s, r) <=>
                    \E n \in 1..Len(r) : r[n].member = j /\ Ended(s, r[n])
<1> DEFINE N == Len(r)
           M == Len(s)
           W(n) == WholeTo(s, r, n)
           Has(n, j) == r[n].member = j /\ Ended(s, r[n])
           T == {n \in 0..N : \A j \in 1..M : j <= W(n) <=> \E m \in 1..n : Has(m, j)}
<1>1. N \in Nat /\ M \in Nat
  BY DEF Chain
<1>2. \A n \in 1..N : r[n].member \in 1..M
  BY DEF Chain, PartOf
<1>3. \A n \in 1..N : W(n) = IF Has(n, r[n].member) THEN r[n].member ELSE r[n].member - 1
  BY <1>1 DEF WholeTo
<1>4. \A n \in 0..N - 1 : W(n) = r[n + 1].member - 1
  BY WholeBefore
<1>5. \A n, j : Has(n, j) => j = r[n].member
  OBVIOUS
<1>6. W(0) = 0
  BY DEF WholeTo
<1> HIDE DEF N, M, W, Has
<1>7. \A n \in 0..N : W(n) \in 0..M
  <2> TAKE n \in 0..N
  <2>1. CASE n = 0
    BY <1>1, <1>6, <2>1
  <2>2. CASE n \in 1..N
    <3>1. r[n].member \in 1..M
      BY <1>2, <2>2
    <3> QED BY <1>1, <1>3, <2>2, <3>1
  <2> QED BY <1>1, <2>1, <2>2
<1>8. 0 \in T
  BY <1>1, <1>6
<1>9. ASSUME NEW n \in 0..N - 1, n \in T PROVE n + 1 \in T
  <2> DEFINE k == r[n + 1].member
  <2>1. n \in 0..N /\ n + 1 \in 1..N /\ n + 1 \in 0..N
    BY <1>1
  <2>2. k \in 1..M
    BY <1>2, <2>1
  <2>3. W(n) = k - 1 /\ W(n + 1) = (IF Has(n + 1, k) THEN k ELSE k - 1)
    BY <1>3, <1>4, <2>1
  <2>4. \A j : Has(n + 1, j) => j = k
    BY <1>5
  <2> HIDE DEF k
  <2>5. ASSUME NEW j \in 1..M PROVE j <= W(n + 1) <=> \E m \in 1..n + 1 : Has(m, j)
    <3>1. (j <= W(n)) <=> \E m \in 1..n : Has(m, j)
      BY <1>9
    <3>2. (\E m \in 1..n + 1 : Has(m, j)) <=> ((\E m \in 1..n : Has(m, j)) \/ Has(n + 1, j))
      <4>1. \A m : m \in 1..n + 1 <=> (m \in 1..n \/ m = n + 1)
        BY <1>1, <2>1
      <4> QED BY <4>1, Zenon
    <3>3. j <= W(n + 1) <=> (j <= W(n) \/ Has(n + 1, j))
      <4>1. CASE Has(n + 1, k)
        <5>1. (j <= W(n) \/ j = k) <=> j <= W(n + 1)
          BY <2>2, <2>3, <4>1
        <5>2. Has(n + 1, j) <=> j = k
          BY <2>4, <4>1
        <5> QED BY <5>1, <5>2
      <4>2. CASE ~Has(n + 1, k)
        <5>1. ~Has(n + 1, j)
          BY <2>4, <4>2
        <5> QED BY <2>3, <4>2, <5>1
      <4> QED BY <4>1, <4>2
    <3> QED BY <3>1, <3>2, <3>3
  <2> QED BY <2>1, <2>5
<1> HIDE DEF T
<1>10. 0..N \subseteq T
  BY <1>1, <1>8, <1>9, ReachesAll
<1>11. N \in T
  BY <1>1, <1>10
<1>12. \A j \in 1..M : j <= W(N) <=> \E m \in 1..N : Has(m, j)
  BY <1>11 DEF T
<1>13. W(N) \in 0..M
  BY <1>1, <1>7
<1> QED BY <1>12, <1>13, Zenon DEF N, M, W, Has, WholeOf

\* A chain goes on with parts that follow it and one another.
LEMMA Joins ==
    ASSUME NEW F, NEW s \in Seq(Member), NEW r, Chain(F, s, r), NEW got \in Seq(Part),
           \A n \in 1..Len(got) : PartOf(F, s, got[n]),
           \A n \in 1..Len(got) - 1 : Follows(s, got[n], got[n + 1]),
           got # <<>> => Begins(s, r, got[1])
    PROVE  Chain(F, s, r \o got)
<1> DEFINE N == Len(r)
           K == Len(got)
           t == r \o got
<1>1. r \in Seq(Part) /\ N \in Nat /\ K \in Nat
  BY DEF Chain
<1>2. t \in Seq(Part) /\ Len(t) = N + K
  BY <1>1
<1>3. /\ \A n \in 1..N : t[n] = r[n]
      /\ \A n \in N + 1..N + K : t[n] = got[n - N]
  BY <1>1
<1>4. (r = <<>> <=> N = 0) /\ (got = <<>> <=> K = 0) /\ (t # <<>> <=> N + K # 0)
  BY <1>1, <1>2
<1> HIDE DEF t
<1>5. /\ \A n \in 1..N : PartOf(F, s, r[n])
      /\ r # <<>> => r[1].member = 1 /\ r[1].start = 0
      /\ \A n \in 1..N - 1 : Follows(s, r[n], r[n + 1])
  BY DEF Chain
<1>6. /\ \A n \in 1..K : PartOf(F, s, got[n])
      /\ \A n \in 1..K - 1 : Follows(s, got[n], got[n + 1])
  OBVIOUS
<1>7. /\ K # 0 /\ N = 0 => got[1].member = 1 /\ got[1].start = 0
      /\ K # 0 /\ N # 0 => Follows(s, r[N], got[1])
  BY <1>4 DEF Begins
<1> HIDE DEF N, K
<1>8. \A n \in 1..N + K : PartOf(F, s, t[n])
  <2> TAKE n \in 1..N + K
  <2>1. n \in 1..N \/ (n \in N + 1..N + K /\ n - N \in 1..K)
    BY <1>1
  <2> QED BY <1>3, <1>5, <1>6, <2>1, Zenon
<1>9. t # <<>> => t[1].member = 1 /\ t[1].start = 0
  <2>1. CASE N = 0
    <3>1. t # <<>> => K # 0 /\ 1 \in N + 1..N + K /\ 1 - N = 1
      BY <1>1, <1>4, <2>1
    <3> QED BY <1>3, <1>7, <2>1, <3>1
  <2>2. CASE N # 0
    <3>1. 1 \in 1..N
      BY <1>1, <2>2
    <3> QED BY <1>3, <1>4, <1>5, <2>2, <3>1
  <2> QED BY <2>1, <2>2
<1>10. ASSUME NEW n \in 1..N + K - 1 PROVE Follows(s, t[n], t[n + 1])
  <2>1. CASE n < N
    <3>1. n \in 1..N - 1 /\ n \in 1..N /\ n + 1 \in 1..N
      BY <1>1, <2>1
    <3> QED BY <1>3, <1>5, <3>1
  <2>2. CASE n = N
    <3>1. n \in 1..N /\ n + 1 \in N + 1..N + K /\ (n + 1) - N = 1 /\ K # 0 /\ N # 0
      BY <1>1, <2>2
    <3>2. t[n] = r[N] /\ t[n + 1] = got[1]
      BY <1>3, <2>2, <3>1
    <3> QED BY <1>7, <3>1, <3>2
  <2>3. CASE n > N
    <3>1. /\ n \in N + 1..N + K /\ n + 1 \in N + 1..N + K
          /\ n - N \in 1..K - 1 /\ (n + 1) - N = (n - N) + 1
      BY <1>1, <2>3
    <3> QED BY <1>3, <1>6, <3>1
  <2>4. n < N \/ n = N \/ n > N
    BY <1>1
  <2> QED BY <2>1, <2>2, <2>3, <2>4, Zenon
<1>11. \A n \in 1..Len(t) : PartOf(F, s, t[n])
  BY <1>2, <1>8
<1>12. \A n \in 1..Len(t) - 1 : Follows(s, t[n], t[n + 1])
  <2>1. Len(t) - 1 = N + K - 1
    BY <1>1, <1>2
  <2> QED BY <1>10, <2>1, Zenon
<1>13. Chain(F, s, t)
  BY <1>2, <1>9, <1>11, <1>12, Zenon DEF Chain
<1> QED BY <1>13 DEF t

----------------------------------------------------------------------------
(* Members one by one: searches and briefs *)

WholePart(s, n, form) ==
    [id |-> s[n].id, member |-> n, start |-> 0, stop |-> EndOf(s[n].text, form), form |-> form]

\* Behind a name that is listed there are only names.
Listing(r) == \A n \in 1..Len(r) - 1 : r[n].form = "listed" => r[n + 1].form = "listed"

\* r is the first members of s, each of them to the end of its form.
Members(F, s, r) ==
    /\ r \in Seq(Part)
    /\ Len(r) <= Len(s)
    /\ \A n \in 1..Len(r) : r[n].form \in F /\ r[n] = WholePart(s, n, r[n].form)
    /\ Listing(r)

LEMMA WholeParts ==
    ASSUME NEW F \in SUBSET Form, NEW s \in Seq(Member), NEW n \in 1..Len(s), NEW form \in F
    PROVE  /\ WholePart(s, n, form) \in Part
           /\ PartOf(F, s, WholePart(s, n, form))
           /\ Ended(s, WholePart(s, n, form))
           /\ WholePart(s, n, form).member = n /\ WholePart(s, n, form).start = 0
           /\ WholePart(s, n, form).form = form
<1> DEFINE a == WholePart(s, n, form)
<1>1. /\ a.id = s[n].id /\ a.member = n /\ a.start = 0 /\ a.stop = EndOf(s[n].text, form)
      /\ a.form = form
  BY DEF WholePart
<1>2. s[n].text \in Seq(1..4) /\ s[n].id \in Id /\ n \in Nat /\ form \in Form
  BY TextOf
<1>3. EndOf(s[n].text, form) \in Boundaries(s[n].text) /\ EndOf(s[n].text, form) \in Nat
  BY <1>2, EndIs
<1>4. a \in Part
  BY <1>2, <1>3 DEF WholePart, Part
<1> HIDE DEF a
<1>5. PartOf(F, s, a) /\ Ended(s, a)
  BY <1>1, <1>3 DEF PartOf, Ended
<1> QED BY <1>1, <1>4, <1>5 DEF a

LEMMA MembersChain ==
    ASSUME NEW F \in SUBSET Form, NEW s \in Seq(Member), NEW r, Members(F, s, r)
    PROVE  Chain(F, s, r) /\ WholeOf(s, r) = Len(r)
<1> DEFINE N == Len(r)
           M == Len(s)
<1>1. N \in Nat /\ M \in Nat /\ N <= M /\ r \in Seq(Part)
  BY DEF Members
<1>2. \A n \in 1..N : r[n].form \in F /\ r[n] = WholePart(s, n, r[n].form)
  BY DEF Members
<1>3. \A n \in 1..N : n \in 1..M
  BY <1>1
<1>4. \A n \in 1..N : PartOf(F, s, r[n]) /\ Ended(s, r[n]) /\ r[n].member = n /\ r[n].start = 0
  <2> TAKE n \in 1..N
  <2> DEFINE form == r[n].form
             part == WholePart(s, n, form)
  <2>1. form \in F /\ n \in 1..M /\ r[n] = part
    BY <1>2, <1>3
  <2> HIDE DEF form
  <2>2. PartOf(F, s, part) /\ Ended(s, part) /\ part.member = n /\ part.start = 0
    BY <2>1, WholeParts
  <2> HIDE DEF part
  <2> QED BY <2>1, <2>2
<1>5. r # <<>> <=> N # 0
  BY <1>1
<1>6. r # <<>> => r[1].member = 1 /\ r[1].start = 0
  <2>1. N # 0 => 1 \in 1..N
    BY <1>1
  <2> QED BY <1>4, <1>5, <2>1
<1>7. ASSUME NEW n \in 1..N - 1 PROVE Follows(s, r[n], r[n + 1])
  <2>1. n \in 1..N /\ n + 1 \in 1..N
    BY <1>1
  <2>2. r[n].form = "listed" => r[n + 1].form = "listed"
    BY DEF Members, Listing
  <2> QED BY <1>4, <2>1, <2>2, Zenon DEF Follows, Ended
<1>8. Chain(F, s, r)
  BY <1>1, <1>4, <1>6, <1>7, Zenon DEF Chain
<1>9. WholeOf(s, r) = N
  <2>1. N # 0 => N \in 1..N
    BY <1>1
  <2>2. N # 0 => Ended(s, r[N]) /\ r[N].member = N
    BY <1>4, <2>1, Zenon
  <2> QED BY <2>2 DEF WholeOf, WholeTo
<1> QED BY <1>8, <1>9

\* The form in which results are shown.
FormOf(op) == IF op = "search" THEN "excerpt" ELSE "text"

\* A page of members of s behind the first start: it shows them up to next and lists
\* them up to upto.
HasWhole(op, s, out, start, next, upto) ==
    /\ start \in Nat /\ next \in start..Len(s) /\ upto \in next..Len(s)
    /\ out.shown = [n \in 1..next - start |-> Result(op, s, start + n)]
    /\ out.omitted = [n \in 1..upto - next |-> next + n]

FormAt(op, shown, n) == IF n <= shown THEN FormOf(op) ELSE "listed"

\* The client gets all of them, those that are listed by name.
LEMMA GotWhole ==
    ASSUME NEW op \in Op, NEW s \in Seq(Member), NEW start, NEW next, NEW upto, NEW out,
           HasWhole(op, s, out, start, next, upto)
    PROVE  /\ Got(op, s, out) \in Seq(Part)
           /\ Len(Got(op, s, out)) = upto - start
           /\ \A n \in 1..upto - start :
                 Got(op, s, out)[n] = WholePart(s, start + n, FormAt(op, next - start, n))
<1> DEFINE a == next - start
           b == upto - next
           form == FormOf(op)
           x == [n \in DOMAIN out.shown |->
                   [id |-> s[out.shown[n].member].id, member |-> out.shown[n].member,
                    start |-> out.shown[n].start, stop |-> out.shown[n].stop,
                    form |-> IF op = "search" THEN "excerpt" ELSE "text"]]
           y == [n \in DOMAIN out.omitted |->
                   [id |-> s[out.omitted[n]].id, member |-> out.omitted[n],
                    start |-> 0, stop |-> 0, form |-> "listed"]]
<1>0. /\ start \in Nat /\ next \in start..Len(s) /\ upto \in next..Len(s) /\ Len(s) \in Nat
      /\ out.shown = [n \in 1..a |-> Result(op, s, start + n)]
      /\ out.omitted = [n \in 1..b |-> next + n]
  BY DEF HasWhole
<1>1. a \in Nat /\ b \in Nat /\ a + b = upto - start
  BY <1>0
<1>2. /\ \A i : /\ Result(op, s, i).member = i /\ Result(op, s, i).start = 0
                /\ Result(op, s, i).stop = EndOf(s[i].text, form)
      /\ (IF op = "search" THEN "excerpt" ELSE "text") = form
  BY DEF Result, Fragment, EndOf, FormOf
<1>3. x = [n \in 1..a |-> WholePart(s, start + n, form)]
  <2>1. DOMAIN out.shown = 1..a /\ \A n \in 1..a : out.shown[n] = Result(op, s, start + n)
    BY <1>0
  <2> HIDE DEF a, form
  <2> QED BY <1>2, <2>1 DEF WholePart
<1>4. y = [n \in 1..b |-> WholePart(s, next + n, "listed")]
  <2>1. DOMAIN out.omitted = 1..b /\ \A n \in 1..b : out.omitted[n] = next + n
    BY <1>0
  <2>2. \A i : EndOf(s[i].text, "listed") = 0
    BY DEF EndOf
  <2> HIDE DEF b
  <2> QED BY <2>1, <2>2 DEF WholePart
<1>5. Got(op, s, out) = x \o y
  BY Zenon DEF Got
<1>6. (\A n \in 1..a : start + n \in 1..Len(s)) /\ \A n \in 1..b : next + n \in 1..Len(s)
  <2>1. /\ start \in Nat /\ next \in start..Len(s) /\ upto \in next..Len(s) /\ Len(s) \in Nat
    BY <1>0
  <2>2. \A n \in 1..a : start + n \in 1..Len(s)
    BY <2>1
  <2>3. \A n \in 1..b : next + n \in 1..Len(s)
    BY <2>1
  <2> QED BY <2>2, <2>3
<1>a. form \in Form /\ "listed" \in Form /\ Form \in SUBSET Form
  BY DEF Form, FormOf
<1> HIDE DEF x, y, form
<1>7. /\ \A n \in 1..a : x[n] = WholePart(s, start + n, form)
      /\ \A n \in 1..b : y[n] = WholePart(s, next + n, "listed")
  BY <1>3, <1>4
<1>8. x \in [1..a -> Part] /\ y \in [1..b -> Part]
  <2>1. \A n \in 1..Len(s), f \in Form : WholePart(s, n, f) \in Part
    BY <1>a, WholeParts
  <2> HIDE DEF a, b
  <2> QED BY <1>3, <1>4, <1>6, <1>a, <2>1
<1>9. x \in Seq(Part) /\ Len(x) = a /\ y \in Seq(Part) /\ Len(y) = b
  BY <1>1, <1>8, FunctionIsSeq
<1> DEFINE t == x \o y
<1> HIDE DEF a, b
<1>10. /\ t \in Seq(Part) /\ Len(t) = a + b /\ \A n \in 1..a : t[n] = x[n]
       /\ \A n \in 1..a + b : n > a => t[n] = y[n - a]
  <2>1. /\ t \in Seq(Part) /\ Len(t) = Len(x) + Len(y) /\ \A n \in 1..Len(x) : t[n] = x[n]
        /\ \A n \in 1..Len(x) + Len(y) : n > Len(x) => t[n] = y[n - Len(x)]
    <3>1. x \in Seq(Part) /\ y \in Seq(Part)
      BY <1>9
    <3> QED BY <3>1, Concatenation
  <2> HIDE DEF t
  <2> QED BY <1>9, <2>1, Zenon
<1> HIDE DEF t
<1>11. ASSUME NEW n \in 1..a + b PROVE t[n] = WholePart(s, start + n, FormAt(op, a, n))
  <2>1. CASE n \in 1..a
    <3>1. FormAt(op, a, n) = form
      BY <1>1, <2>1 DEF FormAt, form
    <3> QED BY <1>7, <1>10, <2>1, <3>1
  <2>2. CASE n \notin 1..a
    <3>1. n > a /\ n - a \in 1..b
      BY <1>1, <2>2
    <3>2. next + (n - a) = start + n
      BY <1>0, <1>1 DEF a
    <3>3. FormAt(op, a, n) = "listed"
      BY <1>1, <3>1 DEF FormAt
    <3> QED BY <1>7, <1>10, <3>1, <3>2, <3>3
  <2> QED BY <2>1, <2>2
<1>12. a + b = upto - start
  BY <1>0 DEF a, b
<1>13. Got(op, s, out) = t
  BY <1>5 DEF t
<1> QED BY <1>10, <1>11, <1>12, <1>13 DEF a

LEMMA MembersGrow ==
    ASSUME NEW F, NEW s \in Seq(Member), NEW r, Members(F, s, r), NEW got \in Seq(Part),
           Len(r) + Len(got) <= Len(s),
           \A n \in 1..Len(got) : got[n].form \in F /\ got[n] = WholePart(s, Len(r) + n, got[n].form),
           Listing(got),
           got # <<>> /\ r # <<>> /\ r[Len(r)].form = "listed" => got[1].form = "listed"
    PROVE  Members(F, s, r \o got) /\ Len(r \o got) = Len(r) + Len(got)
<1> DEFINE N == Len(r)
           K == Len(got)
           t == r \o got
<1>1. /\ r \in Seq(Part) /\ N \in Nat /\ K \in Nat
      /\ \A n \in 1..N : r[n].form \in F /\ r[n] = WholePart(s, n, r[n].form)
      /\ (r # <<>> <=> N # 0) /\ (got # <<>> <=> K # 0)
  BY DEF Members
<1>2. t \in Seq(Part) /\ Len(t) = N + K
  BY <1>1
<1>3. /\ \A n \in 1..N : t[n] = r[n]
      /\ \A n \in N + 1..N + K : t[n] = got[n - N]
  BY <1>1
<1>4. \A n \in 1..K : got[n].form \in F /\ got[n] = WholePart(s, N + n, got[n].form)
  OBVIOUS
<1>a. /\ \A n \in 1..N - 1 : r[n].form = "listed" => r[n + 1].form = "listed"
      /\ \A n \in 1..K - 1 : got[n].form = "listed" => got[n + 1].form = "listed"
      /\ K # 0 /\ N # 0 /\ r[N].form = "listed" => got[1].form = "listed"
  BY <1>1 DEF Members, Listing
<1> HIDE DEF t, N, K
<1>5. ASSUME NEW n \in 1..N + K PROVE t[n].form \in F /\ t[n] = WholePart(s, n, t[n].form)
  <2>1. CASE n \in 1..N
    BY <1>1, <1>3, <2>1
  <2>2. CASE n \in N + 1..N + K
    <3>1. n - N \in 1..K /\ N + (n - N) = n
      BY <1>1, <2>2
    <3> QED BY <1>3, <1>4, <2>2, <3>1
  <2> QED BY <1>1, <2>1, <2>2
<1>6. \A n \in 1..Len(t) : t[n].form \in F /\ t[n] = WholePart(s, n, t[n].form)
  BY <1>2, <1>5
<1>7. Len(t) <= Len(s)
  BY <1>2 DEF N, K
<1>8. ASSUME NEW n \in 1..N + K - 1, t[n].form = "listed" PROVE t[n + 1].form = "listed"
  <2>1. CASE n < N
    <3>1. n \in 1..N - 1 /\ n \in 1..N /\ n + 1 \in 1..N
      BY <1>1, <2>1
    <3> QED BY <1>3, <1>8, <1>a, <3>1
  <2>2. CASE n = N
    <3>1. n \in 1..N /\ n + 1 \in N + 1..N + K /\ (n + 1) - N = 1 /\ K # 0 /\ N # 0
      BY <1>1, <2>2
    <3> QED BY <1>3, <1>8, <1>a, <2>2, <3>1
  <2>3. CASE n > N
    <3>1. /\ n \in N + 1..N + K /\ n + 1 \in N + 1..N + K
          /\ n - N \in 1..K - 1 /\ (n + 1) - N = (n - N) + 1
      BY <1>1, <2>3
    <3> QED BY <1>3, <1>8, <1>a, <3>1
  <2>4. n < N \/ n = N \/ n > N
    BY <1>1
  <2> QED BY <2>1, <2>2, <2>3, <2>4, Zenon
<1>9. Listing(t)
  BY <1>1, <1>2, <1>8 DEF Listing
<1> QED BY <1>2, <1>6, <1>7, <1>9, Zenon DEF Members, t, N, K

\* Behind a name that is listed a page shows no member.
Unlisted(r, next) == r # <<>> /\ r[Len(r)].form = "listed" => next = Len(r)

InForms(F, op, next, upto) == FormOf(op) \in F /\ (next = upto \/ "listed" \in F)

\* With got, r is the members up to upto, those behind next by name.
GrowsTo(F, s, r, got, next, upto) ==
    LET r2 == r \o got
    IN /\ got \in Seq(Part) /\ Len(got) = upto - Len(r)
       /\ Members(F, s, r2) /\ Len(r2) = upto
       /\ Chain(F, s, r2) /\ WholeOf(s, r2) = upto
       /\ \A n \in 1..Len(r2) : r2[n].member \in next + 1..upto => r2[n].form = "listed"

\* So it has then received all of them up to upto.
LEMMA WholePage ==
    ASSUME NEW F \in SUBSET Form, NEW op \in Op, NEW s \in Seq(Member), NEW r, Members(F, s, r),
           NEW out, NEW next, NEW upto, HasWhole(op, s, out, Len(r), next, upto),
           InForms(F, op, next, upto), Unlisted(r, next)
    PROVE  GrowsTo(F, s, r, Got(op, s, out), next, upto)
<1> DEFINE got == Got(op, s, out)
           N == Len(r)
           a == next - N
<1>1. N \in Nat /\ Len(s) \in Nat /\ upto \in N..Len(s) /\ next \in N..upto /\ a \in Nat
  <2>1. next \in N..Len(s) /\ upto \in next..Len(s) /\ N \in Nat
    BY DEF HasWhole
  <2> QED BY <2>1
<1>2. /\ got \in Seq(Part) /\ Len(got) = upto - N
      /\ \A n \in 1..upto - N : got[n] = WholePart(s, N + n, FormAt(op, a, n))
  BY GotWhole
<1> HIDE DEF got, a
<1>3. N + Len(got) = upto /\ upto <= Len(s)
  BY <1>1, <1>2
<1>4. \A n \in 1..upto - N : got[n].form = FormAt(op, a, n) /\ FormAt(op, a, n) \in F
  <2> TAKE n \in 1..upto - N
  <2>1. got[n].form = FormAt(op, a, n)
    BY <1>2 DEF WholePart
  <2>2. n <= a \/ next # upto
    BY <1>1 DEF a
  <2> QED BY <2>1, <2>2 DEF FormAt, InForms
<1>5. \A n \in 1..Len(got) : got[n].form \in F /\ got[n] = WholePart(s, Len(r) + n, got[n].form)
  BY <1>2, <1>4
<1>6. Listing(got)
  <2> SUFFICES ASSUME NEW n \in 1..Len(got) - 1, got[n].form = "listed"
               PROVE  got[n + 1].form = "listed"
    BY DEF Listing
  <2>1. n \in 1..upto - N /\ n + 1 \in 1..upto - N
    BY <1>1, <1>2
  <2>2. ~(n <= a)
    BY <1>4, <2>1 DEF FormAt, FormOf
  <2>3. ~(n + 1 <= a)
    BY <1>1, <2>1, <2>2
  <2> QED BY <1>4, <2>1, <2>3 DEF FormAt
<1>7. got # <<>> /\ r # <<>> /\ r[Len(r)].form = "listed" => got[1].form = "listed"
  <2> SUFFICES ASSUME got # <<>>, r # <<>>, r[Len(r)].form = "listed" PROVE got[1].form = "listed"
    OBVIOUS
  <2>1. a = 0
    BY <1>1 DEF a, Unlisted
  <2>2. Len(got) # 0
    BY <1>2
  <2>3. 1 \in 1..upto - N /\ ~(1 <= a)
    BY <1>1, <1>2, <2>1, <2>2
  <2> QED BY <1>4, <2>3 DEF FormAt
<1>8. Members(F, s, r \o got) /\ Len(r \o got) = upto
  BY <1>2, <1>3, <1>5, <1>6, <1>7, MembersGrow
<1> DEFINE t == r \o got
<1>9. Chain(F, s, t) /\ WholeOf(s, t) = upto
  BY <1>8, MembersChain
<1>10. \A n \in 1..upto : n > N => t[n] = got[n - N]
  <2>1. r \in Seq(Part)
    BY DEF Members
  <2> QED BY <1>2, <1>3, <2>1, Concatenation
<1>11. \A n \in 1..upto : t[n].member = n
  <2>1. \A n \in 1..upto : t[n] = WholePart(s, n, t[n].form)
    BY <1>8 DEF Members
  <2>2. \A n, form : WholePart(s, n, form).member = n
    BY DEF WholePart
  <2> HIDE DEF t
  <2> QED BY <2>1, <2>2
<1> HIDE DEF t
<1>12. \A n \in 1..upto : t[n].member \in next + 1..upto => t[n].form = "listed"
  <2> SUFFICES ASSUME NEW n \in 1..upto, n \in next + 1..upto PROVE t[n].form = "listed"
    BY <1>11
  <2>1. n > N /\ n - N \in 1..upto - N /\ ~(n - N <= a)
    BY <1>1 DEF a
  <2>2. t[n] = got[n - N]
    BY <1>10, <2>1
  <2> QED BY <1>4, <2>1, <2>2 DEF FormAt
<1> QED BY <1>2, <1>8, <1>9, <1>12 DEF got, N, t, GrowsTo

----------------------------------------------------------------------------
(* What a page does for a client that can go on *)

StreamOf(req) ==
    CASE req.op = "show"   -> "evidence"
      [] req.op = "search" -> "results"
      [] OTHER             -> IF req.compact THEN "brief-evidence" ELSE "omitted"

\* The continuation stands right behind what was received of s, and there is more.
Stands(req, s, r, stream, offset) ==
    /\ offset \in Nat /\ stream = StreamOf(req)
    /\ IF InEvidence(req)
         THEN /\ r # <<>> /\ offset < Total(s)
              /\ offset = Following(s, r[Len(r)].member, r[Len(r)].stop)
         ELSE Members(Forms(req), s, r) /\ offset = Len(r) /\ offset < Len(s)

\* The first page, or the next one.
Pending(req, s, r, stream, offset) ==
    \/ r = <<>> /\ offset = 0 /\ stream = "results"
    \/ Stands(req, s, r, stream, offset)

\* When r was received, the members behind done are missing: those that the page itself
\* lists and those that nothing was said of.
Declares(req, s, r, out) ==
    \E done \in 0..WholeOf(s, r) :
        /\ ToSet(out.omitted) = done + 1..WholeOf(s, r)
        /\ \A n \in 1..Len(r) : r[n].member \in done + 1..WholeOf(s, r) => r[n].form = "listed"
        /\ req.op # "show" => out.count = Len(s) - done
        /\ out.reason = "complete" <=> done = Len(s)
        /\ out.reason = "required_items_omitted" <=> req.op = "brief" /\ RequiredAfter(s, done)

Extends(req, s, r, out) ==
    LET r2 == r \o Got(req.op, s, out)
    IN /\ Got(req.op, s, out) \in Seq(Part)
       /\ Chain(Forms(req), s, r2)
       /\ IF out.offset = None THEN WholeOf(s, r2) = Len(s)
                               ELSE Stands(req, s, r2, out.stream, out.offset)
       /\ Declares(req, s, r2, out)

\* What a page says of the members behind next, and why.
ReasonOf(op, s, next) ==
    IF next = Len(s) THEN "complete" ELSE Omitted(op = "brief" /\ RequiredAfter(s, next))

Says(req, s, next, upto, out) ==
    /\ next = upto \/ req.op = "brief"
    /\ out.offset = IF upto < Len(s) THEN upto ELSE None
    /\ out.stream = StreamOf(req)
    /\ out.count = Len(s) - next
    /\ out.reason = "complete" <=> next = Len(s)
    /\ out.reason = "required_items_omitted" <=> req.op = "brief" /\ RequiredAfter(s, next)

\* The fields of a page of results, and of one that lists members in addition.
AreResults(op, s, start, next, out) ==
    /\ out.shown = [n \in 1..next - start |-> Result(op, s, start + n)]
    /\ out.omitted = <<>>
    /\ out.stream = IF op = "brief" THEN "omitted" ELSE "results"
    /\ out.offset = IF next < Len(s) THEN next ELSE None
    /\ out.count = Len(s) - next
    /\ out.reason = ReasonOf(op, s, next)
    /\ DOMAIN out = {"shown", "omitted", "stream", "offset", "count", "reason"}

Lists(s, out, from, upto, o) ==
    /\ o.shown = out.shown /\ o.stream = out.stream /\ o.count = out.count /\ o.reason = out.reason
    /\ o.omitted = [n \in 1..upto - from |-> from + n]
    /\ o.offset = IF upto < Len(s) THEN upto ELSE None

LEMMA ResultsAre ==
    ASSUME NEW op, NEW s, NEW start, NEW next
    PROVE  AreResults(op, s, start, next, Results(op, s, start, next))
<1> DEFINE shown == [n \in 1..next - start |-> Result(op, s, start + n)]
           reason == ReasonOf(op, s, next)
           out == Results(op, s, start, next)
<1>1. out = [Omissions(op, s, next) EXCEPT !.shown = shown]
  BY Zenon DEF Results
<1>2. Omissions(op, s, next).reason = reason
  BY DEF Omissions, ReasonOf
<1> HIDE DEF shown, out, reason
<1>3. /\ out.shown = shown /\ out.omitted = <<>>
      /\ out.stream = IF op = "brief" THEN "omitted" ELSE "results"
  BY <1>1 DEF Omissions
<1>4. out.offset = (IF next < Len(s) THEN next ELSE None) /\ out.count = Len(s) - next
  BY <1>1 DEF Omissions
<1>5. DOMAIN out = {"shown", "omitted", "stream", "offset", "count", "reason"}
  BY <1>1 DEF Omissions
<1>6. out.reason = Omissions(op, s, next).reason
  <2>1. "reason" \in DOMAIN Omissions(op, s, next)
    BY DEF Omissions
  <2> QED BY <1>1, <2>1
<1>7. AreResults(op, s, start, next, out)
  BY <1>2, <1>3, <1>4, <1>5, <1>6, Zenon DEF AreResults, shown, reason
<1> QED BY <1>7 DEF out

LEMMA WithOmittedAre ==
    ASSUME NEW s, NEW out, NEW from \in Nat, NEW upto \in Nat, from <= upto, Len(s) \in Nat,
           out.offset = IF from < Len(s) THEN from ELSE None,
           DOMAIN out = {"shown", "omitted", "stream", "offset", "count", "reason"}
    PROVE  Lists(s, out, from, upto, WithOmitted(out, s, from, upto))
<1> DEFINE o == WithOmitted(out, s, from, upto)
           omitted == [n \in 1..upto - from |-> from + n]
           offset == IF upto = from THEN out.offset ELSE IF upto < Len(s) THEN upto ELSE None
           Now(f) == IF f = "offset" THEN offset ELSE IF f = "omitted" THEN omitted ELSE out[f]
<1>1. o = [f \in DOMAIN out |-> Now(f)]
  BY Zenon DEF WithOmitted
<1>2. offset = IF upto < Len(s) THEN upto ELSE None
  OBVIOUS
<1> HIDE DEF o, omitted, offset
<1>3. /\ o.shown = out.shown /\ o.stream = out.stream /\ o.count = out.count
      /\ o.reason = out.reason /\ o.omitted = omitted /\ o.offset = offset
  BY <1>1
<1>4. Lists(s, out, from, upto, o)
  BY <1>2, <1>3, Zenon DEF Lists, omitted
<1> QED BY <1>4 DEF o

\* A page of members up to upto, with the continuation behind it.
LEMMA WholeExtends ==
    ASSUME NEW req \in Requests, ~InEvidence(req), NEW s \in Seq(Member), NEW r,
           Members(Forms(req), s, r), NEW out, NEW next, NEW upto,
           HasWhole(req.op, s, out, Len(r), next, upto),
           Unlisted(r, next), Says(req, s, next, upto, out)
    PROVE  Extends(req, s, r, out) /\ Len(Got(req.op, s, out)) = upto - Len(r)
<1> DEFINE F == Forms(req)
           got == Got(req.op, s, out)
           r2 == r \o got
<1>0. F \in SUBSET Form /\ req.op \in Op /\ InForms(F, req.op, next, upto)
  <2>1. req.op \in Op
    BY RequestsAre
  <2> QED BY <2>1 DEF Forms, Form, FormOf, Op, InForms, Says
<1>1. /\ got \in Seq(Part) /\ Len(got) = upto - Len(r) /\ Members(F, s, r2) /\ Len(r2) = upto
      /\ Chain(F, s, r2) /\ WholeOf(s, r2) = upto
      /\ \A n \in 1..Len(r2) : r2[n].member \in next + 1..upto => r2[n].form = "listed"
  <2> HIDE DEF F
  <2>1. Members(F, s, r)
    BY DEF F
  <2> DEFINE op == req.op
  <2>2. op \in Op /\ InForms(F, op, next, upto) /\ HasWhole(op, s, out, Len(r), next, upto)
    BY <1>0
  <2> HIDE DEF op
  <2>3. GrowsTo(F, s, r, Got(op, s, out), next, upto)
    BY <1>0, <2>1, <2>2, WholePage, Zenon
  <2> QED BY <2>3, Zenon DEF op, GrowsTo
<1>2. upto \in Nat /\ next \in Nat /\ Len(s) \in Nat /\ next <= upto /\ upto <= Len(s)
  <2>1. Len(r) \in Nat /\ next \in Len(r)..Len(s) /\ upto \in next..Len(s)
    BY DEF HasWhole
  <2> QED BY <2>1
<1> HIDE DEF got, r2, F
<1>3. ToSet(out.omitted) = next + 1..upto
  <2>1. out.omitted = [n \in 1..upto - next |-> next + n]
    BY DEF HasWhole
  <2>2. \A i : i \in ToSet(out.omitted) <=> \E n \in 1..upto - next : i = next + n
    BY <2>1 DEF ToSet
  <2>3. \A i \in next + 1..upto : i - next \in 1..upto - next /\ i = next + (i - next)
    BY <1>2
  <2>4. \A n \in 1..upto - next : next + n \in next + 1..upto
    BY <1>2
  <2>5. \A i : i \in ToSet(out.omitted) <=> i \in next + 1..upto
    BY <2>2, <2>3, <2>4, Zenon
  <2> QED BY <2>5
<1>4. Declares(req, s, r2, out)
  <2>1. next \in 0..WholeOf(s, r2)
    BY <1>1, <1>2
  <2>2. /\ out.count = Len(s) - next
        /\ out.reason = "complete" <=> next = Len(s)
        /\ out.reason = "required_items_omitted" <=> req.op = "brief" /\ RequiredAfter(s, next)
    BY DEF Says
  <2> QED BY <1>1, <1>3, <2>1, <2>2, Zenon DEF Declares
<1>5. CASE upto < Len(s)
  <2>1. out.offset = upto /\ upto # None
    BY <1>2, <1>5, NoneAssumption DEF Says
  <2>2. Stands(req, s, r2, out.stream, out.offset)
    BY <1>1, <1>2, <1>5, <2>1, Zenon DEF Stands, F, Says
  <2> QED BY <1>1, <1>4, <2>1, <2>2, Zenon DEF Extends, r2, got, F
<1>6. CASE upto = Len(s)
  <2>1. out.offset = None
    BY <1>2, <1>6 DEF Says
  <2> QED BY <1>1, <1>4, <1>6, <2>1, Zenon DEF Extends, r2, got, F
<1> QED BY <1>2, <1>5, <1>6 DEF got

\* Required members are behind the last one for no request.
LEMMA NoneAfterAll ==
    ASSUME NEW s, Len(s) \in Nat
    PROVE  ~RequiredAfter(s, Len(s))
<1>1. \A j : j \notin Len(s) + 1..Len(s)
  OBVIOUS
<1> QED BY <1>1, Zenon DEF RequiredAfter

\* What the reason of a page of results says.
LEMMA ReasonIs ==
    ASSUME NEW req, NEW s, Len(s) \in Nat, NEW next, NEW upto, next = upto \/ req.op = "brief",
           NEW out, out.offset = IF upto < Len(s) THEN upto ELSE None,
           out.stream = StreamOf(req), out.count = Len(s) - next,
           out.reason = ReasonOf(req.op, s, next)
    PROVE  Says(req, s, next, upto, out)
<1>1. ~RequiredAfter(s, Len(s))
  BY NoneAfterAll
<1>2. CASE next = Len(s)
  BY <1>1, <1>2 DEF Says, ReasonOf
<1>3. CASE next # Len(s)
  BY <1>3 DEF Says, ReasonOf, Omitted
<1> QED BY <1>2, <1>3

LEMMA SearchExtends ==
    ASSUME NEW req \in Requests, req.op = "search", NEW s \in Seq(Member), NEW r,
           Members(Forms(req), s, r), NEW out \in SearchPages(s, Len(r))
    PROVE  /\ Extends(req, s, r, out)
           /\ Len(r) < Len(s) => Got(req.op, s, out) # <<>>
<1> DEFINE N == Len(r)
<1>1. N \in Nat /\ Len(s) \in Nat /\ N <= Len(s) /\ ~InEvidence(req) /\ StreamOf(req) = "results"
  BY DEF Members, InEvidence, StreamOf
<1>2. PICK next \in N..Len(s) : /\ out = Results(req.op, s, N, next)
                                /\ next = N => next = Len(s)
  BY Zenon DEF SearchPages
<1>3. /\ out.shown = [n \in 1..next - N |-> Result(req.op, s, N + n)]
      /\ out.omitted = <<>> /\ out.stream = "results"
      /\ out.offset = IF next < Len(s) THEN next ELSE None
      /\ out.count = Len(s) - next /\ out.reason = ReasonOf(req.op, s, next)
  <2>1. AreResults(req.op, s, N, next, out)
    BY <1>2, ResultsAre
  <2>2. req.op # "brief"
    OBVIOUS
  <2> QED BY <2>1, <2>2, Zenon DEF AreResults
<1>b. Says(req, s, next, next, out)
  BY <1>1, <1>3, ReasonIs
<1>c. Unlisted(r, next)
  <2>1. r # <<>> => N \in 1..N
    BY <1>1 DEF Members
  <2>2. r # <<>> => r[N].form \in Forms(req)
    BY <2>1 DEF Members
  <2> QED BY <2>2 DEF Forms, Unlisted
<1> HIDE DEF N
<1>4. HasWhole(req.op, s, out, N, next, next)
  <2>1. next \in next..Len(s) /\ next - next = 0
    BY <1>1
  <2>2. <<>> = [n \in 1..next - next |-> next + n]
    BY <2>1
  <2> QED BY <1>1, <1>3, <2>1, <2>2, Zenon DEF HasWhole
<1>5. Extends(req, s, r, out) /\ Len(Got(req.op, s, out)) = next - N
  <2>1. ~InEvidence(req)
    BY <1>1
  <2> QED BY <1>4, <1>b, <1>c, <2>1, WholeExtends DEF N
<1>6. N < Len(s) => next - N # 0
  BY <1>1, <1>2
<1>7. Got(req.op, s, out) = <<>> => Len(Got(req.op, s, out)) = 0
  OBVIOUS
<1> QED BY <1>5, <1>6, <1>7, Zenon DEF N

\* Only the first page of a brief shows members.
LEMMA BriefExtends ==
    ASSUME NEW req \in Requests, req.op = "brief", ~req.compact, NEW s \in Seq(Member),
           NEW out \in BriefPages(s, 0)
    PROVE  Extends(req, s, <<>>, out)
<1>1. /\ Len(s) \in Nat /\ Len(<<>>) = 0 /\ ~InEvidence(req) /\ StreamOf(req) = "omitted"
      /\ Members(Forms(req), s, <<>>)
  <2>1. <<>> \in Seq(Part) /\ Len(<<>>) = 0 /\ Len(s) \in Nat
    OBVIOUS
  <2>2. (\A n : n \notin 1..0) /\ \A n : n \notin 1..0 - 1
    OBVIOUS
  <2>3. Members(Forms(req), s, <<>>)
    BY <2>1, <2>2 DEF Members, Listing
  <2> QED BY <2>1, <2>3 DEF InEvidence, StreamOf
<1>2. PICK n \in (0..Len(s)) \X (0..Len(s)) :
         n[1] <= n[2] /\ out = WithOmitted(Results("brief", s, 0, n[1]), s, n[1], n[2])
  BY Zenon DEF BriefPages
<1> DEFINE next == n[1]
           upto == n[2]
           shows == Results("brief", s, 0, next)
<1>3. out = WithOmitted(shows, s, next, upto)
  BY <1>2
<1>4. next \in 0..Len(s) /\ upto \in next..Len(s)
  BY <1>1, <1>2
<1> HIDE DEF next, upto
<1>5. /\ shows.shown = [i \in 1..next - 0 |-> Result("brief", s, 0 + i)]
      /\ shows.stream = "omitted" /\ shows.offset = IF next < Len(s) THEN next ELSE None
      /\ shows.count = Len(s) - next /\ shows.reason = ReasonOf("brief", s, next)
      /\ DOMAIN shows = {"shown", "omitted", "stream", "offset", "count", "reason"}
  <2>1. AreResults("brief", s, 0, next, shows)
    BY ResultsAre
  <2> HIDE DEF shows
  <2> QED BY <2>1, Zenon DEF AreResults
<1> HIDE DEF shows
<1>6. /\ out.shown = shows.shown /\ out.stream = shows.stream
      /\ out.count = shows.count /\ out.reason = shows.reason
      /\ out.omitted = [i \in 1..upto - next |-> next + i]
      /\ out.offset = IF upto < Len(s) THEN upto ELSE None
  <2>1. next \in Nat /\ upto \in Nat /\ next <= upto
    BY <1>1, <1>4
  <2>2. Lists(s, shows, next, upto, out)
    BY <1>1, <1>3, <1>5, <2>1, WithOmittedAre
  <2> QED BY <2>2, Zenon DEF Lists
<1>7. Says(req, s, next, upto, out)
  <2>1. /\ out.stream = StreamOf(req) /\ out.count = Len(s) - next
        /\ out.reason = ReasonOf(req.op, s, next)
    BY <1>1, <1>5, <1>6, Zenon
  <2>2. next = upto \/ req.op = "brief"
    OBVIOUS
  <2>3. Len(s) \in Nat
    BY <1>1
  <2> QED BY <1>6, <2>1, <2>2, <2>3, ReasonIs
<1>8. HasWhole(req.op, s, out, 0, next, upto)
  <2>1. 0 \in Nat
    OBVIOUS
  <2> QED BY <1>4, <1>5, <1>6, <2>1, Zenon DEF HasWhole
<1>9. Unlisted(<<>>, next) /\ req.op = "brief"
  BY DEF Unlisted
<1> QED BY <1>1, <1>5, <1>6, <1>7, <1>8, <1>9, WholeExtends

LEMMA OmittedExtends ==
    ASSUME NEW req \in Requests, req.op = "brief", ~req.compact, NEW s \in Seq(Member), NEW r,
           Members(Forms(req), s, r), Len(r) < Len(s), NEW out \in OmittedPages(s, Len(r))
    PROVE  Extends(req, s, r, out) /\ Got(req.op, s, out) # <<>>
<1> DEFINE N == Len(r)
           none == Rest(s, N)
<1>1. /\ N \in Nat /\ Len(s) \in Nat /\ N < Len(s)
      /\ ~InEvidence(req) /\ StreamOf(req) = "omitted"
  BY DEF Members, InEvidence, StreamOf
<1>2. PICK upto \in N..Len(s) : /\ out = WithOmitted(none, s, N, upto)
                                /\ upto = N => upto = Len(s)
  BY Zenon DEF OmittedPages
<1>3. /\ none.shown = <<>> /\ none.stream = "omitted"
      /\ none.offset = IF N < Len(s) THEN N ELSE None
      /\ none.count = Len(s) - N
      /\ none.reason = Omitted(RequiredAfter(s, N))
      /\ DOMAIN none = {"shown", "omitted", "stream", "offset", "count", "reason"}
  BY DEF Rest, Omissions
<1> HIDE DEF none, N
<1>4. /\ out.shown = <<>> /\ out.stream = "omitted"
      /\ out.count = Len(s) - N /\ out.reason = Omitted(RequiredAfter(s, N))
      /\ out.omitted = [i \in 1..upto - N |-> N + i]
      /\ out.offset = IF upto < Len(s) THEN upto ELSE None
  <2>1. upto \in Nat /\ N <= upto
    BY <1>1
  <2>2. Lists(s, none, N, upto, out)
    BY <1>1, <1>2, <1>3, <2>1, WithOmittedAre
  <2> QED BY <1>3, <2>2, Zenon DEF Lists
<1>5. HasWhole(req.op, s, out, N, N, upto)
  <2>1. N \in N..Len(s) /\ N - N = 0
    BY <1>1
  <2>2. <<>> = [i \in 1..N - N |-> Result(req.op, s, N + i)]
    BY <2>1
  <2> QED BY <1>1, <1>4, <2>1, <2>2, Zenon DEF HasWhole
<1>u. Unlisted(r, N)
  BY DEF Unlisted, N
<1>6. Says(req, s, N, upto, out)
  <2>1. N # Len(s)
    BY <1>1
  <2> QED BY <1>1, <1>4, <2>1 DEF Says, Omitted
<1>7. Extends(req, s, r, out) /\ Len(Got(req.op, s, out)) = upto - N
  <2>1. ~InEvidence(req)
    BY <1>1
  <2> QED BY <1>5, <1>6, <1>u, <2>1, WholeExtends DEF N
<1>8. upto - N # 0
  BY <1>1, <1>2
<1>9. Got(req.op, s, out) = <<>> => Len(Got(req.op, s, out)) = 0
  OBVIOUS
<1> QED BY <1>7, <1>8, <1>9, Zenon

----------------------------------------------------------------------------
(* Fragments: a show, a compact brief *)

\* The offset behind what was received of s, when there is more of it.
Behind(s, r, offset) ==
    IF r = <<>> THEN offset = 0
    ELSE offset = Following(s, r[Len(r)].member, r[Len(r)].stop) /\ offset < Total(s)

\* It is in the member that comes next or is not whole yet, where that goes on.
LEMMA Resumes ==
    ASSUME NEW s \in Seq(Member), s # <<>>, NEW r, Chain({"text"}, s, r),
           NEW offset, Behind(s, r, offset)
    PROVE  LET i == At(s, offset)
               x == offset - Base(s, i)
           IN /\ i \in 1..Len(s) /\ offset \in Nat
              /\ x \in Boundaries(s[i].text)
              /\ s[i].text # <<>> => x < Length(s[i].text)
              /\ \A b : b.member = i /\ b.start = x /\ b.form = "text" => Begins(s, r, b)
<1> DEFINE M == Len(s)
           Good(i) == LET x == offset - Base(s, i)
                      IN /\ i \in 1..Len(s) /\ offset \in Nat
                         /\ x \in Boundaries(s[i].text)
                         /\ s[i].text # <<>> => x < Length(s[i].text)
                         /\ \A b : b.member = i /\ b.start = x /\ b.form = "text" => Begins(s, r, b)
<1>1. M \in Nat /\ M # 0
  OBVIOUS
<1>2. /\ \A i \in 1..M + 1 : Base(s, i) \in Nat
      /\ Base(s, 1) = 0 /\ Total(s) = Base(s, M + 1)
      /\ \A i \in 1..M : Base(s, i + 1) = Base(s, i) + Length(s[i].text) + 1
      /\ \A i, j \in 1..M + 1 : i < j => Base(s, i) < Base(s, j)
  BY Bases
<1>3. \A i \in 1..M : /\ Length(s[i].text) \in Nat /\ 0 \in Boundaries(s[i].text)
                      /\ s[i].text # <<>> => 0 < Length(s[i].text)
                      /\ \A x \in Boundaries(s[i].text) : x \in Nat /\ x <= Length(s[i].text)
  <2> TAKE i \in 1..M
  <2>1. s[i].text \in Seq(1..4)
    BY TextOf
  <2> HIDE DEF M
  <2> QED BY <2>1, Texts
<1>4. ASSUME NEW i \in 1..M, offset = Base(s, i),
             \A b : b.member = i /\ b.start = 0 /\ b.form = "text" => Begins(s, r, b)
      PROVE  Good(At(s, offset))
  <2>1. Base(s, i) \in Nat /\ Base(s, i) < Base(s, i + 1)
    <3>1. i \in 1..M + 1 /\ i + 1 \in 1..M + 1 /\ i < i + 1
      BY <1>1
    <3> QED BY <1>2, <3>1, Zenon
  <2>2. offset \in Nat /\ Base(s, i) <= offset /\ offset < Base(s, i + 1) /\ offset - Base(s, i) = 0
    BY <1>4, <2>1
  <2>3. At(s, offset) = i
    BY <2>2, AtIs
  <2> QED BY <1>3, <1>4, <2>2, <2>3, Zenon
<1>5. CASE r = <<>>
  <2>1. 1 \in 1..M /\ offset = Base(s, 1)
    BY <1>1, <1>2, <1>5 DEF Behind
  <2>2. \A b : b.member = 1 /\ b.start = 0 => Begins(s, r, b)
    BY <1>5 DEF Begins
  <2> QED BY <1>4, <2>1, <2>2, Zenon
<1>6. CASE r # <<>>
  <2> DEFINE a == r[Len(r)]
             i == a.member
  <2>1. Len(r) \in 1..Len(r)
    BY <1>6 DEF Chain
  <2>2. PartOf({"text"}, s, a)
    BY <2>1, Zenon DEF Chain
  <2>3. offset = Following(s, i, a.stop) /\ offset < Total(s)
    BY <1>6 DEF Behind
  <2>4. \A b : Follows(s, a, b) => Begins(s, r, b)
    BY <1>6 DEF Begins
  <2> HIDE DEF a
  <2>5. i \in 1..M /\ a.stop \in Boundaries(s[i].text) /\ a.form = "text"
    BY <2>2 DEF PartOf
  <2>6. a.stop \in Nat /\ a.stop <= Length(s[i].text) /\ Length(s[i].text) \in Nat
    BY <1>3, <2>5
  <2>7. /\ \A b : /\ b.member = i /\ b.start = a.stop /\ b.form = "text"
                   /\ a.stop < Length(s[i].text)
                   => Follows(s, a, b)
        /\ \A b : b.member = i + 1 /\ b.start = 0 /\ a.stop = Length(s[i].text) => Follows(s, a, b)
    <3>1. EndOf(s[i].text, a.form) = Length(s[i].text)
      BY <2>5 DEF EndOf
    <3>2. a.form = "text" /\ a.form # "listed"
      BY <2>5
    <3> QED BY <3>1, <3>2, Zenon DEF Follows
  <2> HIDE DEF i
  <2>8. CASE a.stop = Length(s[i].text)
    <3>1. offset = Base(s, i + 1)
      BY <2>3, <2>8 DEF Following
    <3>2. i + 1 \in 1..M
      <4>1. i = M => Base(s, i + 1) = Total(s) /\ Total(s) \in Nat
        <5>1. M + 1 \in 1..M + 1
          BY <1>1
        <5> QED BY <1>2, <5>1
      <4>2. i # M
        BY <2>3, <3>1, <4>1
      <4> QED BY <1>1, <2>5, <4>2
    <3> QED BY <1>4, <2>4, <2>7, <2>8, <3>1, <3>2, Zenon
  <2>9. CASE a.stop # Length(s[i].text)
    <3>1. offset = Base(s, i) + a.stop
      BY <2>3, <2>9 DEF Following
    <3>2. a.stop < Length(s[i].text)
      BY <2>6, <2>9
    <3>3. Base(s, i) \in Nat /\ Base(s, i + 1) = Base(s, i) + Length(s[i].text) + 1
      <4>1. i \in 1..M + 1
        BY <1>1, <2>5
      <4> QED BY <1>2, <2>5, <4>1
    <3>4. /\ offset \in Nat /\ Base(s, i) <= offset /\ offset < Base(s, i + 1)
          /\ offset - Base(s, i) = a.stop
      BY <2>6, <3>1, <3>2, <3>3
    <3>5. At(s, offset) = i
      BY <2>5, <3>4, AtIs
    <3> QED BY <2>4, <2>5, <2>7, <3>2, <3>4, <3>5, Zenon
  <2> QED BY <2>8, <2>9
<1> QED BY <1>5, <1>6

\* A page of fragments goes on there, up to byte stop of member i.
LEMMA FragmentsExtend ==
    ASSUME NEW req \in Requests, InEvidence(req), NEW s \in Seq(Member), s # <<>>,
           NEW r, Chain({"text"}, s, r), NEW offset, Behind(s, r, offset),
           NEW i \in At(s, offset)..Len(s), NEW stop \in Boundaries(s[i].text),
           NEW out, out = EvidencePage(req.op, s, offset, i, stop)
    PROVE  Extends(req, s, r, out) /\ Got(req.op, s, out) # <<>>
<1> DEFINE M == Len(s)
           first == At(s, offset)
           end(j) == IF j = i THEN stop ELSE Length(s[j].text)
           whole == IF stop = Length(s[i].text) THEN i ELSE i - 1
           next == Following(s, i, stop)
           K == i - first + 1
           shown == [n \in 1..K |->
                        LET j == first + n - 1 IN Fragment(j, Start(s, offset, j), end(j))]
           got == [n \in 1..K |->
                     [id |-> s[first + n - 1].id, member |-> first + n - 1,
                      start |-> Start(s, offset, first + n - 1), stop |-> end(first + n - 1),
                      form |-> "text"]]
<1>0. req.op \in {"show", "brief"} /\ StreamOf(req) = IF req.op = "brief" THEN "brief-evidence" ELSE "evidence"
  BY DEF InEvidence, StreamOf
<1>1. /\ out.shown = shown /\ out.omitted = <<>> /\ out.stream = StreamOf(req)
      /\ out.offset = (IF next < Total(s) THEN next ELSE None)
      /\ req.op = "brief" => out.count = M - whole
      /\ out.reason = IF ~(next < Total(s)) THEN "complete"
                      ELSE IF req.op = "brief" THEN Omitted(RequiredAfter(s, whole))
                      ELSE "evidence_page"
  BY <1>0 DEF EvidencePage
<1>2. /\ first \in 1..M /\ M \in Nat /\ i \in first..M
      /\ offset - Base(s, first) \in Boundaries(s[first].text)
      /\ \A b : b.member = first /\ b.start = offset - Base(s, first) /\ b.form = "text"
               => Begins(s, r, b)
  BY Resumes
<1>3. \A j : Start(s, offset, j) = IF j = first THEN offset - Base(s, j) ELSE 0
  BY DEF Start
<1> HIDE DEF M, first
<1>4. K \in Nat /\ K >= 1 /\ i \in 1..M /\ first + K - 1 = i
  BY <1>2
<1>5. \A n \in 1..K : first + n - 1 \in 1..M /\ (first + n - 1 = i <=> n = K)
  BY <1>2
<1>6. Got(req.op, s, out) = got
  <2>1. [n \in DOMAIN out.shown |->
           [id |-> s[out.shown[n].member].id, member |-> out.shown[n].member,
            start |-> out.shown[n].start, stop |-> out.shown[n].stop,
            form |-> IF req.op = "search" THEN "excerpt" ELSE "text"]] = got
    <3>1. DOMAIN out.shown = 1..K
      BY <1>1
    <3>2. ASSUME NEW n \in 1..K
          PROVE  /\ out.shown[n].member = first + n - 1
                 /\ out.shown[n].start = Start(s, offset, first + n - 1)
                 /\ out.shown[n].stop = end(first + n - 1)
      <4>1. out.shown[n] = Fragment(first + n - 1, Start(s, offset, first + n - 1), end(first + n - 1))
        BY <1>1, Zenon
      <4> HIDE DEF end, K
      <4> QED BY <4>1 DEF Fragment
    <3>3. (IF req.op = "search" THEN "excerpt" ELSE "text") = "text"
      BY <1>0
    <3> HIDE DEF K, end
    <3> QED BY <3>1, <3>2, <3>3
  <2> DEFINE y == [n \in DOMAIN out.omitted |->
                     [id |-> s[out.omitted[n]].id, member |-> out.omitted[n],
                      start |-> 0, stop |-> 0, form |-> "listed"]]
  <2>2. y = <<>>
    BY <1>1
  <2>3. Got(req.op, s, out) = got \o y
    BY <2>1, Zenon DEF Got
  <2>4. got \o <<>> = got
    <3> HIDE DEF K, end
    <3>1. \A A, B : got \in [1..K -> {got[n] : n \in 1..K}]
      OBVIOUS
    <3>2. got \in Seq({got[n] : n \in 1..K})
      BY <1>4, <3>1, FunctionIsSeq
    <3> HIDE DEF got
    <3> QED BY <3>2
  <2> QED BY <2>2, <2>3, <2>4, Zenon
<1> HIDE DEF shown
<1>7. \A n \in 1..K : /\ got[n].id = s[first + n - 1].id /\ got[n].member = first + n - 1
                      /\ got[n].start = Start(s, offset, first + n - 1)
                      /\ got[n].stop = end(first + n - 1) /\ got[n].form = "text"
  <2> HIDE DEF K, end
  <2> QED OBVIOUS
<1>8. \A j \in 1..M : /\ s[j].id \in Id /\ Length(s[j].text) \in Nat
                      /\ Length(s[j].text) \in Boundaries(s[j].text)
                      /\ \A x \in Boundaries(s[j].text) : x \in Nat /\ x <= Length(s[j].text)
  <2> TAKE j \in 1..M
  <2>1. s[j].text \in Seq(1..4) /\ s[j].id \in Id
    BY TextOf DEF M
  <2> QED BY <2>1, Texts
<1>9. \A j \in 1..M : end(j) \in Boundaries(s[j].text) /\ end(j) \in Nat /\ Start(s, offset, j) \in Nat
  <2> TAKE j \in 1..M
  <2>1. end(j) \in Boundaries(s[j].text)
    BY <1>8
  <2>2. Start(s, offset, j) \in Nat
    <3>1. ASSUME j = first PROVE offset - Base(s, j) \in Nat
      <4>1. offset - Base(s, j) \in Boundaries(s[j].text)
        BY <1>2, <3>1, Zenon
      <4> QED BY <1>8, <4>1, Zenon
    <3> QED BY <1>3, <3>1
  <2> QED BY <1>8, <2>1, <2>2, Zenon
<1>10. got \in [1..K -> Part]
  <2>1. ASSUME NEW n \in 1..K
        PROVE  [id |-> s[first + n - 1].id, member |-> first + n - 1,
                start |-> Start(s, offset, first + n - 1), stop |-> end(first + n - 1),
                form |-> "text"] \in Part
    <3> DEFINE j == first + n - 1
    <3>1. j \in 1..M
      BY <1>5
    <3> HIDE DEF j, end
    <3>2. s[j].id \in Id /\ j \in Nat /\ Start(s, offset, j) \in Nat /\ end(j) \in Nat
      BY <1>8, <1>9, <3>1
    <3> QED BY <3>2 DEF Part, Form, j
  <2> HIDE DEF K, end
  <2> QED BY <2>1
<1> HIDE DEF got
<1>11. got \in Seq(Part) /\ Len(got) = K
  BY <1>4, <1>10, FunctionIsSeq
<1>12. \A n \in 1..K : PartOf({"text"}, s, got[n])
  <2> TAKE n \in 1..K
  <2>0. "text" \in {"text"}
    OBVIOUS
  <2>1. first + n - 1 \in 1..M
    BY <1>5
  <2> HIDE DEF end
  <2> QED BY <1>7, <1>9, <2>0, <2>1, Zenon DEF PartOf, M
<1>13. ASSUME NEW n \in 1..K - 1 PROVE Follows(s, got[n], got[n + 1])
  <2>1. n \in 1..K /\ n + 1 \in 1..K /\ n # K
    BY <1>4
  <2>2. first + n - 1 # i /\ first + (n + 1) - 1 = (first + n - 1) + 1 /\ first + (n + 1) - 1 # first
    BY <1>2, <1>5, <2>1
  <2>3. got[n].stop = Length(s[got[n].member].text)
    BY <1>7, <2>1, <2>2
  <2>4. got[n + 1].start = 0 /\ got[n + 1].member = got[n].member + 1
    BY <1>3, <1>7, <2>1, <2>2
  <2>5. got[n].form = "text" /\ EndOf(s[got[n].member].text, "text") = Length(s[got[n].member].text)
    BY <1>7, <2>1 DEF EndOf
  <2>6. "text" # "listed"
    OBVIOUS
  <2> QED BY <2>3, <2>4, <2>5, <2>6, Zenon DEF Follows
<1>14. Begins(s, r, got[1])
  <2>1. 1 \in 1..K /\ first + 1 - 1 = first
    BY <1>2, <1>4
  <2>2. got[1].member = first /\ got[1].start = offset - Base(s, first) /\ got[1].form = "text"
    BY <1>3, <1>7, <2>1
  <2> QED BY <1>2, <2>2, Zenon
<1> DEFINE r2 == r \o got
<1>15. Chain({"text"}, s, r2)
  BY <1>11, <1>12, <1>13, <1>14, Joins
<1>16. /\ r2 # <<>> /\ r2[Len(r2)].member = i /\ r2[Len(r2)].stop = stop
       /\ r2[Len(r2)].form = "text"
  <2> DEFINE N == Len(r)
  <2>1. r \in Seq(Part) /\ N \in Nat
    BY DEF Chain
  <2>2. /\ r2 \in Seq(Part) /\ Len(r2) = N + Len(got)
        /\ \A n \in 1..N + Len(got) : n > N => r2[n] = got[n - N]
    BY <1>11, <2>1, Concatenation
  <2> HIDE DEF N, r2, K
  <2>3. Len(r2) = N + K /\ N + K \in 1..N + K /\ N + K > N /\ (N + K) - N = K
    BY <1>4, <1>11, <2>1, <2>2
  <2>4. r2[Len(r2)] = got[K]
    BY <1>11, <2>2, <2>3
  <2>5. K \in 1..K /\ first + K - 1 = i
    BY <1>4
  <2>6. r2 # <<>>
    BY <2>2, <2>3, <2>1, <1>4
  <2> QED BY <1>7, <2>4, <2>5, <2>6
<1> HIDE DEF r2
<1>17. WholeOf(s, r2) = whole
  <2>1. Len(r2) # 0
    <3>1. r2 \in Seq(Part)
      BY <1>15 DEF Chain
    <3> QED BY <1>16, <3>1
  <2>2. Ended(s, r2[Len(r2)]) <=> stop = Length(s[i].text)
    BY <1>16 DEF Ended, EndOf
  <2> QED BY <1>16, <2>1, <2>2, Zenon DEF WholeOf, WholeTo
<1>18. /\ next \in Nat
       /\ ~(next < Total(s)) <=> whole = M
  <2>1. /\ \A j \in 1..M + 1 : Base(s, j) \in Nat
        /\ Total(s) = Base(s, M + 1)
        /\ Base(s, i + 1) = Base(s, i) + Length(s[i].text) + 1
        /\ \A j, k \in 1..M + 1 : j < k => Base(s, j) < Base(s, k)
    BY <1>4, Bases DEF M
  <2>2. /\ i \in 1..M + 1 /\ i + 1 \in 1..M + 1 /\ M + 1 \in 1..M + 1
        /\ i # M => i + 1 < M + 1
    BY <1>2, <1>4
  <2>3. stop \in Nat /\ stop <= Length(s[i].text) /\ Length(s[i].text) \in Nat
    BY <1>4, <1>8
  <2>4. Base(s, i) \in Nat /\ Base(s, i + 1) \in Nat /\ Total(s) \in Nat
    BY <2>1, <2>2
  <2>5. Base(s, i + 1) <= Total(s) /\ (i # M => Base(s, i + 1) < Total(s))
    <3>1. CASE i = M
      BY <2>1, <2>4, <3>1
    <3>2. CASE i # M
      BY <2>1, <2>2, <2>4, <3>2
    <3> QED BY <3>1, <3>2
  <2>6. CASE stop = Length(s[i].text)
    <3>1. next = Base(s, i + 1) /\ whole = i
      BY <2>6 DEF Following
    <3>2. i = M => next = Total(s)
      BY <2>1, <3>1
    <3> QED BY <2>4, <2>5, <3>1, <3>2
  <2>7. CASE stop # Length(s[i].text)
    <3>1. next = Base(s, i) + stop /\ whole = i - 1
      BY <2>7 DEF Following
    <3>2. next < Total(s)
      BY <2>1, <2>3, <2>4, <2>5, <2>7, <3>1
    <3>3. whole # M
      BY <1>2, <1>4, <3>1
    <3> QED BY <2>3, <2>4, <3>1, <3>2, <3>3
  <2> QED BY <2>6, <2>7
<1> HIDE DEF whole
<1>19. Declares(req, s, r2, out)
  <2>1. ~RequiredAfter(s, M)
    BY <1>2, NoneAfterAll DEF M
  <2>2. /\ out.reason = "complete" <=> whole = M
        /\ out.reason = "required_items_omitted" <=> req.op = "brief" /\ RequiredAfter(s, whole)
    BY <1>1, <1>18, <2>1 DEF Omitted
  <2>3. req.op # "show" => out.count = M - whole
    BY <1>0, <1>1
  <2>4. WholeOf(s, r2) \in 0..M
    BY <1>15, Covers DEF M
  <2>5. whole \in 0..whole /\ \A j : j \notin whole + 1..whole
    BY <1>2, <1>17, <2>4
  <2>6. ToSet(out.omitted) = whole + 1..whole
    BY <1>1, <2>5 DEF ToSet
  <2> QED BY <1>17, <2>2, <2>3, <2>5, <2>6, Zenon DEF Declares, M
<1>b. Forms(req) = {"text"}
  BY <1>0 DEF Forms
<1>c. got # <<>>
  BY <1>4, <1>11
<1>20. CASE next < Total(s)
  <2>1. out.offset = next /\ next # None
    BY <1>1, <1>18, <1>20, NoneAssumption
  <2>2. Stands(req, s, r2, out.stream, out.offset)
    <3>1. next = Following(s, r2[Len(r2)].member, r2[Len(r2)].stop)
      BY <1>16, Zenon
    <3> HIDE DEF next
    <3> QED BY <1>1, <1>16, <1>18, <1>20, <2>1, <3>1, Zenon DEF Stands
  <2> QED BY <1>6, <1>11, <1>15, <1>19, <1>b, <1>c, <2>1, <2>2, Zenon DEF Extends, r2
<1>21. CASE ~(next < Total(s))
  <2>1. out.offset = None /\ whole = M
    BY <1>1, <1>18, <1>21
  <2> QED BY <1>6, <1>11, <1>15, <1>17, <1>19, <1>b, <1>c, <2>1, Zenon DEF Extends, r2, M
<1> QED BY <1>20, <1>21

----------------------------------------------------------------------------
(* One page, whatever the request *)

LEMMA MembersOf ==
    ASSUME NEW req, ~InEvidence(req), NEW s \in Seq(Member), NEW r, NEW stream, NEW offset,
           Pending(req, s, r, stream, offset)
    PROVE  Members(Forms(req), s, r) /\ offset = Len(r)
<1>1. CASE r = <<>> /\ offset = 0
  <2>1. <<>> \in Seq(Part) /\ Len(<<>>) = 0 /\ Len(s) \in Nat
    OBVIOUS
  <2>2. (\A n : n \notin 1..0) /\ \A n : n \notin 1..0 - 1
    OBVIOUS
  <2> QED BY <1>1, <2>1, <2>2 DEF Members, Listing
<1>2. CASE Stands(req, s, r, stream, offset)
  BY <1>2 DEF Stands
<1> QED BY <1>1, <1>2 DEF Pending

\* A page for a client that can go on continues what it received, leaves the client where
\* it can go on again or at the end, and says truly what is missing.  Only the first page
\* of a brief can have nothing on it and yet be continued.
LEMMA PageExtends ==
    ASSUME NEW req \in Requests, NEW s \in Seq(Member), NEW r, Chain(Forms(req), s, r),
           NEW stream, NEW offset, Pending(req, s, r, stream, offset),
           NEW out \in Pages(req, stream, s, offset)
    PROVE  /\ Extends(req, s, r, out)
           /\ Stands(req, s, r, stream, offset) => Got(req.op, s, out) # <<>>
<1>1. CASE InEvidence(req)
  <2>0. out \in EvidencePages(req.op, s, offset)
    BY <1>1 DEF Pages, InEvidence
  <2>a. Forms(req) = {"text"}
    BY <1>1 DEF Forms, InEvidence
  <2>1. CASE s = <<>>
    <3>1. out = [shown |-> <<>>, omitted |-> <<>>, stream |-> "evidence", offset |-> None,
                 count |-> 0, reason |-> "complete"]
      BY <2>0, <2>1 DEF EvidencePages
    <3>2. r = <<>>
      <4>1. r # <<>> => 1 \in 1..Len(r) /\ r[1].member \in 1..Len(s)
        BY DEF Chain, PartOf
      <4> QED BY <2>1, <4>1
    <3>3. Got(req.op, s, out) = <<>>
      BY <3>1 DEF Got
    <3>4. <<>> \o <<>> = <<>> /\ <<>> \in Seq(Part) /\ Len(s) = 0 /\ Len(<<>>) = 0
      BY <2>1
    <3>5. WholeOf(s, <<>>) = 0
      BY <3>4 DEF WholeOf, WholeTo
    <3>6. Declares(req, s, <<>>, out)
      <4>1. ~RequiredAfter(s, 0)
        BY <3>4, NoneAfterAll
      <4>2. 0 \in 0..0 /\ (\A j : j \notin 0 + 1..0) /\ 0 - 0 = 0
        OBVIOUS
      <4>3. /\ ToSet(out.omitted) = 0 + 1..0 /\ out.count = 0
            /\ out.reason = "complete" /\ out.reason # "required_items_omitted"
        BY <3>1, <4>2 DEF ToSet
      <4> QED BY <3>4, <3>5, <4>1, <4>2, <4>3, Zenon DEF Declares
    <3>7. Extends(req, s, r, out)
      BY <3>1, <3>2, <3>3, <3>4, <3>5, <3>6 DEF Extends
    <3>8. ~Stands(req, s, r, stream, offset)
      BY <1>1, <3>2 DEF Stands
    <3> QED BY <3>7, <3>8
  <2>2. CASE s # <<>>
    <3>1. PICK i \in At(s, offset)..Len(s) :
            \E stop \in Boundaries(s[i].text) : out = EvidencePage(req.op, s, offset, i, stop)
      BY <2>0, <2>2, Zenon DEF EvidencePages
    <3>2. Behind(s, r, offset)
      BY <1>1 DEF Behind, Pending, Stands
    <3> QED BY <1>1, <2>2, <2>a, <3>1, <3>2, FragmentsExtend
  <2> QED BY <2>1, <2>2
<1>2. CASE ~InEvidence(req)
  <2>1. Members(Forms(req), s, r) /\ offset = Len(r)
    BY <1>2, MembersOf
  <2>2. Stands(req, s, r, stream, offset) => Len(r) < Len(s) /\ stream = StreamOf(req)
    BY <1>2 DEF Stands
  <2>3. CASE req.op = "search"
    <3>1. out \in SearchPages(s, Len(r))
      BY <1>2, <2>1, <2>3 DEF Pages
    <3> QED BY <2>1, <2>2, <2>3, <3>1, SearchExtends
  <2>4. CASE req.op = "brief"
    <3>0. ~req.compact /\ StreamOf(req) = "omitted"
      BY <1>2, <2>4 DEF InEvidence, StreamOf
    <3>1. CASE Stands(req, s, r, stream, offset)
      <4>1. out \in OmittedPages(s, Len(r)) /\ Len(r) < Len(s)
        BY <1>2, <2>1, <2>2, <2>4, <3>0, <3>1 DEF Pages
      <4> QED BY <2>1, <2>4, <3>0, <4>1, OmittedExtends
    <3>2. CASE ~Stands(req, s, r, stream, offset)
      <4>1. r = <<>> /\ offset = 0 /\ stream = "results"
        BY <3>2 DEF Pending
      <4>2. out \in BriefPages(s, 0)
        BY <1>2, <2>4, <4>1 DEF Pages
      <4> QED BY <2>4, <3>0, <3>2, <4>1, <4>2, BriefExtends
    <3> QED BY <3>1, <3>2
  <2>5. req.op \in Op /\ req.op # "show"
    BY <1>2, RequestsAre DEF InEvidence
  <2> QED BY <2>3, <2>4, <2>5 DEF Op
<1> QED BY <1>1, <1>2

----------------------------------------------------------------------------
(* The invariant *)

\* Selection, Order and InScope with the state they read as parameters, and what the hash
\* of a request has of it.
HistoryIn(h, view, earlier, id) ==
    LET on == Views[view].place.branch IN
    /\ id \in ToSet(Views[earlier].ids)
    /\ Views[earlier].place.worktree = h.worktree
    /\ IF h.branches = {}
         THEN Seen[id].branch \in {on, "unknown"} /\ Views[earlier].place.branch = on
         ELSE Seen[id].branch \in h.branches
    /\ Seen[id].origin = "local" \/ h.incoming = TRUE
KnownIn(views, h, view, id) ==
    \/ id \in ToSet(Views[view].ids)
    \/ \E v \in views : v < view /\ HistoryIn(h, view, v, id)
ShownIn(views, h, view) ==
    [n \in DOMAIN h.ids |-> IF KnownIn(views, h, view, h.ids[n]) /\ h.ids[n] \notin h.gone
                              THEN Evidence(h.ids[n]) ELSE Placeholder(h.ids[n])]
SelectionIn(views, h, view, order) ==
    CASE h.op = "show"   -> ShownIn(views, h, view)
      [] h.op = "brief"  -> Ranked(Kept(Views[view].ids, h.gone))
      [] h.op = "search" -> Ranked(Kept(order, h.gone))
OrderIn(orders, h, view) == IF h.op = "search" THEN orders[<<view, h>>] ELSE <<>>
HashIn(req, place, gone) ==
    <<[op |-> req.op, ids |-> req.ids, worktree |-> place.worktree, project |-> place.project,
       task |-> req.task, branches |-> req.branches,
       incoming |-> IF req.incoming = None THEN req.op = "brief" ELSE req.incoming,
       gone |-> gone], req.compact>>
ScopeIn(view, req, place) ==
    LET v == Views[view] IN
    /\ v.place.worktree = place.worktree /\ v.place.project = place.project
    /\ v.branches = req.branches
    /\ req.task # None => v.task = req.task
    /\ req.incoming # None => v.incoming = req.incoming
    /\ req.branches = {} => v.place.branch = place.branch

\* Nothing was lost, forgotten or purged that a continuation with hash h depends on.
Usable(h, view, views, gone, orders) ==
    /\ view \in views
    /\ h.gone = gone
    /\ h.op = "search" => <<view, h>> \in DOMAIN orders

\* What a client holds belongs to what it asked for, where and when it began.
SameRequest ==
    client = "reading" =>
        /\ continuation.hash = HashIn(request, began.here, began.forgotten)
        /\ ScopeIn(continuation.view, request, began.here)

\* It was given before what is forgotten by now; and a request that can still be
\* followed selects what it selected when it began.
SameSelection ==
    client = "reading" =>
        LET h == continuation.hash[1]
            view == continuation.view
        IN /\ h.gone \subseteq forgotten
           /\ Usable(h, view, retained, forgotten, saved) =>
                  reading = SelectionIn(retained, h, view, OrderIn(saved, h, view))

ReadSoFar ==
    /\ Chain(Forms(request), reading, received)
    /\ client = "reading" =>
         Stands(request, reading, received, continuation.stream, continuation.offset)
    /\ client = "done" => WholeOf(reading, received) = Len(reading)
    /\ client \in {"reading", "done"} => Declares(request, reading, received, page)

PagingInv == TypeOK /\ SameRequest /\ SameSelection /\ ReadSoFar

LEMMA HashIs ==
    ASSUME NEW req, NEW gone
    PROVE  /\ RequestHash(req, gone) = HashIn(req, here, gone)
           /\ RequestHash(req, gone)[1] = SelectionHash(req, gone)
BY DEF RequestHash, SelectionHash, HashIn

LEMMA ScopeIs ==
    ASSUME NEW req, NEW view
    PROVE  InScope(view, req) <=> ScopeIn(view, req, here)
BY DEF InScope, ScopeIn

LEMMA HashesAre ==
    ASSUME NEW req \in Requests, NEW gone \in SUBSET Id, here \in Places
    PROVE  RequestHash(req, gone) \in Hash
<1>1. /\ req.op \in Op /\ req.compact \in BOOLEAN /\ req.ids \in Seq(Id)
      /\ req.branches \in SUBSET Branch /\ req.task \in Task \cup {None}
      /\ req.incoming \in BOOLEAN \cup {None}
  BY RequestsAre
<1> DEFINE incoming == IF req.incoming = None THEN req.op = "brief" ELSE req.incoming
<1>2. incoming \in BOOLEAN
  BY <1>1
<1>3. here.worktree \in {p.worktree : p \in Places} /\ here.project \in {p.project : p \in Places}
  OBVIOUS
<1> HIDE DEF incoming
<1>4. [op |-> req.op, ids |-> req.ids, worktree |-> here.worktree, project |-> here.project,
       task |-> req.task, branches |-> req.branches, incoming |-> incoming, gone |-> gone]
        \in [op : Op, ids : Seq(Id), worktree : {p.worktree : p \in Places},
             project : {p.project : p \in Places}, task : Task \cup {None},
             branches : SUBSET Branch, incoming : BOOLEAN, gone : SUBSET Id]
  BY <1>1, <1>2, <1>3
<1> QED BY <1>1, <1>4, Zenon DEF RequestHash, SelectionHash, Hash, incoming

LEMMA SelectionIs ==
    ASSUME NEW req \in Requests, NEW view, NEW gone, NEW order
    PROVE  Selection(req, view, gone, order)
             = SelectionIn(retained, SelectionHash(req, gone), view, order)
<1> DEFINE h == SelectionHash(req, gone)
<1>1. /\ h.op = req.op /\ h.ids = req.ids /\ h.worktree = here.worktree
      /\ h.branches = req.branches /\ h.gone = gone
      /\ h.incoming = IF req.incoming = None THEN req.op = "brief" ELSE req.incoming
  BY DEF SelectionHash
<1>2. req.op = "show" => (h.incoming = TRUE <=> req.incoming = TRUE)
  <2>1. None # TRUE
    BY NoneAssumption
  <2> QED BY <1>1, <2>1
<1>3. req.op \in Op
  BY RequestsAre
<1> HIDE DEF h
<1>4. CASE req.op = "show"
  <2>1. \A v, id : InHistory(req, view, v, id) <=> HistoryIn(h, view, v, id)
    BY <1>1, <1>2, <1>4 DEF InHistory, HistoryIn
  <2>2. \A id : (id \in ToSet(Views[view].ids) \/ \E v \in retained : v < view /\ InHistory(req, view, v, id))
                  <=> KnownIn(retained, h, view, id)
    BY <2>1, Zenon DEF KnownIn
  <2>3. Shown(req, view, gone) = ShownIn(retained, h, view)
    BY <1>1, <2>2 DEF Shown, ShownIn
  <2> QED BY <1>1, <1>4, <2>3 DEF Selection, SelectionIn, h
<1>5. CASE req.op = "brief"
  BY <1>1, <1>5 DEF Selection, SelectionIn, h
<1>6. CASE req.op = "search"
  BY <1>1, <1>6 DEF Selection, SelectionIn, h
<1> QED BY <1>3, <1>4, <1>5, <1>6 DEF Op

LEMMA OrderIs ==
    ASSUME NEW req, NEW view, HasOrder(view, req)
    PROVE  Order(view, req) = OrderIn(saved, SelectionHash(req, forgotten), view)
<1>1. SelectionHash(req, forgotten).op = req.op
  BY DEF SelectionHash
<1> QED BY <1>1 DEF HasOrder, Order, OrderIn, Key

\* A continuation that is accepted can be used.
LEMMA UsableIs ==
    ASSUME NEW c, NEW req
    PROVE  /\ Usable(SelectionHash(req, forgotten), c.view, retained, forgotten, saved) <=>
                 c.view \in retained /\ HasOrder(c.view, req)
           /\ ~Refused(c, req) =>
                 /\ Usable(c.hash[1], c.view, retained, forgotten, saved)
                 /\ c.hash = RequestHash(req, forgotten)
                 /\ HasOrder(c.view, req)
<1> DEFINE h == SelectionHash(req, forgotten)
<1>1. h.op = req.op /\ h.gone = forgotten
  BY DEF SelectionHash
<1> HIDE DEF h
<1>2. Usable(h, c.view, retained, forgotten, saved) <=> c.view \in retained /\ HasOrder(c.view, req)
  BY <1>1 DEF Usable, HasOrder, Key, h
<1>3. ~Refused(c, req) => /\ c.hash = RequestHash(req, forgotten) /\ c.view \in retained
                          /\ HasOrder(c.view, req)
  BY DEF Refused
<1>4. RequestHash(req, forgotten)[1] = h
  BY HashIs DEF h
<1> QED BY <1>2, <1>3, <1>4 DEF h

\* Only the views before the one that is read matter.
LEMMA SameViews ==
    ASSUME NEW views, NEW more, NEW h, NEW view, NEW order,
           \A v : v < view => (v \in views <=> v \in more)
    PROVE  SelectionIn(more, h, view, order) = SelectionIn(views, h, view, order)
<1>1. \A id : KnownIn(more, h, view, id) <=> KnownIn(views, h, view, id)
  BY Zenon DEF KnownIn
<1>2. ShownIn(more, h, view) = ShownIn(views, h, view)
  BY <1>1 DEF ShownIn
<1> QED BY <1>2, Zenon DEF SelectionIn

LEMMA ContinuationIs ==
    ASSUME NEW c \in Continuation
    PROVE  c.view \in DOMAIN Views /\ c.view \in Nat /\ c.hash \in Hash
<1>1. c.view \in DOMAIN Views /\ c.hash \in Hash
  BY DEF Continuation
<1>2. DOMAIN Views \subseteq Nat
  BY ViewsAssumption
<1> QED BY <1>1, <1>2

LEMMA PagingInit == Init => PagingInv
<1> SUFFICES ASSUME Init PROVE PagingInv
  OBVIOUS
<1>1. 1 \in DOMAIN Views /\ Views[1].place \in Places
  <2>1. 1 \in DOMAIN Views
    BY ViewsAssumption
  <2> QED BY <2>1, ViewsAre
<1>2. /\ <<>> \in Seq(Member) /\ <<>> \in Seq(Part) /\ DOMAIN <<>> = {} /\ Len(<<>>) = 0
  OBVIOUS
<1>3. TypeOK
  BY <1>1, <1>2 DEF Init, TypeOK
<1>4. Chain(Forms(request), <<>>, <<>>)
  BY <1>2 DEF Chain
<1> QED BY <1>3, <1>4 DEF Init, PagingInv, SameRequest, SameSelection, ReadSoFar

\* What memq hands out with a page that extends what was received of s.
LEMMA Delivered ==
    ASSUME PagingInv, NEW req \in Requests, NEW view \in DOMAIN Views, view <= published,
           NEW hash \in Hash, NEW s \in Seq(Member), NEW r, NEW out,
           Extends(req, s, r, out), Deliver(view, hash, out),
           received' = r \o Got(req.op, s, out), reading' = s, request' = req,
           UNCHANGED published
    PROVE  /\ client' \in {"reading", "done"}
           /\ continuation' \in Continuation \cup {None}
           /\ (continuation' # None) <=> (client' = "reading")
           /\ continuation' # None =>
                /\ continuation'.view = view /\ continuation'.hash = hash
                /\ continuation'.view <= published'
           /\ reading' \in Seq(Member) /\ received' \in Seq(Part)
           /\ \A n \in DOMAIN received' : received'[n].member \in DOMAIN reading'
           /\ ReadSoFar'
<1> DEFINE r2 == r \o Got(req.op, s, out)
<1>1. /\ Chain(Forms(req), s, r2) /\ Declares(req, s, r2, out)
      /\ out.offset = None => WholeOf(s, r2) = Len(s)
      /\ out.offset # None => Stands(req, s, r2, out.stream, out.offset)
  BY Zenon DEF Extends
<1>2. /\ page' = out
      /\ client' = IF out.offset = None THEN "done" ELSE "reading"
      /\ continuation' = IF out.offset = None THEN None
                         ELSE [view |-> view, hash |-> hash,
                               stream |-> out.stream, offset |-> out.offset]
      /\ received' = r2 /\ reading' = s /\ request' = req
  BY DEF Deliver
<1> HIDE DEF r2
<1>3. /\ r2 \in Seq(Part) /\ \A n \in DOMAIN r2 : r2[n].member \in DOMAIN s
  <2>1. r2 \in Seq(Part) /\ \A n \in 1..Len(r2) : r2[n].member \in 1..Len(s)
    BY <1>1 DEF Chain, PartOf
  <2>2. DOMAIN r2 = 1..Len(r2) /\ DOMAIN s = 1..Len(s)
    BY <2>1
  <2> QED BY <2>1, <2>2, Zenon
<1>4. CASE out.offset = None
  BY <1>1, <1>2, <1>3, <1>4 DEF ReadSoFar
<1>5. CASE out.offset # None
  <2> DEFINE c == [view |-> view, hash |-> hash, stream |-> out.stream, offset |-> out.offset]
  <2>1. Stands(req, s, r2, out.stream, out.offset)
    BY <1>1, <1>5
  <2>2. out.offset \in Nat /\ out.stream \in {"evidence", "brief-evidence", "results", "omitted"}
    BY <2>1 DEF Stands, StreamOf
  <2>3. c \in Continuation
    BY <2>2 DEF Continuation
  <2>4. c # None
    BY <2>3, NoneAssumption
  <2>5. c.view = view /\ c.hash = hash /\ c.stream = out.stream /\ c.offset = out.offset
    OBVIOUS
  <2>6. client' = "reading" /\ continuation' = c
    BY <1>2, <1>5
  <2> HIDE DEF c
  <2>7. ReadSoFar'
    BY <1>1, <1>2, <2>1, <2>5, <2>6 DEF ReadSoFar
  <2> QED BY <1>2, <1>3, <2>3, <2>4, <2>5, <2>6, <2>7
<1> QED BY <1>4, <1>5

LEMMA FirstKeeps ==
    ASSUME PagingInv, NEW req \in Requests, NEW view \in DOMAIN Views, First(req, view)
    PROVE  PagingInv'
<1>1. PICK order \in (IF req.op = "search" THEN Orders(view, req) ELSE {<<>>}) :
        LET s == Selection(req, view, forgotten, order) IN
        /\ saved' = Saving(view, req, order)
        /\ \E out \in Pages(req, "results", s, 0) :
              /\ Deliver(view, RequestHash(req, forgotten), out)
              /\ reading' = s /\ received' = Got(req.op, s, out)
  BY Zenon DEF First
<1> DEFINE s == Selection(req, view, forgotten, order)
           hash == RequestHash(req, forgotten)
<1>2. PICK out \in Pages(req, "results", s, 0) :
        /\ Deliver(view, hash, out)
        /\ reading' = s /\ received' = Got(req.op, s, out)
  BY <1>1
<1>3. /\ TypeOK /\ view \in retained /\ UNCHANGED store /\ saved' = Saving(view, req, order)
      /\ InScope(view, req) /\ request' = req
      /\ began' = [here |-> here, forgotten |-> forgotten]
  BY <1>1 DEF PagingInv, First
<1>4. order \in Seq(Id)
  <2>1. \A k \in DOMAIN saved : saved[k] \in Seq(Id)
    BY <1>3 DEF TypeOK
  <2>2. Orders(view, req) \subseteq Seq(Id)
    BY <2>1, OrdersAre
  <2>3. <<>> \in Seq(Id)
    OBVIOUS
  <2>4. order \in Orders(view, req) \/ order = <<>>
    OBVIOUS
  <2> QED BY <2>2, <2>3, <2>4, Zenon
<1>5. s \in Seq(Member)
  BY <1>4, Selects
<1>6. s = SelectionIn(retained, SelectionHash(req, forgotten), view, order)
  BY SelectionIs
<1> HIDE DEF s
<1>7. Extends(req, s, <<>>, out)
  <2>1. Chain(Forms(req), s, <<>>)
    BY DEF Chain
  <2>2. Pending(req, s, <<>>, "results", 0)
    BY DEF Pending
  <2> QED BY <1>2, <1>5, <2>1, <2>2, PageExtends
<1>8. received' = <<>> \o Got(req.op, s, out)
  <2>1. Got(req.op, s, out) \in Seq(Part)
    BY <1>7 DEF Extends
  <2> QED BY <1>2, <2>1
<1>9. hash \in Hash
  BY <1>3, HashesAre DEF TypeOK
<1> HIDE DEF hash
<1>10. view <= published /\ published' = published
  BY <1>3 DEF TypeOK, store
<1>11. /\ client' \in {"reading", "done"}
       /\ continuation' \in Continuation \cup {None}
       /\ (continuation' # None) <=> (client' = "reading")
       /\ continuation' # None =>
            /\ continuation'.view = view /\ continuation'.hash = hash
            /\ continuation'.view <= published'
       /\ reading' \in Seq(Member) /\ received' \in Seq(Part)
       /\ \A n \in DOMAIN received' : received'[n].member \in DOMAIN reading'
       /\ ReadSoFar'
  BY <1>2, <1>3, <1>5, <1>7, <1>8, <1>9, <1>10, Delivered
<1>12. \A k \in DOMAIN saved' : saved'[k] \in Seq(Id)
  BY <1>3, <1>4 DEF Saving, TypeOK
<1>13. TypeOK'
  <2>1. request' \in Requests \cup {None} /\ (request' = None <=> client' = "idle")
    <3>1. req \in ReadRequest /\ None \notin ReadRequest
      BY RequestsAre, NoneAssumption
    <3> QED BY <1>3, <1>11, <3>1
  <2> QED BY <1>3, <1>11, <1>12, <2>1 DEF TypeOK, store
<1>14. SameRequest'
  <2>1. began'.here = here /\ began'.forgotten = forgotten
    BY <1>3
  <2>2. hash = HashIn(req, here, forgotten) /\ ScopeIn(view, req, here)
    BY <1>3, HashIs, ScopeIs DEF hash
  <2> QED BY <1>3, <1>11, <2>1, <2>2 DEF SameRequest
<1>15. SameSelection'
  <2> SUFFICES ASSUME client' = "reading"
               PROVE  LET h == continuation'.hash[1]
                          at == continuation'.view
                      IN h.gone \subseteq forgotten'
                         /\ reading' = SelectionIn(retained', h, at, OrderIn(saved', h, at))
    BY DEF SameSelection
  <2> DEFINE h == SelectionHash(req, forgotten)
  <2>1. /\ continuation'.view = view /\ continuation'.hash[1] = h
        /\ forgotten' = forgotten /\ retained' = retained
    BY <1>3, <1>11, HashIs DEF store, hash
  <2>2. h.op = req.op /\ h.gone = forgotten
    BY DEF SelectionHash
  <2>3. Key(view, req) = <<view, h>>
    BY DEF Key
  <2>4. s = SelectionIn(retained, h, view, order)
    BY <1>6
  <2> HIDE DEF h
  <2>5. OrderIn(saved', h, view) = order
    <3>1. CASE req.op = "search"
      <4>1. saved'[Key(view, req)] = order
        BY <1>3, <3>1 DEF Saving
      <4> QED BY <2>2, <2>3, <3>1, <4>1 DEF OrderIn
    <3>2. CASE req.op # "search"
      BY <2>2, <3>2 DEF OrderIn
    <3> QED BY <3>1, <3>2
  <2> QED BY <1>2, <2>1, <2>2, <2>4, <2>5
<1> QED BY <1>11, <1>13, <1>14, <1>15 DEF PagingInv

\* The page of a continuation that is followed, with any request that has its hash.
LEMMA Followed ==
    ASSUME PagingInv, NEW req \in Requests, Follow(req)
    PROVE  LET c == continuation
           IN /\ c \in Continuation /\ c.view <= published /\ request \in Requests
              /\ reading = Selection(req, c.view, forgotten, Order(c.view, req))
              /\ \E out \in Pages(request, c.stream, reading, c.offset) :
                    /\ Deliver(c.view, c.hash, out)
                    /\ received' = received \o Got(request.op, reading, out)
                    /\ Extends(request, reading, received, out)
                    /\ Got(request.op, reading, out) # <<>>
<1> DEFINE c == continuation
           h == SelectionHash(req, forgotten)
<1>1. client = "reading" /\ ~Refused(c, req) /\ TypeOK /\ SameRequest /\ SameSelection /\ ReadSoFar
  BY DEF Follow, PagingInv
<1>2. c \in Continuation /\ c.view <= published /\ request \in Requests
  BY <1>1 DEF TypeOK
<1>3. /\ Usable(c.hash[1], c.view, retained, forgotten, saved) /\ HasOrder(c.view, req)
      /\ c.hash = RequestHash(req, forgotten) /\ c.hash[1] = h
  BY <1>1, UsableIs, HashIs
<1>4. reading = SelectionIn(retained, h, c.view, OrderIn(saved, h, c.view))
  BY <1>1, <1>3, Zenon DEF SameSelection
<1>5. reading = Selection(req, c.view, forgotten, Order(c.view, req))
  BY <1>3, <1>4, OrderIs, SelectionIs
<1>6. request.op = req.op /\ request.compact = req.compact
  <2>1. RequestHash(req, forgotten) = HashIn(request, began.here, began.forgotten)
    BY <1>1, <1>3 DEF SameRequest
  <2>2. /\ RequestHash(req, forgotten)[1].op = req.op /\ RequestHash(req, forgotten)[2] = req.compact
    BY DEF RequestHash, SelectionHash
  <2>3. /\ HashIn(request, began.here, began.forgotten)[1].op = request.op
        /\ HashIn(request, began.here, began.forgotten)[2] = request.compact
    BY DEF HashIn
  <2> QED BY <2>1, <2>2, <2>3
<1>7. Pages(request, c.stream, reading, c.offset) = Pages(req, c.stream, reading, c.offset)
  BY <1>6 DEF Pages, InEvidence
<1>8. PICK out \in Pages(request, c.stream, reading, c.offset) :
        /\ Deliver(c.view, c.hash, out)
        /\ received' = received \o Got(request.op, reading, out)
  BY <1>5, <1>6, <1>7, Zenon DEF Follow
<1>9. Chain(Forms(request), reading, received) /\ Stands(request, reading, received, c.stream, c.offset)
  BY <1>1 DEF ReadSoFar
<1>10. Extends(request, reading, received, out) /\ Got(request.op, reading, out) # <<>>
  <2>1. reading \in Seq(Member)
    BY <1>1 DEF TypeOK
  <2>2. Pending(request, reading, received, c.stream, c.offset)
    BY <1>9 DEF Pending
  <2> QED BY <1>2, <1>9, <2>1, <2>2, PageExtends
<1> QED BY <1>2, <1>5, <1>8, <1>10

LEMMA FollowKeeps ==
    ASSUME PagingInv, NEW req \in Requests, Follow(req)
    PROVE  PagingInv'
<1> DEFINE c == continuation
<1>1. c \in Continuation /\ c.view <= published /\ request \in Requests
  BY Followed
<1>2. PICK out \in Pages(request, c.stream, reading, c.offset) :
        /\ Deliver(c.view, c.hash, out)
        /\ received' = received \o Got(request.op, reading, out)
        /\ Extends(request, reading, received, out)
  BY Followed
<1>3. c.view \in DOMAIN Views /\ c.hash \in Hash
  BY <1>1, ContinuationIs
<1>4. /\ TypeOK /\ SameRequest /\ SameSelection /\ client = "reading"
      /\ UNCHANGED <<store, saved, request, began, reading>>
  BY DEF PagingInv, Follow
<1> HIDE DEF c
<1>5. /\ client' \in {"reading", "done"}
      /\ continuation' \in Continuation \cup {None}
      /\ (continuation' # None) <=> (client' = "reading")
      /\ continuation' # None =>
           /\ continuation'.view = c.view /\ continuation'.hash = c.hash
           /\ continuation'.view <= published'
      /\ reading' \in Seq(Member) /\ received' \in Seq(Part)
      /\ \A n \in DOMAIN received' : received'[n].member \in DOMAIN reading'
      /\ ReadSoFar'
  <2>1. reading \in Seq(Member) /\ published' = published /\ reading' = reading /\ request' = request
    BY <1>4 DEF TypeOK, store
  <2> QED BY <1>1, <1>2, <1>3, <2>1, Delivered
<1>6. TypeOK'
  BY <1>4, <1>5 DEF TypeOK, store
<1>7. client' = "reading" => continuation'.view = c.view /\ continuation'.hash = c.hash
  BY <1>5
<1>8. SameRequest'
  BY <1>4, <1>7 DEF SameRequest, c
<1>9. SameSelection'
  <2>1. forgotten' = forgotten /\ retained' = retained /\ saved' = saved /\ reading' = reading
    BY <1>4 DEF store
  <2> QED BY <1>4, <1>7, <2>1 DEF SameSelection, c
<1> QED BY <1>5, <1>6, <1>8, <1>9 DEF PagingInv

\* What the other commands change does not change what a client reads.
LEMMA OthersKeep ==
    ASSUME PagingInv, UNCHANGED <<client, request, continuation, page, began, reading, received>>,
           here' \in Places, published' \in DOMAIN Views, published <= published',
           forgotten \subseteq forgotten', retained' \subseteq 1..published', forgotten' \subseteq Id,
           \A k \in DOMAIN saved' : saved'[k] \in Seq(Id),
           client = "reading" /\ Usable(continuation.hash[1], continuation.view, retained', forgotten', saved') =>
              /\ forgotten' = forgotten
              /\ continuation.view \in retained
              /\ \A v : v < continuation.view => (v \in retained <=> v \in retained')
              /\ continuation.hash[1].op = "search" => saved' = saved
    PROVE  PagingInv'
<1>1. TypeOK /\ SameRequest /\ SameSelection /\ ReadSoFar
  BY DEF PagingInv
<1>2. published \in Nat /\ published' \in Nat
  BY <1>1, ViewsAssumption DEF TypeOK
<1>3. continuation # None => continuation.view \in Nat
  BY <1>1, ContinuationIs DEF TypeOK
<1>4. TypeOK'
  BY <1>1, <1>2, <1>3 DEF TypeOK
<1>5. ReadSoFar' /\ SameRequest'
  BY <1>1 DEF ReadSoFar, SameRequest
<1>6. SameSelection'
  <2> DEFINE h == continuation.hash[1]
             view == continuation.view
  <2> SUFFICES ASSUME client = "reading"
               PROVE  /\ h.gone \subseteq forgotten'
                      /\ Usable(h, view, retained', forgotten', saved') =>
                           reading = SelectionIn(retained', h, view, OrderIn(saved', h, view))
    BY DEF SameSelection
  <2>1. h.gone \subseteq forgotten
    BY <1>1 DEF SameSelection
  <2>2. ASSUME Usable(h, view, retained', forgotten', saved')
        PROVE  reading = SelectionIn(retained', h, view, OrderIn(saved', h, view))
    <3>1. /\ forgotten' = forgotten /\ view \in retained
          /\ \A v : v < view => (v \in retained <=> v \in retained')
          /\ h.op = "search" => saved' = saved
      BY <2>2
    <3>2. Usable(h, view, retained, forgotten, saved)
      BY <2>2, <3>1 DEF Usable
    <3>3. OrderIn(saved', h, view) = OrderIn(saved, h, view)
      BY <3>1 DEF OrderIn
    <3>4. reading = SelectionIn(retained, h, view, OrderIn(saved, h, view))
      BY <1>1, <3>2 DEF SameSelection
    <3> DEFINE order == OrderIn(saved, h, view)
    <3> HIDE DEF order, h, view
    <3>5. SelectionIn(retained', h, view, order) = SelectionIn(retained, h, view, order)
      BY <3>1, SameViews
    <3> QED BY <3>3, <3>4, <3>5 DEF order
  <2> QED BY <2>1, <2>2
<1> QED BY <1>4, <1>5, <1>6 DEF PagingInv

LEMMA PagingNext == PagingInv /\ [Next]_vars => PagingInv'
<1> SUFFICES ASSUME PagingInv, [Next]_vars PROVE PagingInv'
  OBVIOUS
<1> USE DEF store, session
<1>1. TypeOK /\ SameRequest /\ SameSelection /\ ReadSoFar
  BY DEF PagingInv
<1>2. /\ published \in DOMAIN Views /\ published \in 1..Len(Views) /\ Len(Views) \in Nat
      /\ retained \subseteq 1..published /\ forgotten \subseteq Id /\ here \in Places
      /\ \A k \in DOMAIN saved : saved[k] \in Seq(Id)
  BY <1>1, ViewsAssumption DEF TypeOK
<1>3. client = "reading" =>
        /\ continuation.view \in Nat /\ continuation.view <= published
        /\ continuation.hash[1].gone \subseteq forgotten
  <2>1. continuation # None => continuation.view \in Nat /\ continuation.view <= published
    BY <1>1, ContinuationIs DEF TypeOK
  <2>2. client = "reading" => continuation # None /\ continuation.hash[1].gone \subseteq forgotten
    BY <1>1 DEF TypeOK, SameSelection
  <2> QED BY <2>1, <2>2
<1>4. ASSUME NEW req \in Requests, NEW view \in DOMAIN Views, First(req, view) PROVE PagingInv'
  BY <1>4, FirstKeeps
<1>5. ASSUME NEW req \in Requests, NEW view \in DOMAIN Views, SearchTooSmall(req, view)
      PROVE  PagingInv'
  <2>1. PICK order \in Orders(view, req) : saved' = Saving(view, req, order)
    BY <1>5 DEF SearchTooSmall
  <2>2. order \in Seq(Id)
    BY <1>2, <2>1, OrdersAre
  <2>3. \A k \in DOMAIN saved' : saved'[k] \in Seq(Id)
    BY <1>2, <2>1, <2>2 DEF Saving
  <2>4. client # "reading" /\ UNCHANGED <<store, session>>
    BY <1>5 DEF SearchTooSmall
  <2>5. published <= published'
    BY <1>2, <2>4
  <2> QED BY <1>2, <2>3, <2>4, <2>5, OthersKeep
<1>6. ASSUME NEW req \in Requests, Follow(req) PROVE PagingInv'
  BY <1>6, FollowKeeps
<1>7. CASE Refuse
  <2>1. /\ client' = "idle" /\ request' = None /\ continuation' = None
        /\ reading' = <<>> /\ received' = <<>> /\ UNCHANGED <<store, saved>>
    BY <1>7 DEF Refuse
  <2>2. /\ <<>> \in Seq(Member) /\ <<>> \in Seq(Part) /\ DOMAIN <<>> = {} /\ Len(<<>>) = 0
    OBVIOUS
  <2>3. TypeOK'
    BY <1>1, <2>1, <2>2 DEF TypeOK
  <2>4. Chain(Forms(request'), <<>>, <<>>)
    BY <2>2 DEF Chain
  <2>5. ReadSoFar'
    BY <2>1, <2>4 DEF ReadSoFar
  <2> QED BY <2>1, <2>3, <2>5 DEF PagingInv, SameRequest, SameSelection
<1>8. CASE Publish
  <2>1. /\ published' = published + 1 /\ published < Len(Views)
        /\ retained' = retained \cup {published + 1}
        /\ UNCHANGED <<here, forgotten, saved, session>>
    BY <1>8 DEF Publish
  <2>2. /\ published' \in DOMAIN Views /\ published <= published'
        /\ retained' \subseteq 1..published'
    <3>1. DOMAIN Views = 1..Len(Views)
      BY ViewsAssumption
    <3>2. published' \in 1..Len(Views) /\ published <= published'
      BY <1>2, <2>1
    <3>3. \A v \in 1..published : v \in 1..published'
      BY <1>2, <2>1
    <3>4. published + 1 \in 1..published'
      BY <1>2, <2>1
    <3> QED BY <1>2, <2>1, <3>1, <3>2, <3>3, <3>4
  <2>3. client = "reading" => \A v : v <= continuation.view => (v \in retained <=> v \in retained')
    BY <1>2, <1>3, <2>1
  <2>4. client = "reading" /\ continuation.view \in retained' =>
          /\ continuation.view \in retained
          /\ \A v : v < continuation.view => (v \in retained <=> v \in retained')
    BY <1>2, <1>3, <2>1
  <2>5. Usable(continuation.hash[1], continuation.view, retained', forgotten', saved')
          => continuation.view \in retained'
    BY DEF Usable
  <2> QED BY <1>2, <2>1, <2>2, <2>4, <2>5, OthersKeep
<1>9. ASSUME NEW place \in Places, Move(place) PROVE PagingInv'
  <2>1. here' = place /\ UNCHANGED <<published, retained, forgotten, saved, session>>
    BY <1>9 DEF Move
  <2>2. Usable(continuation.hash[1], continuation.view, retained', forgotten', saved')
          => continuation.view \in retained
    BY <2>1 DEF Usable
  <2>3. published <= published'
    BY <1>2, <2>1
  <2> QED BY <1>2, <2>1, <2>2, <2>3, OthersKeep
<1>10. ASSUME NEW id \in Id, Forget(id) PROVE PagingInv'
  <2>1. /\ id \notin forgotten /\ forgotten' = forgotten \cup {id} /\ saved' = <<>>
        /\ UNCHANGED <<here, published, retained, session>>
    BY <1>10 DEF Forget
  <2>2. client = "reading" => continuation.hash[1].gone # forgotten'
    BY <1>3, <2>1
  <2>3. ~(client = "reading"
            /\ Usable(continuation.hash[1], continuation.view, retained', forgotten', saved'))
    BY <2>2 DEF Usable
  <2>4. published <= published' /\ \A k \in DOMAIN saved' : saved'[k] \in Seq(Id)
    BY <1>2, <2>1
  <2> QED BY <1>2, <2>1, <2>3, <2>4, OthersKeep
<1>11. CASE FinishPurge
  <2>1. saved' = <<>> /\ UNCHANGED <<store, session>>
    BY <1>11 DEF FinishPurge
  <2>2. Usable(continuation.hash[1], continuation.view, retained', forgotten', saved')
          => continuation.hash[1].op # "search" /\ continuation.view \in retained
    BY <2>1 DEF Usable
  <2>3. published <= published' /\ \A k \in DOMAIN saved' : saved'[k] \in Seq(Id)
    BY <1>2, <2>1
  <2> QED BY <1>2, <2>1, <2>2, <2>3, OthersKeep
<1>12. CASE LoseIndex
  <2>1. retained' = {} /\ saved' = <<>> /\ UNCHANGED <<here, published, forgotten, session>>
    BY <1>12 DEF LoseIndex
  <2>2. ~Usable(continuation.hash[1], continuation.view, retained', forgotten', saved')
    BY <2>1 DEF Usable
  <2>3. published <= published' /\ \A k \in DOMAIN saved' : saved'[k] \in Seq(Id)
    BY <1>2, <2>1
  <2> QED BY <1>2, <2>1, <2>2, <2>3, OthersKeep
<1>13. CASE UNCHANGED vars
  BY <1>1, <1>13 DEF vars, PagingInv, TypeOK, SameRequest, SameSelection, ReadSoFar
<1> QED BY <1>4, <1>5, <1>6, <1>7, <1>8, <1>9, <1>10, <1>11, <1>12, <1>13 DEF Next

----------------------------------------------------------------------------
(* Theorems *)

\* The invariant of Paging: its types; that a continuation belongs to the request, the
\* place and the rules of the first page and selects what that selected; and that a client
\* stands right behind what it received.
THEOREM PagingInvariant == Spec => []PagingInv
<1> QED BY PagingInit, PagingNext, PTL DEF Spec

LEMMA ReadingAll ==
    ASSUME NEW F, NEW s \in Seq(Member), NEW r, Chain(F, s, r), s # <<>>, WholeOf(s, r) = Len(s)
    PROVE  r # <<>> /\ r[Len(r)].member = Len(s) /\ Ended(s, r[Len(r)])
<1>1. Len(s) \in Nat /\ Len(s) # 0 /\ Len(r) \in Nat
  BY DEF Chain
<1>2. Len(r) # 0
  BY <1>1 DEF WholeOf, WholeTo
<1>3. Len(r) \in 1..Len(r)
  BY <1>1, <1>2
<1> DEFINE a == r[Len(r)]
<1>4. PartOf(F, s, a)
  BY <1>3, Zenon DEF Chain
<1>5. (IF Ended(s, a) THEN a.member ELSE a.member - 1) = Len(s)
  BY <1>2, Zenon DEF WholeOf, WholeTo
<1> HIDE DEF a
<1>6. a.member \in 1..Len(s)
  BY <1>4 DEF PartOf
<1>7. a.member = Len(s) /\ Ended(s, a)
  BY <1>1, <1>5, <1>6
<1>8. r # <<>>
  BY <1>1, <1>2 DEF Chain
<1> QED BY <1>7, <1>8 DEF a

\* The pages of one request, taken together, are what there was to read when it began, in
\* order, no member lost or repeated between two pages: of a show and a compact brief every
\* byte, of a search the excerpts, of a brief whole texts and behind them names; and no
\* member is missing once the last page has no continuation.
THEOREM PagesAreOneReading == Spec => []OneReading
<1>1. PagingInv => OneReading
  <2> SUFFICES ASSUME PagingInv PROVE OneReading
    OBVIOUS
  <2>1. TypeOK /\ ReadSoFar /\ Chain(Forms(request), reading, received)
    BY DEF PagingInv, ReadSoFar
  <2>2. DOMAIN received = 1..Len(received) /\ reading \in Seq(Member)
    BY <2>1 DEF TypeOK
  <2>3. received # <<>> => received[1].member = 1 /\ received[1].start = 0
    BY <2>1 DEF Chain
  <2>4. \A n \in 1..Len(received) - 1 : Continues(received[n], received[n + 1])
    BY <2>1, Zenon DEF Chain, Follows, Continues
  <2>5. \A n \in DOMAIN received : /\ received[n].id = reading[received[n].member].id
                                   /\ received[n].form \in Forms(request)
    BY <2>1, <2>2, Zenon DEF Chain, PartOf
  <2>6. ASSUME client = "done", reading # <<>>
        PROVE  /\ received # <<>> /\ Last(received).member = Len(reading)
               /\ Last(received).stop = EndOf(Last(reading).text, Last(received).form)
    <3>1. WholeOf(reading, received) = Len(reading)
      BY <2>1, <2>6 DEF ReadSoFar
    <3> QED BY <2>1, <2>2, <2>6, <3>1, ReadingAll DEF Last, Ended
  <2> QED BY <2>3, <2>4, <2>5, <2>6, Zenon DEF OneReading
<1> QED BY <1>1, PagingInvariant, PTL

\* Who repeats a request where it was made, with nothing forgotten and its view and order
\* not lost, is not refused: the view is in scope, the hash is the one that is computed
\* again, and the stream and the offset that memq handed out are ones that it accepts.
THEOREM ContinuationsAreAccepted == Spec => []ContinuationsHold
<1>1. PagingInv => ContinuationsHold
  <2> DEFINE c == continuation
             req == request
  <2> SUFFICES ASSUME PagingInv, client = "reading", here = began.here,
                      forgotten = began.forgotten, c.view \in retained, HasOrder(c.view, req)
               PROVE  ~Refused(c, req)
    BY DEF ContinuationsHold
  <2>1. TypeOK /\ SameRequest /\ SameSelection /\ ReadSoFar
    BY DEF PagingInv
  <2>2. reading \in Seq(Member) /\ req \in Requests
    BY <2>1 DEF TypeOK
  <2>3. c.hash = RequestHash(req, forgotten) /\ c.hash[1] = SelectionHash(req, forgotten)
    BY <2>1, HashIs DEF SameRequest
  <2>4. InScope(c.view, req)
    BY <2>1, ScopeIs DEF SameRequest
  <2>5. Usable(c.hash[1], c.view, retained, forgotten, saved)
    BY <2>3, UsableIs
  <2>6. reading = Selection(req, c.view, forgotten, Order(c.view, req))
    <3>1. reading = SelectionIn(retained, SelectionHash(req, forgotten), c.view,
                                OrderIn(saved, SelectionHash(req, forgotten), c.view))
      BY <2>1, <2>3, <2>5 DEF SameSelection
    <3> QED BY <2>2, <3>1, OrderIs, SelectionIs
  <2>7. /\ Chain(Forms(req), reading, received)
        /\ Stands(req, reading, received, c.stream, c.offset)
    BY <2>1 DEF ReadSoFar
  <2> HIDE DEF c, req
  <2>8. c.stream \in Streams(req)
    <3>1. req.op \in Op /\ req.compact \in BOOLEAN
      BY <2>2, RequestsAre
    <3> QED BY <2>7, <3>1 DEF Stands, StreamOf, Streams, Op
  <2>9. Acceptable(req, c.stream, reading, c.offset)
    <3>1. CASE InEvidence(req)
      <4>1. /\ c.offset < Total(reading) /\ received # <<>>
            /\ Behind(reading, received, c.offset)
        BY <2>7, <3>1 DEF Stands, Behind
      <4>2. Chain({"text"}, reading, received)
        BY <2>7, <3>1 DEF Forms, InEvidence
      <4>3. reading # <<>>
        <5>1. 1 \in 1..Len(received)
          BY <2>7, <4>1 DEF Chain
        <5>2. received[1].member \in 1..Len(reading)
          BY <2>7, <5>1 DEF Chain, PartOf
        <5> QED BY <2>2, <5>2
      <4>4. LET i == At(reading, c.offset)
                x == c.offset - Base(reading, i)
            IN /\ x \in Boundaries(reading[i].text) /\ i \in 1..Len(reading)
               /\ reading[i].text # <<>> => x < Length(reading[i].text)
        BY <2>2, <4>1, <4>2, <4>3, Resumes
      <4>5. LET i == At(reading, c.offset)
                x == c.offset - Base(reading, i)
            IN reading[i].text # <<>> => x # Length(reading[i].text)
        <5>1. \A i \in 1..Len(reading) : Length(reading[i].text) \in Nat
          BY <2>2, TextOf
        <5>2. \A n \in Nat : ~(n < n)
          OBVIOUS
        <5> QED BY <4>4, <5>1, <5>2
      <4>6. ValidOffset(reading, c.offset)
        BY <4>1, <4>4, <4>5, Zenon DEF ValidOffset
      <4> QED BY <2>8, <3>1, <4>6 DEF Acceptable
    <3>2. CASE ~InEvidence(req)
      <4>1. c.offset < Len(reading) /\ c.offset \in Nat
        BY <2>7, <3>2 DEF Stands
      <4>2. c.offset <= Len(reading)
        BY <2>2, <4>1
      <4> QED BY <2>8, <3>2, <4>2 DEF Acceptable
    <3> QED BY <3>1, <3>2
  <2> QED BY <2>3, <2>4, <2>6, <2>9 DEF Refused, c, req
<1> QED BY <1>1, PagingInvariant, PTL

\* A page is complete when every member was given to the end of its form or listed before;
\* the count of a brief or a search is that of the members that are missing, and a brief
\* says whether a required one is among them.
THEOREM OmissionsAreTrue == Spec => []OmissionsDeclared
<1>1. PagingInv => OmissionsDeclared
  <2> DEFINE given == {received[n].member : n \in {n \in DOMAIN received :
                         /\ received[n].form # "listed"
                         /\ received[n].stop
                              = EndOf(reading[received[n].member].text, received[n].form)}}
             listed == {received[n].member : n \in {n \in DOMAIN received :
                         received[n].form = "listed"}}
             missing == DOMAIN reading \ (given \cup (listed \ ToSet(page.omitted)))
             W == WholeOf(reading, received)
             N == Len(received)
             M == Len(reading)
  <2> SUFFICES ASSUME PagingInv, client \in {"reading", "done"}
               PROVE  /\ page.reason = "complete" <=> missing = {}
                      /\ request.op # "show" => page.count = Cardinality(missing)
                      /\ page.reason = "required_items_omitted" <=>
                            request.op = "brief" /\ \E i \in missing : reading[i].required
    BY Zenon DEF OmissionsDeclared
  <2>1. TypeOK /\ Chain(Forms(request), reading, received) /\ Declares(request, reading, received, page)
    BY DEF PagingInv, ReadSoFar
  <2>2. /\ reading \in Seq(Member) /\ DOMAIN received = 1..N
        /\ DOMAIN reading = 1..M /\ M \in Nat
    BY <2>1 DEF TypeOK
  <2>3. /\ W \in 0..M
        /\ \A j \in 1..M :
              j <= W <=> \E n \in 1..N : received[n].member = j /\ Ended(reading, received[n])
    BY <2>1, <2>2, Covers
  <2>4. PICK done \in 0..W :
          /\ ToSet(page.omitted) = done + 1..W
          /\ \A n \in 1..N : received[n].member \in done + 1..W => received[n].form = "listed"
          /\ request.op # "show" => page.count = M - done
          /\ page.reason = "complete" <=> done = M
          /\ page.reason = "required_items_omitted"
               <=> request.op = "brief" /\ RequiredAfter(reading, done)
    BY <2>1 DEF Declares
  <2>5. \A n \in 1..N : received[n].form = "listed" => Ended(reading, received[n])
    BY <2>1, Zenon DEF Chain, PartOf, Ended
  <2>6. \A j : j \in given <=> \E n \in 1..N : /\ received[n].form # "listed"
                                              /\ received[n].member = j
                                              /\ Ended(reading, received[n])
    BY <2>2, Zenon DEF Ended
  <2>7. \A j : j \in listed <=> \E n \in 1..N : received[n].form = "listed" /\ received[n].member = j
    BY <2>2, Zenon
  <2>8. \A j : j \in missing <=>
                 j \in 1..M /\ j \notin given /\ (j \in listed => j \in ToSet(page.omitted))
    BY <2>2, Zenon
  <2> HIDE DEF given, listed, missing, W, N, M
  <2>9. \A j \in 1..M : j \in missing <=> j > done
    <3> TAKE j \in 1..M
    <3>1. CASE j <= done
      <4>1. j <= W /\ j \notin done + 1..W /\ ~(j > done)
        BY <2>2, <2>3, <2>4, <3>1
      <4>2. PICK n \in 1..N : received[n].member = j /\ Ended(reading, received[n])
        BY <2>3, <4>1
      <4>3. j \in given \/ j \in listed
        BY <2>6, <2>7, <4>2, Zenon
      <4> QED BY <2>4, <2>8, <4>1, <4>3
    <3>2. CASE j > done /\ j <= W
      <4>1. j \in done + 1..W
        BY <2>2, <2>3, <2>4, <3>2
      <4>2. j \notin given
        <5>1. \A n \in 1..N : received[n].member = j => received[n].form = "listed"
          BY <2>4, <4>1
        <5> QED BY <2>6, <5>1, Zenon
      <4> QED BY <2>4, <2>8, <3>2, <4>1, <4>2
    <3>3. CASE j > done /\ ~(j <= W)
      <4>1. \A n \in 1..N : received[n].member = j => ~Ended(reading, received[n])
        BY <2>3, <3>3, Zenon
      <4>2. j \notin given /\ j \notin listed
        BY <2>5, <2>6, <2>7, <4>1, Zenon
      <4> QED BY <2>8, <3>3, <4>2
    <3>4. j \in Int /\ done \in Int
      BY <2>2, <2>3, <2>4
    <3>5. j <= done \/ j > done
      BY <3>4
    <3> QED BY <3>1, <3>2, <3>3, <3>5
  <2>10. done \in 0..M
    BY <2>2, <2>3, <2>4
  <2>11. missing = done + 1..M
    <3>1. missing \subseteq 1..M
      BY <2>8
    <3>2. \A j : j \in done + 1..M <=> (j \in 1..M /\ j > done)
      BY <2>2, <2>10
    <3> QED BY <2>9, <3>1, <3>2, Zenon
  <2>12. Cardinality(missing) = M - done
    <3> DEFINE low == done + 1
    <3>1. low \in Int /\ M \in Int /\ low <= M + 1 /\ M - low + 1 = M - done
      BY <2>2, <2>10
    <3> HIDE DEF low
    <3>2. Cardinality(low..M) = IF low > M THEN 0 ELSE M - low + 1
      BY <3>1, FS_Interval
    <3>3. low > M => M - low + 1 = 0
      BY <3>1
    <3>4. Cardinality(low..M) = M - done
      BY <3>1, <3>2, <3>3
    <3>5. missing = low..M
      BY <2>11 DEF low
    <3> QED BY <3>4, <3>5
  <2>13. missing = {} <=> done = M
    BY <2>2, <2>10, <2>11
  <2>14. RequiredAfter(reading, done) <=> \E i \in missing : reading[i].required
    BY <2>11, Zenon DEF RequiredAfter, M
  <2> QED BY <2>4, <2>12, <2>13, <2>14
<1> QED BY <1>1, PagingInvariant, PTL

\* No page has text of an item that was forgotten before, neither the first page of a
\* retained view nor one of a chain that began earlier.
THEOREM ForgottenIsNotShown == Spec => NoForgottenText
<1> DEFINE A == received' # received =>
                  \A n \in DOMAIN received' :
                     LET f == received'[n] IN
                     (n > Len(received) \/ reading' # reading) /\ f.stop > 0
                        => f.id \notin forgotten
<1>1. PagingInv /\ [Next]_vars => [A]_vars
  <2> SUFFICES ASSUME PagingInv, Next, received' # received PROVE A
    BY DEF vars, session
  <2>1. ASSUME NEW F, NEW s, s \in Seq(Member),
               \A n \in DOMAIN s : s[n].id \in forgotten => s[n].text = <<>>,
               NEW f, PartOf(F, s, f), f.stop > 0
        PROVE  f.id \notin forgotten
    <3>1. f.member \in 1..Len(s) /\ f.member \in DOMAIN s /\ f.id = s[f.member].id
          /\ f.stop \in Boundaries(s[f.member].text)
      BY <2>1 DEF PartOf
    <3>2. s[f.member].text \in Seq(1..4)
      BY <2>1, <3>1, TextOf
    <3>3. ASSUME s[f.member].text = <<>> PROVE FALSE
      <4>1. Length(s[f.member].text) = 0
        BY <3>2, <3>3, Texts
      <4>2. f.stop \in Nat /\ f.stop <= 0
        BY <3>1, <3>2, <4>1, Texts
      <4> QED BY <2>1, <4>2
    <3> QED BY <2>1, <3>1, <3>3
  <2>2. ASSUME NEW req \in Requests, NEW view \in DOMAIN Views, First(req, view) PROVE A
    <3>1. PagingInv'
      BY <2>2, FirstKeeps
    <3>2. Chain(Forms(request'), reading', received')
      BY <3>1 DEF PagingInv, ReadSoFar
    <3>3. PICK order \in (IF req.op = "search" THEN Orders(view, req) ELSE {<<>>}) :
            reading' = Selection(req, view, forgotten, order)
      BY <2>2, Zenon DEF First
    <3>4. order \in Seq(Id)
      <4>1. \A k \in DOMAIN saved : saved[k] \in Seq(Id)
        BY DEF PagingInv, TypeOK
      <4>2. Orders(view, req) \subseteq Seq(Id)
        BY <4>1, OrdersAre
      <4>3. <<>> \in Seq(Id)
        OBVIOUS
      <4>4. order \in Orders(view, req) \/ order = <<>>
        OBVIOUS
      <4> QED BY <4>2, <4>3, <4>4, Zenon
    <3>5. /\ reading' \in Seq(Member)
          /\ \A n \in DOMAIN reading' : reading'[n].id \in forgotten => reading'[n].text = <<>>
      BY <3>3, <3>4, Selects
    <3>6. \A n \in DOMAIN received' : PartOf(Forms(request'), reading', received'[n])
      BY <3>2 DEF Chain
    <3> QED BY <2>1, <3>5, <3>6
  <2>3. ASSUME NEW req \in Requests, Follow(req) PROVE A
    <3> DEFINE view == continuation.view
    <3>1. continuation \in Continuation
          /\ reading = Selection(req, view, forgotten, Order(view, req))
      BY <2>3, Followed
    <3>2. PagingInv' /\ reading' = reading /\ reading \in Seq(Member)
      BY <2>3, FollowKeeps DEF Follow, PagingInv, TypeOK
    <3>3. Chain(Forms(request'), reading, received')
      BY <3>2 DEF PagingInv, ReadSoFar
    <3>4. view \in DOMAIN Views
      BY <3>1, ContinuationIs
    <3> HIDE DEF view
    <3>5. Order(view, req) \in Seq(Id)
      <4>1. \A k \in DOMAIN saved : saved[k] \in Seq(Id)
        BY DEF PagingInv, TypeOK
      <4>2. <<>> \in Seq(Id)
        OBVIOUS
      <4> QED BY <4>1, <4>2 DEF Order, HasOrder
    <3>6. \A n \in DOMAIN reading : reading[n].id \in forgotten => reading[n].text = <<>>
      BY <3>1, <3>4, <3>5, Selects
    <3>7. \A n \in DOMAIN received' : PartOf(Forms(request'), reading, received'[n])
      BY <3>3 DEF Chain
    <3> QED BY <2>1, <3>2, <3>6, <3>7
  <2>4. ASSUME Refuse PROVE A
    <3>1. received' = <<>>
      BY <2>4 DEF Refuse
    <3> QED BY <3>1
  <2>5. ASSUME NEW req \in Requests, NEW view \in DOMAIN Views, SearchTooSmall(req, view)
        PROVE  received' = received
    BY <2>5 DEF SearchTooSmall, session
  <2>6. Publish \/ (\E place \in Places : Move(place)) \/ (\E id \in Id : Forget(id))
          \/ FinishPurge \/ LoseIndex => received' = received
    BY DEF Publish, Move, Forget, FinishPurge, LoseIndex, session
  <2>7. CASE \E req \in Requests, view \in DOMAIN Views : First(req, view)
    BY <2>2, <2>7
  <2>8. CASE \E req \in Requests, view \in DOMAIN Views : SearchTooSmall(req, view)
    BY <2>5, <2>8
  <2>9. CASE \E req \in Requests : Follow(req)
    BY <2>3, <2>9
  <2> QED BY <2>4, <2>6, <2>7, <2>8, <2>9 DEF Next
<1> QED BY <1>1, PagingInvariant, PTL DEF Spec, NoForgottenText

\* A page after the first one brings the client further.
THEOREM EveryPageAdvances == Spec => PagesAdvance
<1> DEFINE A == client = "reading" /\ client' = "reading" /\ page' # page
                  => Len(received') > Len(received)
<1>1. PagingInv /\ [Next]_vars => [A]_vars
  <2> SUFFICES ASSUME PagingInv, Next, client = "reading", client' = "reading", page' # page
               PROVE  Len(received') > Len(received)
    BY DEF vars, session
  <2>1. ASSUME NEW req \in Requests, Follow(req) PROVE Len(received') > Len(received)
    <3> DEFINE c == continuation
    <3>1. PICK out \in Pages(request, c.stream, reading, c.offset) :
            /\ received' = received \o Got(request.op, reading, out)
            /\ Extends(request, reading, received, out) /\ Got(request.op, reading, out) # <<>>
      BY <2>1, Followed
    <3>2. Got(request.op, reading, out) \in Seq(Part) /\ received \in Seq(Part)
      BY <3>1 DEF Extends, PagingInv, TypeOK
    <3> DEFINE got == Got(request.op, reading, out)
    <3> HIDE DEF got
    <3>3. Len(received') = Len(received) + Len(got) /\ got # <<>>
      BY <3>1, <3>2 DEF got
    <3>4. Len(got) \in Nat /\ Len(got) # 0 /\ Len(received) \in Nat
      BY <3>2, <3>3 DEF got
    <3> QED BY <3>3, <3>4
  <2>2. ASSUME NEW req \in Requests, NEW view \in DOMAIN Views,
               First(req, view) \/ SearchTooSmall(req, view)
        PROVE  FALSE
    BY <2>2 DEF First, SearchTooSmall
  <2>3. Refuse => client' # "reading"
    BY DEF Refuse
  <2>4. Publish \/ (\E place \in Places : Move(place)) \/ (\E id \in Id : Forget(id))
          \/ FinishPurge \/ LoseIndex => page' = page
    BY DEF Publish, Move, Forget, FinishPurge, LoseIndex, session
  <2>5. CASE \E req \in Requests : Follow(req)
    BY <2>1, <2>5
  <2>6. ~\E req \in Requests, view \in DOMAIN Views : First(req, view) \/ SearchTooSmall(req, view)
    BY <2>2
  <2> QED BY <2>3, <2>4, <2>5, <2>6 DEF Next
<1> QED BY <1>1, PagingInvariant, PTL DEF Spec, PagesAdvance

----------------------------------------------------------------------------
(* Policy: verdicts *)

VerdictField == {"section", "required", "supersession", "accepted", "proposed", "conflicts"}

IsVerdict(v) == v = [f \in VerdictField |-> v[f]] /\ v.required \in BOOLEAN

LEMMA SameVerdict ==
    ASSUME NEW v, NEW w, IsVerdict(v), IsVerdict(w), \A f \in VerdictField : v[f] = w[f]
    PROVE  v = w
<1>1. [f \in VerdictField |-> v[f]] = [f \in VerdictField |-> w[f]]
  BY Zenon
<1> QED BY <1>1 DEF IsVerdict

LEMMA VerdictIs ==
    ASSUME NEW m
    PROVE  /\ IsVerdict(Verdict(m)) /\ Verdict(m).accepted = {}
           /\ Verdict(m).required = MustShow(m)
<1>1. MustShow(m) \in BOOLEAN
  BY Zenon DEF MustShow
<1> HIDE DEF MustShow
<1>2. Verdict(m).accepted = {} /\ Verdict(m).required = MustShow(m)
  BY DEF Verdict
<1>3. Verdict(m) = [f \in VerdictField |-> Verdict(m)[f]]
  BY DEF Verdict, VerdictField
<1> QED BY <1>1, <1>2, <1>3 DEF IsVerdict

\* What an accepted replacement does to a verdict, field by field.
LEMMA SupersedingIs ==
    ASSUME NEW ms, NEW i, NEW j, NEW v, IsVerdict(v)
    PROVE  LET w == Superseding(ms, v, i, j) IN
           /\ IsVerdict(w)
           /\ w.accepted = v.accepted \cup {ms[j].id}
           /\ w.supersession = ms[j].id
           /\ w.section = (IF Upstream(ms, i, j) THEN "resolved_upstream_not_local"
                                                 ELSE "superseded")
           /\ (w.required <=> Upstream(ms, i, j))
           /\ w.proposed = v.proposed /\ w.conflicts = v.conflicts
<1> DEFINE section == IF Upstream(ms, i, j) THEN "resolved_upstream_not_local" ELSE "superseded"
           Now(f) == CASE f = "accepted" -> v.accepted \cup {ms[j].id}
                       [] f = "supersession" -> ms[j].id
                       [] f = "section" -> section
                       [] f = "required" -> Upstream(ms, i, j)
                       [] OTHER -> v[f]
           w == Superseding(ms, v, i, j)
<1>1. DOMAIN v = VerdictField
  BY DEF IsVerdict
<1>2. w = [f \in VerdictField |-> Now(f)]
  <2>1. w = [f \in DOMAIN v |->
               IF f = "required" THEN Upstream(ms, i, j)
               ELSE IF f = "section" THEN section
               ELSE IF f = "supersession" THEN ms[j].id
               ELSE IF f = "accepted" THEN v.accepted \cup {ms[j].id} ELSE v[f]]
    BY Zenon DEF Superseding
  <2> QED BY <2>1, <1>1
<1>3. Upstream(ms, i, j) \in BOOLEAN
  BY Zenon DEF Upstream
<1> HIDE DEF w
<1>4. \A f \in VerdictField : w[f] = Now(f)
  BY <1>2, Zenon
<1>5. w = [f \in VerdictField |-> w[f]]
  BY <1>2, Zenon
<1> QED BY <1>3, <1>4, <1>5 DEF IsVerdict, VerdictField, w

\* Record j, as the upstream version of record i, resolves it.
Resolves(ms, i, j) ==
    Acceptance(ms[j]) = "accepted" /\ Acceptance(ms[i]) \in {"proposed", "unverified"}

\* What the upstream version of a pending record does to a verdict.
LEMMA SameUpstreamIs ==
    ASSUME NEW ms, NEW i, NEW j, NEW v, IsVerdict(v),
           Resolves(ms, i, j)
    PROVE  LET w == SameUpstream(ms, v, i, j) IN
           /\ IsVerdict(w)
           /\ w.accepted = v.accepted \cup {ms[j].id}
           /\ w.supersession = Unset /\ w.section = "resolved_upstream_not_local"
           /\ w.required
           /\ w.proposed = v.proposed /\ w.conflicts = v.conflicts
<1> DEFINE Now(f) == CASE f = "accepted" -> v.accepted \cup {ms[j].id}
                       [] f = "supersession" -> Unset
                       [] f = "section" -> "resolved_upstream_not_local"
                       [] f = "required" -> TRUE
                       [] OTHER -> v[f]
           w == SameUpstream(ms, v, i, j)
<1>1. DOMAIN v = VerdictField
  BY DEF IsVerdict
<1>2. w = [f \in VerdictField |-> Now(f)]
  <2>1. w = [f \in DOMAIN v |->
               IF f = "required" THEN TRUE
               ELSE IF f = "section" THEN "resolved_upstream_not_local"
               ELSE IF f = "supersession" THEN Unset
               ELSE IF f = "accepted" THEN v.accepted \cup {ms[j].id} ELSE v[f]]
    BY Zenon DEF SameUpstream, Resolves
  <2> QED BY <2>1, <1>1
<1> HIDE DEF w
<1>3. \A f \in VerdictField : w[f] = Now(f)
  BY <1>2, Zenon
<1>4. w = [f \in VerdictField |-> w[f]]
  BY <1>2, Zenon
<1> QED BY <1>3, <1>4 DEF IsVerdict, VerdictField, w

Proposing(v, id) == [v EXCEPT !.proposed = @ \cup {id}]

LEMMA ProposedIs ==
    ASSUME NEW v, IsVerdict(v), NEW id
    PROVE  LET w == Proposing(v, id) IN
           /\ IsVerdict(w) /\ w.proposed = v.proposed \cup {id}
           /\ \A f \in VerdictField \ {"proposed"} : w[f] = v[f]
<1> DEFINE Now(f) == IF f = "proposed" THEN v.proposed \cup {id} ELSE v[f]
           w == Proposing(v, id)
<1>1. DOMAIN v = VerdictField
  BY DEF IsVerdict
<1>2. w = [f \in VerdictField |-> Now(f)]
  <2>1. w = [f \in DOMAIN v |-> Now(f)]
    BY Zenon DEF Proposing
  <2> QED BY <2>1, <1>1
<1> HIDE DEF w
<1>3. \A f \in VerdictField : w[f] = Now(f)
  BY <1>2, Zenon
<1>4. w = [f \in VerdictField |-> w[f]]
  BY <1>2, Zenon
<1> QED BY <1>3, <1>4 DEF IsVerdict, VerdictField, w

Undoing(v, section) ==
    [v EXCEPT !.supersession = Unset, !.section = section,
              !.required = TRUE, !.conflicts = v.accepted]

Settled(v, section) == IF Cardinality(v.accepted) > 1 THEN Undoing(v, section) ELSE v

\* What more than one accepted replacement does to a verdict.
LEMMA UndoneIs ==
    ASSUME NEW v, IsVerdict(v), NEW section
    PROVE  LET w == Undoing(v, section) IN
           /\ IsVerdict(w)
           /\ w.accepted = v.accepted /\ w.proposed = v.proposed
           /\ w.supersession = Unset /\ w.section = section /\ w.required
           /\ w.conflicts = v.accepted
<1> DEFINE Now(f) == CASE f = "conflicts" -> v.accepted
                       [] f = "supersession" -> Unset
                       [] f = "section" -> section
                       [] f = "required" -> TRUE
                       [] OTHER -> v[f]
           w == Undoing(v, section)
<1>1. DOMAIN v = VerdictField
  BY DEF IsVerdict
<1>2. w = [f \in VerdictField |-> Now(f)]
  <2>1. w = [f \in DOMAIN v |->
               IF f = "conflicts" THEN v.accepted
               ELSE IF f = "required" THEN TRUE
               ELSE IF f = "section" THEN section
               ELSE IF f = "supersession" THEN Unset ELSE v[f]]
    BY Zenon DEF Undoing
  <2> QED BY <2>1, <1>1
<1> HIDE DEF w
<1>3. \A f \in VerdictField : w[f] = Now(f)
  BY <1>2, Zenon
<1>4. w = [f \in VerdictField |-> w[f]]
  BY <1>2, Zenon
<1> QED BY <1>3, <1>4 DEF IsVerdict, VerdictField, w

Contradicting(v, against) ==
    [v EXCEPT !.conflicts = @ \cup against, !.required = @ \/ against # {}]

\* What contradictions add to a verdict.
LEMMA ContradictedIs ==
    ASSUME NEW v, IsVerdict(v), NEW against
    PROVE  LET w == Contradicting(v, against) IN
           /\ (w.required <=> v.required \/ against # {})
           /\ \A f \in VerdictField \ {"conflicts", "required"} : w[f] = v[f]
<1> DEFINE w == Contradicting(v, against)
<1>1. DOMAIN v = VerdictField
  BY DEF IsVerdict
<1>2. w = [f \in DOMAIN v |-> IF f = "required" THEN v.required \/ against # {}
                              ELSE IF f = "conflicts" THEN v.conflicts \cup against ELSE v[f]]
  BY Zenon DEF Contradicting
<1> HIDE DEF w
<1>3. w["required"] = (v.required \/ against # {})
  BY <1>1, <1>2 DEF VerdictField
<1>4. \A f \in VerdictField \ {"conflicts", "required"} : w[f] = v[f]
  BY <1>1, <1>2
<1> QED BY <1>3, <1>4 DEF w

----------------------------------------------------------------------------
(* Policy: one candidate after the other *)

Weighing(ms, v, i, n) == IF n \in Candidates(ms, i) THEN Consider(ms, v, i, n) ELSE v

LEMMA ConsideredIs ==
    ASSUME NEW ms, NEW i, Len(ms) \in Nat
    PROVE  /\ Considered(ms, i)[0] = Verdict(ms[i])
           /\ \A n \in 1 .. Len(ms) :
                Considered(ms, i)[n] = Weighing(ms, Considered(ms, i)[n - 1], i, n)
<1> DEFINE N == Len(ms)
           first == Verdict(ms[i])
           Computes(f, j) == f[0] = first /\ \A n \in 1 .. j : f[n] = Weighing(ms, f[n - 1], i, n)
           Value(f, n) == IF n = 0 THEN Verdict(ms[i])
                          ELSE IF n \in Candidates(ms, i) THEN Consider(ms, f[n - 1], i, n)
                          ELSE f[n - 1]
           Is(f) == f = [n \in 0 .. Len(ms) |-> Value(f, n)]
           T == {j \in 0 .. N : \E f : f = [n \in 0 .. j |-> f[n]] /\ Computes(f, j)}
<1>n. N \in Nat
  OBVIOUS
<1> HIDE DEF N, first
<1>1. 0 \in T
  <2> DEFINE g == [k \in 0 .. 0 |-> first]
  <2>1. g = [k \in 0 .. 0 |-> g[k]] /\ g[0] = first
    OBVIOUS
  <2>2. \A k \in 1 .. 0 : g[k] = Weighing(ms, g[k - 1], i, k)
    OBVIOUS
  <2> HIDE DEF g
  <2> QED BY <1>n, <2>1, <2>2
<1>2. ASSUME NEW j \in 0 .. N - 1, j \in T PROVE j + 1 \in T
  <2>1. PICK f : f = [n \in 0 .. j |-> f[n]] /\ Computes(f, j)
    BY <1>2
  <2> DEFINE next == Weighing(ms, f[j], i, j + 1)
             g == [k \in 0 .. j + 1 |-> IF k = j + 1 THEN next ELSE f[k]]
  <2> HIDE DEF next
  <2>3. g = [k \in 0 .. j + 1 |-> g[k]] /\ g[j + 1] = next /\ \A k \in 0 .. j : g[k] = f[k]
    BY <1>n
  <2> HIDE DEF g
  <2>4. g[0] = first
    BY <2>1, <2>3, <1>n
  <2>5. ASSUME NEW k \in 1 .. j + 1 PROVE g[k] = Weighing(ms, g[k - 1], i, k)
    <3>1. CASE k = j + 1
      <4>0. j \in Int /\ j \in 0 .. j
        BY <1>n
      <4>1. k - 1 = j /\ g[j] = f[j]
        <5>1. k - 1 = j
          BY <3>1, <4>0
        <5> QED BY <2>3, <4>0, <5>1
      <4>2. Weighing(ms, g[k - 1], i, k) = Weighing(ms, f[j], i, j + 1)
        BY <3>1, <4>1, Zenon
      <4> QED BY <2>3, <3>1, <4>2 DEF next
    <3>2. CASE k # j + 1
      <4>1. k \in 1 .. j /\ k \in 0 .. j /\ k - 1 \in 0 .. j
        BY <3>2, <1>n
      <4>2. f[k] = Weighing(ms, f[k - 1], i, k) /\ g[k] = f[k] /\ g[k - 1] = f[k - 1]
        BY <2>1, <2>3, <4>1
      <4> QED BY <4>2, Zenon
    <3> QED BY <3>1, <3>2
  <2>6. Computes(g, j + 1)
    BY <2>4, <2>5
  <2>7. j + 1 \in 0 .. N
    BY <1>n
  <2> QED BY <2>3, <2>6, <2>7
<1> HIDE DEF T
<1>3. N \in T
  <2>1. 0 .. N \subseteq T
    BY <1>1, <1>2, <1>n, ReachesAll
  <2> QED BY <2>1, <1>n
<1>4. PICK f : f = [n \in 0 .. N |-> f[n]] /\ Computes(f, N)
  BY <1>3 DEF T
<1>5. \A k \in 0 .. N : f[k] = Value(f, k)
  <2> SUFFICES ASSUME NEW k \in 0 .. N PROVE f[k] = Value(f, k)
    OBVIOUS
  <2>1. CASE k = 0
    BY <1>4, <2>1 DEF first
  <2>2. CASE k # 0
    <3>1. k \in 1 .. N
      BY <2>2
    <3>2. f[k] = Weighing(ms, f[k - 1], i, k)
      BY <1>4, <3>1
    <3> QED BY <2>2, <3>2, Zenon DEF Weighing
  <2> QED BY <2>1, <2>2
<1> HIDE DEF Value
<1>6. f = [k \in 0 .. N |-> Value(f, k)]
  BY <1>4, <1>5
<1>7. Is(f)
  BY <1>6 DEF N
<1>8. Is(Considered(ms, i))
  BY <1>7, Zenon DEF Considered, Value
<1> DEFINE c == Considered(ms, i)
<1> HIDE DEF c
<1>9. c = [k \in 0 .. N |-> Value(c, k)]
  BY <1>8 DEF c, N
<1>10. \A k \in 0 .. N : c[k] = Value(c, k)
  BY <1>9
<1>11. c[0] = Verdict(ms[i])
  BY <1>10, <1>n DEF Value
<1>12. ASSUME NEW k \in 1 .. N PROVE c[k] = Weighing(ms, c[k - 1], i, k)
  <2>1. k \in 0 .. N /\ k # 0
    BY <1>n
  <2>2. c[k] = Value(c, k)
    BY <1>10, <2>1
  <2> QED BY <2>1, <2>2, Zenon DEF Value, Weighing
<1> QED BY <1>11, <1>12 DEF c, N

\* Record j is an accepted replacement of record i, of another version.
Approved(ms, i, j) ==
    /\ Acceptance(ms[j]) = "accepted" /\ Content(ms[i]) # Content(ms[j])
    /\ ~(Upstream(ms, i, j) /\ ms[i].id = ms[j].id)

\* A verdict hides record i on account of record j.
HiddenBy(ms, v, i, j) ==
    /\ Approved(ms, i, j) /\ ~Upstream(ms, i, j)
    /\ v.supersession = ms[j].id /\ ms[j].id \in v.accepted

\* Record j is the accepted upstream version of the pending record i.
Confirms(ms, i, j) ==
    /\ Content(ms[i]) # Content(ms[j]) /\ Upstream(ms, i, j) /\ ms[i].id = ms[j].id
    /\ Resolves(ms, i, j)

\* Record j is proposed as a replacement of record i.
Offers(ms, i, j) ==
    /\ Content(ms[i]) # Content(ms[j]) /\ ~(Upstream(ms, i, j) /\ ms[i].id = ms[j].id)
    /\ Acceptance(ms[j]) # "accepted" /\ Scope(ms[i]) = Scope(ms[j])

\* What considering record j for record i can mean.
Considering(ms, v, w, i, j) ==
    \/ /\ w = v
       /\ ~Approved(ms, i, j) /\ ~Confirms(ms, i, j) /\ ~Offers(ms, i, j)
    \/ /\ w = SameUpstream(ms, v, i, j) /\ Resolves(ms, i, j)
       /\ ~Approved(ms, i, j) /\ Confirms(ms, i, j) /\ ~Offers(ms, i, j)
    \/ /\ w = Superseding(ms, v, i, j)
       /\ Approved(ms, i, j) /\ ~Confirms(ms, i, j) /\ ~Offers(ms, i, j)
    \/ /\ w = Proposing(v, ms[j].id)
       /\ ~Approved(ms, i, j) /\ ~Confirms(ms, i, j) /\ Offers(ms, i, j)

LEMMA ConsiderCases ==
    ASSUME NEW ms, NEW i, NEW j, NEW v
    PROVE  Considering(ms, v, Consider(ms, v, i, j), i, j)
<1> DEFINE same == Content(ms[i]) = Content(ms[j])
           itself == Upstream(ms, i, j) /\ ms[i].id = ms[j].id
           proposal == Proposing(v, ms[j].id)
           yes == Acceptance(ms[j]) = "accepted"
           scope == Scope(ms[i]) = Scope(ms[j])
           w == Consider(ms, v, i, j)
<1>1. w = CASE same -> v
            [] ~same /\ itself -> SameUpstream(ms, v, i, j)
            [] OTHER -> IF yes THEN Superseding(ms, v, i, j)
                        ELSE IF scope THEN proposal ELSE v
  BY Zenon DEF Consider, Proposing
<1>2. ~Resolves(ms, i, j) => SameUpstream(ms, v, i, j) = v
  BY Zenon DEF SameUpstream, Resolves
<1>3. /\ Approved(ms, i, j) <=> yes /\ ~same /\ ~itself
      /\ Confirms(ms, i, j) <=> ~same /\ itself /\ Resolves(ms, i, j)
      /\ Offers(ms, i, j) <=> ~same /\ ~itself /\ ~yes /\ scope
  BY Zenon DEF Approved, Confirms, Offers
<1>5. CASE same
  <2>1. w = v
    BY <1>1, <1>5
  <2> QED BY <2>1, <1>3, <1>5, Zenon DEF Considering
<1>6. CASE ~same /\ itself
  <2>1. w = SameUpstream(ms, v, i, j)
    BY <1>1, <1>6
  <2>2. CASE Resolves(ms, i, j)
    BY <2>1, <2>2, <1>3, <1>6, Zenon DEF Considering
  <2>3. CASE ~Resolves(ms, i, j)
    BY <2>1, <2>3, <1>2, <1>3, <1>6, Zenon DEF Considering
  <2> QED BY <2>2, <2>3
<1>7. CASE ~same /\ ~itself
  <2>1. w = IF yes THEN Superseding(ms, v, i, j) ELSE IF scope THEN proposal ELSE v
    BY <1>1, <1>7
  <2>2. CASE yes
    BY <2>1, <2>2, <1>3, <1>7, Zenon DEF Considering
  <2>3. CASE ~yes /\ scope
    BY <2>1, <2>3, <1>3, <1>7, Zenon DEF Considering
  <2>4. CASE ~yes /\ ~scope
    BY <2>1, <2>4, <1>3, <1>7, Zenon DEF Considering
  <2> QED BY <2>2, <2>3, <2>4
<1> QED BY <1>5, <1>6, <1>7

\* A verdict stays one, keeps what it accepted, and hides a record only for an
\* approved replacement of its own branch.
LEMMA ConsiderIs ==
    ASSUME NEW ms, NEW i, NEW j, NEW v, IsVerdict(v), IsFiniteSet(v.accepted)
    PROVE  LET w == Consider(ms, v, i, j) IN
           /\ IsVerdict(w) /\ IsFiniteSet(w.accepted) /\ v.accepted \subseteq w.accepted
           /\ \/ w.required = v.required /\ w.supersession = v.supersession
              \/ w.required
              \/ HiddenBy(ms, w, i, j)
           /\ Approved(ms, i, j) => ms[j].id \in w.accepted
<1> DEFINE w == Consider(ms, v, i, j)
<1> HIDE DEF w
<1>f. IsFiniteSet(v.accepted \cup {ms[j].id})
  BY FS_AddElement
<1>1. CASE w = v /\ ~Approved(ms, i, j)
  BY <1>1 DEF w
<1>2. CASE /\ w = SameUpstream(ms, v, i, j) /\ ~Approved(ms, i, j)
           /\ Resolves(ms, i, j)
  <2>1. IsVerdict(w) /\ w.accepted = v.accepted \cup {ms[j].id} /\ w.required
    <3>1. LET u == SameUpstream(ms, v, i, j) IN
          IsVerdict(u) /\ u.accepted = v.accepted \cup {ms[j].id} /\ u.required
      <4>1. Resolves(ms, i, j)
        BY <1>2
      <4> HIDE <1>2
      <4> QED BY <4>1, SameUpstreamIs
    <3> QED BY <1>2, <3>1, Zenon
  <2>2. IsFiniteSet(w.accepted) /\ v.accepted \subseteq w.accepted
    BY <2>1, <1>f, Zenon
  <2> QED BY <1>2, <2>1, <2>2, Zenon DEF w
<1>3. CASE w = Superseding(ms, v, i, j) /\ Approved(ms, i, j)
  <2>1. /\ IsVerdict(w) /\ w.accepted = v.accepted \cup {ms[j].id}
        /\ w.supersession = ms[j].id /\ (w.required <=> Upstream(ms, i, j))
    BY <1>3, SupersedingIs
  <2>2. IsFiniteSet(w.accepted) /\ v.accepted \subseteq w.accepted /\ ms[j].id \in w.accepted
    BY <2>1, <1>f, Zenon
  <2>3. w.required \/ ~Upstream(ms, i, j)
    BY <2>1, Zenon DEF Upstream
  <2> QED BY <1>3, <2>1, <2>2, <2>3, Zenon DEF w, HiddenBy
<1>4. CASE w = Proposing(v, ms[j].id) /\ ~Approved(ms, i, j)
  <2>1. IsVerdict(w) /\ \A f \in VerdictField \ {"proposed"} : w[f] = v[f]
    <3>1. LET u == Proposing(v, ms[j].id) IN
          IsVerdict(u) /\ \A f \in VerdictField \ {"proposed"} : u[f] = v[f]
      BY ProposedIs, Zenon
    <3> QED BY <1>4, <3>1, Zenon
  <2>2. w.accepted = v.accepted /\ w.required = v.required /\ w.supersession = v.supersession
    BY <2>1 DEF VerdictField
  <2>3. IsFiniteSet(w.accepted) /\ v.accepted \subseteq w.accepted
    BY <2>2, Zenon
  <2> QED BY <1>4, <2>1, <2>2, <2>3, Zenon DEF w
<1>5. Considering(ms, v, w, i, j)
  BY ConsiderCases, Zenon DEF w
<1> QED BY <1>1, <1>2, <1>3, <1>4, <1>5, Zenon DEF w, Considering

\* After the first n records a verdict shows a record that must be shown, or
\* hides it on account of an approved replacement, and it holds all of those met so far.
Weighed(ms, i, n) ==
    LET v == Considered(ms, i)[n] IN
    /\ IsVerdict(v) /\ IsFiniteSet(v.accepted)
    /\ MustShow(ms[i]) => v.required \/ \E j \in Candidates(ms, i) : HiddenBy(ms, v, i, j)
    /\ \A k \in Candidates(ms, i) : k <= n /\ Approved(ms, i, k) => ms[k].id \in v.accepted

LEMMA AllWeighed ==
    ASSUME NEW ms \in Seq(Records), NEW i
    PROVE  \A n \in 0 .. Len(ms) : Weighed(ms, i, n)
<1> DEFINE N == Len(ms)
           C == Candidates(ms, i)
           c == Considered(ms, i)
           T == {n \in 0 .. N : Weighed(ms, i, n)}
<1>n. N \in Nat
  OBVIOUS
<1>d. C \subseteq 1 .. N
  <2>1. DOMAIN ms = 1 .. N
    OBVIOUS
  <2> HIDE DEF N
  <2> QED BY <2>1, Zenon DEF Candidates
<1>c. c[0] = Verdict(ms[i]) /\ \A n \in 1 .. N : c[n] = Weighing(ms, c[n - 1], i, n)
  BY <1>n, ConsideredIs
<1> HIDE DEF N, C, c
<1>1. 0 \in T
  <2>1. IsVerdict(c[0]) /\ c[0].accepted = {} /\ c[0].required = MustShow(ms[i])
    BY <1>c, VerdictIs, Zenon
  <2>2. IsFiniteSet(c[0].accepted)
    BY <2>1, FS_EmptySet, Zenon
  <2>3. \A k \in C : ~(k <= 0)
    BY <1>d, <1>n
  <2>4. Weighed(ms, i, 0)
    BY <2>1, <2>2, <2>3, Zenon DEF Weighed, c, C
  <2> QED BY <2>4, <1>n
<1>2. ASSUME NEW m \in 0 .. N - 1, m \in T PROVE m + 1 \in T
  <2> DEFINE n == m + 1
             v == c[m]
             w == c[n]
  <2>1. n \in 1 .. N /\ n \in 0 .. N /\ n - 1 = m
    BY <1>n
  <2>2. w = Weighing(ms, v, i, n)
    BY <2>1, <1>c
  <2>3. /\ IsVerdict(v) /\ IsFiniteSet(v.accepted)
        /\ MustShow(ms[i]) => v.required \/ \E j \in C : HiddenBy(ms, v, i, j)
        /\ \A k \in C : k <= m /\ Approved(ms, i, k) => ms[k].id \in v.accepted
    BY <1>2, Zenon DEF Weighed, c, C
  <2>4. \A k \in C : k <= n => k <= m \/ k = n
    BY <1>d, <1>n, <2>1
  <2> HIDE DEF n, v, w
  <2>5. CASE n \notin C
    <3>1. w = v
      BY <2>2, <2>5, Zenon DEF Weighing, C
    <3>2. \A k \in C : k <= n => k <= m
      BY <2>4, <2>5, Zenon
    <3>3. Weighed(ms, i, n)
      BY <2>3, <3>1, <3>2, Zenon DEF Weighed, c, C, w
    <3> QED BY <3>3, <2>1 DEF n
  <2>6. CASE n \in C
    <3>1. w = Consider(ms, v, i, n)
      BY <2>2, <2>6, Zenon DEF Weighing, C
    <3>2. /\ IsVerdict(w) /\ IsFiniteSet(w.accepted) /\ v.accepted \subseteq w.accepted
          /\ \/ w.required = v.required /\ w.supersession = v.supersession
             \/ w.required
             \/ HiddenBy(ms, w, i, n)
          /\ Approved(ms, i, n) => ms[n].id \in w.accepted
      BY <2>3, <3>1, ConsiderIs, Zenon
    <3>3. MustShow(ms[i]) => w.required \/ \E j \in C : HiddenBy(ms, w, i, j)
      <4> SUFFICES ASSUME MustShow(ms[i]), ~w.required
                   PROVE  \E j \in C : HiddenBy(ms, w, i, j)
        OBVIOUS
      <4>1. CASE HiddenBy(ms, w, i, n)
        BY <4>1, <2>6, Zenon
      <4>2. CASE w.required = v.required /\ w.supersession = v.supersession
        <5>1. PICK j \in C : HiddenBy(ms, v, i, j)
          BY <2>3, <4>2, Zenon
        <5>2. HiddenBy(ms, w, i, j)
          BY <5>1, <4>2, <3>2, Zenon DEF HiddenBy
        <5> QED BY <5>2, Zenon
      <4> QED BY <3>2, <4>1, <4>2, Zenon
    <3>4. \A k \in C : k <= n /\ Approved(ms, i, k) => ms[k].id \in w.accepted
      BY <2>3, <2>4, <3>2, Zenon
    <3>5. Weighed(ms, i, n)
      BY <3>2, <3>3, <3>4, Zenon DEF Weighed, c, C, w
    <3> QED BY <3>5, <2>1 DEF n
  <2> QED BY <2>5, <2>6
<1> HIDE DEF T
<1>3. 0 .. N \subseteq T
  BY <1>1, <1>2, <1>n, ReachesAll
<1> QED BY <1>3 DEF T, N

----------------------------------------------------------------------------
(* Policy: what a briefing leaves out *)

LEMMA TwoAreSeveral ==
    ASSUME NEW S, IsFiniteSet(S), NEW a \in S, NEW b \in S, a # b
    PROVE  Cardinality(S) > 1
<1>1. IsFiniteSet({a}) /\ Cardinality({a}) = 1
  BY FS_Singleton
<1>2. Cardinality({a} \cup {b}) = 2
  <2>1. b \notin {a}
    OBVIOUS
  <2> QED BY <1>1, <2>1, FS_AddElement
<1>3. Cardinality({a} \cup {b}) <= Cardinality(S)
  <2>1. {a} \cup {b} \in SUBSET S
    OBVIOUS
  <2> QED BY <2>1, FS_Subset
<1>4. Cardinality(S) \in Nat
  BY FS_CardinalityType
<1> QED BY <1>2, <1>3, <1>4

LEMMA AcceptedIsEntitled ==
    ASSUME NEW m, Acceptance(m) = "accepted"
    PROVE  m.status \in Accepted /\ Entitled(m.decider)
<1>1. Entitled(m.decider)
  BY DEF Acceptance
<1>2. Meaning(m.status) = "accepted"
  BY <1>1 DEF Acceptance
<1>3. m.status \in Accepted
  BY <1>2 DEF Meaning
<1> QED BY <1>1, <1>3

LEMMA ContentHasId ==
    ASSUME NEW m \in Records, NEW n \in Records, m.id # n.id
    PROVE  Content(m) # Content(n)
<1>1. ASSUME NEW r \in Records PROVE Content(r).id = r.id
  <2>1. "id" \in DOMAIN r
    BY RecordsAssumption
  <2> QED BY <2>1 DEF Content
<1> QED BY <1>1, Zenon

LEMMA HiddenForOne ==
    ASSUME PolicyTypeOK, NEW i \in DOMAIN members, MustShow(members[i]),
           ~Reconciled(members)[i].required
    PROVE  LET v == Considered(members, i)[Len(members)] IN
           /\ \E j \in Candidates(members, i) : HiddenBy(members, v, i, j)
           /\ Reconciled(members)[i].supersession = v.supersession
           /\ \A a, b \in v.accepted : a = b
           /\ \A k \in Candidates(members, i) :
                Approved(members, i, k) => members[k].id \in v.accepted
<1> DEFINE ms == members
           v == Considered(ms, i)[Len(ms)]
           judged == Judged(ms, i)
           undone == Undoing(v, Section(ms[i]))
           against == {ms[j].id : j \in {k \in DOMAIN ms : Contradict(ms, i, k)}}
           result == Reconciled(ms)[i]
<1>0. ms \in Seq(Records) /\ Len(ms) \in Nat /\ DOMAIN ms = 1 .. Len(ms)
  BY DEF PolicyTypeOK
<1>1. Weighed(ms, i, Len(ms))
  <2>1. Len(ms) \in 0 .. Len(ms)
    BY <1>0
  <2> QED BY <1>0, <2>1, AllWeighed, Zenon
<1>2. /\ IsVerdict(v) /\ IsFiniteSet(v.accepted)
      /\ MustShow(ms[i]) => v.required \/ \E j \in Candidates(ms, i) : HiddenBy(ms, v, i, j)
      /\ \A k \in Candidates(ms, i) :
           k <= Len(ms) /\ Approved(ms, i, k) => ms[k].id \in v.accepted
  BY <1>1, Zenon DEF Weighed
<1>3. \A k \in Candidates(ms, i) : k <= Len(ms)
  <2>1. Candidates(ms, i) \subseteq 1 .. Len(ms)
    BY <1>0, Zenon DEF Candidates
  <2> QED BY <2>1, <1>0
<1>4. judged = IF Cardinality(v.accepted) > 1 THEN undone ELSE v
  BY Zenon DEF Judged, Undoing
<1>5. IsVerdict(undone) /\ undone.required
  BY <1>2, UndoneIs, Zenon
<1>6. result = Contradicting(judged, against)
  BY <1>0, Zenon DEF Reconciled, Contradicting
<1> HIDE DEF v, undone, against, result, judged
<1>7. IsVerdict(judged)
  BY <1>2, <1>4, <1>5, Zenon
<1>8. /\ (result.required <=> judged.required \/ against # {})
      /\ \A f \in VerdictField \ {"conflicts", "required"} : result[f] = judged[f]
  <2>1. LET w == Contradicting(judged, against) IN
        /\ (w.required <=> judged.required \/ against # {})
        /\ \A f \in VerdictField \ {"conflicts", "required"} : w[f] = judged[f]
    BY <1>7, ContradictedIs
  <2>2. result.required <=> Contradicting(judged, against).required
    BY <1>6
  <2>3. \A f : result[f] = Contradicting(judged, against)[f]
    BY <1>6, Zenon
  <2> QED BY <2>1, <2>2, <2>3, Zenon
<1>9. ~judged.required
  BY <1>8, Zenon DEF result
<1>10. ~(Cardinality(v.accepted) > 1) /\ judged = v
  BY <1>4, <1>5, <1>9, Zenon
<1>11. result.supersession = v.supersession
  BY <1>8, <1>10 DEF VerdictField
<1>12. \A a, b \in v.accepted : a = b
  BY <1>2, <1>10, TwoAreSeveral, Zenon
<1>13. \E j \in Candidates(ms, i) : HiddenBy(ms, v, i, j)
  BY <1>2, <1>9, <1>10, Zenon
<1> QED BY <1>2, <1>3, <1>11, <1>12, <1>13, Zenon DEF v, result

\* A view is a list of records, however it comes about.
THEOREM PolicyInvariant == PolicySpec => []PolicyTypeOK
<1>1. PolicyInit => PolicyTypeOK
  BY DEF PolicyInit, PolicyTypeOK
<1>2. PolicyTypeOK /\ [PolicyNext]_members => PolicyTypeOK'
  BY DEF PolicyTypeOK, PolicyNext, AddRecord
<1> QED BY <1>1, <1>2, PTL DEF PolicySpec

\* A record that must be shown disappears from a briefing only for one approved
\* replacement of its own branch with which no other contends (reconcile).
THEOREM OnlyApproved == PolicySpec => []OnlyApprovedReplaces
<1>1. PolicyTypeOK => OnlyApprovedReplaces
  <2> SUFFICES ASSUME PolicyTypeOK, NEW i \in DOMAIN members, MustShow(members[i]),
                      ~Reconciled(members)[i].required
               PROVE  \E j \in DOMAIN members :
                /\ j # i /\ Scope(members[j]) = Scope(members[i])
                /\ members[j].status \in Accepted
                /\ Approvers # Unset =>
                       (IF members[j].decider = Unset THEN ~RequireAttribution
                        ELSE members[j].decider \in Approvers)
                /\ Reconciled(members)[i].supersession = members[j].id
                /\ \A k \in DOMAIN members :
                       /\ Replaces(members, k, i) \/ ReplacedBy(members, i, k)
                       /\ Acceptance(members[k]) = "accepted"
                       /\ members[k].id # members[i].id
                       => members[k].id = members[j].id
    BY Zenon DEF OnlyApprovedReplaces
  <2> DEFINE v == Considered(members, i)[Len(members)]
  <2>1. /\ \E j \in Candidates(members, i) : HiddenBy(members, v, i, j)
        /\ Reconciled(members)[i].supersession = v.supersession
        /\ \A a, b \in v.accepted : a = b
        /\ \A k \in Candidates(members, i) :
             Approved(members, i, k) => members[k].id \in v.accepted
    BY HiddenForOne, Zenon
  <2> HIDE DEF v
  <2>2. PICK j \in Candidates(members, i) : HiddenBy(members, v, i, j)
    BY <2>1
  <2>3. j \in DOMAIN members
    BY Zenon DEF Candidates
  <2>4. /\ Acceptance(members[j]) = "accepted"
        /\ Content(members[i]) # Content(members[j]) /\ ~Upstream(members, i, j)
        /\ v.supersession = members[j].id /\ members[j].id \in v.accepted
    BY <2>2, Zenon DEF HiddenBy, Approved
  <2>5. j # i
    BY <2>4, Zenon
  <2>6. Scope(members[j]) = Scope(members[i])
    BY <2>4, Zenon DEF Candidates, Replaces, ReplacedBy, Upstream
  <2>7. members[j].status \in Accepted /\ Entitled(members[j].decider)
    BY <2>4, AcceptedIsEntitled, Zenon
  <2>8. Approvers # Unset =>
            (IF members[j].decider = Unset THEN ~RequireAttribution
             ELSE members[j].decider \in Approvers)
    BY <2>7, Zenon DEF Entitled
  <2>9. ASSUME NEW k \in DOMAIN members,
               Replaces(members, k, i) \/ ReplacedBy(members, i, k),
               Acceptance(members[k]) = "accepted", members[k].id # members[i].id
        PROVE  members[k].id = members[j].id
    <3>1. k \in Candidates(members, i)
      BY <2>9, Zenon DEF Candidates
    <3>2. members[k] \in Records /\ members[i] \in Records
      BY DEF PolicyTypeOK
    <3>3. Content(members[i]) # Content(members[k])
      BY <2>9, <3>2, ContentHasId, Zenon
    <3>4. Approved(members, i, k)
      BY <2>9, <3>3, Zenon DEF Approved
    <3> QED BY <2>1, <2>4, <3>1, <3>4, Zenon
  <2>10. Reconciled(members)[i].supersession = members[j].id
    BY <2>1, <2>4, Zenon
  <2> QED BY <2>3, <2>5, <2>6, <2>7, <2>8, <2>9, <2>10, Zenon
<1> QED BY <1>1, PolicyInvariant, PTL

----------------------------------------------------------------------------
(* Policy: the same records in another order *)

\* os has the records of ms, the one at i at place p[i], and p is its own inverse.
Reorders(ms, os, p) ==
    /\ DOMAIN os = DOMAIN ms /\ p \in [DOMAIN ms -> DOMAIN ms]
    /\ \A i \in DOMAIN ms : p[p[i]] = i /\ os[p[i]] = ms[i] /\ os[i] = ms[p[i]]

LEMMA ReorderedNames ==
    ASSUME NEW ms, NEW os, NEW p, Reorders(ms, os, p),
           NEW scope, NEW references, NEW j \in DOMAIN ms
    PROVE  j \in Unambiguous(ms, scope, references) <=> p[j] \in Unambiguous(os, scope, references)
<1>0. /\ DOMAIN os = DOMAIN ms /\ p[j] \in DOMAIN ms
      /\ \A i \in DOMAIN ms : p[i] \in DOMAIN ms
      /\ \A i \in DOMAIN ms : p[p[i]] = i /\ os[p[i]] = ms[i] /\ os[i] = ms[p[i]]
  BY DEF Reorders
<1>1. \A r : \A i \in DOMAIN ms : i \in Resolved(ms, scope, r) <=> p[i] \in Resolved(os, scope, r)
  BY <1>0, Zenon DEF Resolved
<1>2. \A r : Resolved(ms, scope, r) \subseteq DOMAIN ms /\ Resolved(os, scope, r) \subseteq DOMAIN ms
  BY <1>0, Zenon DEF Resolved
<1>3. ASSUME NEW r PROVE Resolved(ms, scope, r) = {j} <=> Resolved(os, scope, r) = {p[j]}
  <2> DEFINE R == Resolved(ms, scope, r)
             Q == Resolved(os, scope, r)
  <2>1. /\ R \subseteq DOMAIN ms /\ Q \subseteq DOMAIN ms
        /\ \A i \in DOMAIN ms : i \in R <=> p[i] \in Q
    BY <1>1, <1>2, Zenon
  <2> HIDE DEF R, Q
  <2>2. ASSUME R = {j} PROVE Q = {p[j]}
    <3>1. p[j] \in Q
      BY <2>1, <2>2
    <3>2. ASSUME NEW q \in Q PROVE q = p[j]
      <4>1. q \in DOMAIN ms /\ p[q] \in DOMAIN ms /\ p[p[q]] = q
        BY <1>0, <2>1, <3>2
      <4>2. p[q] \in R
        BY <4>1, <2>1, <3>2
      <4> QED BY <4>1, <4>2, <2>2
    <3> QED BY <3>1, <3>2
  <2>3. ASSUME Q = {p[j]} PROVE R = {j}
    <3>1. j \in R
      BY <2>1, <2>3
    <3>2. ASSUME NEW i \in R PROVE i = j
      <4>1. i \in DOMAIN ms /\ p[i] \in Q /\ p[p[i]] = i /\ p[p[j]] = j
        BY <1>0, <2>1, <3>2
      <4> QED BY <4>1, <2>3
    <3> QED BY <3>1, <3>2
  <2> QED BY <2>2, <2>3 DEF R, Q
<1> QED BY <1>0, <1>3, Zenon DEF Unambiguous

LEMMA ReorderedLinks ==
    ASSUME NEW ms, NEW os, NEW p, Reorders(ms, os, p),
           NEW i \in DOMAIN ms, NEW j \in DOMAIN ms
    PROVE  /\ Replaces(ms, i, j) <=> Replaces(os, p[i], p[j])
           /\ ReplacedBy(ms, i, j) <=> ReplacedBy(os, p[i], p[j])
           /\ Upstream(ms, i, j) <=> Upstream(os, p[i], p[j])
           /\ j \in Candidates(ms, i) <=> p[j] \in Candidates(os, p[i])
<1>0. /\ DOMAIN os = DOMAIN ms /\ os[p[i]] = ms[i] /\ os[p[j]] = ms[j]
      /\ p[i] \in DOMAIN ms /\ p[j] \in DOMAIN ms
  BY DEF Reorders
<1>1. ASSUME NEW k \in DOMAIN ms, NEW l \in DOMAIN ms
      PROVE  Replaces(ms, k, l) <=> Replaces(os, p[k], p[l])
  <2>1. os[p[k]] = ms[k] /\ os[p[l]] = ms[l]
    BY DEF Reorders
  <2>2. l \in Unambiguous(ms, Scope(ms[l]), ms[k].replacements)
          <=> p[l] \in Unambiguous(os, Scope(ms[l]), ms[k].replacements)
    BY ReorderedNames, Zenon
  <2> QED BY <2>1, <2>2, Zenon DEF Replaces
<1>2. ReplacedBy(ms, i, j) <=> ReplacedBy(os, p[i], p[j])
  <2>1. j \in Unambiguous(ms, Scope(ms[j]), ms[i].replacedBy)
          <=> p[j] \in Unambiguous(os, Scope(ms[j]), ms[i].replacedBy)
    BY ReorderedNames, Zenon
  <2> QED BY <1>0, <2>1, Zenon DEF ReplacedBy
<1>3. Upstream(ms, i, j) <=> Upstream(os, p[i], p[j])
  BY <1>0, Zenon DEF Upstream
<1>4. j \in Candidates(ms, i) <=> p[j] \in Candidates(os, p[i])
  BY <1>0, <1>1, <1>2, <1>3, Zenon DEF Candidates
<1> QED BY <1>1, <1>2, <1>3, <1>4, Zenon

\* What a record counts for against another depends on the two alone.
LEMMA ReorderedWeighing ==
    ASSUME NEW ms, NEW os, NEW p, Reorders(ms, os, p),
           NEW i \in DOMAIN ms, NEW j \in DOMAIN ms, NEW v
    PROVE  Weighing(os, v, p[i], p[j]) = Weighing(ms, v, i, j)
<1>0. os[p[i]] = ms[i] /\ os[p[j]] = ms[j]
  BY DEF Reorders
<1>1. Upstream(ms, i, j) = Upstream(os, p[i], p[j])
  BY <1>0, Zenon DEF Upstream
<1>2. SameUpstream(os, v, p[i], p[j]) = SameUpstream(ms, v, i, j)
  BY <1>0, Zenon DEF SameUpstream
<1>3. Superseding(os, v, p[i], p[j]) = Superseding(ms, v, i, j)
  BY <1>0, <1>1, Zenon DEF Superseding
<1>4. Consider(os, v, p[i], p[j]) = Consider(ms, v, i, j)
  BY <1>0, <1>1, <1>2, <1>3, Zenon DEF Consider
<1>5. j \in Candidates(ms, i) <=> p[j] \in Candidates(os, p[i])
  BY ReorderedLinks, Zenon
<1> QED BY <1>4, <1>5, Zenon DEF Weighing

\* The records that disagree with record i (the end of reconcile).
Contradictors(ms, i) == {ms[j].id : j \in {k \in DOMAIN ms : Contradict(ms, i, k)}}

LEMMA ReorderedContradictions ==
    ASSUME NEW ms, NEW os, NEW p, Reorders(ms, os, p), NEW i \in DOMAIN ms
    PROVE  Contradictors(os, p[i]) = Contradictors(ms, i)
<1>0. /\ DOMAIN os = DOMAIN ms
      /\ \A k \in DOMAIN ms : p[k] \in DOMAIN ms
      /\ \A k \in DOMAIN ms : p[p[k]] = k /\ os[p[k]] = ms[k] /\ os[k] = ms[p[k]]
  BY DEF Reorders
<1>1. ASSUME NEW k \in DOMAIN ms PROVE Targets(os, p[k]) = Targets(ms, k)
  <2>1. \A l \in DOMAIN ms : Replaces(ms, k, l) <=> Replaces(os, p[k], p[l])
    BY ReorderedLinks, Zenon
  <2> DEFINE Mine == {l \in DOMAIN ms : Scope(ms[l]) = Scope(ms[k]) /\ Replaces(ms, k, l)}
             Other == {l \in DOMAIN os :
                         Scope(os[l]) = Scope(os[p[k]]) /\ Replaces(os, p[k], l)}
  <2>2. \A l \in DOMAIN ms : l \in Mine <=> p[l] \in Other
    BY <1>0, <2>1, Zenon
  <2>3. Mine \subseteq DOMAIN ms /\ Other \subseteq DOMAIN ms
    BY <1>0, Zenon
  <2>4. Targets(ms, k) = {ms[l].id : l \in Mine} /\ Targets(os, p[k]) = {os[l].id : l \in Other}
    BY Zenon DEF Targets
  <2> HIDE DEF Mine, Other
  <2>5. ASSUME NEW l \in Mine PROVE ms[l].id \in {os[q].id : q \in Other}
    <3>1. p[l] \in Other /\ os[p[l]] = ms[l]
      BY <1>0, <2>2, <2>3, Zenon
    <3> QED BY <3>1, Zenon
  <2>6. ASSUME NEW l \in Other PROVE os[l].id \in {ms[q].id : q \in Mine}
    <3>1. p[l] \in DOMAIN ms /\ p[p[l]] = l /\ os[l] = ms[p[l]]
      BY <1>0, <2>3, Zenon
    <3>2. p[l] \in Mine
      BY <2>2, <3>1, Zenon
    <3> QED BY <3>1, <3>2, Zenon
  <2> QED BY <2>4, <2>5, <2>6
<1>2. ASSUME NEW k \in DOMAIN ms PROVE Contradict(os, p[i], p[k]) <=> Contradict(ms, i, k)
  <2>1. p[i] = p[k] <=> i = k
    BY <1>0, Zenon
  <2>2. Targets(os, p[k]) = Targets(ms, k) /\ Targets(os, p[i]) = Targets(ms, i)
    BY <1>1, Zenon
  <2>3. os[p[k]] = ms[k] /\ os[p[i]] = ms[i]
    BY <1>0, Zenon
  <2> QED BY <2>1, <2>2, <2>3, Zenon DEF Contradict
<1> DEFINE A == {os[j].id : j \in {k \in DOMAIN os : Contradict(os, p[i], k)}}
           B == {ms[j].id : j \in {k \in DOMAIN ms : Contradict(ms, i, k)}}
<1>3. A \subseteq B
  <2> SUFFICES ASSUME NEW x \in A PROVE x \in B
    BY Zenon
  <2>0. PICK k \in DOMAIN os : Contradict(os, p[i], k) /\ x = os[k].id
    BY Zenon
  <2>1. p[k] \in DOMAIN ms /\ p[p[k]] = k /\ os[k] = ms[p[k]]
    BY <1>0, <2>0, Zenon
  <2>2. Contradict(ms, i, p[k])
    BY <1>2, <2>0, <2>1, Zenon
  <2> QED BY <2>0, <2>1, <2>2, Zenon
<1>4. B \subseteq A
  <2> SUFFICES ASSUME NEW k \in DOMAIN ms, Contradict(ms, i, k) PROVE ms[k].id \in A
    BY Zenon
  <2>1. p[k] \in DOMAIN os /\ os[p[k]] = ms[k] /\ Contradict(os, p[i], p[k])
    BY <1>0, <1>2, Zenon
  <2> QED BY <2>1, Zenon
<1>5. Contradictors(os, p[i]) = A /\ Contradictors(ms, i) = B
  BY Zenon DEF Contradictors
<1> QED BY <1>3, <1>4, <1>5, Zenon

----------------------------------------------------------------------------
(* Policy: neighbours commute *)

Agree(v, w) ==
    v.section = w.section /\ v.supersession = w.supersession /\ v.required = w.required

LEMMA Agreeing ==
    /\ \A v : Agree(v, v)
    /\ \A v, w : Agree(v, w) => Agree(w, v)
    /\ \A u, v, w : Agree(u, v) /\ Agree(v, w) => Agree(u, w)
BY Zenon DEF Agree

\* Record j decides where record i is shown.
Marks(ms, i, j) ==
    j \in Candidates(ms, i) /\ (Approved(ms, i, j) \/ Confirms(ms, i, j))

Adds(ms, i, j) == IF Marks(ms, i, j) THEN {ms[j].id} ELSE {}

Suggests(ms, i, j) ==
    IF j \in Candidates(ms, i) /\ Offers(ms, i, j) THEN {ms[j].id} ELSE {}

\* Where it is shown, whatever was the case before.
Mark(ms, i, j) == Consider(ms, Verdict(ms[i]), i, j)

LEMMA MarkIs ==
    ASSUME NEW ms, NEW i, NEW j, NEW v, IsVerdict(v),
           Approved(ms, i, j) \/ Confirms(ms, i, j)
    PROVE  /\ Approved(ms, i, j) => Consider(ms, v, i, j) = Superseding(ms, v, i, j)
           /\ Confirms(ms, i, j) => /\ Consider(ms, v, i, j) = SameUpstream(ms, v, i, j)
                                    /\ Resolves(ms, i, j) /\ ~Approved(ms, i, j)
           /\ Agree(Consider(ms, v, i, j), Mark(ms, i, j))
<1>1. ASSUME NEW u
      PROVE  /\ Approved(ms, i, j) => Consider(ms, u, i, j) = Superseding(ms, u, i, j)
             /\ Confirms(ms, i, j) => /\ Consider(ms, u, i, j) = SameUpstream(ms, u, i, j)
                                      /\ Resolves(ms, i, j) /\ ~Approved(ms, i, j)
  <2>1. Considering(ms, u, Consider(ms, u, i, j), i, j)
    BY ConsiderCases, Zenon
  <2> QED BY <2>1, Zenon DEF Considering
<1> DEFINE z == Verdict(ms[i])
<1>2. IsVerdict(z)
  BY VerdictIs, Zenon
<1>3. CASE Approved(ms, i, j)
  <2>1. Agree(Superseding(ms, v, i, j), Superseding(ms, z, i, j))
    <3> HIDE DEF z
    <3>1. ASSUME NEW u, IsVerdict(u)
          PROVE  LET w == Superseding(ms, u, i, j) IN
                 /\ w.section = (IF Upstream(ms, i, j) THEN "resolved_upstream_not_local"
                                                       ELSE "superseded")
                 /\ w.supersession = ms[j].id
                 /\ IsVerdict(w) /\ (w.required <=> Upstream(ms, i, j))
      BY <3>1, SupersedingIs
    <3> DEFINE a == Superseding(ms, v, i, j)
               b == Superseding(ms, z, i, j)
    <3>2. /\ IsVerdict(a) /\ IsVerdict(b)
          /\ a.section = b.section /\ a.supersession = b.supersession
          /\ (a.required <=> b.required)
      BY <1>2, <3>1, Zenon
    <3> HIDE DEF a, b
    <3>3. a.required = b.required
      BY <3>2 DEF IsVerdict
    <3> QED BY <3>2, <3>3, Zenon DEF Agree, a, b
  <2>2. /\ Consider(ms, v, i, j) = Superseding(ms, v, i, j)
        /\ Consider(ms, z, i, j) = Superseding(ms, z, i, j)
    BY <1>1, <1>3, Zenon
  <2>3. Agree(Consider(ms, v, i, j), Mark(ms, i, j))
    BY <2>1, <2>2, Zenon DEF Mark
  <2>4. ~Confirms(ms, i, j)
    BY <1>1, <1>3, Zenon
  <2> QED BY <1>3, <2>2, <2>3, <2>4, Zenon
<1>4. CASE Confirms(ms, i, j)
  <2>1. Resolves(ms, i, j)
    BY <1>1, <1>4, Zenon
  <2>2. Agree(SameUpstream(ms, v, i, j), SameUpstream(ms, z, i, j))
    <3> HIDE DEF z
    <3>1. ASSUME NEW u, IsVerdict(u)
          PROVE  LET w == SameUpstream(ms, u, i, j) IN
                 /\ w.section = "resolved_upstream_not_local"
                 /\ w.supersession = Unset
                 /\ w.required = TRUE
      <4>1. SameUpstream(ms, u, i, j).required /\ IsVerdict(SameUpstream(ms, u, i, j))
        BY <3>1, <2>1, SameUpstreamIs
      <4>2. SameUpstream(ms, u, i, j).required = TRUE
        BY <4>1 DEF IsVerdict
      <4>3. LET w == SameUpstream(ms, u, i, j) IN
            w.section = "resolved_upstream_not_local" /\ w.supersession = Unset
        BY <3>1, <2>1, SameUpstreamIs
      <4> QED BY <4>2, <4>3
    <3> QED BY <1>2, <3>1 DEF Agree
  <2> QED BY <1>1, <1>4, <2>2, Zenon DEF Mark
<1> QED BY <1>1, <1>3, <1>4, Zenon

\* What weighing a record does, whatever was the case before.
LEMMA WeighingIs ==
    ASSUME NEW ms, NEW i, NEW j, NEW v, IsVerdict(v)
    PROVE  LET w == Weighing(ms, v, i, j) IN
           /\ IsVerdict(w)
           /\ w.accepted = v.accepted \cup Adds(ms, i, j)
           /\ w.proposed = v.proposed \cup Suggests(ms, i, j)
           /\ w.conflicts = v.conflicts
           /\ Marks(ms, i, j) => Agree(w, Mark(ms, i, j))
           /\ ~Marks(ms, i, j) => Agree(w, v)
<1> DEFINE w == Weighing(ms, v, i, j)
           c == Consider(ms, v, i, j)
           A == Adds(ms, i, j)
           S == Suggests(ms, i, j)
<1>0. Considering(ms, v, c, i, j)
  BY ConsiderCases, Zenon
<1>1. CASE j \notin Candidates(ms, i)
  <2>1. w = v /\ A = {} /\ S = {} /\ ~Marks(ms, i, j)
    BY <1>1, Zenon DEF Weighing, Adds, Suggests, Marks
  <2>2. Agree(w, v)
    BY <2>1, Zenon DEF Agree
  <2> HIDE DEF w, A, S
  <2>3. w.accepted = v.accepted \cup A /\ w.proposed = v.proposed \cup S
    BY <2>1
  <2> QED BY <2>1, <2>2, <2>3, Zenon DEF w, A, S
<1>2. CASE j \in Candidates(ms, i)
  <2>0. w = c
    BY <1>2, Zenon DEF Weighing
  <2>1. CASE c = v /\ ~Approved(ms, i, j) /\ ~Confirms(ms, i, j) /\ ~Offers(ms, i, j)
    <3>1. w = v /\ A = {} /\ S = {} /\ ~Marks(ms, i, j)
      BY <2>0, <2>1, Zenon DEF Adds, Suggests, Marks
    <3>2. Agree(w, v)
      BY <3>1, Zenon DEF Agree
    <3> HIDE DEF w, A, S
    <3>3. w.accepted = v.accepted \cup A /\ w.proposed = v.proposed \cup S
      BY <3>1
    <3> QED BY <3>1, <3>2, <3>3, Zenon DEF w, A, S
  <2>2. CASE /\ c = SameUpstream(ms, v, i, j) /\ Resolves(ms, i, j)
             /\ ~Approved(ms, i, j) /\ Confirms(ms, i, j) /\ ~Offers(ms, i, j)
    <3>1. A = {ms[j].id} /\ S = {} /\ Marks(ms, i, j)
      BY <1>2, <2>2, Zenon DEF Adds, Suggests, Marks
    <3>2. Agree(c, Mark(ms, i, j))
      BY <2>2, MarkIs, Zenon
    <3> HIDE DEF c, A, S
    <3>r. Resolves(ms, i, j)
      BY <2>2
    <3>3. LET u == SameUpstream(ms, v, i, j) IN
          IsVerdict(u) /\ u.accepted = v.accepted \cup {ms[j].id}
          /\ u.proposed = v.proposed /\ u.conflicts = v.conflicts
      BY <3>r, SameUpstreamIs
    <3>4. v.proposed = v.proposed \cup S
      BY <3>1
    <3> QED BY <2>0, <2>2, <3>1, <3>2, <3>3, <3>4, Zenon DEF c, A, S
  <2>3. CASE /\ c = Superseding(ms, v, i, j)
             /\ Approved(ms, i, j) /\ ~Confirms(ms, i, j) /\ ~Offers(ms, i, j)
    <3>1. A = {ms[j].id} /\ S = {} /\ Marks(ms, i, j)
      BY <1>2, <2>3, Zenon DEF Adds, Suggests, Marks
    <3>2. Agree(c, Mark(ms, i, j))
      BY <2>3, MarkIs, Zenon
    <3> HIDE DEF c, A, S
    <3>3. LET u == Superseding(ms, v, i, j) IN
          IsVerdict(u) /\ u.accepted = v.accepted \cup {ms[j].id}
          /\ u.proposed = v.proposed /\ u.conflicts = v.conflicts
      BY SupersedingIs
    <3>4. v.proposed = v.proposed \cup S
      BY <3>1
    <3> QED BY <2>0, <2>3, <3>1, <3>2, <3>3, <3>4, Zenon DEF c, A, S
  <2>4. CASE /\ c = Proposing(v, ms[j].id)
             /\ ~Approved(ms, i, j) /\ ~Confirms(ms, i, j) /\ Offers(ms, i, j)
    <3>1. A = {} /\ S = {ms[j].id} /\ ~Marks(ms, i, j)
      BY <1>2, <2>4, Zenon DEF Adds, Suggests, Marks
    <3> HIDE DEF c, A, S
    <3> DEFINE u == Proposing(v, ms[j].id)
    <3>2. /\ IsVerdict(u) /\ u.proposed = v.proposed \cup {ms[j].id}
          /\ \A f \in VerdictField \ {"proposed"} : u[f] = v[f]
      BY ProposedIs, Zenon
    <3> HIDE DEF u
    <3>3. /\ u.accepted = v.accepted /\ u.conflicts = v.conflicts
          /\ u.section = v.section /\ u.supersession = v.supersession
      BY <3>2 DEF VerdictField
    <3>4. u.required = v.required
      <4>1. "required" \in VerdictField \ {"proposed"}
        BY DEF VerdictField
      <4> QED BY <3>2, <4>1, Zenon
    <3>5. Agree(u, v)
      BY <3>3, <3>4, Zenon DEF Agree
    <3>6. v.accepted = v.accepted \cup A
      BY <3>1
    <3> QED BY <2>0, <2>4, <3>1, <3>2, <3>3, <3>5, <3>6, Zenon DEF c, A, S, u
  <2> QED BY <1>0, <2>1, <2>2, <2>3, <2>4, Zenon DEF Considering
<1> QED BY <1>1, <1>2

\* Two verdicts that will be the same in the end: they hold the same records, and
\* where they disagree two accepted replacements will undo it.
Similar(v, w) ==
    /\ IsVerdict(v) /\ IsVerdict(w)
    /\ v.accepted = w.accepted /\ v.proposed = w.proposed /\ v.conflicts = w.conflicts
    /\ Agree(v, w) \/ \E a, b \in v.accepted : a # b

LEMMA SimilarStays ==
    ASSUME NEW ms, NEW i, NEW j, NEW v, NEW w, Similar(v, w)
    PROVE  Similar(Weighing(ms, v, i, j), Weighing(ms, w, i, j))
<1> DEFINE x == Weighing(ms, v, i, j)
           y == Weighing(ms, w, i, j)
           A == Adds(ms, i, j)
           S == Suggests(ms, i, j)
<1>1. /\ IsVerdict(v) /\ IsVerdict(w)
      /\ v.accepted = w.accepted /\ v.proposed = w.proposed /\ v.conflicts = w.conflicts
      /\ Agree(v, w) \/ \E a, b \in v.accepted : a # b
  BY Zenon DEF Similar
<1>2. /\ IsVerdict(x) /\ x.accepted = v.accepted \cup A
      /\ x.proposed = v.proposed \cup S /\ x.conflicts = v.conflicts
      /\ Marks(ms, i, j) => Agree(x, Mark(ms, i, j))
      /\ ~Marks(ms, i, j) => Agree(x, v)
  BY <1>1, WeighingIs
<1>3. /\ IsVerdict(y) /\ y.accepted = w.accepted \cup A
      /\ y.proposed = w.proposed \cup S /\ y.conflicts = w.conflicts
      /\ Marks(ms, i, j) => Agree(y, Mark(ms, i, j))
      /\ ~Marks(ms, i, j) => Agree(y, w)
  BY <1>1, WeighingIs
<1> HIDE DEF x, y, A, S
<1>4. x.accepted = y.accepted /\ x.proposed = y.proposed /\ x.conflicts = y.conflicts
  BY <1>1, <1>2, <1>3, Zenon
<1>5. v.accepted \subseteq x.accepted
  BY <1>2
<1>6. Agree(x, y) \/ \E a, b \in x.accepted : a # b
  <2>1. CASE \E a, b \in v.accepted : a # b
    BY <1>5, <2>1, Zenon
  <2>2. CASE Marks(ms, i, j)
    BY <1>2, <1>3, <2>2, Agreeing, Zenon
  <2>3. CASE ~Marks(ms, i, j) /\ Agree(v, w)
    <3>1. Agree(x, v) /\ Agree(v, w) /\ Agree(w, y)
      BY <1>2, <1>3, <2>3, Agreeing, Zenon
    <3> QED BY <3>1, Agreeing, Zenon
  <2> QED BY <1>1, <2>1, <2>2, <2>3, Zenon
<1> QED BY <1>2, <1>3, <1>4, <1>6, Zenon DEF Similar, x, y

\* Two records of one id and one origin decide the same about a third.
LEMMA SameMark ==
    ASSUME NEW ms, NEW i, NEW j, NEW k, Marks(ms, i, j), Marks(ms, i, k),
           ms[j].origin = ms[k].origin, ms[j].id = ms[k].id
    PROVE  Agree(Mark(ms, i, j), Mark(ms, i, k))
<1> DEFINE z == Verdict(ms[i])
<1>1. Upstream(ms, i, j) = Upstream(ms, i, k)
  BY Zenon DEF Upstream
<1>2. IsVerdict(z)
  BY VerdictIs, Zenon
<1>3. Approved(ms, i, j) \/ Confirms(ms, i, j)
  BY Zenon DEF Marks
<1>4. Approved(ms, i, k) \/ Confirms(ms, i, k)
  BY Zenon DEF Marks
<1>5. CASE Upstream(ms, i, j) /\ ms[i].id = ms[j].id
  <2>1. ~Approved(ms, i, j) /\ ~Approved(ms, i, k)
    BY <1>1, <1>5, Zenon DEF Approved
  <2>2. /\ Mark(ms, i, j) = SameUpstream(ms, z, i, j)
        /\ Mark(ms, i, k) = SameUpstream(ms, z, i, k)
        /\ Resolves(ms, i, j) /\ Resolves(ms, i, k)
    BY <1>2, <1>3, <1>4, <2>1, MarkIs, Zenon DEF Mark
  <2>3. SameUpstream(ms, z, i, j) = SameUpstream(ms, z, i, k)
    BY <2>2, Zenon DEF SameUpstream, Resolves
  <2> QED BY <2>2, <2>3, Agreeing, Zenon
<1>6. CASE ~(Upstream(ms, i, j) /\ ms[i].id = ms[j].id)
  <2>1. ~Confirms(ms, i, j) /\ ~Confirms(ms, i, k)
    BY <1>1, <1>6, Zenon DEF Confirms
  <2>2. /\ Mark(ms, i, j) = Superseding(ms, z, i, j)
        /\ Mark(ms, i, k) = Superseding(ms, z, i, k)
    BY <1>2, <1>3, <1>4, <2>1, MarkIs, Zenon DEF Mark
  <2>3. Superseding(ms, z, i, j) = Superseding(ms, z, i, k)
    BY <1>1, Zenon DEF Superseding
  <2> QED BY <2>2, <2>3, Agreeing, Zenon
<1> QED BY <1>5, <1>6

LEMMA Commute ==
    ASSUME NEW ms, NEW i, NEW j, NEW k, NEW v, IsVerdict(v), ms[j].origin = ms[k].origin
    PROVE  Similar(Weighing(ms, Weighing(ms, v, i, j), i, k),
                   Weighing(ms, Weighing(ms, v, i, k), i, j))
<1> DEFINE Aj == Adds(ms, i, j)
           Ak == Adds(ms, i, k)
           Sj == Suggests(ms, i, j)
           Sk == Suggests(ms, i, k)
           x == Weighing(ms, v, i, j)
           y == Weighing(ms, v, i, k)
           xk == Weighing(ms, x, i, k)
           yj == Weighing(ms, y, i, j)
<1>1. /\ IsVerdict(x) /\ x.accepted = v.accepted \cup Aj
      /\ x.proposed = v.proposed \cup Sj /\ x.conflicts = v.conflicts
      /\ Marks(ms, i, j) => Agree(x, Mark(ms, i, j))
      /\ ~Marks(ms, i, j) => Agree(x, v)
  BY WeighingIs
<1>2. /\ IsVerdict(y) /\ y.accepted = v.accepted \cup Ak
      /\ y.proposed = v.proposed \cup Sk /\ y.conflicts = v.conflicts
      /\ Marks(ms, i, k) => Agree(y, Mark(ms, i, k))
      /\ ~Marks(ms, i, k) => Agree(y, v)
  BY WeighingIs
<1> HIDE DEF x, y
<1>3. /\ IsVerdict(xk) /\ xk.accepted = x.accepted \cup Ak
      /\ xk.proposed = x.proposed \cup Sk /\ xk.conflicts = x.conflicts
      /\ Marks(ms, i, k) => Agree(xk, Mark(ms, i, k))
      /\ ~Marks(ms, i, k) => Agree(xk, x)
  BY <1>1, WeighingIs
<1>4. /\ IsVerdict(yj) /\ yj.accepted = y.accepted \cup Aj
      /\ yj.proposed = y.proposed \cup Sj /\ yj.conflicts = y.conflicts
      /\ Marks(ms, i, j) => Agree(yj, Mark(ms, i, j))
      /\ ~Marks(ms, i, j) => Agree(yj, y)
  BY <1>2, WeighingIs
<1>a. /\ Marks(ms, i, j) => ms[j].id \in Aj
      /\ Marks(ms, i, k) => ms[k].id \in Ak
  BY DEF Adds
<1> HIDE DEF xk, yj, Aj, Ak, Sj, Sk
<1>5. xk.accepted = yj.accepted
  BY <1>1, <1>2, <1>3, <1>4
<1>6. xk.proposed = yj.proposed
  BY <1>1, <1>2, <1>3, <1>4
<1>7. xk.conflicts = yj.conflicts
  BY <1>1, <1>2, <1>3, <1>4, Zenon
<1>8. Aj \subseteq xk.accepted /\ Ak \subseteq xk.accepted
  BY <1>1, <1>3
<1>9. Agree(xk, yj) \/ \E a, b \in xk.accepted : a # b
  <2>1. CASE ~Marks(ms, i, k)
    <3>1. Agree(xk, x) /\ Agree(y, v)
      BY <1>2, <1>3, <2>1, Zenon
    <3>2. CASE Marks(ms, i, j)
      BY <1>1, <1>4, <3>1, <3>2, Agreeing, Zenon
    <3>3. CASE ~Marks(ms, i, j)
      <4>1. Agree(x, v) /\ Agree(yj, y)
        BY <1>1, <1>4, <3>3, Zenon
      <4>2. Agree(xk, v) /\ Agree(yj, v)
        BY <3>1, <4>1, Agreeing, Zenon
      <4> QED BY <4>2, Agreeing, Zenon
    <3> QED BY <3>2, <3>3
  <2>2. CASE Marks(ms, i, k) /\ ~Marks(ms, i, j)
    <3>1. Agree(xk, Mark(ms, i, k)) /\ Agree(y, Mark(ms, i, k)) /\ Agree(yj, y)
      BY <1>2, <1>3, <1>4, <2>2, Zenon
    <3>2. Agree(yj, Mark(ms, i, k))
      BY <3>1, Agreeing, Zenon
    <3> QED BY <3>1, <3>2, Agreeing, Zenon
  <2>3. CASE Marks(ms, i, k) /\ Marks(ms, i, j) /\ ms[j].id # ms[k].id
    <3>1. ms[j].id \in xk.accepted /\ ms[k].id \in xk.accepted
      BY <1>8, <1>a, <2>3, Zenon
    <3> QED BY <2>3, <3>1, Zenon
  <2>4. CASE Marks(ms, i, k) /\ Marks(ms, i, j) /\ ms[j].id = ms[k].id
    <3>1. Agree(xk, Mark(ms, i, k)) /\ Agree(yj, Mark(ms, i, j))
      BY <1>3, <1>4, <2>4, Zenon
    <3>2. Agree(Mark(ms, i, j), Mark(ms, i, k))
      BY <2>4, SameMark, Zenon
    <3>3. Agree(yj, Mark(ms, i, k))
      BY <3>1, <3>2, Agreeing, Zenon
    <3> QED BY <3>1, <3>3, Agreeing, Zenon
  <2> QED BY <2>1, <2>2, <2>3, <2>4, Zenon
<1> QED BY <1>3, <1>4, <1>5, <1>6, <1>7, <1>9, Zenon DEF Similar, x, y, xk, yj

----------------------------------------------------------------------------
(* Policy: two neighbours change places *)

Swap(ms, n) == [ms EXCEPT ![n] = ms[n + 1], ![n + 1] = ms[n]]

Place(ms, n) ==
    [i \in DOMAIN ms |-> CASE i = n -> n + 1 [] i = n + 1 -> n [] OTHER -> i]

LEMMA SwapReorders ==
    ASSUME NEW ms \in Seq(Records), NEW n \in 1 .. Len(ms) - 1
    PROVE  /\ Swap(ms, n) \in Seq(Records) /\ Len(Swap(ms, n)) = Len(ms)
           /\ Reorders(ms, Swap(ms, n), Place(ms, n))
<1> DEFINE N == Len(ms)
           os == Swap(ms, n)
           p == Place(ms, n)
<1>0. N \in Nat /\ DOMAIN ms = 1 .. N /\ ms = [k \in 1 .. N |-> ms[k]]
  OBVIOUS
<1>1. \A k \in 1 .. N : ms[k] \in Records
  OBVIOUS
<1>2. n \in 1 .. N /\ n + 1 \in 1 .. N /\ n + 1 # n /\ n \in Int
  BY <1>0
<1>3. os = [k \in 1 .. N |-> IF k = n + 1 THEN ms[n] ELSE IF k = n THEN ms[n + 1] ELSE ms[k]]
  <2>1. os = [k \in DOMAIN ms |->
                IF k = n + 1 THEN ms[n] ELSE IF k = n THEN ms[n + 1] ELSE ms[k]]
    BY <1>2, Zenon DEF Swap
  <2> QED BY <2>1, <1>0, Zenon
<1>4. p = [k \in 1 .. N |-> IF k = n THEN n + 1 ELSE IF k = n + 1 THEN n ELSE k]
  BY <1>0, <1>2 DEF Place
<1> HIDE DEF N, os, p
<1>5. os \in [1 .. N -> Records]
  BY <1>1, <1>2, <1>3
<1>6. os \in Seq(Records) /\ Len(os) = N
  BY <1>0, <1>5, FunctionIsSeq
<1>7. p \in [1 .. N -> 1 .. N] /\ DOMAIN os = 1 .. N
  BY <1>2, <1>3, <1>4
<1>8. \A k \in 1 .. N : p[p[k]] = k
  BY <1>2, <1>4
<1>9. \A k \in 1 .. N : os[k] = ms[p[k]]
  BY <1>2, <1>3, <1>4
<1>10. \A k \in 1 .. N : os[p[k]] = ms[k]
  BY <1>7, <1>8, <1>9, Zenon
<1>11. Reorders(ms, os, p)
  BY <1>0, <1>7, <1>8, <1>9, <1>10, Zenon DEF Reorders
<1> QED BY <1>6, <1>11, Zenon DEF N, os, p

\* The verdicts on a record are similar after the two and stay so.
LEMMA SwapIsSimilar ==
    ASSUME NEW ms \in Seq(Records), NEW n \in 1 .. Len(ms) - 1,
           ms[n].origin = ms[n + 1].origin, NEW i \in DOMAIN ms
    PROVE  Similar(Considered(ms, i)[Len(ms)],
                   Considered(Swap(ms, n), Place(ms, n)[i])[Len(ms)])
<1> DEFINE N == Len(ms)
           os == Swap(ms, n)
           p == Place(ms, n)
           c == Considered(ms, i)
           d == Considered(os, p[i])
<1>0. N \in Nat /\ DOMAIN ms = 1 .. N /\ n \in 1 .. N - 1
  OBVIOUS
<1>1. os \in Seq(Records) /\ Len(os) = N /\ Reorders(ms, os, p)
  BY SwapReorders, Zenon
<1>2. /\ DOMAIN os = DOMAIN ms /\ p \in [DOMAIN ms -> DOMAIN ms]
      /\ \A k \in DOMAIN ms : p[p[k]] = k /\ os[p[k]] = ms[k] /\ os[k] = ms[p[k]]
  BY <1>1, Zenon DEF Reorders
<1>3. \A k \in 1 .. N : p[k] = CASE k = n -> n + 1 [] k = n + 1 -> n [] OTHER -> k
  BY <1>0 DEF Place
<1> HIDE DEF N, os, p
<1>4. c[0] = Verdict(ms[i]) /\ \A k \in 1 .. N : c[k] = Weighing(ms, c[k - 1], i, k)
  BY <1>0, ConsideredIs DEF N
<1>5. d[0] = Verdict(os[p[i]]) /\ \A k \in 1 .. N : d[k] = Weighing(os, d[k - 1], p[i], k)
  BY <1>0, <1>1, ConsideredIs
<1>6. \A k \in 0 .. N : IsVerdict(c[k])
  BY AllWeighed, Zenon DEF Weighed, N
<1> HIDE DEF c, d
<1>7. d[0] = c[0]
  BY <1>2, <1>4, <1>5, Zenon
<1>8. ASSUME NEW k \in 1 .. N PROVE d[k] = Weighing(ms, d[k - 1], i, p[k])
  <2>1. k \in DOMAIN ms /\ p[k] \in DOMAIN ms /\ p[p[k]] = k
    BY <1>0, <1>2
  <2>2. Weighing(os, d[k - 1], p[i], p[p[k]]) = Weighing(ms, d[k - 1], i, p[k])
    <3> DEFINE q == p[k]
               v == d[k - 1]
    <3>1. q \in DOMAIN ms /\ Reorders(ms, os, p)
      BY <1>1, <2>1
    <3> HIDE DEF q, v
    <3>2. Weighing(os, v, p[i], p[q]) = Weighing(ms, v, i, q)
      BY <3>1, ReorderedWeighing
    <3> QED BY <3>2, Zenon DEF q, v
  <2> QED BY <1>5, <2>1, <2>2, Zenon
<1>9. n \in Int /\ n \in 1 .. N /\ n + 1 \in 1 .. N /\ n - 1 \in 0 .. N /\ n \in 0 .. N
      /\ (n + 1) - 1 = n /\ n + 1 # n
  BY <1>0
<1>10. p[n] = n + 1 /\ p[n + 1] = n
  BY <1>3, <1>9
\* before the two nothing differs
<1>11. \A k \in 0 .. n - 1 : d[k] = c[k]
  <2> DEFINE m == n - 1
             T == {k \in 0 .. m : d[k] = c[k]}
  <2>1. m \in Nat /\ m <= N
    BY <1>0, <1>9
  <2>2. 0 \in T
    BY <2>1, <1>7
  <2>3. ASSUME NEW k \in 0 .. m - 1, k \in T PROVE k + 1 \in T
    <3>1. k + 1 \in 1 .. N /\ k + 1 \in 0 .. m /\ (k + 1) - 1 = k /\ k + 1 # n /\ k + 1 # n + 1
      <4>1. k \in Nat /\ k <= n - 2 /\ n \in Nat /\ n <= N /\ N \in Nat
        BY <1>0, <1>9
      <4> QED BY <4>1
    <3>2. p[k + 1] = k + 1
      BY <3>1, <1>3
    <3>3. d[k + 1] = Weighing(ms, d[k], i, k + 1) /\ c[k + 1] = Weighing(ms, c[k], i, k + 1)
      BY <1>4, <1>8, <3>1, <3>2, Zenon
    <3>4. d[k] = c[k]
      BY <2>3
    <3>5. d[k + 1] = c[k + 1]
      BY <3>3, <3>4, Zenon
    <3> QED BY <3>1, <3>5
  <2> HIDE DEF T, m
  <2>4. 0 .. m \subseteq T
    BY <2>1, <2>2, <2>3, ReachesAll
  <2> QED BY <2>4 DEF T, m
\* the two commute
<1>12. Similar(c[n + 1], d[n + 1])
  <2> DEFINE v == c[n - 1]
  <2>1. d[n - 1] = v
    BY <1>9, <1>11
  <2>2. c[n] = Weighing(ms, v, i, n) /\ c[n + 1] = Weighing(ms, c[n], i, n + 1)
    BY <1>4, <1>9, Zenon
  <2>3. d[n] = Weighing(ms, v, i, n + 1) /\ d[n + 1] = Weighing(ms, d[n], i, n)
    BY <1>8, <1>9, <1>10, <2>1, Zenon
  <2>4. IsVerdict(v)
    BY <1>6, <1>9, Zenon
  <2> HIDE DEF v
  <2>5. Similar(Weighing(ms, Weighing(ms, v, i, n), i, n + 1),
                Weighing(ms, Weighing(ms, v, i, n + 1), i, n))
    BY <2>4, Commute, Zenon
  <2> QED BY <2>2, <2>3, <2>5, Zenon
\* after them they stay similar
<1>13. \A k \in n + 1 .. N : Similar(c[k], d[k])
  <2> DEFINE m == N - (n + 1)
             T == {k \in 0 .. m : Similar(c[n + 1 + k], d[n + 1 + k])}
  <2>1. m \in Nat
    BY <1>0, <1>9
  <2>2. 0 \in T
    <3>1. n + 1 + 0 = n + 1
      BY <1>9
    <3> QED BY <3>1, <2>1, <1>12
  <2>3. ASSUME NEW k \in 0 .. m - 1, k \in T PROVE k + 1 \in T
    <3> DEFINE l == n + 1 + k
    <3>1. /\ l + 1 \in 1 .. N /\ (l + 1) - 1 = l /\ l + 1 # n /\ l + 1 # n + 1
          /\ n + 1 + (k + 1) = l + 1 /\ k + 1 \in 0 .. m
      BY <2>1, <1>0, <1>9
    <3> HIDE DEF l
    <3>2. p[l + 1] = l + 1
      BY <3>1, <1>3
    <3>3. d[l + 1] = Weighing(ms, d[l], i, l + 1) /\ c[l + 1] = Weighing(ms, c[l], i, l + 1)
      BY <1>4, <1>8, <3>1, <3>2, Zenon
    <3>4. Similar(c[l], d[l])
      BY <2>3 DEF l
    <3>5. Similar(c[l + 1], d[l + 1])
      BY <3>3, <3>4, SimilarStays, Zenon
    <3> QED BY <3>1, <3>5
  <2> HIDE DEF T
  <2>4. 0 .. m \subseteq T
    BY <2>1, <2>2, <2>3, ReachesAll
  <2> SUFFICES ASSUME NEW k \in n + 1 .. N PROVE Similar(c[k], d[k])
    OBVIOUS
  <2>5. k - (n + 1) \in 0 .. m /\ n + 1 + (k - (n + 1)) = k
    BY <1>0, <1>9
  <2>6. k - (n + 1) \in T
    BY <2>4, <2>5
  <2> QED BY <2>5, <2>6 DEF T
<1>14. N \in n + 1 .. N
  BY <1>0, <1>9
<1> QED BY <1>13, <1>14, Zenon DEF c, d, N, os, p

\* Similar verdicts are settled in the same way.
LEMMA SettledAlike ==
    ASSUME NEW v, NEW w, NEW section, Similar(v, w), IsFiniteSet(v.accepted)
    PROVE  Settled(v, section) = Settled(w, section)
<1> USE DEF Settled
<1>1. /\ IsVerdict(v) /\ IsVerdict(w)
      /\ v.accepted = w.accepted /\ v.proposed = w.proposed /\ v.conflicts = w.conflicts
      /\ Agree(v, w) \/ \E a, b \in v.accepted : a # b
  BY Zenon DEF Similar
<1>2. CASE Cardinality(v.accepted) > 1
  <2> DEFINE x == Undoing(v, section)
             y == Undoing(w, section)
  <2>1. /\ IsVerdict(x) /\ x.accepted = v.accepted /\ x.proposed = v.proposed
        /\ x.supersession = Unset /\ x.section = section /\ x.conflicts = v.accepted
        /\ x.required
    BY <1>1, UndoneIs
  <2>2. /\ IsVerdict(y) /\ y.accepted = w.accepted /\ y.proposed = w.proposed
        /\ y.supersession = Unset /\ y.section = section /\ y.conflicts = w.accepted
        /\ y.required
    BY <1>1, UndoneIs
  <2> HIDE DEF x, y
  <2>3. x.required = y.required
    BY <2>1, <2>2 DEF IsVerdict
  <2>4. /\ x.accepted = y.accepted /\ x.proposed = y.proposed
        /\ x.supersession = y.supersession /\ x.section = y.section
        /\ x.conflicts = y.conflicts
    BY <1>1, <2>1, <2>2, Zenon
  <2>5. \A f \in VerdictField : x[f] = y[f]
    BY <2>3, <2>4, Zenon DEF VerdictField
  <2>6. x = y
    BY <2>1, <2>2, <2>5, SameVerdict, Zenon
  <2> QED BY <1>1, <1>2, <2>6, Zenon DEF x, y
<1>3. CASE ~(Cardinality(v.accepted) > 1)
  <2>1. Agree(v, w)
    BY <1>1, <1>3, TwoAreSeveral, Zenon
  <2>2. \A f \in VerdictField : v[f] = w[f]
    BY <1>1, <2>1, Zenon DEF VerdictField, Agree
  <2>3. v = w
    BY <1>1, <2>2, SameVerdict, Zenon
  <2> QED BY <2>3, Zenon
<1> QED BY <1>2, <1>3

LEMMA SwapChangesNothing ==
    ASSUME NEW ms \in Seq(Records), NEW n \in 1 .. Len(ms) - 1,
           ms[n].origin = ms[n + 1].origin, NEW i \in DOMAIN ms
    PROVE  Reconciled(Swap(ms, n))[Place(ms, n)[i]] = Reconciled(ms)[i]
<1> DEFINE os == Swap(ms, n)
           p == Place(ms, n)
           q == p[i]
           v == Considered(ms, i)[Len(ms)]
           w == Considered(os, q)[Len(os)]
           mine == Contradictors(ms, i)
           other == Contradictors(os, q)
<1>1. os \in Seq(Records) /\ Len(os) = Len(ms) /\ Reorders(ms, os, p)
  BY SwapReorders, Zenon
<1>2. DOMAIN os = DOMAIN ms /\ q \in DOMAIN ms /\ os[q] = ms[i]
  <2> HIDE DEF os, p
  <2> QED BY <1>1 DEF Reorders
<1>3. Similar(v, w)
  BY <1>1, SwapIsSimilar, Zenon
<1>4. IsFiniteSet(v.accepted)
  <2>1. Len(ms) \in 0 .. Len(ms)
    OBVIOUS
  <2> QED BY <2>1, AllWeighed, Zenon DEF Weighed
<1>5. mine = other
  <2>1. Reorders(ms, os, p)
    BY <1>1, Zenon
  <2> HIDE DEF os, p
  <2>2. Contradictors(os, p[i]) = Contradictors(ms, i)
    BY <2>1, ReorderedContradictions
  <2> QED BY <2>2, Zenon
<1>6. Judged(ms, i) = Settled(v, Section(ms[i]))
  BY Zenon DEF Judged, Settled, Undoing
<1>7. Judged(os, q) = Settled(w, Section(ms[i]))
  <2>1. Judged(os, q) = Settled(w, Section(os[q]))
    <3> HIDE DEF os, q
    <3> QED BY Zenon DEF Judged, Settled, Undoing
  <2> QED BY <1>2, <2>1, Zenon
<1>8. Judged(ms, i) = Judged(os, q)
  <2> HIDE DEF v, w, os, q
  <2>1. Settled(v, Section(ms[i])) = Settled(w, Section(ms[i]))
    BY <1>3, <1>4, SettledAlike
  <2> QED BY <1>6, <1>7, <2>1, Zenon
<1>9. Reconciled(ms)[i] = Contradicting(Judged(ms, i), mine)
  BY Zenon DEF Reconciled, Contradicting, Contradictors
<1>10. Reconciled(os)[q] = Contradicting(Judged(os, q), other)
  BY <1>2, Zenon DEF Reconciled, Contradicting, Contradictors
<1> QED BY <1>5, <1>8, <1>9, <1>10, Zenon

\* Which branch is read first and how a source sorts its records change nothing
\* in what reconcile says of any record.
THEOREM OrderDoesNotMatter == PolicySpec => []OrderIrrelevant
<1>1. PolicyTypeOK => OrderIrrelevant
  <2> SUFFICES ASSUME PolicyTypeOK, NEW n \in 1 .. Len(members) - 1,
                      members[n].origin = members[n + 1].origin
               PROVE  LET swapped == [members EXCEPT ![n] = members[n + 1],
                                                     ![n + 1] = members[n]]
                          of(i) == CASE i = n -> n + 1 [] i = n + 1 -> n [] OTHER -> i
                      IN \A i \in DOMAIN members :
                           Reconciled(swapped)[of(i)] = Reconciled(members)[i]
    BY Zenon DEF OrderIrrelevant
  <2>1. members \in Seq(Records)
    BY DEF PolicyTypeOK
  <2>2. \A i \in DOMAIN members :
          Reconciled(Swap(members, n))[Place(members, n)[i]] = Reconciled(members)[i]
    BY <2>1, SwapChangesNothing, Zenon
  <2>3. \A i \in DOMAIN members :
          Place(members, n)[i] = CASE i = n -> n + 1 [] i = n + 1 -> n [] OTHER -> i
    BY Zenon DEF Place
  <2> QED BY <2>2, <2>3, Zenon DEF Swap
<1> QED BY <1>1, PolicyInvariant, PTL

----------------------------------------------------------------------------
(* LegacyHistory: views in the order of their publication *)

\* A generation has its views in order, and no two have the same one.
RowsInOrder ==
    \A g, k \in Generation : \A n \in DOMAIN tables[g], m \in DOMAIN tables[k] :
        /\ g = k /\ n < m => tables[g][n].id < tables[k][m].id
        /\ tables[g][n].id = tables[k][m].id => g = k

\* A number is given by the clock, and what has none was there before.
NumberedByClock ==
    /\ \A g \in Generation : \A n \in DOMAIN tables[g] :
          /\ tables[g][n].id <= count
          /\ tables[g][n].seq \in {NoView, tables[g][n].id}
          /\ ~clocked => tables[g][n].seq = NoView
    /\ \A g, k \in Generation : \A n \in DOMAIN tables[g], m \in DOMAIN tables[k] :
          tables[g][n].seq = NoView /\ tables[k][m].seq # NoView
            => tables[g][n].id < tables[k][m].id

BaselinesAreEarlier ==
    ~corrupted =>
        \A g \in Generation : \A n \in DOMAIN tables[g] :
            tables[g][n].baseline # NoView => tables[g][n].baseline < tables[g][n].id

LegacyInv == LegacyTypeOK /\ RowsInOrder /\ NumberedByClock /\ BaselinesAreEarlier

\* Row n of g was there before the step, with this identity and number.
SameRow(g, n) ==
    /\ n \in DOMAIN tables[g]
    /\ tables'[g][n].id = tables[g][n].id /\ tables'[g][n].seq = tables[g][n].seq

SameBaseline(g, n) == tables'[g][n].baseline = tables[g][n].baseline

\* A step that adds no row keeps the order, and the baselines if it leaves them.
LEMMA RowsStay ==
    ASSUME LegacyInv, \A g \in Generation : \A n \in DOMAIN tables'[g] : SameRow(g, n),
           count' = count, clocked => clocked',
           \/ corrupted'
           \/ /\ ~corrupted
              /\ \A g \in Generation : \A n \in DOMAIN tables'[g] : SameBaseline(g, n),
           ~clocked' => ~clocked
    PROVE  RowsInOrder' /\ NumberedByClock' /\ BaselinesAreEarlier'
<1>1. RowsInOrder'
  BY DEF LegacyInv, RowsInOrder, SameRow
<1>2. NumberedByClock'
  BY DEF LegacyInv, NumberedByClock, SameRow
<1>3. BaselinesAreEarlier'
  BY Zenon DEF LegacyInv, BaselinesAreEarlier, SameRow, SameBaseline
<1> QED BY <1>1, <1>2, <1>3

LEMMA PublishKeepsOrder ==
    ASSUME LegacyInv, NEW g \in Generation, NEW baseline \in (1 .. count) \cup {NoView},
           NEW holds \in BOOLEAN, PublishView(g, baseline, holds)
    PROVE  LegacyInv'
<1> DEFINE new == [id |-> count', baseline |-> baseline,
                   seq |-> IF clocked THEN count' ELSE NoView, holds |-> holds]
           N == Len(tables[g])
<1>1. tables \in [Generation -> Seq(ViewRow)] /\ count \in 0 .. MaxViews /\ MaxViews \in Nat
  BY MaxViewsAssumption DEF LegacyInv, LegacyTypeOK
<1>2. count' = count + 1 /\ count' \in Ids /\ clocked' = clocked /\ corrupted' = corrupted
  BY <1>1 DEF PublishView, Ids
<1>3. new \in ViewRow
  <2>1. baseline \in Ids \cup {NoView}
    BY <1>1 DEF Ids
  <2> QED BY <1>2, <2>1 DEF ViewRow
<1>a. tables' = [tables EXCEPT ![g] = Append(tables[g], new)]
  BY Zenon DEF PublishView
<1>b. new.id = count + 1 /\ new.baseline = baseline
      /\ new.seq = (IF clocked THEN count + 1 ELSE NoView)
  BY <1>2
<1> HIDE DEF new
<1>4. Append(tables[g], new) \in Seq(ViewRow)
  BY <1>1, <1>3
<1>5. tables' \in [Generation -> Seq(ViewRow)]
  BY <1>1, <1>4, <1>a
<1>6. LegacyTypeOK'
  <2>1. count' \in 0 .. MaxViews
    BY <1>1, <1>2 DEF Ids
  <2> QED BY <1>2, <1>5, <2>1 DEF LegacyTypeOK, LegacyInv
<1>7. tables'[g] = Append(tables[g], new) /\ \A k \in Generation : k # g => tables'[k] = tables[k]
  BY <1>1, <1>a
<1>8. DOMAIN tables[g] = 1 .. N /\ DOMAIN tables'[g] = 1 .. N + 1 /\ N \in Nat
  BY <1>1, <1>4, <1>7
<1>9. tables'[g][N + 1] = new /\ \A n \in 1 .. N : tables'[g][n] = tables[g][n]
  BY <1>1, <1>3, <1>7
<1>10. ASSUME NEW k \in Generation, NEW n \in DOMAIN tables'[k]
       PROVE  \/ SameRow(k, n) /\ SameBaseline(k, n)
              \/ k = g /\ n = N + 1 /\ tables'[k][n] = new
  <2>1. CASE k # g
    <3>1. tables'[k] = tables[k]
      BY <1>7, <2>1
    <3> QED BY <3>1 DEF SameRow, SameBaseline
  <2>2. CASE k = g /\ n \in 1 .. N
    BY <1>8, <1>9, <2>2, Zenon DEF SameRow, SameBaseline
  <2>3. CASE k = g /\ n \notin 1 .. N
    <3>1. n \in 1 .. N + 1
      BY <1>8, <2>3, Zenon
    <3>2. n = N + 1
      BY <1>8, <2>3, <3>1
    <3> QED BY <1>9, <2>3, <3>2, Zenon
  <2> QED BY <2>1, <2>2, <2>3
<1>11. /\ \A k \in Generation : \A n \in DOMAIN tables[k] : tables[k][n].id <= count /\ tables[k][n].id \in Nat
       /\ count \in Nat
  <2>1. \A k \in Generation : \A n \in DOMAIN tables[k] : tables[k][n] \in ViewRow
    BY <1>1
  <2>2. \A v \in ViewRow : v.id \in Nat
    BY DEF ViewRow, Ids
  <2>3. \A k \in Generation : \A n \in DOMAIN tables[k] : tables[k][n].id <= count
    BY DEF LegacyInv, NumberedByClock
  <2>4. count \in Nat
    BY <1>1
  <2> QED BY <2>1, <2>2, <2>3, <2>4, Zenon
<1> HIDE DEF N
<1>12. RowsInOrder'
  <2> SUFFICES ASSUME NEW j \in Generation, NEW k \in Generation,
                      NEW n \in DOMAIN tables'[j], NEW m \in DOMAIN tables'[k]
               PROVE  /\ j = k /\ n < m => tables'[j][n].id < tables'[k][m].id
                      /\ tables'[j][n].id = tables'[k][m].id => j = k
    BY Zenon DEF RowsInOrder
  <2>1. CASE SameRow(j, n) /\ SameRow(k, m)
    BY <2>1 DEF LegacyInv, RowsInOrder, SameRow
  <2>2. CASE SameRow(j, n) /\ k = g /\ m = N + 1 /\ tables'[k][m] = new
    <3>1. tables'[j][n].id = tables[j][n].id /\ n \in DOMAIN tables[j]
      BY <2>2 DEF SameRow
    <3> QED BY <1>11, <1>b, <2>2, <3>1
  <2>3. CASE j = g /\ n = N + 1 /\ tables'[j][n] = new /\ SameRow(k, m)
    <3>1. tables'[k][m].id = tables[k][m].id /\ m \in DOMAIN tables[k]
      BY <2>3 DEF SameRow
    <3>2. j = k => ~(n < m)
      BY <1>8, <2>3, <3>1
    <3> QED BY <1>11, <1>b, <2>3, <3>1, <3>2
  <2>4. CASE j = g /\ k = g /\ n = N + 1 /\ m = N + 1
    BY <1>8, <2>4
  <2> QED BY <1>10, <2>1, <2>2, <2>3, <2>4, Zenon
<1>13. NumberedByClock'
  <2>0. /\ \A k \in Generation : \A n \in DOMAIN tables[k] :
             /\ tables[k][n].seq \in {NoView, tables[k][n].id}
             /\ ~clocked => tables[k][n].seq = NoView
        /\ \A j, k \in Generation : \A n \in DOMAIN tables[j], m \in DOMAIN tables[k] :
             tables[j][n].seq = NoView /\ tables[k][m].seq # NoView
               => tables[j][n].id < tables[k][m].id
    BY Zenon DEF LegacyInv, NumberedByClock
  <2>1. ASSUME NEW k \in Generation, NEW n \in DOMAIN tables'[k]
        PROVE  /\ tables'[k][n].id <= count + 1
               /\ tables'[k][n].seq \in {NoView, tables'[k][n].id}
               /\ ~clocked => tables'[k][n].seq = NoView
    <3>1. CASE SameRow(k, n)
      <4>1. n \in DOMAIN tables[k] /\ tables'[k][n].id = tables[k][n].id
            /\ tables'[k][n].seq = tables[k][n].seq
        BY <3>1 DEF SameRow
      <4>2. tables[k][n].id <= count + 1
        BY <1>11, <4>1
      <4> QED BY <2>0, <4>1, <4>2, Zenon
    <3>2. CASE tables'[k][n] = new
      BY <1>11, <1>b, <3>2
    <3> QED BY <1>10, <3>1, <3>2, Zenon
  <2>2. ASSUME NEW j \in Generation, NEW k \in Generation,
               NEW n \in DOMAIN tables'[j], NEW m \in DOMAIN tables'[k],
               tables'[j][n].seq = NoView, tables'[k][m].seq # NoView
        PROVE  tables'[j][n].id < tables'[k][m].id
    <3>1. CASE SameRow(j, n) /\ SameRow(k, m)
      BY <2>0, <2>2, <3>1, Zenon DEF SameRow
    <3>2. CASE SameRow(j, n) /\ tables'[k][m] = new
      <4>1. tables'[j][n].id = tables[j][n].id /\ n \in DOMAIN tables[j]
        BY <3>2 DEF SameRow
      <4> QED BY <1>11, <1>b, <3>2, <4>1
    <3>3. CASE tables'[j][n] = new /\ SameRow(k, m)
      <4>1. tables'[k][m].seq = tables[k][m].seq /\ m \in DOMAIN tables[k]
        BY <3>3 DEF SameRow
      <4>2. clocked
        BY <2>0, <2>2, <4>1, Zenon
      <4>3. new.seq = count + 1
        BY <1>b, <4>2
      <4> QED BY <1>11, <2>2, <3>3, <4>3, NoViewAssumption
    <3>4. CASE tables'[j][n] = new /\ tables'[k][m] = new
      BY <2>2, <3>4, Zenon
    <3> QED BY <1>10, <3>1, <3>2, <3>3, <3>4, Zenon
  <2> QED BY <1>2, <2>1, <2>2, Zenon DEF NumberedByClock
<1>14. BaselinesAreEarlier'
  <2> SUFFICES ASSUME ~corrupted, NEW k \in Generation, NEW n \in DOMAIN tables'[k],
                      tables'[k][n].baseline # NoView
               PROVE  tables'[k][n].baseline < tables'[k][n].id
    BY <1>2, Zenon DEF BaselinesAreEarlier
  <2>1. CASE SameRow(k, n) /\ SameBaseline(k, n)
    BY <2>1, Zenon DEF LegacyInv, BaselinesAreEarlier, SameRow, SameBaseline
  <2>2. CASE tables'[k][n] = new
    <3>1. baseline \in 1 .. count
      BY <1>b, <2>2
    <3> QED BY <1>11, <1>b, <2>2, <3>1
  <2> QED BY <1>10, <2>1, <2>2, Zenon
<1> QED BY <1>6, <1>12, <1>13, <1>14, Zenon DEF LegacyInv

LEMMA DropKeepsOrder ==
    ASSUME LegacyInv, NEW g \in Generation, DropGeneration(g)
    PROVE  LegacyInv'
<1>1. tables \in [Generation -> Seq(ViewRow)]
  BY DEF LegacyInv, LegacyTypeOK
<1>2. tables'[g] = <<>> /\ \A k \in Generation : k # g => tables'[k] = tables[k]
  BY <1>1 DEF DropGeneration
<1>3. LegacyTypeOK'
  BY <1>1 DEF LegacyInv, LegacyTypeOK, DropGeneration
<1>4. \A k \in Generation : \A n \in DOMAIN tables'[k] : SameRow(k, n) /\ SameBaseline(k, n)
  <2> SUFFICES ASSUME NEW k \in Generation, NEW n \in DOMAIN tables'[k]
               PROVE  SameRow(k, n) /\ SameBaseline(k, n)
    OBVIOUS
  <2>1. k # g
    BY <1>2
  <2>2. tables'[k] = tables[k]
    BY <1>2, <2>1
  <2> QED BY <2>2 DEF SameRow, SameBaseline
<1>5. count' = count /\ clocked' = clocked /\ corrupted' = corrupted /\ corrupted \in BOOLEAN
  BY DEF DropGeneration, LegacyInv, LegacyTypeOK
<1>6. RowsInOrder' /\ NumberedByClock' /\ BaselinesAreEarlier'
  BY <1>4, <1>5, RowsStay
<1> QED BY <1>3, <1>6, Zenon DEF LegacyInv

LEMMA CorruptKeepsOrder ==
    ASSUME LegacyInv, NEW g \in Generation, NEW n \in Ids, NEW id \in 1 .. count,
           Corrupt(g, n, id)
    PROVE  LegacyInv'
<1> DEFINE new == [tables[g][n] EXCEPT !.baseline = id]
           changed == [tables[g] EXCEPT ![n] = new]
<1>1. tables \in [Generation -> Seq(ViewRow)] /\ count \in 0 .. MaxViews /\ MaxViews \in Nat
  BY MaxViewsAssumption DEF LegacyInv, LegacyTypeOK
<1>2. tables' = [tables EXCEPT ![g] = changed] /\ n \in DOMAIN tables[g]
  BY Zenon DEF Corrupt
<1>3. tables[g][n] \in ViewRow /\ id \in Ids
  BY <1>1, <1>2 DEF Ids
<1>4. new \in ViewRow /\ new.id = tables[g][n].id /\ new.seq = tables[g][n].seq
  BY <1>3 DEF ViewRow
<1> HIDE DEF new
<1>5. changed \in Seq(ViewRow) /\ DOMAIN changed = DOMAIN tables[g] /\ changed[n] = new
      /\ \A m \in DOMAIN tables[g] : m # n => changed[m] = tables[g][m]
  BY <1>1, <1>2, <1>4
<1> HIDE DEF changed
<1>6. tables' \in [Generation -> Seq(ViewRow)] /\ tables'[g] = changed
      /\ \A k \in Generation : k # g => tables'[k] = tables[k]
  BY <1>1, <1>2, <1>5
<1>7. count' = count /\ clocked' = clocked /\ corrupted' = TRUE
  BY DEF Corrupt
<1>8. LegacyTypeOK'
  BY <1>1, <1>6, <1>7 DEF LegacyInv, LegacyTypeOK
<1>9. \A k \in Generation : \A m \in DOMAIN tables'[k] : SameRow(k, m)
  <2> SUFFICES ASSUME NEW k \in Generation, NEW m \in DOMAIN tables'[k]
               PROVE  SameRow(k, m)
    OBVIOUS
  <2>1. CASE k # g
    <3>1. tables'[k] = tables[k]
      BY <1>6, <2>1
    <3> QED BY <3>1 DEF SameRow
  <2>2. CASE k = g
    BY <1>4, <1>5, <1>6, <2>2, Zenon DEF SameRow
  <2> QED BY <2>1, <2>2
<1>10. RowsInOrder' /\ NumberedByClock' /\ BaselinesAreEarlier'
  BY <1>7, <1>9, RowsStay
<1> QED BY <1>8, <1>10, Zenon DEF LegacyInv

\* Whatever generations are written, dropped or damaged, the views keep the order
\* in which they were published.
THEOREM LegacyInvariant == LegacySpec => []LegacyInv
<1>1. LegacyInit => LegacyInv
  <2> SUFFICES ASSUME LegacyInit PROVE LegacyInv
    OBVIOUS
  <2>1. \A g \in Generation : tables[g] = <<>> /\ DOMAIN tables[g] = {}
    BY DEF LegacyInit
  <2>2. LegacyTypeOK
    <3>1. <<>> \in Seq(ViewRow)
      OBVIOUS
    <3>2. tables \in [Generation -> Seq(ViewRow)]
      BY <3>1, Zenon DEF LegacyInit
    <3>3. count \in 0 .. MaxViews /\ clocked \in BOOLEAN /\ corrupted \in BOOLEAN
      <4>1. count = 0 /\ clocked = FALSE /\ corrupted = FALSE
        BY DEF LegacyInit
      <4>2. 0 \in 0 .. MaxViews
        BY MaxViewsAssumption
      <4> QED BY <4>1, <4>2
    <3> QED BY <3>2, <3>3, Zenon DEF LegacyTypeOK
  <2> QED BY <2>1, <2>2, Zenon DEF LegacyInv, RowsInOrder, NumberedByClock, BaselinesAreEarlier
<1>2. LegacyInv /\ [LegacyNext]_legacyVars => LegacyInv'
  <2> SUFFICES ASSUME LegacyInv, [LegacyNext]_legacyVars PROVE LegacyInv'
    OBVIOUS
  <2>1. ASSUME NEW g \in Generation, NEW baseline \in (1 .. count) \cup {NoView},
               NEW holds \in BOOLEAN, PublishView(g, baseline, holds)
        PROVE  LegacyInv'
    BY <2>1, PublishKeepsOrder
  <2>2. CASE StartClock
    <3>1. tables' = tables /\ count' = count /\ corrupted' = corrupted /\ clocked' = TRUE
      BY <2>2 DEF StartClock
    <3>2. LegacyTypeOK'
      BY <3>1 DEF LegacyInv, LegacyTypeOK
    <3>3. \A k \in Generation : \A n \in DOMAIN tables'[k] : SameRow(k, n) /\ SameBaseline(k, n)
      BY <3>1 DEF SameRow, SameBaseline
    <3>4. RowsInOrder' /\ NumberedByClock' /\ BaselinesAreEarlier'
      BY <3>1, <3>3, RowsStay DEF LegacyInv, LegacyTypeOK
    <3> QED BY <3>2, <3>4, Zenon DEF LegacyInv
  <2>3. ASSUME NEW g \in Generation, DropGeneration(g) PROVE LegacyInv'
    BY <2>3, DropKeepsOrder
  <2>4. ASSUME NEW g \in Generation, NEW n \in Ids, NEW id \in 1 .. count, Corrupt(g, n, id)
        PROVE  LegacyInv'
    BY <2>4, CorruptKeepsOrder
  <2>5. CASE UNCHANGED legacyVars
    <3>1. tables' = tables /\ count' = count /\ corrupted' = corrupted /\ clocked' = clocked
      BY <2>5 DEF legacyVars
    <3>2. LegacyTypeOK'
      BY <3>1 DEF LegacyInv, LegacyTypeOK
    <3>3. \A k \in Generation : \A n \in DOMAIN tables'[k] : SameRow(k, n) /\ SameBaseline(k, n)
      BY <3>1 DEF SameRow, SameBaseline
    <3>4. RowsInOrder' /\ NumberedByClock' /\ BaselinesAreEarlier'
      BY <3>1, <3>3, RowsStay DEF LegacyInv, LegacyTypeOK
    <3> QED BY <3>2, <3>4, Zenon DEF LegacyInv
  <2> QED BY <2>1, <2>2, <2>3, <2>4, <2>5, Zenon DEF LegacyNext
<1> QED BY <1>1, <1>2, PTL DEF LegacySpec

----------------------------------------------------------------------------
(* LegacyHistory: the walk over the links *)

\* The views before a view, by every set that is closed under its links.
Past(id) == Before(Links, id)

Closed(ids, id) == \A x \in ids \cup {id} : Parents(x) \subseteq ids

\* Parent p of id by row n of generation g: the baseline there or the row before.
IsLink(id, p, g, n) ==
    /\ g \in Generation /\ n \in DOMAIN tables[g] /\ tables[g][n].id = id
    /\ \/ p = tables[g][n].baseline /\ p # NoView
       \/ n # 1 /\ p = tables[g][n - 1].id

LEMMA ParentsAre ==
    ASSUME NEW id, NEW p
    PROVE  p \in Parents(id) <=> \E g, n : IsLink(id, p, g, n)
<1> DEFINE Of(h) == ({h.view.baseline} \ {NoView})
                      \cup (IF h.row = 1 THEN {} ELSE {tables[h.gen][h.row - 1].id})
           RowAt(g, n) == [gen |-> g, row |-> n, view |-> tables[g][n]]
<1>1. \A g, n : RowAt(g, n).gen = g /\ RowAt(g, n).row = n /\ RowAt(g, n).view = tables[g][n]
  OBVIOUS
<1>2. \A h : h \in Rows <=> \E g \in Generation : \E n \in DOMAIN tables[g] : h = RowAt(g, n)
  BY DEF Rows
<1>3. \A g, n : p \in Of(RowAt(g, n)) <=> \/ p = tables[g][n].baseline /\ p # NoView
                                          \/ n # 1 /\ p = tables[g][n - 1].id
  BY <1>1
<1>4. p \in Parents(id) <=> \E h \in Rows : h.view.id = id /\ p \in Of(h)
  BY DEF Parents
<1> HIDE DEF Of, RowAt
<1>5. p \in Parents(id) <=> \E g \in Generation : \E n \in DOMAIN tables[g] :
                               RowAt(g, n).view.id = id /\ p \in Of(RowAt(g, n))
  BY <1>2, <1>4
<1> QED BY <1>1, <1>3, <1>5 DEF IsLink

LEMMA ParentsAreViews ==
    ASSUME LegacyTypeOK, NEW id
    PROVE  Parents(id) \in SUBSET Ids
<1> SUFFICES ASSUME NEW p \in Parents(id) PROVE p \in Ids
  OBVIOUS
<1>1. PICK g, n : IsLink(id, p, g, n)
  BY ParentsAre
<1>2. tables[g] \in Seq(ViewRow) /\ n \in DOMAIN tables[g]
  BY <1>1 DEF LegacyTypeOK, IsLink
<1>3. \A m \in DOMAIN tables[g] : tables[g][m].id \in Ids /\ tables[g][m].baseline \in Ids \cup {NoView}
  <2>1. \A m \in DOMAIN tables[g] : tables[g][m] \in ViewRow
    BY <1>2
  <2>2. \A v \in ViewRow : v.id \in Ids /\ v.baseline \in Ids \cup {NoView}
    BY DEF ViewRow
  <2> QED BY <2>1, <2>2
<1>4. n # 1 => n - 1 \in DOMAIN tables[g]
  BY <1>2
<1> QED BY <1>1, <1>2, <1>3, <1>4 DEF IsLink

LEMMA LinksAre ==
    ASSUME NEW x \in Ids, NEW p
    PROVE  <<x, p>> \in Links <=> p \in Parents(x)
BY DEF Links

\* What is before a view is closed under the links, and in every closed set.
LEMMA PastIs ==
    ASSUME LegacyTypeOK, NEW id \in Ids
    PROVE  /\ Past(id) \in SUBSET Ids
           /\ Closed(Past(id), id)
           /\ \A ids \in SUBSET Ids : Closed(ids, id) => Past(id) \subseteq ids
<1>1. \A link \in Links : link = <<link[1], link[2]>> /\ link[1] \in Ids
  BY DEF Links
<1>2. ASSUME NEW ids \in SUBSET Ids
      PROVE  (\A link \in Links : link[1] \in ids \cup {id} => link[2] \in ids) <=> Closed(ids, id)
  <2>1. ASSUME \A link \in Links : link[1] \in ids \cup {id} => link[2] \in ids,
               NEW x \in ids \cup {id}, NEW p \in Parents(x)
        PROVE  p \in ids
    <3>1. <<x, p>> \in Links
      BY LinksAre
    <3> QED BY <2>1, <3>1
  <2>2. ASSUME Closed(ids, id), NEW link \in Links, link[1] \in ids \cup {id}
        PROVE  link[2] \in ids
    <3>1. link[2] \in Parents(link[1])
      <4> DEFINE x == link[1]
                 p == link[2]
      <4>1. x \in Ids /\ <<x, p>> \in Links
        BY <1>1
      <4> HIDE DEF x, p
      <4>2. p \in Parents(x)
        BY <4>1, LinksAre
      <4> QED BY <4>2 DEF x, p
    <3> QED BY <2>2, <3>1 DEF Closed
  <2> QED BY <2>1, <2>2 DEF Closed
<1>3. \A x : x \in Past(id) <=>
             x \in Ids /\ \A ids \in SUBSET Ids : Closed(ids, id) => x \in ids
  BY <1>2, Zenon DEF Past, Before
<1>4. Past(id) \in SUBSET Ids
  BY <1>3
<1>5. \A ids \in SUBSET Ids : Closed(ids, id) => Past(id) \subseteq ids
  BY <1>3
<1>6. Closed(Past(id), id)
  <2> SUFFICES ASSUME NEW x \in Past(id) \cup {id}, NEW p \in Parents(x)
               PROVE  p \in Past(id)
    BY Zenon DEF Closed
  <2>1. p \in Ids
    BY ParentsAreViews
  <2>2. ASSUME NEW ids \in SUBSET Ids, Closed(ids, id) PROVE p \in ids
    <3>1. x \in ids \cup {id}
      BY <1>5, <2>2
    <3> QED BY <2>2, <3>1 DEF Closed
  <2> QED BY <1>3, <2>1, <2>2
<1> QED BY <1>4, <1>5, <1>6

LEMMA PastOfParent ==
    ASSUME LegacyTypeOK, NEW id \in Ids, NEW x \in Past(id) \cup {id}, NEW p \in Parents(x)
    PROVE  p \in Past(id)
BY PastIs DEF Closed

LEMMA PastOfPast ==
    ASSUME LegacyTypeOK, NEW id \in Ids, NEW x \in Past(id)
    PROVE  Past(x) \subseteq Past(id)
<1>1. Past(id) \in SUBSET Ids /\ Closed(Past(id), id)
  BY PastIs
<1>2. Closed(Past(id), x)
  BY <1>1 DEF Closed
<1> QED BY <1>1, <1>2, PastIs

LEMMA ManyViews == IsFiniteSet(Ids) /\ Cardinality(Ids) = MaxViews /\ MaxViews \in Nat
<1>1. MaxViews \in Nat
  BY MaxViewsAssumption
<1>2. IsFiniteSet(1 .. MaxViews) /\ Cardinality(1 .. MaxViews) = MaxViews
  BY <1>1, FS_Interval
<1> QED BY <1>1, <1>2 DEF Ids

\* The sequence of a set of views has them all and no more entries than there are.
LEMMA SequenceOf ==
    ASSUME NEW T \in SUBSET Ids
    PROVE  LET s == SetToSeq(T)
           IN  /\ s \in Seq(Ids) /\ Len(s) \in 0 .. MaxViews
               /\ \A n \in DOMAIN s : s[n] \in T
               /\ \A x \in T : \E n \in DOMAIN s : s[n] = x
<1> DEFINE N == Cardinality(T)
           s == SetToSeq(T)
<1>1. IsFiniteSet(T) /\ N <= MaxViews /\ N \in Nat
  <2>1. IsFiniteSet(T) /\ N <= Cardinality(Ids)
    BY ManyViews, FS_Subset
  <2> QED BY <2>1, ManyViews, FS_CardinalityType
<1>2. \E f \in [1 .. N -> T] : IsInjective(f)
  <2>1. ExistsBijection(1 .. N, T)
    BY <1>1, FS_CardinalityType
  <2>2. PICK f : f \in Bijection(1 .. N, T)
    BY <2>1 DEF ExistsBijection
  <2> QED BY <2>2 DEF Bijection, Injection, IsInjective
<1>3. s \in [1 .. N -> T] /\ IsInjective(s)
  BY <1>2, Zenon DEF SetToSeq
<1> HIDE DEF s
<1>4. s \in Surjection(1 .. N, T)
  <2>1. s \in Injection(1 .. N, T)
    BY <1>3 DEF Injection
  <2>2. Cardinality(1 .. N) = N
    BY <1>1, FS_Interval
  <2> QED BY <1>1, <2>1, <2>2, FS_Injection
<1> HIDE DEF N
<1>5. s \in Seq(Ids) /\ Len(s) = N /\ DOMAIN s = 1 .. N
  BY <1>1, <1>3
<1>6. \A x \in T : \E n \in DOMAIN s : s[n] = x
  BY <1>4, <1>5 DEF Surjection
<1> QED BY <1>1, <1>3, <1>5, <1>6 DEF s

\* The state of a walk.
WalkStates ==
    [pending : Seq(Ids \X BOOLEAN), active : SUBSET Ids, visited : SUBSET Ids,
     ancestors : SUBSET Ids, cyclic : BOOLEAN]

\* The path is what is to be left, each view once; nothing on it is left already.
OnPath(st, active, visited) ==
    /\ \A k \in DOMAIN st : st[k][2] => st[k][1] \in active
    /\ \A x \in active : \E k \in DOMAIN st : st[k][2] /\ st[k][1] = x
    /\ \A k, l \in DOMAIN st : st[k][2] /\ st[l][2] /\ st[k][1] = st[l][1] => k = l
    /\ active \cap visited = {}

\* What is above a view of the path comes before it.
Under(st) ==
    \A k, l \in DOMAIN st : k < l /\ st[k][2] => st[l][1] \in Past(st[k][1])

Reached(st, visited, id) ==
    /\ \A k \in DOMAIN st : st[k][1] \in Past(id) \cup {id}
    /\ visited \subseteq Past(id) \cup {id}

\* All before a view that was left was left, and it is not before itself.
Done(visited) == \A x \in visited : Parents(x) \subseteq visited /\ x \notin Past(x)

\* The parents of a view of the path were left or are above it.
Coming(st, visited) ==
    \A k \in DOMAIN st : st[k][2] =>
        \A p \in Parents(st[k][1]) : p \in visited \/ \E l \in DOMAIN st : k < l /\ st[l][1] = p

Collected(ancestors, active, visited) ==
    \A p : p \in ancestors <=> \E x \in active \cup visited : p \in Parents(x)

Started(st, visited, id) == id \in visited \/ \E k \in DOMAIN st : st[k][1] = id

Going(w, id) ==
    /\ w \in WalkStates /\ w.cyclic = FALSE
    /\ OnPath(w.pending, w.active, w.visited)
    /\ Under(w.pending)
    /\ Reached(w.pending, w.visited, id)
    /\ Done(w.visited)
    /\ Coming(w.pending, w.visited)
    /\ Collected(w.ancestors, w.active, w.visited)
    /\ Started(w.pending, w.visited, id)

\* A walk that found a cycle, and has nothing more to do.
Circular(w, id) ==
    /\ w \in WalkStates /\ w.cyclic = TRUE /\ w.pending = <<>>
    /\ \E x \in Past(id) \cup {id} : x \in Past(x)

\* How many steps a walk can still take.
Fuel(w) == Len(w.pending) + (MaxViews - Cardinality(w.active \cup w.visited)) * (MaxViews + 1)

LEMMA TopOff ==
    ASSUME NEW S, NEW s \in Seq(S), s # <<>>
    PROVE  /\ Len(s) \in Nat \ {0} /\ DOMAIN s = 1 .. Len(s)
           /\ Last(s) = s[Len(s)] /\ Last(s) \in S
           /\ Front(s) \in Seq(S) /\ Len(Front(s)) = Len(s) - 1
           /\ DOMAIN Front(s) = 1 .. Len(s) - 1
           /\ \A k \in 1 .. Len(s) - 1 : Front(s)[k] = s[k]
<1>1. Len(s) \in Nat \ {0} /\ DOMAIN s = 1 .. Len(s)
  OBVIOUS
<1>2. s[Len(s)] \in S
  BY <1>1
<1>3. Front(s) \in Seq(S) /\ Len(Front(s)) = Len(s) - 1
  BY <1>1 DEF Front
<1>4. DOMAIN Front(s) = 1 .. Len(s) - 1
  BY <1>3
<1>5. \A k \in 1 .. Len(s) - 1 : Front(s)[k] = s[k]
  BY <1>1 DEF Front
<1> QED BY <1>1, <1>2, <1>3, <1>4, <1>5, Zenon DEF Last

\* What a step does with the view on top.
Left(w, x) ==
    [pending |-> Front(w.pending), active |-> Leave(w.active, x), visited |-> w.visited \cup {x},
     ancestors |-> w.ancestors, cyclic |-> FALSE]

Stopped(w) ==
    [pending |-> <<>>, active |-> w.active, visited |-> w.visited,
     ancestors |-> w.ancestors, cyclic |-> TRUE]

Skipped(w) ==
    [pending |-> Front(w.pending), active |-> w.active, visited |-> w.visited,
     ancestors |-> w.ancestors, cyclic |-> FALSE]

Entered(w, x) ==
    [pending |-> Append(Front(w.pending), <<x, TRUE>>) \o Marked(SetToSeq(Parents(x)), FALSE),
     active |-> w.active \cup {x}, visited |-> w.visited,
     ancestors |-> w.ancestors \cup Parents(x), cyclic |-> FALSE]

LEMMA StepCases ==
    ASSUME NEW w, NEW x, x = Last(w.pending)[1], Last(w.pending)[2] \in BOOLEAN
    PROVE  \/ Last(w.pending)[2] /\ WalkStep(w) = Left(w, x)
           \/ ~Last(w.pending)[2] /\ x \in w.active /\ WalkStep(w) = Stopped(w)
           \/ ~Last(w.pending)[2] /\ x \notin w.active /\ x \in w.visited /\ WalkStep(w) = Skipped(w)
           \/ ~Last(w.pending)[2] /\ x \notin w.active /\ x \notin w.visited
              /\ WalkStep(w) = Entered(w, x)
<1>1. CASE Last(w.pending)[2]
  BY <1>1, Zenon DEF WalkStep, Left
<1>2. CASE ~Last(w.pending)[2] /\ x \in w.active
  BY <1>2, Zenon DEF WalkStep, Stopped
<1>3. CASE ~Last(w.pending)[2] /\ x \notin w.active /\ x \in w.visited
  BY <1>3, Zenon DEF WalkStep, Skipped
<1>4. CASE ~Last(w.pending)[2] /\ x \notin w.active /\ x \notin w.visited
  BY <1>4, Zenon DEF WalkStep, Entered
<1> QED BY <1>1, <1>2, <1>3, <1>4, Zenon

LEMMA WalkHas ==
    ASSUME NEW w \in WalkStates
    PROVE  /\ w.pending \in Seq(Ids \X BOOLEAN) /\ w.active \in SUBSET Ids
           /\ w.visited \in SUBSET Ids /\ w.ancestors \in SUBSET Ids /\ w.cyclic \in BOOLEAN
BY DEF WalkStates

\* The entries of a stack that is not empty.
LEMMA StackIs ==
    ASSUME NEW st \in Seq(Ids \X BOOLEAN), st # <<>>
    PROVE  LET N == Len(st) IN
           /\ N \in Nat /\ N > 0 /\ DOMAIN st = 1 .. N
           /\ Last(st) = st[N] /\ st[N][1] \in Ids /\ st[N][2] \in BOOLEAN
           /\ \A k \in 1 .. N : st[k][1] \in Ids /\ st[k][2] \in BOOLEAN
           /\ Front(st) \in Seq(Ids \X BOOLEAN) /\ Len(Front(st)) = N - 1
           /\ DOMAIN Front(st) = 1 .. N - 1
           /\ \A k \in 1 .. N - 1 : Front(st)[k] = st[k]
<1>1. \A k \in 1 .. Len(st) : st[k] \in Ids \X BOOLEAN
  OBVIOUS
<1>2. Len(st) \in Nat \ {0} /\ DOMAIN st = 1 .. Len(st) /\ Last(st) = st[Len(st)]
  BY TopOff
<1>3. Front(st) \in Seq(Ids \X BOOLEAN) /\ Len(Front(st)) = Len(st) - 1
      /\ DOMAIN Front(st) = 1 .. Len(st) - 1
      /\ \A k \in 1 .. Len(st) - 1 : Front(st)[k] = st[k]
  BY TopOff
<1> QED BY <1>1, <1>2, <1>3

LEMMA FuelOf ==
    ASSUME NEW known \in SUBSET Ids
    PROVE  /\ Cardinality(known) \in 0 .. MaxViews
           /\ \A x \in Ids \ known : Cardinality(known \cup {x}) = Cardinality(known) + 1
<1>1. IsFiniteSet(known) /\ Cardinality(known) <= Cardinality(Ids)
  BY ManyViews, FS_Subset
<1>2. Cardinality(known) \in Nat
  BY <1>1, FS_CardinalityType
<1>3. \A x : x \notin known => Cardinality(known \cup {x}) = Cardinality(known) + 1
  BY <1>1, FS_AddElement
<1> QED BY <1>1, <1>2, <1>3, ManyViews

LEMMA LeaveKeeps ==
    ASSUME LegacyTypeOK, NEW id \in Ids, NEW w, Going(w, id), w.pending # <<>>,
           NEW x, x = Last(w.pending)[1], Last(w.pending)[2]
    PROVE  Going(Left(w, x), id) /\ Fuel(Left(w, x)) < Fuel(w)
<1> DEFINE st == w.pending
           active == w.active
           visited == w.visited
           rest == Front(st)
           N == Len(st)
           known == active \cup visited
<1>1. st \in Seq(Ids \X BOOLEAN) /\ active \in SUBSET Ids /\ visited \in SUBSET Ids
      /\ w.ancestors \in SUBSET Ids
  BY WalkHas DEF Going
<1>2. /\ N \in Nat /\ N > 0 /\ DOMAIN st = 1 .. N /\ x = st[N][1] /\ st[N][2] /\ x \in Ids
      /\ rest \in Seq(Ids \X BOOLEAN) /\ Len(rest) = N - 1 /\ DOMAIN rest = 1 .. N - 1
      /\ \A k \in 1 .. N - 1 : rest[k] = st[k]
  BY <1>1, StackIs
<1>3. /\ OnPath(st, active, visited) /\ Under(st) /\ Reached(st, visited, id) /\ Done(visited)
      /\ Coming(st, visited) /\ Collected(w.ancestors, active, visited) /\ Started(st, visited, id)
  BY DEF Going
<1>4. Left(w, x) \in WalkStates
  BY <1>1, <1>2 DEF Left, Leave, WalkStates
<1>5. /\ Left(w, x).pending = rest /\ Left(w, x).active = active \ {x}
      /\ Left(w, x).visited = visited \cup {x} /\ Left(w, x).ancestors = w.ancestors
      /\ Left(w, x).cyclic = FALSE
  BY DEF Left, Leave
<1> HIDE DEF st, rest, active, visited, N
<1>6. x \in active /\ x \notin visited
  BY <1>2, <1>3 DEF OnPath
<1>7. OnPath(rest, active \ {x}, visited \cup {x})
  <2>1. ASSUME NEW k \in 1 .. N - 1, rest[k][2] PROVE rest[k][1] \in active \ {x}
    <3>1. rest[k] = st[k] /\ k \in 1 .. N /\ N \in 1 .. N /\ k # N
      BY <1>2
    <3> QED BY <1>2, <1>3, <2>1, <3>1 DEF OnPath
  <2>2. ASSUME NEW y \in active \ {x} PROVE \E k \in 1 .. N - 1 : rest[k][2] /\ rest[k][1] = y
    <3>1. PICK k \in 1 .. N : st[k][2] /\ st[k][1] = y
      BY <1>2, <1>3, <2>2 DEF OnPath
    <3>2. k # N
      BY <1>2, <2>2, <3>1
    <3>3. k \in 1 .. N - 1
      BY <1>2, <3>2
    <3> QED BY <1>2, <3>1, <3>3
  <2>3. ASSUME NEW k \in 1 .. N - 1, NEW l \in 1 .. N - 1,
               rest[k][2], rest[l][2], rest[k][1] = rest[l][1]
        PROVE  k = l
    <3>1. rest[k] = st[k] /\ rest[l] = st[l] /\ k \in 1 .. N /\ l \in 1 .. N
      <4>1. \A m \in 1 .. N - 1 : m \in 1 .. N /\ rest[m] = st[m]
        BY <1>2
      <4> QED BY <4>1, Zenon
    <3>2. st[k][2] /\ st[l][2] /\ st[k][1] = st[l][1]
      BY <2>3, <3>1, Zenon
    <3>3. \A a, b \in 1 .. N : st[a][2] /\ st[b][2] /\ st[a][1] = st[b][1] => a = b
      BY <1>2, <1>3, Zenon DEF OnPath
    <3> QED BY <3>1, <3>2, <3>3, Zenon
  <2>4. (active \ {x}) \cap (visited \cup {x}) = {}
    BY <1>3 DEF OnPath
  <2> QED BY <1>2, <2>1, <2>2, <2>3, <2>4 DEF OnPath
<1>8. Under(rest)
  BY <1>2, <1>3 DEF Under
<1>9. Reached(rest, visited \cup {x}, id)
  <2>1. N \in 1 .. N /\ \A k \in 1 .. N - 1 : k \in 1 .. N
    BY <1>2
  <2> QED BY <1>2, <1>3, <2>1 DEF Reached
<1>10. Done(visited \cup {x})
  <2>1. Parents(x) \subseteq visited
    BY <1>2, <1>3 DEF Coming
  <2>2. \A y \in visited : Parents(y) \subseteq visited /\ y \notin Past(y)
    BY <1>3 DEF Done
  <2>3. Closed(visited, x)
    BY <2>1, <2>2 DEF Closed
  <2>4. x \notin Past(x)
    BY <1>1, <1>2, <1>6, <2>3, PastIs
  <2> QED BY <2>1, <2>2, <2>4 DEF Done
<1>11. Coming(rest, visited \cup {x})
  <2> SUFFICES ASSUME NEW k \in 1 .. N - 1, rest[k][2], NEW p \in Parents(rest[k][1]), p # x
               PROVE  p \in visited \/ \E l \in 1 .. N - 1 : k < l /\ rest[l][1] = p
    <3>1. DOMAIN rest = 1 .. N - 1
      BY <1>2
    <3> QED BY <3>1, Zenon DEF Coming
  <2>1. rest[k] = st[k] /\ k \in 1 .. N
    BY <1>2
  <2>2. p \in visited \/ \E l \in 1 .. N : k < l /\ st[l][1] = p
    <3>1. DOMAIN st = 1 .. N
      BY <1>2
    <3>2. st[k][2] /\ p \in Parents(st[k][1])
      BY <2>1, Zenon
    <3>3. \A l \in 1 .. N : st[l][2] => \A y \in Parents(st[l][1]) :
                y \in visited \/ \E h \in 1 .. N : l < h /\ st[h][1] = y
      <4>1. Coming(st, visited)
        BY <1>3, Zenon
      <4> QED BY <3>1, <4>1 DEF Coming
    <3> QED BY <2>1, <3>2, <3>3, Zenon
  <2>3. \A l \in 1 .. N : st[l][1] = p => l \in 1 .. N - 1 /\ rest[l] = st[l]
    BY <1>2
  <2> QED BY <2>2, <2>3
<1>12. Collected(w.ancestors, active \ {x}, visited \cup {x})
  <2>1. (active \ {x}) \cup (visited \cup {x}) = active \cup visited
    BY <1>6
  <2> QED BY <1>3, <2>1, Zenon DEF Collected
<1>13. Started(rest, visited \cup {x}, id)
  <2>1. CASE id \in visited \cup {x}
    BY <2>1 DEF Started
  <2>2. CASE id \notin visited \cup {x}
    <3>1. PICK k \in 1 .. N : st[k][1] = id
      BY <1>2, <1>3, <2>2 DEF Started
    <3>2. k \in 1 .. N - 1
      BY <1>2, <2>2, <3>1
    <3> QED BY <1>2, <3>1, <3>2 DEF Started
  <2> QED BY <2>1, <2>2
<1>14. Going(Left(w, x), id)
  BY <1>4, <1>5, <1>7, <1>8, <1>9, <1>10, <1>11, <1>12, <1>13, Zenon DEF Going
<1>15. Fuel(Left(w, x)) < Fuel(w)
  <2>1. (active \ {x}) \cup (visited \cup {x}) = active \cup visited
    BY <1>6
  <2> DEFINE c == (MaxViews - Cardinality(active \cup visited)) * (MaxViews + 1)
  <2>2. c \in Int
    BY <1>1, FuelOf, ManyViews
  <2>3. Fuel(Left(w, x)) = Len(rest) + c /\ Fuel(w) = Len(st) + c
    BY <1>5, <2>1, Zenon DEF Fuel, st, active, visited
  <2> HIDE DEF c
  <2> QED BY <1>2, <2>2, <2>3 DEF N
<1> QED BY <1>14, <1>15

LEMMA SkipKeeps ==
    ASSUME LegacyTypeOK, NEW id \in Ids, NEW w, Going(w, id), w.pending # <<>>,
           NEW x, x = Last(w.pending)[1], ~Last(w.pending)[2], x \in w.visited
    PROVE  Going(Skipped(w), id) /\ Fuel(Skipped(w)) < Fuel(w)
<1> DEFINE st == w.pending
           active == w.active
           visited == w.visited
           rest == Front(st)
           N == Len(st)
<1>1. st \in Seq(Ids \X BOOLEAN) /\ active \in SUBSET Ids /\ visited \in SUBSET Ids
      /\ w.ancestors \in SUBSET Ids
  BY WalkHas DEF Going
<1>2. /\ N \in Nat /\ N > 0 /\ DOMAIN st = 1 .. N /\ x = st[N][1] /\ ~st[N][2] /\ x \in Ids
      /\ rest \in Seq(Ids \X BOOLEAN) /\ Len(rest) = N - 1 /\ DOMAIN rest = 1 .. N - 1
      /\ \A k \in 1 .. N - 1 : rest[k] = st[k]
  BY <1>1, StackIs
<1>3. /\ OnPath(st, active, visited) /\ Under(st) /\ Reached(st, visited, id) /\ Done(visited)
      /\ Coming(st, visited) /\ Collected(w.ancestors, active, visited) /\ Started(st, visited, id)
  BY DEF Going
<1>4. Skipped(w) \in WalkStates
  BY <1>1, <1>2 DEF Skipped, WalkStates
<1>5. /\ Skipped(w).pending = rest /\ Skipped(w).active = active
      /\ Skipped(w).visited = visited /\ Skipped(w).ancestors = w.ancestors
      /\ Skipped(w).cyclic = FALSE
  BY DEF Skipped
<1>6. x \in visited
  OBVIOUS
<1> HIDE DEF st, rest, active, visited, N
<1>a. DOMAIN st = 1 .. N /\ DOMAIN rest = 1 .. N - 1
  BY <1>2
<1>b. \A k \in 1 .. N - 1 : k \in 1 .. N /\ rest[k] = st[k]
  BY <1>2
<1>c. \A k \in 1 .. N : st[k][2] \/ st[k][1] # x => k \in 1 .. N - 1
  BY <1>2
<1>7. OnPath(rest, active, visited)
  <2>1. ASSUME NEW k \in 1 .. N - 1, rest[k][2] PROVE rest[k][1] \in active
    BY <1>a, <1>b, <1>3, <2>1, Zenon DEF OnPath
  <2>2. ASSUME NEW y \in active PROVE \E k \in 1 .. N - 1 : rest[k][2] /\ rest[k][1] = y
    <3>1. PICK k \in 1 .. N : st[k][2] /\ st[k][1] = y
      BY <1>a, <1>3, <2>2, Zenon DEF OnPath
    <3> QED BY <1>b, <1>c, <3>1, Zenon
  <2>3. ASSUME NEW k \in 1 .. N - 1, NEW l \in 1 .. N - 1,
               rest[k][2], rest[l][2], rest[k][1] = rest[l][1]
        PROVE  k = l
    <3>1. st[k][2] /\ st[l][2] /\ st[k][1] = st[l][1]
      BY <1>b, <2>3, Zenon
    <3> QED BY <1>a, <1>b, <1>3, <3>1, Zenon DEF OnPath
  <2>4. active \cap visited = {}
    BY <1>3 DEF OnPath
  <2> QED BY <1>a, <2>1, <2>2, <2>3, <2>4, Zenon DEF OnPath
<1>8. Under(rest)
  BY <1>a, <1>b, <1>3, Zenon DEF Under
<1>9. Reached(rest, visited, id)
  BY <1>a, <1>b, <1>3, Zenon DEF Reached
<1>11. Coming(rest, visited)
  <2> SUFFICES ASSUME NEW k \in 1 .. N - 1, rest[k][2], NEW p \in Parents(rest[k][1]), p \notin visited
               PROVE  \E l \in 1 .. N - 1 : k < l /\ rest[l][1] = p
    BY <1>a, Zenon DEF Coming
  <2>1. st[k][2] /\ p \in Parents(st[k][1]) /\ k \in 1 .. N
    BY <1>b, Zenon
  <2>2. PICK l \in 1 .. N : k < l /\ st[l][1] = p
    BY <1>a, <1>3, <2>1, Zenon DEF Coming
  <2>3. l \in 1 .. N - 1
    BY <1>6, <1>c, <2>2, Zenon
  <2> QED BY <1>b, <2>2, <2>3, Zenon
<1>13. Started(rest, visited, id)
  <2>1. CASE id \in visited
    BY <2>1 DEF Started
  <2>2. CASE id \notin visited
    <3>1. PICK k \in 1 .. N : st[k][1] = id
      BY <1>a, <1>3, <2>2, Zenon DEF Started
    <3>2. k \in 1 .. N - 1
      BY <1>6, <1>c, <2>2, <3>1, Zenon
    <3> QED BY <1>a, <1>b, <3>1, <3>2, Zenon DEF Started
  <2> QED BY <2>1, <2>2
<1>14. Going(Skipped(w), id)
  BY <1>3, <1>4, <1>5, <1>7, <1>8, <1>9, <1>11, <1>13, Zenon DEF Going
<1>15. Fuel(Skipped(w)) < Fuel(w)
  <2> DEFINE c == (MaxViews - Cardinality(active \cup visited)) * (MaxViews + 1)
  <2>2. c \in Int
    <3>1. active \cup visited \in SUBSET Ids
      BY <1>1
    <3> QED BY <3>1, FuelOf, ManyViews
  <2>3. Fuel(Skipped(w)) = Len(rest) + c /\ Fuel(w) = Len(st) + c
    BY <1>5, Zenon DEF Fuel, st, active, visited
  <2> HIDE DEF c
  <2> QED BY <1>2, <2>2, <2>3 DEF N
<1> QED BY <1>14, <1>15

\* A view that is already on the path is met above itself, so it is before itself.
LEMMA StopIsRight ==
    ASSUME LegacyTypeOK, NEW id \in Ids, NEW w, Going(w, id), w.pending # <<>>,
           NEW x, x = Last(w.pending)[1], ~Last(w.pending)[2], x \in w.active
    PROVE  Circular(Stopped(w), id)
<1> DEFINE st == w.pending
           N == Len(st)
<1>1. st \in Seq(Ids \X BOOLEAN) /\ w.active \in SUBSET Ids /\ w.visited \in SUBSET Ids
      /\ w.ancestors \in SUBSET Ids
  BY WalkHas DEF Going
<1>2. N \in Nat /\ N > 0 /\ DOMAIN st = 1 .. N /\ x = st[N][1] /\ ~st[N][2] /\ x \in Ids
  BY <1>1, StackIs
<1>3. OnPath(st, w.active, w.visited) /\ Under(st) /\ Reached(st, w.visited, id)
  BY DEF Going
<1> HIDE DEF st, N
<1>4. PICK k \in 1 .. N : st[k][2] /\ st[k][1] = x
  BY <1>2, <1>3 DEF OnPath
<1>5. k < N /\ N \in 1 .. N
  BY <1>2, <1>4
<1>6. x \in Past(x) /\ x \in Past(id) \cup {id}
  BY <1>2, <1>3, <1>4, <1>5 DEF Under, Reached
<1>7. Stopped(w) \in WalkStates
  <2>1. <<>> \in Seq(Ids \X BOOLEAN)
    OBVIOUS
  <2> QED BY <1>1, <2>1 DEF Stopped, WalkStates
<1>8. Stopped(w).cyclic = TRUE /\ Stopped(w).pending = <<>>
  BY DEF Stopped
<1> QED BY <1>6, <1>7, <1>8, Zenon DEF Circular

\* The stack with a view to leave instead of to enter, and its parents above it.
Enlarged(st, x) == Append(Front(st), <<x, TRUE>>) \o Marked(SetToSeq(Parents(x)), FALSE)

Grows(st, new, x) ==
    LET N == Len(st) IN
    /\ new \in Seq(Ids \X BOOLEAN) /\ Len(new) \in N .. N + MaxViews
    /\ DOMAIN new = 1 .. Len(new)
    /\ \A k \in 1 .. N - 1 : new[k] = st[k]
    /\ new[N] = <<x, TRUE>>
    /\ \A k \in 1 .. Len(new) : k > N => new[k][1] \in Parents(x) /\ ~new[k][2]
    /\ \A p \in Parents(x) : \E k \in 1 .. Len(new) : k > N /\ new[k][1] = p

LEMMA EnteredStack ==
    ASSUME LegacyTypeOK, NEW st \in Seq(Ids \X BOOLEAN), st # <<>>, NEW x \in Ids
    PROVE  Grows(st, Enlarged(st, x), x)
<1> DEFINE N == Len(st)
           rest == Front(st)
           s == SetToSeq(Parents(x))
           q == Marked(s, FALSE)
           p == Append(rest, <<x, TRUE>>)
           new == p \o q
           M == Len(s)
<1>1. /\ N \in Nat /\ N > 0 /\ rest \in Seq(Ids \X BOOLEAN) /\ Len(rest) = N - 1
      /\ \A k \in 1 .. N - 1 : rest[k] = st[k]
  BY StackIs
<1>2. /\ s \in Seq(Ids) /\ M \in 0 .. MaxViews
      /\ \A n \in DOMAIN s : s[n] \in Parents(x)
      /\ \A y \in Parents(x) : \E n \in DOMAIN s : s[n] = y
  BY ParentsAreViews, SequenceOf
<1> HIDE DEF rest, s, N
<1>3. DOMAIN s = 1 .. M /\ M \in Nat /\ \A n \in 1 .. M : s[n] \in Ids
  BY <1>2, ManyViews
<1>4. q = [n \in 1 .. M |-> <<s[n], FALSE>>]
  BY <1>3 DEF Marked
<1>5. q \in [1 .. M -> Ids \X BOOLEAN]
  <2>1. \A n \in 1 .. M : <<s[n], FALSE>> \in Ids \X BOOLEAN
    BY <1>3
  <2> QED BY <1>4, <2>1, Zenon
<1>6. q \in Seq(Ids \X BOOLEAN) /\ Len(q) = M
  BY <1>3, <1>5, FunctionIsSeq
<1>7. \A n \in 1 .. M : q[n] = <<s[n], FALSE>>
  BY <1>4
<1> HIDE DEF q, M
<1>8. /\ p \in Seq(Ids \X BOOLEAN) /\ Len(p) = N /\ p[N] = <<x, TRUE>>
      /\ \A k \in 1 .. N - 1 : p[k] = rest[k]
  <2> DEFINE m == <<x, TRUE>>
  <2>1. m \in Ids \X BOOLEAN
    OBVIOUS
  <2> HIDE DEF m
  <2>2. /\ Append(rest, m) \in Seq(Ids \X BOOLEAN) /\ Len(Append(rest, m)) = N
        /\ Append(rest, m)[N] = m
        /\ \A k \in 1 .. N - 1 : Append(rest, m)[k] = rest[k]
    BY <1>1, <2>1
  <2> QED BY <2>2 DEF m
<1> HIDE DEF p
<1>9. /\ new \in Seq(Ids \X BOOLEAN) /\ Len(new) = N + M
      /\ \A k \in 1 .. N : new[k] = p[k]
      /\ \A k \in 1 .. N + M : k > N => new[k] = q[k - N]
  <2> DEFINE S == Ids \X BOOLEAN
  <2>1. p \in Seq(S) /\ q \in Seq(S) /\ Len(p) = N /\ Len(q) = M
    BY <1>6, <1>8, Zenon
  <2> HIDE DEF S
  <2>2. /\ p \o q \in Seq(S) /\ Len(p \o q) = Len(p) + Len(q)
        /\ \A k \in 1 .. Len(p) : (p \o q)[k] = p[k]
        /\ \A k \in 1 .. Len(p) + Len(q) : k > Len(p) => (p \o q)[k] = q[k - Len(p)]
    BY <2>1, Concatenation, Zenon
  <2> QED BY <2>1, <2>2, Zenon DEF S
<1>10. DOMAIN new = 1 .. Len(new)
  BY <1>9
<1> HIDE DEF new
<1>11. Len(new) \in N .. N + MaxViews
  BY <1>1, <1>2, <1>9, ManyViews
<1>12. \A k \in 1 .. N - 1 : new[k] = st[k]
  BY <1>1, <1>8, <1>9
<1>13. new[N] = <<x, TRUE>>
  <2>1. N \in 1 .. N
    BY <1>1
  <2> QED BY <1>8, <1>9, <2>1, Zenon
<1>14. \A k \in 1 .. N + M : k > N => k - N \in 1 .. M
  BY <1>1, <1>3
<1>15. \A k \in 1 .. N + M : k > N => new[k][1] = s[k - N] /\ new[k][2] = FALSE
  <2> SUFFICES ASSUME NEW k \in 1 .. N + M, k > N
               PROVE  new[k][1] = s[k - N] /\ new[k][2] = FALSE
    OBVIOUS
  <2>1. k - N \in 1 .. M
    BY <1>14
  <2>2. new[k] = <<s[k - N], FALSE>>
    BY <1>7, <1>9, <2>1, Zenon
  <2> QED BY <2>2
<1>16. \A k \in 1 .. N + M : k > N => new[k][1] \in Parents(x) /\ ~new[k][2]
  BY <1>2, <1>3, <1>14, <1>15, Zenon
<1>17. ASSUME NEW y \in Parents(x) PROVE \E k \in 1 .. N + M : k > N /\ new[k][1] = y
  <2>1. PICK n \in 1 .. M : s[n] = y
    BY <1>2, <1>3, Zenon
  <2>2. N + n \in 1 .. N + M /\ N + n > N /\ (N + n) - N = n
    BY <1>1, <1>3
  <2>3. new[N + n][1] = y
    BY <1>15, <2>1, <2>2
  <2> QED BY <2>2, <2>3
<1>18. Grows(st, new, x)
  BY <1>9, <1>10, <1>11, <1>12, <1>13, <1>16, <1>17, Zenon DEF Grows, N
<1> QED BY <1>18, Zenon DEF Enlarged, new, p, q, rest, s

LEMMA EnterKeeps ==
    ASSUME LegacyTypeOK, NEW id \in Ids, NEW w, Going(w, id), w.pending # <<>>,
           NEW x, x = Last(w.pending)[1], ~Last(w.pending)[2],
           x \notin w.active, x \notin w.visited
    PROVE  Going(Entered(w, x), id) /\ Fuel(Entered(w, x)) < Fuel(w)
<1> DEFINE st == w.pending
           active == w.active
           visited == w.visited
           new == Enlarged(st, x)
           N == Len(st)
           L == Len(new)
           grown == w.ancestors \cup Parents(x)
<1>1. st \in Seq(Ids \X BOOLEAN) /\ active \in SUBSET Ids /\ visited \in SUBSET Ids
      /\ w.ancestors \in SUBSET Ids
  BY WalkHas DEF Going
<1>2. /\ N \in Nat /\ N > 0 /\ DOMAIN st = 1 .. N /\ x = st[N][1] /\ ~st[N][2] /\ x \in Ids
      /\ \A k \in 1 .. N : st[k][1] \in Ids
  BY <1>1, StackIs
<1>3. /\ OnPath(st, active, visited) /\ Under(st) /\ Reached(st, visited, id) /\ Done(visited)
      /\ Coming(st, visited) /\ Collected(w.ancestors, active, visited) /\ Started(st, visited, id)
  BY DEF Going
<1>s. /\ new \in Seq(Ids \X BOOLEAN) /\ L \in N .. N + MaxViews /\ DOMAIN new = 1 .. L
      /\ \A k \in 1 .. N - 1 : new[k] = st[k]
      /\ new[N] = <<x, TRUE>>
      /\ \A k \in 1 .. L : k > N => new[k][1] \in Parents(x) /\ ~new[k][2]
      /\ \A p \in Parents(x) : \E k \in 1 .. L : k > N /\ new[k][1] = p
  <2>1. st # <<>>
    OBVIOUS
  <2> HIDE DEF st, new
  <2>2. Grows(st, new, x)
    BY <1>1, <1>2, <2>1, EnteredStack, Zenon DEF new
  <2> QED BY <2>2, Zenon DEF Grows
<1>p. Parents(x) \in SUBSET Ids
  BY ParentsAreViews
<1>4. Entered(w, x) \in WalkStates
  <2>1. grown \in SUBSET Ids /\ active \cup {x} \in SUBSET Ids
    BY <1>1, <1>2, <1>p
  <2> HIDE DEF grown, active, visited, new
  <2>2. [pending |-> new, active |-> active \cup {x}, visited |-> visited,
         ancestors |-> grown, cyclic |-> FALSE] \in WalkStates
    BY <1>1, <1>s, <2>1 DEF WalkStates
  <2> QED BY <2>2, Zenon DEF Entered, Enlarged, grown, active, visited, new, st
<1>5. /\ Entered(w, x).pending = new /\ Entered(w, x).active = active \cup {x}
      /\ Entered(w, x).visited = visited /\ Entered(w, x).ancestors = grown
      /\ Entered(w, x).cyclic = FALSE
  BY DEF Entered, Enlarged
<1>6. x \notin active /\ x \notin visited
  OBVIOUS
<1> HIDE DEF st, new, active, visited, N, L, grown
<1>a. DOMAIN st = 1 .. N /\ DOMAIN new = 1 .. L /\ N \in 1 .. N /\ N \in 1 .. L /\ L \in Nat
  <2>1. L \in Int /\ N <= L
    BY <1>2, <1>s, ManyViews
  <2> QED BY <1>2, <1>s, <2>1
<1>b. \A k \in 1 .. N - 1 : k \in 1 .. N /\ k \in 1 .. L /\ k < N /\ new[k] = st[k]
  BY <1>2, <1>s, <1>a
<1>c. \A k \in 1 .. N : st[k][2] \/ st[k][1] # x => k \in 1 .. N - 1
  BY <1>2
<1>d. new[N][1] = x /\ new[N][2]
  BY <1>s
<1>e. \A k \in 1 .. L : \/ k \in 1 .. N - 1
                        \/ k = N
                        \/ k > N /\ ~(k < N) /\ new[k][1] \in Parents(x) /\ ~new[k][2]
  BY <1>s, <1>2
<1>7. OnPath(new, active \cup {x}, visited)
  <2>1. ASSUME NEW k \in 1 .. L, new[k][2] PROVE new[k][1] \in active \cup {x}
    <3>1. CASE k \in 1 .. N - 1
      <4>1. st[k][2] /\ st[k][1] \in active
        BY <1>a, <1>b, <1>3, <2>1, <3>1, Zenon DEF OnPath
      <4> QED BY <1>b, <3>1, <4>1
    <3> QED BY <1>d, <1>e, <2>1, <3>1, Zenon
  <2>2. ASSUME NEW y \in active PROVE \E k \in 1 .. L : new[k][2] /\ new[k][1] = y
    <3>1. PICK k \in 1 .. N : st[k][2] /\ st[k][1] = y
      BY <1>a, <1>3, <2>2, Zenon DEF OnPath
    <3> QED BY <1>b, <1>c, <3>1, Zenon
  <2>3. ASSUME NEW k \in 1 .. L, NEW l \in 1 .. L,
               new[k][2], new[l][2], new[k][1] = new[l][1]
        PROVE  k = l
    <3>1. \A j \in 1 .. N - 1 : new[j][2] => st[j][2] /\ st[j][1] = new[j][1] /\ new[j][1] # x
      <4>1. \A j \in 1 .. N - 1 : new[j][2] => st[j][2] /\ st[j][1] = new[j][1]
        BY <1>b, Zenon
      <4>2. \A j \in 1 .. N - 1 : new[j][2] => new[j][1] \in active
        BY <1>a, <1>b, <1>3, <4>1, Zenon DEF OnPath
      <4> QED BY <1>6, <4>1, <4>2, Zenon
    <3>2. CASE k \in 1 .. N - 1 /\ l \in 1 .. N - 1
      <4>1. st[k][2] /\ st[l][2] /\ st[k][1] = st[l][1]
        BY <2>3, <3>1, <3>2, Zenon
      <4> QED BY <1>a, <1>b, <1>3, <3>2, <4>1, Zenon DEF OnPath
    <3>3. k \in 1 .. N - 1 <=> l \in 1 .. N - 1
      BY <1>d, <1>e, <2>3, <3>1, Zenon
    <3> QED BY <1>e, <2>3, <3>2, <3>3, Zenon
  <2>4. (active \cup {x}) \cap visited = {}
    BY <1>3, <1>6 DEF OnPath
  <2>5. \A y \in active \cup {x} : \E k \in 1 .. L : new[k][2] /\ new[k][1] = y
    BY <1>a, <1>d, <2>2
  <2> QED BY <1>a, <2>1, <2>3, <2>4, <2>5, Zenon DEF OnPath
<1>r. x \in Past(id) \cup {id}
  BY <1>2, <1>3, <1>a, Zenon DEF Reached
<1>8. Under(new)
  <2> SUFFICES ASSUME NEW k \in 1 .. L, NEW l \in 1 .. L, k < l, new[k][2]
               PROVE  new[l][1] \in Past(new[k][1])
    BY <1>a, Zenon DEF Under
  <2>1. CASE k \in 1 .. N - 1
    <3>1. new[k] = st[k] /\ st[k][2] /\ k \in 1 .. N /\ k < N /\ st[k][1] \in Ids
      BY <1>b, <1>2, <2>1, Zenon
    <3>2. x \in Past(st[k][1])
      BY <1>2, <1>a, <1>3, <3>1, Zenon DEF Under
    <3>3. CASE l \in 1 .. N - 1
      BY <1>a, <1>b, <1>3, <3>1, <3>3, Zenon DEF Under
    <3>4. CASE new[l][1] \in Parents(x)
      <4>1. new[l][1] \in Past(st[k][1])
        BY <3>1, <3>2, <3>4, PastOfParent
      <4> QED BY <3>1, <4>1, Zenon
    <3> QED BY <1>d, <1>e, <3>1, <3>2, <3>3, <3>4, Zenon
  <2>2. CASE k = N
    <3>1. ~(l \in 1 .. N - 1) /\ l # N
      BY <1>2, <2>2
    <3>2. new[l][1] \in Parents(x)
      BY <1>e, <3>1, Zenon
    <3>3. new[l][1] \in Past(x)
      BY <1>2, <3>2, PastOfParent
    <3> QED BY <1>d, <2>2, <3>3, Zenon
  <2> QED BY <1>e, <2>1, <2>2, Zenon
<1>9. Reached(new, visited, id)
  <2>1. ASSUME NEW k \in 1 .. L PROVE new[k][1] \in Past(id) \cup {id}
    <3>1. CASE k \in 1 .. N - 1
      BY <1>a, <1>b, <1>3, <3>1, Zenon DEF Reached
    <3>2. CASE new[k][1] \in Parents(x)
      BY <1>r, <3>2, PastOfParent
    <3> QED BY <1>d, <1>e, <1>r, <3>1, <3>2, Zenon
  <2>2. visited \subseteq Past(id) \cup {id}
    BY <1>3 DEF Reached
  <2> QED BY <1>a, <2>1, <2>2, Zenon DEF Reached
<1>11. Coming(new, visited)
  <2> SUFFICES ASSUME NEW k \in 1 .. L, new[k][2], NEW p \in Parents(new[k][1]), p \notin visited
               PROVE  \E l \in 1 .. L : k < l /\ new[l][1] = p
    BY <1>a, Zenon DEF Coming
  <2>1. CASE k \in 1 .. N - 1
    <3>1. st[k][2] /\ p \in Parents(st[k][1]) /\ k \in 1 .. N /\ k < N
      BY <1>b, <2>1, Zenon
    <3>2. PICK l \in 1 .. N : k < l /\ st[l][1] = p
      BY <1>a, <1>3, <3>1, Zenon DEF Coming
    <3>3. CASE p = x
      BY <1>a, <1>d, <3>1, <3>3, Zenon
    <3>4. CASE p # x
      BY <1>b, <1>c, <3>2, <3>4, Zenon
    <3> QED BY <3>3, <3>4
  <2>2. CASE k = N
    <3>1. p \in Parents(x)
      BY <1>d, <2>2, Zenon
    <3>2. PICK l \in 1 .. L : l > N /\ new[l][1] = p
      BY <1>s, <3>1
    <3>3. N < l
      BY <1>2, <3>2
    <3> QED BY <2>2, <3>2, <3>3, Zenon
  <2> QED BY <1>e, <2>1, <2>2, Zenon
<1>12. Collected(grown, active \cup {x}, visited)
  <2>1. \A p : p \in w.ancestors <=> \E y \in active \cup visited : p \in Parents(y)
    BY <1>3, Zenon DEF Collected
  <2> SUFFICES ASSUME NEW p
               PROVE  p \in grown <=> \E y \in (active \cup {x}) \cup visited : p \in Parents(y)
    BY Zenon DEF Collected
  <2> QED BY <2>1 DEF grown
<1>13. Started(new, visited, id)
  <2>1. CASE id \in visited
    BY <2>1 DEF Started
  <2>2. CASE id = x
    BY <1>a, <1>d, <2>2, Zenon DEF Started
  <2>3. CASE id \notin visited /\ id # x
    <3>1. PICK k \in 1 .. N : st[k][1] = id
      BY <1>a, <1>3, <2>3, Zenon DEF Started
    <3>2. k \in 1 .. N - 1
      BY <1>c, <2>3, <3>1, Zenon
    <3> QED BY <1>a, <1>b, <3>1, <3>2, Zenon DEF Started
  <2> QED BY <2>1, <2>2, <2>3
<1>14. Going(Entered(w, x), id)
  BY <1>3, <1>4, <1>5, <1>7, <1>8, <1>9, <1>11, <1>12, <1>13, Zenon DEF Going
<1>15. Fuel(Entered(w, x)) < Fuel(w)
  <2> DEFINE c == Cardinality(active \cup visited)
             K == MaxViews + 1
  <2>1. active \cup visited \in SUBSET Ids /\ x \in Ids \ (active \cup visited)
    BY <1>1, <1>2, <1>6
  <2>2. c \in Nat /\ Cardinality((active \cup visited) \cup {x}) = c + 1
    <3> DEFINE known == active \cup visited
    <3> HIDE DEF known
    <3>1. known \in SUBSET Ids /\ x \in Ids \ known
      BY <2>1 DEF known
    <3>2. Cardinality(known) \in 0 .. MaxViews /\ Cardinality(known \cup {x}) = Cardinality(known) + 1
      BY <3>1, FuelOf
    <3> QED BY <3>2, ManyViews DEF known
  <2>3. (active \cup {x}) \cup visited = (active \cup visited) \cup {x}
    OBVIOUS
  <2>4. Fuel(Entered(w, x)) = L + (MaxViews - (c + 1)) * K
    BY <1>5, <2>2, <2>3, Zenon DEF Fuel, L
  <2>5. Fuel(w) = N + (MaxViews - c) * K
    BY Zenon DEF Fuel, st, active, visited, N
  <2> DEFINE d == MaxViews - c
  <2>6. MaxViews - (c + 1) = d - 1 /\ d \in Int /\ K \in Int /\ K = MaxViews + 1 /\ MaxViews \in Nat
    BY <2>2, ManyViews
  <2> HIDE DEF c, K, d
  <2>7. (d - 1) * K = d * K - K
    BY <2>6
  <2>8. Fuel(Entered(w, x)) = L + (d * K - K) /\ Fuel(w) = N + d * K
    BY <2>4, <2>5, <2>6, <2>7 DEF d
  <2>9. L <= N + MaxViews /\ L \in Int
    BY <1>s, <1>2, ManyViews
  <2>10. d * K \in Int
    BY <2>6
  <2> QED BY <1>2, <2>6, <2>8, <2>9, <2>10
<1> QED BY <1>14, <1>15

LEMMA StepKeeps ==
    ASSUME LegacyTypeOK, NEW id \in Ids, NEW w, Going(w, id), w.pending # <<>>
    PROVE  \/ Going(WalkStep(w), id) /\ Fuel(WalkStep(w)) < Fuel(w)
           \/ Circular(WalkStep(w), id)
<1> DEFINE x == Last(w.pending)[1]
<1>1. Last(w.pending)[2] \in BOOLEAN
  <2>1. w.pending \in Seq(Ids \X BOOLEAN)
    BY WalkHas DEF Going
  <2> QED BY <2>1, StackIs
<1>2. x = Last(w.pending)[1]
  OBVIOUS
<1> HIDE DEF x
<1>3. CASE Last(w.pending)[2] /\ WalkStep(w) = Left(w, x)
  BY <1>2, <1>3, LeaveKeeps
<1>4. CASE ~Last(w.pending)[2] /\ x \in w.active /\ WalkStep(w) = Stopped(w)
  BY <1>2, <1>4, StopIsRight
<1>5. CASE ~Last(w.pending)[2] /\ x \notin w.active /\ x \in w.visited /\ WalkStep(w) = Skipped(w)
  BY <1>2, <1>5, SkipKeeps
<1>6. CASE ~Last(w.pending)[2] /\ x \notin w.active /\ x \notin w.visited
           /\ WalkStep(w) = Entered(w, x)
  BY <1>2, <1>6, EnterKeeps
<1> QED BY <1>1, <1>2, <1>3, <1>4, <1>5, <1>6, StepCases

Advance(w) == IF w.pending = <<>> THEN w ELSE WalkStep(w)

LEMMA EnoughSteps == WalkSteps \in Nat /\ WalkSteps = 1 + MaxViews * (MaxViews + 1)
<1>1. MaxViews \in Nat
  BY MaxViewsAssumption
<1>2. MaxViews * (MaxViews + 1) \in Nat
  BY <1>1
<1> QED BY <1>2 DEF WalkSteps

\* The walk is what its definition says: there is a function that computes it.
LEMMA WalkIs ==
    ASSUME NEW id
    PROVE  /\ Walk(id)[0] = WalkStart(id)
           /\ \A n \in 1 .. WalkSteps : Walk(id)[n] = Advance(Walk(id)[n - 1])
<1> DEFINE N == WalkSteps
           first == WalkStart(id)
           Computes(f, j) == f[0] = first /\ \A n \in 1 .. j : f[n] = Advance(f[n - 1])
           Value(f, n) == IF n = 0 THEN WalkStart(id)
                          ELSE LET w == f[n - 1] IN IF w.pending = <<>> THEN w ELSE WalkStep(w)
           Is(f) == f = [n \in 0 .. WalkSteps |-> Value(f, n)]
           T == {j \in 0 .. N : \E f : f = [n \in 0 .. j |-> f[n]] /\ Computes(f, j)}
<1>n. N \in Nat
  BY EnoughSteps
<1> HIDE DEF N, first
<1>1. 0 \in T
  <2> DEFINE g == [k \in 0 .. 0 |-> first]
  <2>1. g = [k \in 0 .. 0 |-> g[k]] /\ g[0] = first
    OBVIOUS
  <2>2. \A k \in 1 .. 0 : g[k] = Advance(g[k - 1])
    OBVIOUS
  <2> HIDE DEF g
  <2> QED BY <1>n, <2>1, <2>2
<1>2. ASSUME NEW j \in 0 .. N - 1, j \in T PROVE j + 1 \in T
  <2>1. PICK f : f = [n \in 0 .. j |-> f[n]] /\ Computes(f, j)
    BY <1>2
  <2> DEFINE next == Advance(f[j])
             g == [k \in 0 .. j + 1 |-> IF k = j + 1 THEN next ELSE f[k]]
  <2> HIDE DEF next
  <2>3. g = [k \in 0 .. j + 1 |-> g[k]] /\ g[j + 1] = next /\ \A k \in 0 .. j : g[k] = f[k]
    BY <1>n
  <2> HIDE DEF g
  <2>4. g[0] = first
    BY <2>1, <2>3, <1>n
  <2>5. ASSUME NEW k \in 1 .. j + 1 PROVE g[k] = Advance(g[k - 1])
    <3>1. CASE k = j + 1
      <4>0. j \in Int /\ j \in 0 .. j
        BY <1>n
      <4>1. k - 1 = j
        BY <3>1, <4>0
      <4>2. g[k - 1] = f[j]
        BY <2>3, <4>0, <4>1
      <4> QED BY <2>3, <3>1, <4>2, Zenon DEF next
    <3>2. CASE k # j + 1
      <4>1. k \in 1 .. j /\ k \in 0 .. j /\ k - 1 \in 0 .. j
        BY <3>2, <1>n
      <4>2. f[k] = Advance(f[k - 1]) /\ g[k] = f[k] /\ g[k - 1] = f[k - 1]
        BY <2>1, <2>3, <4>1
      <4> QED BY <4>2, Zenon
    <3> QED BY <3>1, <3>2
  <2>6. Computes(g, j + 1)
    BY <2>4, <2>5
  <2>7. j + 1 \in 0 .. N
    BY <1>n
  <2> QED BY <2>3, <2>6, <2>7
<1> HIDE DEF T
<1>3. N \in T
  <2>1. 0 .. N \subseteq T
    BY <1>1, <1>2, <1>n, ReachesAll
  <2> QED BY <2>1, <1>n
<1>4. PICK f : f = [n \in 0 .. N |-> f[n]] /\ Computes(f, N)
  BY <1>3 DEF T
<1>5. \A k \in 0 .. N : f[k] = Value(f, k)
  <2> SUFFICES ASSUME NEW k \in 0 .. N PROVE f[k] = Value(f, k)
    OBVIOUS
  <2>1. CASE k = 0
    BY <1>4, <2>1 DEF first
  <2>2. CASE k # 0
    <3>1. k \in 1 .. N
      BY <2>2
    <3>2. f[k] = Advance(f[k - 1])
      BY <1>4, <3>1
    <3> QED BY <2>2, <3>2, Zenon DEF Advance
  <2> QED BY <2>1, <2>2
<1> HIDE DEF Value
<1>6. f = [k \in 0 .. N |-> Value(f, k)]
  BY <1>4, <1>5
<1>7. Is(f)
  BY <1>6 DEF N
<1>8. Is(Walk(id))
  BY <1>7, Zenon DEF Walk, Value
<1> DEFINE c == Walk(id)
<1> HIDE DEF c
<1>9. c = [k \in 0 .. N |-> Value(c, k)]
  BY <1>8 DEF c, N
<1>10. \A k \in 0 .. N : c[k] = Value(c, k)
  BY <1>9
<1>11. c[0] = WalkStart(id)
  BY <1>10, <1>n DEF Value
<1>12. ASSUME NEW k \in 1 .. N PROVE c[k] = Advance(c[k - 1])
  <2>1. k \in 0 .. N /\ k # 0
    BY <1>n
  <2>2. c[k] = Value(c, k)
    BY <1>10, <2>1
  <2> QED BY <2>1, <2>2, Zenon DEF Value, Advance
<1> QED BY <1>11, <1>12 DEF c, N

LEMMA WalkBegins ==
    ASSUME LegacyTypeOK, NEW id \in Ids
    PROVE  Going(WalkStart(id), id) /\ Fuel(WalkStart(id)) = WalkSteps
<1> DEFINE w == WalkStart(id)
           st == <<<<id, FALSE>>>>
<1>1. st \in Seq(Ids \X BOOLEAN) /\ Len(st) = 1 /\ DOMAIN st = {1} /\ st[1][1] = id /\ ~st[1][2]
  <2> DEFINE m == <<id, FALSE>>
  <2>1. m \in Ids \X BOOLEAN /\ m[1] = id /\ m[2] = FALSE
    OBVIOUS
  <2> HIDE DEF m
  <2>2. <<m>> \in Seq(Ids \X BOOLEAN) /\ Len(<<m>>) = 1 /\ DOMAIN <<m>> = {1} /\ <<m>>[1] = m
    BY <2>1
  <2>3. st = <<m>>
    BY DEF m
  <2> HIDE DEF st
  <2>4. st \in Seq(Ids \X BOOLEAN) /\ Len(st) = 1 /\ DOMAIN st = {1} /\ st[1] = m
    BY <2>2, <2>3, Zenon
  <2> QED BY <2>1, <2>4
<1>2. /\ w.pending = st /\ w.active = {} /\ w.visited = {} /\ w.ancestors = {} /\ w.cyclic = FALSE
  BY DEF WalkStart
<1>3. w \in WalkStates
  BY <1>1 DEF WalkStart, WalkStates
<1> HIDE DEF w, st
<1>4. OnPath(st, {}, {}) /\ Under(st) /\ Reached(st, {}, id) /\ Done({}) /\ Coming(st, {})
      /\ Collected({}, {}, {}) /\ Started(st, {}, id)
  BY <1>1 DEF OnPath, Under, Reached, Done, Coming, Collected, Started
<1>5. Going(w, id)
  BY <1>2, <1>3, <1>4, Zenon DEF Going
<1>6. Fuel(w) = WalkSteps
  <2>1. Cardinality({} \cup {}) = 0
    BY FS_EmptySet
  <2>2. Fuel(w) = Len(st) + (MaxViews - Cardinality({} \cup {})) * (MaxViews + 1)
    BY <1>2, Zenon DEF Fuel
  <2>3. MaxViews - Cardinality({} \cup {}) = MaxViews
    BY <2>1, ManyViews
  <2> QED BY <1>1, <2>2, <2>3, Zenon DEF WalkSteps
<1> QED BY <1>5, <1>6 DEF w

LEMMA FuelIsNumber ==
    ASSUME NEW id, NEW w, Going(w, id)
    PROVE  Fuel(w) \in Int /\ Fuel(w) >= Len(w.pending) /\ Len(w.pending) \in Nat
<1>1. w.pending \in Seq(Ids \X BOOLEAN) /\ w.active \in SUBSET Ids /\ w.visited \in SUBSET Ids
  BY WalkHas DEF Going
<1> DEFINE d == MaxViews - Cardinality(w.active \cup w.visited)
<1>2. d \in Nat
  <2>1. w.active \cup w.visited \in SUBSET Ids
    BY <1>1
  <2>2. Cardinality(w.active \cup w.visited) \in 0 .. MaxViews
    BY <2>1, FuelOf
  <2> QED BY <2>2, ManyViews
<1> HIDE DEF d
<1>3. d * (MaxViews + 1) \in Nat
  BY <1>2, ManyViews
<1>4. Fuel(w) = Len(w.pending) + d * (MaxViews + 1)
  BY DEF Fuel, d
<1>5. Len(w.pending) \in Nat
  BY <1>1
<1> QED BY <1>3, <1>4, <1>5

\* After n steps a walk has ended, or it has spent one of its steps with each.
Spent(w, id, n) ==
    \/ Circular(w, id)
    \/ Going(w, id) /\ (w.pending = <<>> \/ Fuel(w) <= WalkSteps - n)

LEMMA WalkGoes ==
    ASSUME LegacyTypeOK, NEW id \in Ids
    PROVE  Spent(Walk(id)[WalkSteps], id, WalkSteps)
<1> DEFINE N == WalkSteps
           f == Walk(id)
           T == {n \in 0 .. N : Spent(f[n], id, n)}
<1>1. N \in Nat /\ f[0] = WalkStart(id) /\ \A n \in 1 .. N : f[n] = Advance(f[n - 1])
  BY EnoughSteps, WalkIs
<1> HIDE DEF N, f
<1>2. 0 \in T
  <2>1. Going(f[0], id) /\ Fuel(f[0]) = N
    BY <1>1, WalkBegins DEF N
  <2>2. Fuel(f[0]) <= N - 0
    BY <1>1, <2>1
  <2>3. Spent(f[0], id, 0)
    BY <2>1, <2>2, Zenon DEF Spent, N
  <2> QED BY <1>1, <2>3
<1>3. ASSUME NEW n \in 0 .. N - 1, n \in T PROVE n + 1 \in T
  <2> DEFINE w == f[n]
             v == f[n + 1]
  <2>1. n + 1 \in 1 .. N /\ n + 1 \in 0 .. N /\ (n + 1) - 1 = n
    BY <1>1
  <2>2. v = Advance(w)
    BY <1>1, <2>1
  <2>3. Spent(w, id, n)
    BY <1>3
  <2> HIDE DEF w, v
  <2>4. CASE Circular(w, id)
    <3>1. v = w
      BY <2>2, <2>4 DEF Advance, Circular
    <3>2. Spent(v, id, n + 1)
      BY <2>4, <3>1, Zenon DEF Spent
    <3> QED BY <2>1, <3>2 DEF v
  <2>5. CASE Going(w, id) /\ w.pending = <<>>
    <3>1. v = w
      BY <2>2, <2>5 DEF Advance
    <3>2. Spent(v, id, n + 1)
      BY <2>5, <3>1, Zenon DEF Spent
    <3> QED BY <2>1, <3>2 DEF v
  <2>6. CASE Going(w, id) /\ w.pending # <<>> /\ Fuel(w) <= N - n
    <3>1. v = WalkStep(w)
      BY <2>2, <2>6 DEF Advance
    <3>2. (Going(v, id) /\ Fuel(v) < Fuel(w)) \/ Circular(v, id)
      BY <2>6, <3>1, StepKeeps
    <3>3. Going(v, id) /\ Fuel(v) < Fuel(w) => Fuel(v) <= N - (n + 1)
      <4> SUFFICES ASSUME Going(v, id), Fuel(v) < Fuel(w) PROVE Fuel(v) <= N - (n + 1)
        OBVIOUS
      <4>1. Fuel(v) \in Int /\ Fuel(w) \in Int
        BY <2>6, FuelIsNumber
      <4>2. n \in Int
        OBVIOUS
      <4> QED BY <1>1, <2>6, <4>1, <4>2
    <3>4. Spent(v, id, n + 1)
      BY <3>2, <3>3, Zenon DEF Spent, N
    <3> QED BY <2>1, <3>4 DEF v
  <2> QED BY <2>3, <2>4, <2>5, <2>6 DEF Spent, N
<1> HIDE DEF T
<1>4. 0 .. N \subseteq T
  BY <1>1, <1>2, <1>3, ReachesAll
<1>5. N \in T
  BY <1>1, <1>4
<1> QED BY <1>5 DEF T, N, f

\* A walk that has ended found every view before the first, and no cycle.
LEMMA WalkEnds ==
    ASSUME LegacyTypeOK, NEW id \in Ids, NEW w, Going(w, id), w.pending = <<>>
    PROVE  w.ancestors = Past(id) /\ \A x \in Past(id) \cup {id} : x \notin Past(x)
<1> DEFINE st == w.pending
           active == w.active
           visited == w.visited
           ancestors == w.ancestors
<1>1. active \in SUBSET Ids /\ visited \in SUBSET Ids /\ ancestors \in SUBSET Ids
  BY WalkHas DEF Going
<1>2. DOMAIN st = {}
  OBVIOUS
<1>3. /\ OnPath(st, active, visited) /\ Reached(st, visited, id) /\ Done(visited)
      /\ Collected(ancestors, active, visited) /\ Started(st, visited, id)
  BY DEF Going
<1> HIDE DEF st, active, visited, ancestors
<1>4. active = {}
  BY <1>2, <1>3, Zenon DEF OnPath
<1>5. id \in visited
  BY <1>2, <1>3 DEF Started
<1>6. \A x \in visited : Parents(x) \subseteq visited /\ x \notin Past(x)
  BY <1>3 DEF Done
<1>7. Past(id) \subseteq visited
  BY <1>1, <1>5, <1>6, PastIs DEF Closed
<1>8. visited \subseteq Past(id) \cup {id}
  BY <1>3 DEF Reached
<1>9. \A p : p \in ancestors <=> \E x \in visited : p \in Parents(x)
  BY <1>3, <1>4 DEF Collected
<1>10. ancestors \subseteq Past(id)
  BY <1>8, <1>9, PastOfParent
<1>11. Past(id) \subseteq ancestors
  <2>1. ancestors \subseteq visited
    BY <1>6, <1>9
  <2>2. Closed(ancestors, id)
    BY <1>5, <1>9, <2>1 DEF Closed
  <2> QED BY <1>1, <2>2, PastIs
<1>12. ancestors = Past(id)
  BY <1>10, <1>11
<1>13. \A x \in Past(id) \cup {id} : x \notin Past(x)
  BY <1>5, <1>6, <1>7
<1> QED BY <1>12, <1>13 DEF ancestors

\* Whether a cycle can be reached from a view.
Endless(id) == \E x \in Past(id) \cup {id} : x \in Past(x)

LEMMA PredecessorsAre ==
    ASSUME LegacyTypeOK, NEW id \in Ids
    PROVE  /\ Endless(id) => Predecessors(id) = Unavailable
           /\ ~Endless(id) => Predecessors(id) = Past(id)
<1> DEFINE w == Walk(id)[WalkSteps]
<1>1. Spent(w, id, WalkSteps)
  BY WalkGoes
<1>2. Predecessors(id) = IF w.cyclic THEN Unavailable ELSE w.ancestors
  BY Zenon DEF Predecessors
<1> HIDE DEF w
<1>3. CASE Circular(w, id)
  <2>1. w.cyclic = TRUE /\ Endless(id)
    BY <1>3 DEF Circular, Endless
  <2> QED BY <1>2, <2>1
<1>4. CASE Going(w, id)
  <2>1. w.pending = <<>>
    <3>1. CASE Fuel(w) <= WalkSteps - WalkSteps
      <4>1. Fuel(w) <= 0 /\ Fuel(w) \in Int /\ Fuel(w) >= Len(w.pending) /\ Len(w.pending) \in Nat
        BY <1>4, <3>1, EnoughSteps, FuelIsNumber
      <4>2. Len(w.pending) = 0
        BY <4>1
      <4>3. w.pending \in Seq(Ids \X BOOLEAN)
        BY <1>4, WalkHas DEF Going
      <4> QED BY <4>2, <4>3
    <3>2. ~Circular(w, id) \/ w.pending = <<>>
      BY DEF Circular
    <3> QED BY <1>1, <3>1, <3>2 DEF Spent
  <2>2. w.ancestors = Past(id) /\ \A x \in Past(id) \cup {id} : x \notin Past(x)
    BY <1>4, <2>1, WalkEnds
  <2>3. w.cyclic = FALSE /\ ~Endless(id)
    BY <1>4, <2>2, Zenon DEF Going, Endless
  <2> QED BY <1>2, <2>2, <2>3
<1> QED BY <1>1, <1>3, <1>4 DEF Spent

\* The walk over the links, whatever they are, finds the views in every closed
\* set, ends within its steps, and refuses exactly when it can reach a cycle.
THEOREM WalkFindsAll == LegacySpec => []WalkIsClosure
<1>1. LegacyInv => WalkIsClosure
  <2> SUFFICES ASSUME LegacyInv PROVE WalkIsClosure
    OBVIOUS
  <2>1. LegacyTypeOK
    BY DEF LegacyInv
  <2> SUFFICES ASSUME NEW h \in Rows
               PROVE  Predecessors(h.view.id) =
                        IF (Past(h.view.id) \cup {h.view.id})
                             \cap {x \in Ids : x \in Past(x)} # {}
                        THEN Unavailable ELSE Past(h.view.id)
    BY Zenon DEF WalkIsClosure, Past
  <2> DEFINE id == h.view.id
  <2>2. id \in Ids
    <3>1. PICK g \in Generation : \E n \in DOMAIN tables[g] :
                                     h = [gen |-> g, row |-> n, view |-> tables[g][n]]
      BY DEF Rows
    <3>n. PICK n \in DOMAIN tables[g] : h = [gen |-> g, row |-> n, view |-> tables[g][n]]
      BY <3>1
    <3>2. tables[g][n] \in ViewRow
      BY <2>1 DEF LegacyTypeOK
    <3>3. h.view = tables[g][n]
      BY <3>n
    <3> QED BY <3>2, <3>3 DEF ViewRow
  <2> HIDE DEF id
  <2>3. Endless(id) <=> (Past(id) \cup {id}) \cap {x \in Ids : x \in Past(x)} # {}
    <3>1. Past(id) \cup {id} \subseteq Ids
      BY <2>1, <2>2, PastIs
    <3> QED BY <3>1 DEF Endless
  <2>4. Predecessors(id) = IF (Past(id) \cup {id}) \cap {x \in Ids : x \in Past(x)} # {}
                           THEN Unavailable ELSE Past(id)
    BY <2>1, <2>2, <2>3, PredecessorsAre
  <2> QED BY <2>4 DEF id
<1> QED BY <1>1, LegacyInvariant, PTL

----------------------------------------------------------------------------
(* LegacyHistory: the history as of a view *)

LEMMA RowIs ==
    ASSUME LegacyTypeOK, NEW h \in Rows
    PROVE  /\ h.gen \in Generation /\ h.row \in DOMAIN tables[h.gen]
           /\ h.view = tables[h.gen][h.row] /\ h.view \in ViewRow
           /\ h.row \in Nat /\ h.view.id \in Ids
<1>1. PICK g \in Generation : \E n \in DOMAIN tables[g] :
                                 h = [gen |-> g, row |-> n, view |-> tables[g][n]]
  BY DEF Rows
<1>2. PICK n \in DOMAIN tables[g] : h = [gen |-> g, row |-> n, view |-> tables[g][n]]
  BY <1>1
<1>3. tables[g] \in Seq(ViewRow)
  BY DEF LegacyTypeOK
<1>4. tables[g][n] \in ViewRow /\ n \in Nat
  BY <1>3
<1>5. h.gen = g /\ h.row = n /\ h.view = tables[g][n]
  BY <1>2
<1>6. h.view.id \in Ids
  BY <1>4, <1>5 DEF ViewRow
<1> QED BY <1>4, <1>5, <1>6

\* Of two rows the one that was published later, and whether they are the same.
LEMMA RowsAreOrdered ==
    ASSUME LegacyInv, NEW a \in Rows, NEW b \in Rows
    PROVE  /\ a.gen = b.gen => (a.row > b.row <=> a.view.id > b.view.id)
           /\ a.gen = b.gen => (a.row <= b.row <=> a.view.id <= b.view.id)
           /\ a.gen # b.gen => a.view.id # b.view.id
<1>1. /\ a.gen \in Generation /\ a.row \in DOMAIN tables[a.gen] /\ a.view = tables[a.gen][a.row]
      /\ b.gen \in Generation /\ b.row \in DOMAIN tables[b.gen] /\ b.view = tables[b.gen][b.row]
  BY RowIs DEF LegacyInv
<1>2. a.row \in Nat /\ b.row \in Nat /\ a.view.id \in Nat /\ b.view.id \in Nat
  <2>1. a.view.id \in Ids /\ b.view.id \in Ids /\ a.row \in Nat /\ b.row \in Nat
    BY RowIs DEF LegacyInv
  <2> QED BY <2>1 DEF Ids
<1>3. RowsInOrder
  BY DEF LegacyInv
<1>4. a.gen = b.gen /\ a.row < b.row => a.view.id < b.view.id
  BY <1>1, <1>3, Zenon DEF RowsInOrder
<1>5. a.gen = b.gen /\ b.row < a.row => b.view.id < a.view.id
  BY <1>1, <1>3, Zenon DEF RowsInOrder
<1>6. a.gen = b.gen /\ a.row = b.row => a.view.id = b.view.id
  BY <1>1, Zenon
<1>7. a.view.id = b.view.id => a.gen = b.gen
  <2>1. tables[a.gen][a.row].id = tables[b.gen][b.row].id => a.gen = b.gen
    BY <1>1, <1>3 DEF RowsInOrder
  <2> QED BY <1>1, <2>1, Zenon
<1> QED BY <1>2, <1>4, <1>5, <1>6, <1>7

\* Views without a number are older than the ones with, whose number is their place.
LEMMA NumbersAreOrdered ==
    ASSUME LegacyInv, NEW a \in Rows, NEW b \in Rows
    PROVE  /\ ~Legacy(a) => a.view.seq = a.view.id
           /\ Legacy(a) /\ ~Legacy(b) => a.view.id < b.view.id
<1>1. /\ a.gen \in Generation /\ a.row \in DOMAIN tables[a.gen] /\ a.view = tables[a.gen][a.row]
      /\ b.gen \in Generation /\ b.row \in DOMAIN tables[b.gen] /\ b.view = tables[b.gen][b.row]
  BY RowIs DEF LegacyInv
<1>2. NumberedByClock
  BY DEF LegacyInv
<1>3. a.view.seq \in {NoView, a.view.id}
  BY <1>1, <1>2, Zenon DEF NumberedByClock
<1>4. a.view.seq = NoView /\ b.view.seq # NoView => a.view.id < b.view.id
  <2>1. \A g, k \in Generation : \A n \in DOMAIN tables[g], m \in DOMAIN tables[k] :
           tables[g][n].seq = NoView /\ tables[k][m].seq # NoView
             => tables[g][n].id < tables[k][m].id
    BY <1>2, Zenon DEF NumberedByClock
  <2>2. tables[a.gen][a.row].seq = NoView /\ tables[b.gen][b.row].seq # NoView
          => tables[a.gen][a.row].id < tables[b.gen][b.row].id
    BY <1>1, <2>1
  <2> QED BY <1>1, <2>2
<1> QED BY <1>3, <1>4 DEF Legacy

\* Where nothing is damaged, what is before a view was published before it.
LEMMA PastIsEarlier ==
    ASSUME LegacyInv, ~corrupted, NEW x \in Ids, NEW y \in Past(x)
    PROVE  y < x
<1> DEFINE ids == {z \in Ids : z < x}
<1>1. ids \in SUBSET Ids
  OBVIOUS
<1>2. ASSUME NEW z \in ids \cup {x}, NEW p \in Parents(z) PROVE p \in ids
  <2>1. PICK g, n : IsLink(z, p, g, n)
    BY ParentsAre
  <2>2. g \in Generation /\ n \in DOMAIN tables[g] /\ tables[g][n].id = z
    BY <2>1 DEF IsLink
  <2>3. p \in Ids /\ z \in Ids
    BY ParentsAreViews DEF LegacyInv
  <2>4. p < z
    <3>1. CASE p = tables[g][n].baseline /\ p # NoView
      BY <2>2, <3>1, Zenon DEF LegacyInv, BaselinesAreEarlier
    <3>2. CASE n # 1 /\ p = tables[g][n - 1].id
      <4>1. tables[g] \in Seq(ViewRow)
        BY <2>2 DEF LegacyInv, LegacyTypeOK
      <4>2. n - 1 \in DOMAIN tables[g] /\ n - 1 < n
        BY <2>2, <3>2, <4>1
      <4> QED BY <2>2, <3>2, <4>2, Zenon DEF LegacyInv, RowsInOrder
    <3> QED BY <2>1, <3>1, <3>2 DEF IsLink
  <2> QED BY <2>3, <2>4 DEF Ids
<1>3. Closed(ids, x)
  BY <1>2 DEF Closed
<1>4. Past(x) \subseteq ids
  BY <1>1, <1>3, PastIs DEF LegacyInv
<1> QED BY <1>4

\* The rows before a row are before its view.
LEMMA RowsAreLinked ==
    ASSUME LegacyTypeOK, NEW a \in Rows, NEW b \in Rows, a.gen = b.gen, b.row < a.row
    PROVE  b.view.id \in Past(a.view.id)
<1> DEFINE g == a.gen
           n == a.row
           K == Past(a.view.id)
           T == {j \in 0 .. n - 2 : tables[g][n - 1 - j].id \in K}
<1>1. /\ g \in Generation /\ n \in DOMAIN tables[g] /\ a.view = tables[g][n] /\ a.view.id \in Ids
      /\ b.row \in DOMAIN tables[g] /\ b.view = tables[g][b.row]
  BY RowIs
<1>2. tables[g] \in Seq(ViewRow)
  BY <1>1 DEF LegacyTypeOK
<1>3. n \in Nat /\ b.row \in 1 .. n - 1 /\ DOMAIN tables[g] = 1 .. Len(tables[g])
      /\ n - 2 \in Nat /\ n <= Len(tables[g]) /\ Len(tables[g]) \in Nat
  BY <1>1, <1>2
<1> HIDE DEF g, n
<1>4. ASSUME NEW m \in 2 .. n, tables[g][m].id \in K \cup {a.view.id} PROVE tables[g][m - 1].id \in K
  <2>1. m \in DOMAIN tables[g] /\ m # 1
    BY <1>3
  <2>2. IsLink(tables[g][m].id, tables[g][m - 1].id, g, m)
    BY <1>1, <2>1 DEF IsLink
  <2>3. tables[g][m - 1].id \in Parents(tables[g][m].id)
    BY <2>2, ParentsAre
  <2> QED BY <1>1, <1>4, <2>3, PastOfParent
<1> HIDE DEF K
<1>5. 0 \in T
  <2>1. n \in 2 .. n /\ (n - 1) - 0 = n - 1 /\ 0 \in 0 .. n - 2
    BY <1>3
  <2>2. tables[g][n - 1].id \in K
    BY <1>1, <1>4, <2>1
  <2> QED BY <2>1, <2>2
<1>6. ASSUME NEW j \in 0 .. (n - 2) - 1, j \in T PROVE j + 1 \in T
  <2> DEFINE m == n - 1 - j
  <2>1. m \in 2 .. n /\ m - 1 = (n - 1) - (j + 1) /\ j + 1 \in 0 .. n - 2
    BY <1>3
  <2>2. tables[g][m].id \in K
    BY <1>6
  <2> HIDE DEF m
  <2>3. tables[g][m - 1].id \in K
    BY <1>4, <2>1, <2>2
  <2> QED BY <2>1, <2>3
<1> HIDE DEF T
<1>7. 0 .. n - 2 \subseteq T
  BY <1>3, <1>5, <1>6, ReachesAll
<1> DEFINE i == (n - 1) - b.row
<1>8. i \in 0 .. n - 2 /\ (n - 1) - i = b.row
  BY <1>3
<1>9. tables[g][(n - 1) - i].id \in K
  BY <1>7, <1>8 DEF T
<1> QED BY <1>1, <1>8, <1>9 DEF K

\* What is before another view has fewer views before it.
LEMMA DepthGrows ==
    ASSUME LegacyInv, ~corrupted, NEW y \in Ids, NEW x \in Past(y)
    PROVE  /\ Cardinality(Past(x)) < Cardinality(Past(y)) /\ x < y
           /\ Cardinality(Past(x)) \in Nat /\ Cardinality(Past(y)) \in Nat
<1>0. LegacyTypeOK
  BY DEF LegacyInv
<1>1. x \in Ids /\ Past(y) \in SUBSET Ids /\ Past(x) \in SUBSET Ids
  BY <1>0, PastIs
<1>2. Past(x) \subseteq Past(y)
  BY <1>0, PastOfPast
<1>3. x \notin Past(x)
  <2>1. x \in Past(x) => x < x
    BY <1>1, PastIsEarlier
  <2> QED BY <1>1, <2>1 DEF Ids
<1>4. IsFiniteSet(Past(y)) /\ IsFiniteSet(Past(x))
  BY <1>1, ManyViews, FS_Subset
<1>5. Past(x) \cup {x} \in SUBSET Past(y)
  BY <1>2
<1>6. Cardinality(Past(x) \cup {x}) <= Cardinality(Past(y))
  BY <1>4, <1>5, FS_Subset
<1>7. Cardinality(Past(x) \cup {x}) = Cardinality(Past(x)) + 1
  BY <1>3, <1>4, FS_AddElement
<1>8. Cardinality(Past(x)) \in Nat /\ Cardinality(Past(y)) \in Nat
  BY <1>4, FS_CardinalityType
<1>9. x < y
  BY PastIsEarlier
<1> QED BY <1>6, <1>7, <1>8, <1>9

\* What is asked of predecessors when nothing is damaged.
Known(bound, id) == IF OneGeneration(bound) THEN {} ELSE Past(id)

LEMMA BeforeIs ==
    ASSUME LegacyInv, ~corrupted, NEW bound \in Rows,
           NEW h, h \in Holding \/ h = bound, Legacy(h)
    PROVE  PredecessorsFor(bound)[h.view.id] = Known(bound, h.view.id) /\ h \in Rows
<1> DEFINE id == h.view.id
<1>0. LegacyTypeOK
  BY DEF LegacyInv
<1>1. h \in Rows
  BY DEF Holding
<1>2. id \in Ids
  BY <1>0, <1>1, RowIs
<1>3. h \in Requested(bound)
  BY DEF Requested
<1>4. PredecessorsFor(bound)[id] = IF OneGeneration(bound) THEN {} ELSE Predecessors(id)
  BY <1>3 DEF PredecessorsFor
<1> HIDE DEF id
<1>5. ~Endless(id)
  <2> SUFFICES ASSUME NEW x \in Past(id) \cup {id}, x \in Past(x) PROVE FALSE
    BY DEF Endless
  <2>1. x \in Ids
    BY <1>0, <1>2, PastIs
  <2>2. x < x
    BY <2>1, PastIsEarlier
  <2> QED BY <2>1, <2>2 DEF Ids
<1>6. Predecessors(id) = Past(id)
  BY <1>0, <1>2, <1>5, PredecessorsAre
<1>7. PredecessorsFor(bound)[id] = Known(bound, id)
  BY <1>4, <1>6, Zenon DEF Known
<1> QED BY <1>1, <1>7 DEF id

\* Two legacy views of different generations are asked about.
LEMMA BeforeIsAsked ==
    ASSUME LegacyInv, ~corrupted, NEW bound \in Rows,
           NEW a, a \in Holding \/ a = bound, Legacy(a),
           NEW b, b \in Holding \/ b = bound, Legacy(b), a.gen # b.gen
    PROVE  ~OneGeneration(bound)
BY DEF OneGeneration, Requested

\* One of two legacy views is before the other one, as far as is known.
ComesBefore(a, b) == a.view.id \in Past(b.view.id)

LEMMA EarlierIs ==
    ASSUME LegacyInv, ~corrupted, NEW bound \in Rows,
           NEW a, a \in Holding \/ a = bound, Legacy(a),
           NEW b, b \in Holding \/ b = bound, Legacy(b), a.gen # b.gen
    PROVE  Earlier(PredecessorsFor(bound), a, b) <=> ComesBefore(a, b)
<1>1. ~OneGeneration(bound)
  BY BeforeIsAsked
<1>2. PredecessorsFor(bound)[b.view.id] = Known(bound, b.view.id)
  BY BeforeIs
<1>3. Known(bound, b.view.id) = Past(b.view.id)
  BY <1>1 DEF Known
<1> QED BY <1>2, <1>3, Zenon DEF Earlier, ComesBefore

\* Views are before one another only in the order of their publication.
LEMMA ComesIsOrder ==
    ASSUME LegacyInv, ~corrupted, NEW a \in Rows, NEW b \in Rows, ComesBefore(a, b)
    PROVE  /\ a.view.id < b.view.id /\ ~(b.view.id <= a.view.id) /\ ~(a.view.id > b.view.id)
           /\ a.view.id <= b.view.id
<1>1. a.view.id \in Ids /\ b.view.id \in Ids
  BY RowIs DEF LegacyInv
<1>2. a.view.id < b.view.id
  BY <1>1, PastIsEarlier DEF ComesBefore
<1> QED BY <1>1, <1>2 DEF Ids

LEMMA EligibleIs ==
    ASSUME LegacyInv, ~corrupted, NEW bound \in Rows, NEW h \in Holding,
           Ordered(PredecessorsFor(bound), bound)
    PROVE  Eligible(PredecessorsFor(bound), bound, h) <=> h.view.id <= bound.view.id
<1> DEFINE bf == PredecessorsFor(bound)
<1>1. h \in Rows /\ h.view.id \in Nat /\ bound.view.id \in Nat
  <2>1. h \in Rows
    BY DEF Holding
  <2>2. h.view.id \in Ids /\ bound.view.id \in Ids
    BY <2>1, RowIs DEF LegacyInv
  <2> QED BY <2>1, <2>2 DEF Ids
<1>2. CASE ~Legacy(h) /\ ~Legacy(bound)
  <2>1. Eligible(bf, bound, h) <=> h.view.seq <= bound.view.seq
    BY <1>2, Zenon DEF Eligible
  <2>2. h.view.seq = h.view.id /\ bound.view.seq = bound.view.id
    BY <1>1, <1>2, NumbersAreOrdered
  <2> QED BY <2>1, <2>2, Zenon
<1>3. CASE ~Legacy(h) /\ Legacy(bound)
  <2>1. ~Eligible(bf, bound, h)
    BY <1>3, Zenon DEF Eligible
  <2>2. bound.view.id < h.view.id
    BY <1>1, <1>3, NumbersAreOrdered
  <2>3. ~(h.view.id <= bound.view.id)
    BY <1>1, <2>2
  <2> QED BY <2>1, <2>3, Zenon
<1>4. CASE Legacy(h) /\ ~Legacy(bound)
  <2>1. Eligible(bf, bound, h)
    BY <1>4, Zenon DEF Eligible
  <2>2. h.view.id < bound.view.id
    BY <1>1, <1>4, NumbersAreOrdered
  <2>3. h.view.id <= bound.view.id
    BY <1>1, <2>2
  <2> QED BY <2>1, <2>3, Zenon
<1>5. CASE Legacy(h) /\ Legacy(bound) /\ h.gen = bound.gen
  <2>1. Eligible(bf, bound, h) <=> h.row <= bound.row
    BY <1>5, Zenon DEF Eligible
  <2>2. h.row <= bound.row <=> h.view.id <= bound.view.id
    BY <1>1, <1>5, RowsAreOrdered
  <2> QED BY <2>1, <2>2, Zenon
<1>6. CASE Legacy(h) /\ Legacy(bound) /\ h.gen # bound.gen
  <2>1. Eligible(bf, bound, h) <=> Earlier(bf, h, bound)
    BY <1>6, Zenon DEF Eligible
  <2>2. Earlier(bf, h, bound) \/ Earlier(bf, bound, h)
    BY <1>6, Zenon DEF Ordered
  <2>3. /\ Earlier(bf, h, bound) <=> ComesBefore(h, bound)
        /\ Earlier(bf, bound, h) <=> ComesBefore(bound, h)
    BY <1>6, EarlierIs
  <2>4. /\ ComesBefore(h, bound) => h.view.id <= bound.view.id
        /\ ComesBefore(bound, h) => ~(h.view.id <= bound.view.id)
    BY <1>1, ComesIsOrder
  <2> QED BY <2>1, <2>2, <2>3, <2>4, Zenon
<1> QED BY <1>2, <1>3, <1>4, <1>5, <1>6, Zenon

\* Two views of one generation are as deep as they are late.
LEMMA DepthIsOrder ==
    ASSUME LegacyInv, ~corrupted, NEW a \in Rows, NEW b \in Rows,
           ComesBefore(a, b) \/ ComesBefore(b, a) \/ a.gen = b.gen
    PROVE  LET da == Cardinality(Past(a.view.id))
               db == Cardinality(Past(b.view.id))
           IN  (da > db \/ (da = db /\ a.row > b.row)) <=> a.view.id > b.view.id
<1> DEFINE da == Cardinality(Past(a.view.id))
           db == Cardinality(Past(b.view.id))
<1>0. LegacyTypeOK
  BY DEF LegacyInv
<1>1. a.view.id \in Ids /\ b.view.id \in Ids /\ a.row \in Nat /\ b.row \in Nat
  BY <1>0, RowIs
<1>2. ComesBefore(a, b) => da < db /\ a.view.id < b.view.id /\ da \in Nat /\ db \in Nat
  BY <1>1, DepthGrows DEF ComesBefore
<1>3. ComesBefore(b, a) => db < da /\ b.view.id < a.view.id /\ da \in Nat /\ db \in Nat
  BY <1>1, DepthGrows DEF ComesBefore
<1>4. a.gen = b.gen /\ a.row < b.row => ComesBefore(a, b)
  BY <1>0, RowsAreLinked DEF ComesBefore
<1>5. a.gen = b.gen /\ b.row < a.row => ComesBefore(b, a)
  BY <1>0, RowsAreLinked DEF ComesBefore
<1>6. a.view.id \in Nat /\ b.view.id \in Nat
  BY <1>1 DEF Ids
<1>7. a.gen = b.gen /\ a.row = b.row => a.view.id = b.view.id /\ da = db /\ da \in Nat
  <2>1. a.gen = b.gen /\ a.row = b.row => a.view.id = b.view.id
    BY <1>0, RowIs
  <2>2. da \in Nat
    <3>1. Past(a.view.id) \in SUBSET Ids
      BY <1>0, <1>1, PastIs
    <3> QED BY <3>1, ManyViews, FS_Subset, FS_CardinalityType
  <2> QED BY <2>1, <2>2
<1> HIDE DEF da, db
<1>8. CASE ComesBefore(a, b)
  BY <1>2, <1>6, <1>8 DEF da, db
<1>9. CASE ComesBefore(b, a)
  BY <1>3, <1>6, <1>9 DEF da, db
<1>10. CASE a.gen = b.gen /\ a.row = b.row
  BY <1>7, <1>6, <1>1, <1>10 DEF da, db
<1>11. a.row < b.row \/ b.row < a.row \/ a.row = b.row
  BY <1>1
<1> QED BY <1>4, <1>5, <1>8, <1>9, <1>10, <1>11, Zenon

LEMMA NewerIs ==
    ASSUME LegacyInv, ~corrupted, NEW bound \in Rows, Ordered(PredecessorsFor(bound), bound),
           NEW a \in Holding, NEW b \in Holding,
           Eligible(PredecessorsFor(bound), bound, a), Eligible(PredecessorsFor(bound), bound, b)
    PROVE  Newer(PredecessorsFor(bound), a, b) <=> a.view.id > b.view.id
<1> DEFINE bf == PredecessorsFor(bound)
           da == Cardinality(bf[a.view.id])
           db == Cardinality(bf[b.view.id])
<1>1. a \in Rows /\ b \in Rows /\ a.view.id \in Nat /\ b.view.id \in Nat
  <2>1. a \in Rows /\ b \in Rows
    BY DEF Holding
  <2>2. a.view.id \in Ids /\ b.view.id \in Ids
    BY <2>1, RowIs DEF LegacyInv
  <2> QED BY <2>1, <2>2 DEF Ids
<1>2. CASE ~Legacy(a) /\ ~Legacy(b)
  <2>1. Newer(bf, a, b) <=> a.view.seq > b.view.seq
    BY <1>2 DEF Newer, Legacy
  <2>2. a.view.seq = a.view.id /\ b.view.seq = b.view.id
    BY <1>1, <1>2, NumbersAreOrdered
  <2> QED BY <2>1, <2>2, Zenon
<1>3. CASE ~Legacy(a) /\ Legacy(b)
  <2>1. Newer(bf, a, b)
    BY <1>3, Zenon DEF Newer
  <2>2. b.view.id < a.view.id
    BY <1>1, <1>3, NumbersAreOrdered
  <2>3. a.view.id > b.view.id
    BY <1>1, <2>2
  <2> QED BY <2>1, <2>3, Zenon
<1>4. CASE Legacy(a) /\ ~Legacy(b)
  <2>1. ~Newer(bf, a, b)
    BY <1>4, Zenon DEF Newer
  <2>2. a.view.id < b.view.id
    BY <1>1, <1>4, NumbersAreOrdered
  <2>3. ~(a.view.id > b.view.id)
    BY <1>1, <2>2
  <2> QED BY <2>1, <2>3, Zenon
<1>5. CASE Legacy(a) /\ Legacy(b)
  <2>1. Newer(bf, a, b) <=> (da > db \/ (da = db /\ a.row > b.row))
    BY <1>5, Zenon DEF Newer
  <2>2. bf[a.view.id] = Known(bound, a.view.id) /\ bf[b.view.id] = Known(bound, b.view.id)
    BY <1>5, BeforeIs
  <2>3. CASE OneGeneration(bound)
    <3>1. a.gen = b.gen
      BY <1>5, <2>3, BeforeIsAsked
    <3>2. bf[a.view.id] = {} /\ bf[b.view.id] = {}
      BY <2>2, <2>3 DEF Known
    <3>3. da = 0 /\ db = 0
      BY <3>2, FS_EmptySet, Zenon
    <3>4. Newer(bf, a, b) <=> a.row > b.row
      BY <2>1, <3>3
    <3>5. a.row > b.row <=> a.view.id > b.view.id
      BY <1>1, <3>1, RowsAreOrdered
    <3> QED BY <3>4, <3>5, Zenon
  <2>4. CASE ~OneGeneration(bound)
    <3>1. da = Cardinality(Past(a.view.id)) /\ db = Cardinality(Past(b.view.id))
      BY <2>2, <2>4, Zenon DEF Known
    <3>2. a.gen = b.gen \/ Earlier(bf, a, b) \/ Earlier(bf, b, a)
      BY <1>5, Zenon DEF Ordered
    <3>3. a.gen = b.gen \/ ComesBefore(a, b) \/ ComesBefore(b, a)
      BY <1>5, <3>2, EarlierIs
    <3>4. (Cardinality(Past(a.view.id)) > Cardinality(Past(b.view.id))
            \/ (Cardinality(Past(a.view.id)) = Cardinality(Past(b.view.id)) /\ a.row > b.row))
          <=> a.view.id > b.view.id
      BY <1>1, <3>3, DepthIsOrder
    <3> QED BY <2>1, <3>1, <3>4, Zenon
  <2> QED BY <2>3, <2>4
<1> QED BY <1>2, <1>3, <1>4, <1>5, Zenon

\* Whatever generations the views are in and whichever links are missing, the
\* history as of a view is what was published until then, newest first, or it is
\* refused.
THEOREM HistoryIsWhatWas == LegacySpec => []HistoryIsTrue
<1>1. LegacyInv => HistoryIsTrue
  <2> SUFFICES ASSUME LegacyInv, ~corrupted, NEW bound \in Rows, HistoryAt(bound) # Unavailable
               PROVE  LET past == {h \in Holding : h.view.id <= bound.view.id} IN
                      HistoryAt(bound) =
                        [views |-> past,
                         newer |-> {pair \in past \X past : pair[1].view.id > pair[2].view.id}]
    BY Zenon DEF HistoryIsTrue
  <2> DEFINE bf == PredecessorsFor(bound)
             past == {h \in Holding : h.view.id <= bound.view.id}
             answer == {h \in Holding : Eligible(bf, bound, h)}
             told == {pair \in answer \X answer : Newer(bf, pair[1], pair[2])}
             true == {pair \in past \X past : pair[1].view.id > pair[2].view.id}
  <2>1. Ordered(bf, bound) /\ HistoryAt(bound) = [views |-> answer, newer |-> told]
    BY Zenon DEF HistoryAt
  <2>2. answer = past
    BY <2>1, EligibleIs
  <2>3. ASSUME NEW a \in answer, NEW b \in answer
        PROVE  Newer(bf, a, b) <=> a.view.id > b.view.id
    BY <2>1, NewerIs
  <2> HIDE DEF bf, past, answer
  <2>4. told = true
    BY <2>2, <2>3
  <2> QED BY <2>1, <2>2, <2>4, Zenon DEF past
<1> QED BY <1>1, LegacyInvariant, PTL

\* What holds of one of the machines alone holds of it in the composition, the
\* specification that is model-checked.
THEOREM ReadsCompose == ReadsSpec => Spec /\ LegacySpec /\ PolicySpec
<1>1. ReadsInit => Init /\ LegacyInit /\ PolicyInit
  BY DEF ReadsInit
<1>2. [ReadsNext]_<<subject, vars, legacyVars, members>> =>
        [Next]_vars /\ [LegacyNext]_legacyVars /\ [PolicyNext]_members
  BY DEF ReadsNext, OfPages, OfHistory, OfPolicy
<1> QED BY <1>1, <1>2, PTL DEF ReadsSpec, Spec, LegacySpec, PolicySpec
============================================================================
