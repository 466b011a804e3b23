------------------------------ MODULE OpenCode ------------------------------
(***************************************************************************)
(* Capture of an OpenCode database (src/src/capture/opencode.rs), with as  *)
(* much of the reconciliation around it as decides whether what it reads   *)
(* gets to the reader: the comparison of input hashes, the second pass and *)
(* the guard of the publication (see Reconcile).                           *)
(*                                                                         *)
(* A database has no prefix that could be trusted: sessions and parts are  *)
(* edited in place, so every scan reads all of them in one transaction, in *)
(* the order of their ids.  A session or part with unusable metadata is    *)
(* skipped and listed, a session of another version of OpenCode is paused  *)
(* and listed, but a part that is malformed ends the scan: the items of    *)
(* the parts before it stay, and the inventory of the database does not    *)
(* get to the caller.                                                      *)
(*                                                                         *)
(* Rules and scopes are those of module Capture and are left out.  A       *)
(* version is a part with its content.                                     *)
(* A definition named ...Mutant is the definition after it with a bug.     *)
(***************************************************************************)
EXTENDS Integers, FiniteSets

CONSTANTS
    Sessions,     \* sessions are numbered in the order of their ids
    Parts,        \* and the parts of each session
    Data,         \* what a part may say
    MaxRowEdits,  \* bound on the edits of the database
    Nothing       \* no answer, no view, no inventory

ASSUME SessionsAssumption == Sessions \in Nat
ASSUME PartsAssumption == Parts \in Nat
ASSUME MaxRowEditsAssumption == MaxRowEdits \in Nat

VARIABLES
    sessions,  \* table session: is it usable, paused or rejected
    rows,      \* table part, joined with its message
    rowEdits,  \* how often somebody edited them
    stored,    \* table item_versions
    newest,    \* the newest view: its input hash and its items
    scanAt,    \* where the command is
    attempt,   \* which of its three attempts this is
    snapshot,  \* what its first pass read
    served,    \* the items it answered with
    true,      \* what the database held since the command began (history)
    broken     \* whether a part was malformed meanwhile (history)

database == <<sessions, rows, rowEdits>>
openCodeVars == <<database, stored, newest, scanAt, attempt, snapshot, served, true, broken>>

Part == (1 .. Sessions) \X (1 .. Parts)
SessionState == {"usable", "paused", "rejected"}
RowState == [s : {"part"}, data : Data]
            \cup [s : {"absent", "malformed", "rejected"}, data : {Nothing}]

ASSUME NothingAssumption ==
    Nothing \notin [sessions : [1 .. Sessions -> SessionState],
                    parts : UNION {[D -> RowState] : D \in SUBSET Part}]

----------------------------------------------------------------------------
(* One scan *)

UpTo(p, q) == p[1] < q[1] \/ (p[1] = q[1] /\ p[2] <= q[2])

Scanned(ss, p) == ss[p[1]] = "usable"

Malformed(ss, rs) == {p \in Part : Scanned(ss, p) /\ rs[p].s = "malformed"}

\* The parts that become items: the ones before the first malformed one.
Items(ss, rs) ==
    {[part |-> p, data |-> rs[p].data] :
        p \in {q \in Part : /\ Scanned(ss, q)
                            /\ rs[q].s = "part"
                            /\ \A m \in Malformed(ss, rs) : ~UpTo(m, q)}}

\* Lists which parts there are, as a window of identities would.
InventoryMutant(ss, rs) ==
    IF Malformed(ss, rs) # {} THEN Nothing
    ELSE [sessions |-> ss, parts |-> [p \in {q \in Part : Scanned(ss, q)} |-> rs[p].s]]

\* Every session and part with its content; a malformed part leaves nothing.
Inventory(ss, rs) ==
    IF Malformed(ss, rs) # {} THEN Nothing
    ELSE [sessions |-> ss, parts |-> [p \in {q \in Part : Scanned(ss, q)} |-> rs[p]]]

\* What the answer says about the gaps: one error ends the scan and hides the
\* ones before it.
Errors(ss, rs) ==
    IF Malformed(ss, rs) # {} THEN {"capture_schema"}
    ELSE {<<s>> : s \in {t \in 1 .. Sessions : ss[t] # "usable"}}
         \cup {p \in Part : Scanned(ss, p) /\ rs[p].s = "rejected"}

Coverage(ss, rs) ==
    [accepted |-> Cardinality(Items(ss, rs)), errors |-> Errors(ss, rs)]

\* The hash covers the versions of the index and of the scan as one set.
InputsHash(ss, rs, known) ==
    [inventory |-> Inventory(ss, rs), coverage |-> Coverage(ss, rs),
     versions |-> known \cup Items(ss, rs)]

\* What one pass reads.
DatabaseScan ==
    [hash |-> InputsHash(sessions, rows, stored), items |-> Items(sessions, rows),
     inventory |-> Inventory(sessions, rows)]

----------------------------------------------------------------------------

OpenCodeInit ==
    /\ sessions = [s \in 1 .. Sessions |-> "usable"]
    /\ rows = [p \in Part |-> [s |-> "absent", data |-> Nothing]]
    /\ rowEdits = 0
    /\ stored = {} /\ newest = Nothing
    /\ scanAt = "idle" /\ attempt = 0 /\ snapshot = Nothing /\ served = Nothing
    /\ true = {} /\ broken = FALSE

\* OpenCode or somebody edits the database, in one transaction.
EditDatabase ==
    /\ rowEdits < MaxRowEdits
    /\ rowEdits' = rowEdits + 1
    /\ \/ \E p \in Part, x \in RowState : rows' = [rows EXCEPT ![p] = x]
          /\ UNCHANGED sessions
       \/ \E s \in 1 .. Sessions, x \in SessionState : sessions' = [sessions EXCEPT ![s] = x]
          /\ UNCHANGED rows
    /\ IF scanAt = "idle" THEN UNCHANGED <<true, broken>>
       ELSE /\ true' = true \cup {Items(sessions', rows')}
            /\ broken' = (broken \/ Malformed(sessions', rows') # {})
    /\ UNCHANGED <<stored, newest, scanAt, attempt, snapshot, served>>

LoseStored ==
    /\ scanAt = "idle"
    /\ newest # Nothing
    /\ stored' = {} /\ newest' = Nothing /\ served' = Nothing
    /\ UNCHANGED <<database, scanAt, attempt, snapshot, true, broken>>

BeginScan ==
    /\ scanAt = "idle"
    /\ scanAt' = "scan" /\ attempt' = 1 /\ served' = Nothing
    /\ true' = {Items(sessions, rows)}
    /\ broken' = (Malformed(sessions, rows) # {})
    /\ UNCHANGED <<database, stored, newest, snapshot>>

AnswerWith(items) ==
    /\ served' = items
    /\ scanAt' = "idle" /\ attempt' = 0 /\ snapshot' = Nothing

\* After the third attempt the previous view is answered as stale, or nothing.
Again ==
    /\ snapshot' = Nothing
    /\ IF attempt < 3 THEN scanAt' = "scan" /\ attempt' = attempt + 1
                      ELSE scanAt' = "idle" /\ attempt' = 0
    /\ UNCHANGED <<stored, newest, served>>

IsCurrent(scan) == newest # Nothing /\ newest.hash = scan.hash

FirstPass ==
    /\ scanAt = "scan"
    /\ IF IsCurrent(DatabaseScan)
         THEN AnswerWith(newest.items)
         ELSE scanAt' = "verify" /\ snapshot' = DatabaseScan /\ UNCHANGED <<attempt, served>>
    /\ UNCHANGED <<database, stored, newest, true, broken>>

SecondPass ==
    /\ scanAt = "verify"
    /\ IF DatabaseScan.hash = snapshot.hash
         THEN scanAt' = "commit" /\ UNCHANGED <<stored, newest, attempt, snapshot, served>>
         ELSE Again
    /\ UNCHANGED <<database, true, broken>>

\* The guard compares inventories while the transaction is open.
Commit ==
    /\ scanAt = "commit"
    /\ IF DatabaseScan.inventory = snapshot.inventory
         THEN /\ stored' = stored \cup snapshot.items
              /\ newest' = [hash |-> snapshot.hash, items |-> snapshot.items]
              /\ AnswerWith(snapshot.items)
         ELSE Again
    /\ UNCHANGED <<database, true, broken>>

ScanDies ==
    /\ scanAt # "idle"
    /\ scanAt' = "idle" /\ attempt' = 0 /\ snapshot' = Nothing
    /\ UNCHANGED <<database, stored, newest, served, true, broken>>

OpenCodeNext ==
    EditDatabase \/ LoseStored \/ BeginScan \/ FirstPass \/ SecondPass \/ Commit \/ ScanDies

OpenCodeSpec == OpenCodeInit /\ [][OpenCodeNext]_openCodeVars

----------------------------------------------------------------------------
(* Properties *)

\* What a command answers is what the database held at some moment while it
\* ran, although parts were edited in place between and during its passes.
ServedWasTrue == served # Nothing => served \in true

\* The same as far as the code keeps it: with no malformed part meanwhile.
ScanWasTrue == ~broken => ServedWasTrue
=============================================================================
