------------------------------- MODULE Paging -------------------------------
(***************************************************************************)
(* Reading in pages.  A client asks for evidence under a budget and gets a *)
(* page and a continuation: the view, a hash of the request, a stream and  *)
(* an offset.  It repeats the request with the continuation, or sends the  *)
(* continuation with another request.  Nothing of it is kept by memq       *)
(* except the order of a search.  In between other commands forget items,  *)
(* purge, publish views and change what a search would find, and somebody  *)
(* switches the branch, or moves to another worktree or project.           *)
(*                                                                         *)
(* Whether a page fits is decided by a tokenizer.  No property depends on  *)
(* what it counts, so every attempt to add something to a page may fit or  *)
(* not.  A text is a sequence of the widths of its characters in bytes.    *)
(* An item has one text, was seen on one branch, and is in a view once.    *)
(***************************************************************************)
EXTENDS Integers, FiniteSets, SequencesExt

CONSTANTS
    Id,         \* item ids
    Text,       \* the text of an item: [Id -> Seq(1..4)]
    Required,   \* the items that are marked as required
    Seen,       \* where an item was observed: [Id -> [branch, origin]]
    Branch, Task,
    Places,     \* where a command can run: a worktree, its project and its branch
    Views,      \* the views in the order they are published
    Requests,   \* the requests of clients
    Excerpt,    \* the most bytes a search shows of a text: 600
    Limit,      \* config.search.result_limit
    None

Op == {"show", "brief", "search"}

\* A view has the ids of its members by rank, and its scope.
View == [ids : Seq(Id), place : Places, branches : SUBSET Branch, task : Task \cup {None},
         incoming : BOOLEAN]

\* The query of a search is left out: other queries are other tasks.
ReadRequest == [op : Op, compact : BOOLEAN, ids : Seq(Id), branches : SUBSET Branch,
                task : Task \cup {None}, incoming : BOOLEAN \cup {None}]

ASSUME TextAssumption == Text \in [Id -> Seq(1..4)]
ASSUME LimitAssumption == Limit \in Nat \ {0} /\ Excerpt \in Nat
ASSUME SeenAssumption ==
    Seen \in [Id -> [branch : Branch \cup {"unknown"}, origin : {"local", "incoming"}]]
ASSUME ViewsAssumption == Views \in Seq(View) /\ Views # <<>>
ASSUME RequestsAssumption ==  \* a show without ids is an error
    Requests \subseteq ReadRequest /\ \A req \in Requests : req.op = "show" => req.ids # <<>>

VARIABLES
    here,           \* where commands run now: [worktree, project, branch]
    published,      \* the number of published views
    retained,       \* the views that can be read
    forgotten,      \* the items that were forgotten
    saved,          \* the saved orders of searches: [key -> sequence of ids]
    client,         \* "idle", "reading" or "done"
    request,        \* what it asked for and repeats, or None
    continuation,   \* what it holds: [view, hash, stream, offset], or None
    page,           \* the last page it got, or None
    began,          \* history: [here, forgotten] when it began, or None
    reading,        \* history: what there was to read when it began
    received        \* history: the fragments and the names it got since
store == <<here, published, retained, forgotten>>
session == <<client, request, continuation, page, began, reading, received>>
vars == <<store, saved, session>>

\* A show and a compact brief give evidence in parts; other requests give results.
InEvidence(req) == req.op = "show" \/ (req.op = "brief" /\ req.compact)

\* The streams that a request accepts.
Streams(req) ==
    CASE req.op = "show"   -> {"evidence"}
      [] req.op = "search" -> {"results"}
      [] OTHER             -> IF req.compact THEN {"brief-evidence"} ELSE {"results", "omitted"}

(***************************************************************************)
(* Scopes and hashes                                                       *)
(***************************************************************************)
\* validate_view_scope: the view is one of this worktree, project and checkout, or of
\* the branches that are named; a task and incoming are compared when they are given.
InScope(view, req) ==
    LET v == Views[view] IN
    /\ v.place.worktree = here.worktree /\ v.place.project = here.project
    /\ v.branches = req.branches
    /\ req.task # None => v.task = req.task
    /\ req.incoming # None => v.incoming = req.incoming
    /\ req.branches = {} => v.place.branch = here.branch

\* What a saved order belongs to.  A hash is as good as what is hashed; the ranking
\* inputs are those of the view.
SelectionHash(req, gone) ==
    [op |-> req.op, ids |-> req.ids, worktree |-> here.worktree, project |-> here.project,
     task |-> req.task, branches |-> req.branches,
     incoming |-> IF req.incoming = None THEN req.op = "brief" ELSE req.incoming,
     gone |-> gone]

\* What a continuation belongs to.
RequestHash(req, gone) == <<SelectionHash(req, gone), req.compact>>

Hash == [op : Op, ids : Seq(Id), worktree : {p.worktree : p \in Places},
         project : {p.project : p \in Places}, task : Task \cup {None},
         branches : SUBSET Branch, incoming : BOOLEAN, gone : SUBSET Id] \X BOOLEAN

\* What a client holds between two pages.
Continuation ==
    [view : DOMAIN Views, hash : Hash,
     stream : {"evidence", "brief-evidence", "results", "omitted"}, offset : Nat]
ASSUME NoneAssumption ==
    /\ None \notin Nat /\ None \notin BOOLEAN
    /\ None \notin Continuation /\ None \notin ReadRequest

(***************************************************************************)
(* Texts                                                                   *)
(***************************************************************************)
\* The positions behind the first n of some widths, one after another.
Ends(widths) ==
    LET end[n \in 0..Len(widths)] == IF n = 0 THEN 0 ELSE end[n - 1] + widths[n] IN end

Length(text) == Ends(text)[Len(text)]
Boundaries(text) == {Ends(text)[n] : n \in 0..Len(text)}

\* utf8_end: the last boundary that is not behind byte end.
Utf8End(text, end) ==
    CHOOSE x \in Boundaries(text) : x <= end /\ \A y \in Boundaries(text) : y <= end => y <= x

\* The evidence of a page: members in order, each followed by one separator.
MemberEnds(selected) == Ends([n \in DOMAIN selected |-> Length(selected[n].text) + 1])
Base(selected, i) == MemberEnds(selected)[i - 1]
Total(selected) == MemberEnds(selected)[Len(selected)]

(***************************************************************************)
(* Selection                                                               *)
(***************************************************************************)
Evidence(id) == [id |-> id, text |-> Text[id], required |-> id \in Required]
Placeholder(id) == [id |-> id, text |-> <<>>, required |-> FALSE]

\* What is left of the first n ids without those that are gone.
Remaining(ids, gone) ==
    LET left[n \in 0..Len(ids)] ==
            IF n = 0 THEN <<>>
            ELSE IF ids[n] \in gone THEN left[n - 1] ELSE Append(left[n - 1], ids[n])
    IN left

\* A bug: a retained view is read as it was published.
KeptMutant(ids, gone) == ids

Kept(ids, gone) == Remaining(ids, gone)[Len(ids)]

\* An earlier view gives a show an item that the view has no more: one seen here, on
\* the branch of the view or on a branch that is named, and not from upstream unless
\* incoming is asked for.
InHistory(req, view, earlier, id) ==
    LET on == Views[view].place.branch IN
    /\ id \in ToSet(Views[earlier].ids)
    /\ Views[earlier].place.worktree = here.worktree
    /\ IF req.branches = {}
         THEN Seen[id].branch \in {on, "unknown"} /\ Views[earlier].place.branch = on
         ELSE Seen[id].branch \in req.branches
    /\ Seen[id].origin = "local" \/ req.incoming = TRUE

\* A show answers for every id that was asked, with a placeholder when it was
\* forgotten or is not found in the view and its history.
Shown(req, view, gone) ==
    LET known(id) == \/ id \in ToSet(Views[view].ids)
                     \/ \E v \in retained : v < view /\ InHistory(req, view, v, id)
        evidence(id) == IF known(id) /\ id \notin gone THEN Evidence(id) ELSE Placeholder(id)
    IN [n \in DOMAIN req.ids |-> evidence(req.ids[n])]

Ranked(ids) == [n \in DOMAIN ids |-> Evidence(ids[n])]

Selection(req, view, gone, order) ==
    CASE req.op = "show"   -> Shown(req, view, gone)
      [] req.op = "brief"  -> Ranked(Kept(Views[view].ids, gone))
      [] req.op = "search" -> Ranked(Kept(order, gone))

(***************************************************************************)
(* Pages.  A page has the fragments it shows, the members it lists as      *)
(* omitted (their names, no text), the stream and offset of its            *)
(* continuation (offset None at the end), the number of members it         *)
(* declares omitted and the reason why it is incomplete: "complete" when   *)
(* it has none but the freshness of its view.                              *)
(***************************************************************************)
Fragment(i, start, stop) == [member |-> i, start |-> start, stop |-> stop]

\* A bug: the member after the last one on the page is not looked at.
RequiredAfterMutant(selected, n) == \E i \in n + 2..Len(selected) : selected[i].required

RequiredAfter(selected, n) == \E i \in n + 1..Len(selected) : selected[i].required

At(selected, offset) ==
    CHOOSE i \in DOMAIN selected : Base(selected, i) <= offset /\ offset < Base(selected, i + 1)

ValidOffset(selected, offset) ==
    /\ offset < Total(selected)
    /\ LET text == selected[At(selected, offset)].text
           start == offset - Base(selected, At(selected, offset))
       IN start \in Boundaries(text) /\ (text # <<>> => start # Length(text))

\* A bug: a member is taken up at its beginning.
StartMutant(selected, offset, i) == 0

Start(selected, offset, i) == IF i = At(selected, offset) THEN offset - Base(selected, i) ELSE 0

\* A bug: the separator after a member is not counted.
FollowingMutant(selected, i, stop) == Base(selected, i) + stop

\* The position after byte stop of member i: past the separator when that is its end.
Following(selected, i, stop) ==
    IF stop = Length(selected[i].text) THEN Base(selected, i + 1) ELSE Base(selected, i) + stop

Omitted(required) == IF required THEN "required_items_omitted" ELSE "results_omitted"

\* The page that shows whole members up to i and member i up to byte stop.  Only a brief
\* counts the members that are not whole.
EvidencePage(op, selected, offset, i, stop) ==
    LET first == At(selected, offset)
        end(j) == IF j = i THEN stop ELSE Length(selected[j].text)
        done == IF stop = Length(selected[i].text) THEN i ELSE i - 1
        next == Following(selected, i, stop)
        more == next < Total(selected)
    IN [shown   |-> [n \in 1..i - first + 1 |->
                       LET j == first + n - 1 IN Fragment(j, Start(selected, offset, j), end(j))],
        omitted |-> <<>>,
        stream  |-> IF op = "brief" THEN "brief-evidence" ELSE "evidence",
        offset  |-> IF more THEN next ELSE None,
        count   |-> IF op = "brief" THEN Len(selected) - done ELSE 0,
        reason  |-> IF ~more THEN "complete"
                    ELSE IF op = "brief" THEN Omitted(RequiredAfter(selected, done))
                    ELSE "evidence_page"]

\* The search for the largest part of a member ends at some character that fits, so
\* the last member of a page ends after any of its characters or is left out.
EvidencePages(op, selected, offset) ==
    IF selected = <<>> THEN
       {[shown |-> <<>>, omitted |-> <<>>, stream |-> "evidence", offset |-> None,
         count |-> 0, reason |-> "complete"]}
    ELSE LET first == At(selected, offset)
             ends(i) == {n \in Boundaries(selected[i].text) :
                            selected[i].text # <<>> => n > Start(selected, offset, i)}
         IN UNION {{EvidencePage(op, selected, offset, i, n) : n \in ends(i)} :
                      i \in first..Len(selected)}

\* set_omissions: what a page of results says of the candidates from next on.
Omissions(op, selected, next) ==
    [shown   |-> <<>>,
     omitted |-> <<>>,
     stream  |-> IF op = "brief" THEN "omitted" ELSE "results",
     offset  |-> IF next < Len(selected) THEN next ELSE None,
     count   |-> Len(selected) - next,
     reason  |-> IF next = Len(selected) THEN "complete"
                 ELSE Omitted(op = "brief" /\ RequiredAfter(selected, next))]

\* A brief shows the whole text of a result; a search cuts it, and nothing continues it.
Result(op, selected, i) ==
    LET text == selected[i].text
    IN Fragment(i, 0, IF op = "search" THEN Utf8End(text, Excerpt) ELSE Length(text))

Results(op, selected, start, next) ==
    [Omissions(op, selected, next) EXCEPT
        !.shown = [n \in 1..next - start |-> Result(op, selected, start + n)]]

\* A search shows at least one result and at most Limit.
SearchPages(selected, start) ==
    {Results("search", selected, start, next) :
        next \in {n \in start..Len(selected) : n <= start + Limit /\ (n = start => n = Len(selected))}}

WithOmitted(out, selected, from, upto) ==
    [out EXCEPT !.omitted = [n \in 1..upto - from |-> from + n],
                !.offset = IF upto = from THEN @ ELSE IF upto < Len(selected) THEN upto ELSE None]

\* A brief shows the best members and lists as many of the others as fit.
BriefPages(selected, start) ==
    {WithOmitted(Results("brief", selected, start, n[1]), selected, n[1], n[2]) :
        n \in {n \in (start..Len(selected)) \X (start..Len(selected)) : n[1] <= n[2]}}

\* A page that goes on with the list says of all of the rest that it is omitted.
Rest(selected, start) ==
    [Omissions("brief", selected, start) EXCEPT !.reason = Omitted(RequiredAfter(selected, start))]

\* A bug: a page on which nothing fits is handed out all the same.
OmittedPagesMutant(selected, start) ==
    {WithOmitted(Rest(selected, start), selected, start, upto) :
        upto \in start..Len(selected)}

OmittedPages(selected, start) ==
    {WithOmitted(Rest(selected, start), selected, start, upto) :
        upto \in {n \in start..Len(selected) : n = start => n = Len(selected)}}

Pages(req, stream, selected, offset) ==
    CASE InEvidence(req)                            -> EvidencePages(req.op, selected, offset)
      [] req.op = "search"                          -> SearchPages(selected, offset)
      [] ~InEvidence(req) /\ req.op = "brief"       ->
            IF stream = "omitted" THEN OmittedPages(selected, offset) ELSE BriefPages(selected, offset)

\* The checks of the stream and the offset of a continuation.
Acceptable(req, stream, selected, offset) ==
    /\ stream \in Streams(req)
    /\ IF InEvidence(req)
         THEN (selected = <<>> /\ offset = 0) \/ ValidOffset(selected, offset)
         ELSE offset <= Len(selected)

(***************************************************************************)
(* The system                                                              *)
(***************************************************************************)
Init ==
    /\ here = Views[1].place
    /\ published = 1
    /\ retained = {1}
    /\ forgotten = {}
    /\ saved = <<>>
    /\ client = "idle"
    /\ request = None /\ continuation = None /\ page = None /\ began = None
    /\ reading = <<>>
    /\ received = <<>>

Key(view, req) == <<view, SelectionHash(req, forgotten)>>

\* What a search finds depends on vectors, on frecency and on the index, and may differ
\* from one time to the next; the order of the first time is kept.
Orders(view, req) ==
    LET found == ToSet(Kept(Views[view].ids, forgotten)) IN
    IF Key(view, req) \in DOMAIN saved THEN {saved[Key(view, req)]}
    ELSE UNION {SetToSeqs(S) : S \in SUBSET found}

Saving(view, req, order) ==
    IF req.op # "search" THEN saved
    ELSE [k \in DOMAIN saved \cup {Key(view, req)} |->
             IF k = Key(view, req) THEN order ELSE saved[k]]

\* What the client gets with a page, member by member: a text, an excerpt of one, or only
\* the name of a member that is listed as omitted.
Got(op, selected, out) ==
    [n \in DOMAIN out.shown |->
        [id |-> selected[out.shown[n].member].id, member |-> out.shown[n].member,
         start |-> out.shown[n].start, stop |-> out.shown[n].stop,
         form |-> IF op = "search" THEN "excerpt" ELSE "text"]]
    \o [n \in DOMAIN out.omitted |->
        [id |-> selected[out.omitted[n]].id, member |-> out.omitted[n],
         start |-> 0, stop |-> 0, form |-> "listed"]]

Deliver(view, hash, out) ==
    /\ page' = out
    /\ client' = IF out.offset = None THEN "done" ELSE "reading"
    /\ continuation' = IF out.offset = None THEN None
                       ELSE [view |-> view, hash |-> hash, stream |-> out.stream, offset |-> out.offset]

\* The first page of a view: the newest, or one the client names.
First(req, view) ==
    /\ client # "reading"
    /\ view \in retained
    /\ InScope(view, req)
    /\ request' = req
    /\ began' = [here |-> here, forgotten |-> forgotten]
    /\ \E order \in IF req.op = "search" THEN Orders(view, req) ELSE {<<>>} :
          LET selected == Selection(req, view, forgotten, order) IN
          /\ saved' = Saving(view, req, order)
          /\ \E out \in Pages(req, "results", selected, 0) :
                /\ Deliver(view, RequestHash(req, forgotten), out)
                /\ reading' = selected
                /\ received' = Got(req.op, selected, out)
    /\ UNCHANGED store

\* A search whose first result does not fit has still saved its order.
SearchTooSmall(req, view) ==
    /\ client # "reading"
    /\ req.op = "search"
    /\ view \in retained
    /\ InScope(view, req)
    /\ \E order \in Orders(view, req) \ {<<>>} : saved' = Saving(view, req, order)
    /\ UNCHANGED <<store, session>>

HasOrder(view, req) == req.op = "search" => Key(view, req) \in DOMAIN saved
Order(view, req) == IF req.op = "search" /\ HasOrder(view, req) THEN saved[Key(view, req)] ELSE <<>>

\* A continuation is stale: its view is lost or of another scope, it is not of this request
\* or of what is forgotten by now, its order is purged, or its stream or offset is wrong.
Refused(c, req) ==
    \/ c.view \notin retained
    \/ ~InScope(c.view, req)
    \/ c.hash # RequestHash(req, forgotten)
    \/ ~HasOrder(c.view, req)
    \/ ~Acceptable(req, c.stream, Selection(req, c.view, forgotten, Order(c.view, req)), c.offset)

\* The next page, for the request that is repeated or for any other one that memq takes for
\* it.  When nothing of the page fits the client raises the limit and retries.
Follow(req) ==
    /\ client = "reading"
    /\ ~Refused(continuation, req)
    /\ LET c == continuation
           selected == Selection(req, c.view, forgotten, Order(c.view, req))
       IN \E out \in Pages(req, c.stream, selected, c.offset) :
             /\ Deliver(c.view, c.hash, out)
             /\ received' = received \o Got(req.op, selected, out)
    /\ UNCHANGED <<store, saved, request, began, reading>>

\* A client that is refused what it repeats gives up and is as good as a new one.  It may
\* also wait, for the branch to be switched back for one; and being refused another
\* request costs it nothing.
Refuse ==
    /\ client = "reading"
    /\ Refused(continuation, request)
    /\ client' = "idle"
    /\ request' = None /\ continuation' = None /\ page' = None /\ began' = None
    /\ reading' = <<>> /\ received' = <<>>
    /\ UNCHANGED <<store, saved>>

\* A command publishes a view of where it runs.
Publish ==
    /\ published < Len(Views)
    /\ Views[published + 1].place = here
    /\ published' = published + 1
    /\ retained' = retained \cup {published + 1}
    /\ UNCHANGED <<here, forgotten, saved, session>>

\* Another branch is checked out, or commands run in another worktree or project.
Move(place) ==
    /\ place # here
    /\ here' = place
    /\ UNCHANGED <<published, retained, forgotten, saved, session>>

\* A purge also deletes the saved orders.
Forget(id) ==
    /\ id \notin forgotten
    /\ forgotten' = forgotten \cup {id}
    /\ saved' = <<>>
    /\ UNCHANGED <<here, published, retained, session>>

\* A purge that was interrupted is finished by a later command.
FinishPurge ==
    /\ forgotten # {}
    /\ saved # <<>>
    /\ saved' = <<>>
    /\ UNCHANGED <<store, session>>

LoseIndex ==
    /\ retained # {}
    /\ retained' = {}
    /\ saved' = <<>>
    /\ UNCHANGED <<here, published, forgotten, session>>

Next ==
    \/ \E req \in Requests, view \in DOMAIN Views : First(req, view)
    \/ \E req \in Requests, view \in DOMAIN Views : SearchTooSmall(req, view)
    \/ \E req \in Requests : Follow(req)
    \/ Refuse
    \/ Publish
    \/ \E place \in Places : Move(place)
    \/ \E id \in Id : Forget(id)
    \/ FinishPurge
    \/ LoseIndex

Spec == Init /\ [][Next]_vars

(***************************************************************************)
(* Properties                                                              *)
(***************************************************************************)
\* A member of a selection, and what a client got of one.
Member == [id : Id, text : Seq(1..4), required : BOOLEAN]
Form == {"text", "excerpt", "listed"}
Part == [id : Id, member : Nat, start : Nat, stop : Nat, form : Form]

\* The variables have their types (budget.rs, Continuation).
TypeOK ==
    /\ here \in Places
    /\ published \in DOMAIN Views
    /\ retained \subseteq 1..published
    /\ forgotten \subseteq Id
    /\ \A k \in DOMAIN saved : saved[k] \in Seq(Id)
    /\ client \in {"idle", "reading", "done"}
    /\ request \in Requests \cup {None}
    /\ request = None <=> client = "idle"
    /\ continuation \in Continuation \cup {None}
    /\ (continuation # None) <=> (client = "reading")
    /\ continuation # None => continuation.view <= published
    /\ reading \in Seq(Member)
    /\ received \in Seq(Part)
    /\ \A n \in DOMAIN received : received[n].member \in DOMAIN reading

\* The forms in which a request gives members, and where a form of a text ends.
Forms(req) ==
    IF req.op = "search" THEN {"excerpt"}
    ELSE IF InEvidence(req) THEN {"text"} ELSE {"text", "listed"}
EndOf(text, form) ==
    CASE form = "text" -> Length(text) [] form = "excerpt" -> Utf8End(text, Excerpt) [] OTHER -> 0

\* Part b begins where part a ended; behind a name that is listed there are only names.
Continues(a, b) ==
    \/ /\ b.member = a.member
       /\ a.form = "text" /\ b.form = "text"
       /\ b.start = a.stop
       /\ a.stop < Length(reading[a.member].text)
    \/ /\ b.member = a.member + 1
       /\ a.form = "listed" => b.form = "listed"
       /\ b.start = 0
       /\ a.stop = EndOf(reading[a.member].text, a.form)

\* The pages of one request, taken together, are what there was to read when it began, in
\* order, no member lost between two pages and none repeated, whatever was published,
\* searched, shown or checked out since.  Of a member that is: for a show and a compact
\* brief every byte once; for a search the excerpt of its text, at most Excerpt bytes, and
\* no page has the rest; for a brief the whole text, or, from one member on, only its name.
\* When the last page has no continuation, no member is missing.
OneReading ==
    /\ \A n \in DOMAIN received :
          /\ received[n].id = reading[received[n].member].id
          /\ received[n].form \in Forms(request)
    /\ received # <<>> => received[1].member = 1 /\ received[1].start = 0
    /\ \A n \in 1..Len(received) - 1 : Continues(received[n], received[n + 1])
    /\ client = "done" /\ reading # <<>> =>
          /\ received # <<>>
          /\ Last(received).member = Len(reading)
          /\ Last(received).stop = EndOf(Last(reading).text, Last(received).form)

\* Who repeats a request where it was made gets the next page unless the view was lost,
\* something was forgotten since, or a purge deleted the order of the search: the scope,
\* the stream and the offset that memq hands out are those it accepts.
ContinuationsHold ==
    /\ client = "reading"
    /\ here = began.here /\ forgotten = began.forgotten
    /\ continuation.view \in retained
    /\ HasOrder(continuation.view, request)
    => ~Refused(continuation, request)

\* A page says it is complete exactly when no member is missing: each was given in its
\* form to the end or listed on an earlier page.  Briefs and searches, compact or not and
\* on each of their streams, say how many are missing, those that the page itself lists
\* included; and a brief says whether a required one is among them.  (docs/usage.md:103 says
\* omitted_count without restriction; in the code a show leaves it 0, and an excerpt, which
\* is what a search gives of a text, counts as given.)
OmissionsDeclared ==
    LET given == {received[n].member : n \in {n \in DOMAIN received :
                    /\ received[n].form # "listed"
                    /\ received[n].stop = EndOf(reading[received[n].member].text, received[n].form)}}
        listed == {received[n].member : n \in {n \in DOMAIN received : received[n].form = "listed"}}
        missing == DOMAIN reading \ (given \cup (listed \ ToSet(page.omitted)))
    IN client \in {"reading", "done"} =>
         /\ page.reason = "complete" <=> missing = {}
         /\ request.op # "show" => page.count = Cardinality(missing)
         /\ page.reason = "required_items_omitted" <=>
               request.op = "brief" /\ \E i \in missing : reading[i].required

\* No page has text of an item that was forgotten before, on a chain of pages that began
\* earlier as little as on a view that still holds it.
NoForgottenText ==
    [][received' # received =>
         \A n \in DOMAIN received' :
            LET f == received'[n] IN
            (n > Len(received) \/ reading' # reading) /\ f.stop > 0
               => f.id \notin forgotten]_vars

\* A client never gets a page, after the first one, that brings it no further: when
\* nothing fits, the page fails (operations.rs, "no pagination progress").
PagesAdvance ==
    [][client = "reading" /\ client' = "reading" /\ page' # page
         => Len(received') > Len(received)]_vars
=============================================================================
