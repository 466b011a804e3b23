------------------------------ MODULE MCReads ------------------------------
(* Paging: three items, one with two characters of one and two bytes, which    *)
(* a search cuts behind the first, one empty, one required; the newer of two   *)
(* views of main has lost an item and gained another, a third is of two named  *)
(* branches.  Policy: three records on two branches and upstream, two of which *)
(* share a native name; ann may approve, bob may not.                          *)
EXTENDS Reads

MCText == [id \in Id |-> CASE id = "a" -> <<1, 2>> [] id = "b" -> <<>> [] OTHER -> <<2>>]
MCSeen == [id \in Id |-> [branch |-> IF id = "c" THEN "dev" ELSE "main", origin |-> "local"]]

At1(branch) == [worktree |-> "w", project |-> "p", branch |-> branch]
MCPlaces == {At1("main"), At1("dev")}
ViewOf(ids, place, branches) ==
    [ids |-> ids, place |-> place, branches |-> branches, task |-> None, incoming |-> FALSE]
MCViews == <<ViewOf(<<"a", "b">>, At1("main"), {}), ViewOf(<<"c", "a">>, At1("main"), {}),
             ViewOf(<<"a">>, At1("dev"), {"main", "dev"})>>

Ask(op, compact, ids, branches, incoming) ==
    [op |-> op, compact |-> compact, ids |-> ids, branches |-> branches, task |-> None,
     incoming |-> incoming]
MCRequests ==
    {Ask("show", FALSE, <<"b", "a", "c">>, {}, None), Ask("show", FALSE, <<"c", "a">>, {"main", "dev"}, FALSE),
     Ask("brief", FALSE, <<>>, {}, None), Ask("brief", TRUE, <<>>, {}, None),
     Ask("search", FALSE, <<>>, {}, None), Ask("search", TRUE, <<>>, {}, None)}

Rec(id, place, status, decider, replacements, replacedBy) ==
    [id |-> id, native |-> IF id = "z" THEN "n2" ELSE "n1",
     branch |-> place[1], origin |-> place[2], status |-> status, decider |-> decider,
     constraint |-> id = "z" /\ status = "note", replacements |-> replacements,
     replacedBy |-> replacedBy]
Origins == {<<"b1", "local">>, <<"b2", "local">>, <<"b1", "incoming">>}
MCRecords ==
    {Rec("x", p, status, "ann", {}, by) :
        p \in Origins, status \in {"accepted", "proposed"}, by \in {{}, {"y"}, {"n1"}}}
    \cup {Rec("y", p, status, decider, targets, {}) :
        p \in Origins, status \in {"accepted", "proposed"}, decider \in {"ann", "bob"},
        targets \in {{}, {"x"}, {"x", "z"}}}
    \cup {Rec("z", p, status, Unset, {}, {}) : p \in Origins, status \in {"blocked", "note"}}
    \cup {Rec("z", p, "accepted", "ann", targets, {}) : p \in Origins, targets \in {{}, {"x"}, {"n1"}}}
=============================================================================
