------------------------------ MODULE MCCapture ------------------------------
(* Two files of one session source; entries with two texts, whose recorded time *)
(* a rule may cover, and rules that cover one item.                             *)
EXTENDS Adapters

HeaderLine == [t |-> "header", session |-> "s", cwd |-> "c", ordinal |-> 1]
EntryLine(n, x) == [t |-> "entry", id |-> n, text |-> x]
PinLine(n) == [t |-> "pin", id |-> n]
MCFiles == <<"f", "g">>
MCContents == {<<HeaderLine, EntryLine(2, "a")>>, <<[t |-> "title"], HeaderLine>>}
MCLines == {EntryLine(2, "a"), EntryLine(2, "b"), EntryLine(3, "a"), PinLine(2),
            [t |-> "broken"], [t |-> "cut"]}
MCRuleSets == {{}, {[item |-> <<"s", 2>>]}, {[time |-> "a"]}}
==============================================================================
