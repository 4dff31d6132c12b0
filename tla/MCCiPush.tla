------------------------------ MODULE MCCiPush ------------------------------
(* Two pushes, so that each can overtake every read of the other and every  *)
(* step of the other's dispatcher.  The properties compare two reads, or    *)
(* two dispatchers, at a time: a third push adds no new case.               *)
(*                                                                          *)
(* Reads and dispatchers meet in the ticket only.  So what there may be in  *)
(* .ci/push, and a deletion, are looked at while dispatchers start nothing; *)
(* and runs while all contents are templates, with either an ordinary       *)
(* ticket or second attempts.  A dispatcher that is kept from starting a    *)
(* ticket so can still reject it: none is kept from going on.               *)
EXTENDS CiPush

Started(n) == \A t \in Tickets : attempts[t] <= n
NoIssue == \A t \in Issues : ticket[t] = "none"
Templates == ~gone /\ \A i \in DOMAIN log : log[i].content = "template"

MCNext ==
    /\ Next
    /\ \/ (Started(0) /\ NoIssue)'
       \/ (Templates /\ (Started(1) \/ NoIssue))'

MCSpec == Init /\ [][MCNext]_vars /\ Fair
=============================================================================
