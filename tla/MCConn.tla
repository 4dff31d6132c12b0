------------------------------- MODULE MCConn -------------------------------
(* One command beside one TUI: tasks of both kinds share the queue.  Input   *)
(* is looked at on a connection that does nothing else: what a key does to   *)
(* the editor does not depend on the channels, nor the reverse.              *)
EXTENDS Conn, TuiInput

MCNext ==
    \/ InputInit /\ ConnNext /\ UNCHANGED inputVars
    \/ ConnInit /\ InputNext /\ UNCHANGED connVars

MCInit == ConnInit /\ InputInit

MCSpec ==
    /\ MCInit
    /\ [][MCNext]_<<connVars, inputVars>>
    /\ ConnFair
=============================================================================
