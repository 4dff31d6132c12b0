------------------------------ MODULE MCKanban -------------------------------
(* One session beside one connection with `issues` commands: everything the *)
(* session may find changed under its hands, that connection can change.    *)
(* Two tickets, one of them of CI, so that tabs show different lists.       *)
EXTENDS Kanban
=============================================================================
