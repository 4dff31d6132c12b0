---------------------------- MODULE MCReposPane ----------------------------
(* A TUI session of the owner or of an administrator, beside a connection    *)
(* that runs git commands and everybody's creations and deletions.           *)
EXTENDS MCRepoLifecycle, ReposPane

MCPlace == [t \in OneTarget |-> 1]
MCVisitors == {u \in MCUsers : u.username \in {own, root}}
=============================================================================
