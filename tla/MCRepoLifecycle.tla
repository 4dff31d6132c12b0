-------------------------- MODULE MCRepoLifecycle --------------------------
(* An administrator, an owner and an outsider; one repository name in the   *)
(* owner's namespace and one in a namespace that is no user's.              *)
EXTENDS RepoLifecycle

CONSTANTS own, out, root, ghost, r1

MCUsernames == {own, out, root, ghost}
MCUsers == {[id |-> 1, username |-> root, is_admin |-> TRUE],
            [id |-> 2, username |-> own,  is_admin |-> FALSE],
            [id |-> 3, username |-> out,  is_admin |-> FALSE]}
MCTargets == {<<own, r1>>, <<ghost, r1>>}
OneTarget == {<<own, r1>>}
=============================================================================
