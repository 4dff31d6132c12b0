-------------------------------- MODULE Auth --------------------------------
(***************************************************************************)
(* The access rules of src/src/auth.rs as they read in ONE store state.    *)
(* AccessCheck runs the code's checks, which take several store calls,     *)
(* against these definitions; the other modules use them as one step.      *)
(***************************************************************************)
EXTENDS Store

CONSTANT NoUser      \* Option::None: nobody, an anonymous connection

ASSUME AuthAssumption == NoUser \notin User

None      == 0
ReadOnly  == 1
ReadWrite == 2
Access == {None, ReadOnly, ReadWrite}

\* can_write_in_namespace: an administrator, or the owner.
Privileged(u, owner) == u # NoUser /\ (u.is_admin \/ u.username = owner)

\* What u may do with the repository t = <<owner, name>>.
AllowedIn(us, rs, ps, u, t) ==
    LET found == GetRepoIn(rs, us, t[1], t[2]) IN
    IF Privileged(u, t[1]) THEN ReadWrite
    ELSE IF u # NoUser /\ \E r \in found : WriteGrantIn(ps, u.id, r.id) THEN ReadWrite
    ELSE IF \E r \in found : r.public THEN ReadOnly
    ELSE None
=============================================================================
