--------------------------- MODULE MCAccessCheck ---------------------------
(* Three registered users -- an administrator, an owner and an outsider who *)
(* may be granted write -- and one connection that checks access while two  *)
(* repositories come and go.  A check writes nothing, so a second           *)
(* connection would only run beside the first.                              *)
EXTENDS AccessCheck

CONSTANTS own, out, root, r1, kOut, kRoot, kNone, c1

MCUsernames == {own, out, root}
MCFingerprints == {kOut, kRoot, kNone}
MCUsers == {[id |-> 1, username |-> root, is_admin |-> TRUE],
            [id |-> 2, username |-> own,  is_admin |-> FALSE],
            [id |-> 3, username |-> out,  is_admin |-> FALSE]}
MCKeys == {[id |-> 1, user_id |-> 1, fingerprint |-> kRoot],
           [id |-> 2, user_id |-> 3, fingerprint |-> kOut]}
MCTargets == {<<own, r1>>, <<root, r1>>}
=============================================================================
