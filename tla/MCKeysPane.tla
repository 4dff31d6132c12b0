----------------------------- MODULE MCKeysPane -----------------------------
(* One user with two keys and two sessions, another with one key and one    *)
(* session; a fourth key that is nobody's yet.                              *)
EXTENDS KeysPane, TLC

CONSTANTS ann, bob, s1, s2, s3, k1, k2, k3, k4

MCUsers == {[id |-> 1, username |-> ann, is_admin |-> FALSE],
            [id |-> 2, username |-> bob, is_admin |-> FALSE]}
MCKeys == {[id |-> 1, user_id |-> 2, fingerprint |-> k1],
           [id |-> 2, user_id |-> 1, fingerprint |-> k2],
           [id |-> 3, user_id |-> 1, fingerprint |-> k3]}
MCSessionUser == (s1 :> 1) @@ (s2 :> 1) @@ (s3 :> 2)

\* The two sessions of one user are interchangeable.
SameUserSessions == Permutations({s1, s2})
=============================================================================
