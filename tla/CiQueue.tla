------------------------------ MODULE CiQueue -------------------------------
(***************************************************************************)
(* What push CI promises of a job: it waits, and one dispatcher at a time  *)
(* takes it, which ends it, puts it back to wait for another attempt, or   *)
(* drops it when it fails itself.  A crash drops the jobs that were being  *)
(* run, and only those.  What has ended or was dropped nobody takes again. *)
(***************************************************************************)
CONSTANTS Jobs, Workers, Nothing

VARIABLES
    waiting,   \* jobs nobody has taken
    taken,     \* what each dispatcher runs
    ended,     \* jobs that have run to an end
    lost       \* jobs that a crash or a failing dispatcher cut off

queueVars == <<waiting, taken, ended, lost>>

Running == {taken[w] : w \in Workers} \ {Nothing}

QueueInit ==
    /\ waiting = {} /\ ended = {} /\ lost = {}
    /\ taken = [w \in Workers |-> Nothing]

Submit(j) ==
    /\ j \notin waiting \cup Running \cup ended \cup lost
    /\ waiting' = waiting \cup {j}
    /\ UNCHANGED <<taken, ended, lost>>

Take(w, j) ==
    /\ taken[w] = Nothing /\ j \in waiting
    /\ waiting' = waiting \ {j}
    /\ taken' = [taken EXCEPT ![w] = j]
    /\ UNCHANGED <<ended, lost>>

Finish(w) ==
    /\ taken[w] # Nothing
    /\ ended' = ended \cup {taken[w]}
    /\ taken' = [taken EXCEPT ![w] = Nothing]
    /\ UNCHANGED <<waiting, lost>>

PutBack(w) ==
    /\ taken[w] # Nothing
    /\ waiting' = waiting \cup {taken[w]}
    /\ taken' = [taken EXCEPT ![w] = Nothing]
    /\ UNCHANGED <<ended, lost>>

Drop(w) ==
    /\ taken[w] # Nothing
    /\ lost' = lost \cup {taken[w]}
    /\ taken' = [taken EXCEPT ![w] = Nothing]
    /\ UNCHANGED <<waiting, ended>>

Cut ==
    /\ lost' = lost \cup Running
    /\ taken' = [w \in Workers |-> Nothing]
    /\ UNCHANGED <<waiting, ended>>

QueueNext ==
    \/ \E j \in Jobs : Submit(j) \/ \E w \in Workers : Take(w, j)
    \/ \E w \in Workers : Finish(w) \/ PutBack(w) \/ Drop(w)
    \/ Cut

QueueSpec == QueueInit /\ [][QueueNext]_queueVars
=============================================================================
