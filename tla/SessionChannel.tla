--------------------------- MODULE SessionChannel ---------------------------
(***************************************************************************)
(* What a client may rely on when it runs a command over SSH, whatever     *)
(* else goes on in the connection: it gets everything the program wrote,   *)
(* then the exit status, then the end of the output, then the channel is   *)
(* closed.  Only a lost connection, or the client itself, cuts this short. *)
(***************************************************************************)
EXTENDS Naturals

CONSTANT Chans

VARIABLES
    stage,   \* how far each channel is, as the client sees it
    made,    \* how many pieces of output the program has written
    got      \* how many of them the client has

channelVars == <<stage, made, got>>

Stages == {"open", "exit", "eof", "closed", "cut"}

ChannelTypeOK ==
    /\ stage \in [Chans -> Stages]
    /\ made \in [Chans -> Nat] /\ got \in [Chans -> Nat]

ChannelInit ==
    /\ stage = [c \in Chans |-> "open"]
    /\ made = [c \in Chans |-> 0]
    /\ got = [c \in Chans |-> 0]

Advance(c, from, to) ==
    /\ stage[c] = from
    /\ stage' = [stage EXCEPT ![c] = to]
    /\ UNCHANGED <<made, got>>

\* The program writes; once its exit status is out it is gone.
Write(c) ==
    /\ stage[c] \in {"open", "cut"}
    /\ made' = [made EXCEPT ![c] = @ + 1]
    /\ UNCHANGED <<stage, got>>

Deliver(c) ==
    /\ stage[c] = "open" /\ got[c] < made[c]
    /\ got' = [got EXCEPT ![c] = @ + 1]
    /\ UNCHANGED <<stage, made>>

ExitStatus(c) == got[c] = made[c] /\ Advance(c, "open", "exit")
Eof(c) == Advance(c, "exit", "eof")
Close(c) == Advance(c, "eof", "closed")

\* A command that is answered at once: text, exit status, end and close.
Answer(c) == made[c] = 0 /\ Advance(c, "open", "closed")

\* The client closes the channel, or the connection is lost.
Cut ==
    /\ \E cs \in SUBSET Chans :
         stage' = [c \in Chans |-> IF c \in cs THEN "cut" ELSE stage[c]]
    /\ UNCHANGED <<made, got>>

ChannelNext ==
    \/ \E c \in Chans : Write(c) \/ Deliver(c) \/ ExitStatus(c) \/ Eof(c)
                          \/ Close(c) \/ Answer(c)
    \/ Cut

ChannelSpec == ChannelInit /\ [][ChannelNext]_channelVars
=============================================================================
