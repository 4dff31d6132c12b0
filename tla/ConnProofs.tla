----------------------------- MODULE ConnProofs ------------------------------
(***************************************************************************)
(* For any number of channels, any queue and any pipes: what a command's   *)
(* client sees is what SessionChannel promises.                            *)
(*                                                                         *)
(* The inductive invariant follows the pieces of output on their way --    *)
(* pipe, reader, queue, client -- and counts them; and it says which       *)
(* of the three closing messages are on theirs.                            *)
(***************************************************************************)
EXTENDS Conn, FiniteSets, FiniteSetTheorems, TLAPS

\* How many entries of the sequence q are m.
Places(q, m) == {i \in 1..Len(q) : q[i] = m}
Count(q, m) == Cardinality(Places(q, m))

Piece(c) == [chan |-> c, msg |-> "data"]

\* The place of a message in the order in which a client has to get them.
Rank(msg) == CASE msg = "data" -> 0 [] msg = "exit" -> 1 [] msg = "eof" -> 2 [] OTHER -> 3

\* How many of the three closing messages the waiter has sent, and the client seen.
Told(c) == CASE waiter[c] = "eof" -> 1 [] waiter[c] = "close" -> 2 [] waiter[c] = "done" -> 3
             [] OTHER -> 0
Seen(c) == CASE stage[c] = "exit" -> 1 [] stage[c] = "eof" -> 2 [] stage[c] = "closed" -> 3
             [] OTHER -> 0

\* The child, its reader and the task that waits for it begin together and end in order.
TasksInOrder(c) ==
    /\ child[c] = "none" =>
         waiter[c] = "none" /\ reader[c] = "none" /\ made[c] = 0 /\ got[c] = 0 /\ outPipe[c] = 0
    /\ child[c] = "running" => waiter[c] = "wait" /\ stage[c] \in {"open", "cut"}
    /\ child[c] # "none" => waiter[c] # "none" /\ reader[c] # "none"
    /\ waiter[c] \in {"exit", "eof", "close", "done"} => reader[c] = "done"
    /\ up /\ reader[c] = "done" => outPipe[c] = 0 /\ child[c] = "exited"

\* A channel of a command whose client can still be told something.
Live(c) == up /\ child[c] # "none" /\ stage[c] # "cut"

InReader(c) == IF reader[c] = "send" THEN 1 ELSE 0

\* No piece is lost: the client has it, or it waits in the queue, with the
\* reader, or in the pipe.
NothingLost(c) ==
    /\ got[c] <= made[c]
    /\ Live(c) => got[c] + Count(queue, Piece(c)) + InReader(c) + outPipe[c] = made[c]

\* Of a channel there is in the queue, in this order: pieces, as long as the
\* client has not seen the exit status, and what the waiter has sent and the
\* client has not seen.
QueueInOrder(c) ==
    /\ \A i \in 1..Len(queue) : queue[i].chan = c => child[c] # "none"
    /\ Live(c) =>
         /\ Seen(c) <= Told(c)
         /\ \A i \in 1..Len(queue) : queue[i].chan = c =>
              IF queue[i].msg = "data" THEN stage[c] = "open"
              ELSE Seen(c) < Rank(queue[i].msg) /\ Rank(queue[i].msg) <= Told(c)
         /\ \A i, j \in 1..Len(queue) :
              i < j /\ queue[i].chan = c /\ queue[j].chan = c /\ queue[i].msg # "data" =>
                Rank(queue[i].msg) < Rank(queue[j].msg)
         /\ \A m \in {"exit", "eof", "close"} : Seen(c) < Rank(m) /\ Rank(m) <= Told(c) =>
              \E i \in 1..Len(queue) : queue[i] = [chan |-> c, msg |-> m]

ChannelInv(c) == TasksInOrder(c) /\ NothingLost(c) /\ QueueInOrder(c)

\* When the connection is gone, so are the queue and the client.
DownIsDown ==
    ~up => handler = NoHandler /\ queue = <<>> /\ \A c \in Chans : stage[c] \in {"closed", "cut"}

Inv == ConnTypeOK /\ DownIsDown /\ \A c \in ExecChans : ChannelInv(c)

-----------------------------------------------------------------------------
\* Counting in a queue that is appended to at its end and taken from at its head.
LEMMA CountType ==
  ASSUME NEW S, NEW q \in Seq(S), NEW m
  PROVE  IsFiniteSet(Places(q, m)) /\ Count(q, m) \in Nat
<1>1. IsFiniteSet(1..Len(q))
  BY FS_Interval
<1>2. IsFiniteSet(Places(q, m))
  BY <1>1, FS_Subset DEF Places
<1> QED
  BY <1>2, FS_CardinalityType DEF Count

LEMMA CountEmpty == \A m : Count(<<>>, m) = 0
<1> SUFFICES ASSUME NEW m PROVE Count(<<>>, m) = 0
  OBVIOUS
<1>1. Places(<<>>, m) = {}
  BY DEF Places
<1> QED
  BY <1>1, FS_EmptySet DEF Count

LEMMA CountAppend ==
  ASSUME NEW S, NEW q \in Seq(S), NEW e \in S, NEW m
  PROVE  Count(Append(q, e), m) = IF e = m THEN Count(q, m) + 1 ELSE Count(q, m)
<1>1. Len(q) \in Nat /\ Len(Append(q, e)) = Len(q) + 1
  OBVIOUS
<1>2. \A i \in 1..Len(q) : Append(q, e)[i] = q[i]
  OBVIOUS
<1>3. Append(q, e)[Len(q) + 1] = e
  OBVIOUS
<1>4. Places(Append(q, e), m) = IF e = m THEN Places(q, m) \cup {Len(q) + 1} ELSE Places(q, m)
  BY <1>1, <1>2, <1>3 DEF Places
<1>5. IsFiniteSet(Places(q, m))
  BY CountType
<1>6. Len(q) + 1 \notin Places(q, m)
  BY <1>1 DEF Places
<1> QED
  BY <1>4, <1>5, <1>6, FS_AddElement DEF Count

LEMMA CountTail ==
  ASSUME NEW S, NEW q \in Seq(S), q # <<>>, NEW m
  PROVE  Count(q, m) = IF Head(q) = m THEN Count(Tail(q), m) + 1 ELSE Count(Tail(q), m)
<1>1. /\ Len(q) \in Nat \ {0} /\ Tail(q) \in Seq(S) /\ Len(Tail(q)) = Len(q) - 1
      /\ Head(q) = q[1] /\ \A i \in 1..(Len(q) - 1) : Tail(q)[i] = q[i + 1]
  OBVIOUS
<1> DEFINE rest == Places(q, m) \ {1}
<1> DEFINE back == [i \in Places(Tail(q), m) |-> i + 1]
<1>2. back \in Bijection(Places(Tail(q), m), rest)
  <2>1. \A i \in Places(Tail(q), m) : i + 1 \in rest
    BY <1>1 DEF Places
  <2>2. \A j \in rest : j - 1 \in Places(Tail(q), m) /\ j = (j - 1) + 1
    BY <1>1 DEF Places
  <2>3. \A i, j \in Places(Tail(q), m) : i + 1 = j + 1 => i = j
    BY DEF Places
  <2>4. back \in [Places(Tail(q), m) -> rest]
    BY <2>1
  <2>5. \A j \in rest : \E i \in Places(Tail(q), m) : back[i] = j
    BY <2>2
  <2> QED
    BY <2>3, <2>4, <2>5 DEF Bijection, Injection, Surjection, IsInjective
<1>3. Cardinality(rest) = Count(Tail(q), m)
  <2>1. IsFiniteSet(Places(Tail(q), m))
    BY <1>1, CountType
  <2>2. ExistsBijection(Places(Tail(q), m), rest)
    BY <1>2 DEF ExistsBijection
  <2> QED
    BY <2>1, <2>2, FS_Bijection DEF Count
<1>4. Cardinality(rest) = IF 1 \in Places(q, m) THEN Count(q, m) - 1 ELSE Count(q, m)
  BY CountType, FS_RemoveElement DEF Count
<1>5. 1 \in Places(q, m) <=> Head(q) = m
  BY <1>1 DEF Places
<1>6. Count(q, m) \in Nat /\ Count(Tail(q), m) \in Nat
  BY <1>1, CountType
<1> QED
  BY <1>3, <1>4, <1>5, <1>6

-----------------------------------------------------------------------------
Entry == [chan : Chans, msg : Messages]

LEMMA SendTyped ==
  ASSUME ConnTypeOK, NEW c \in Chans, NEW msg \in Messages, HasRoom, Send(c, msg)
  PROVE  queue' \in Seq(Entry) /\ Len(queue') <= QueueSize
<1>1. [chan |-> c, msg |-> msg] \in Entry
  BY DEF Entry
<1>2. queue \in Seq(Entry) /\ QueueSize \in Nat /\ Len(queue) < QueueSize
  BY ConnAssumption DEF ConnTypeOK, Entry, HasRoom
<1>3. queue' = Append(queue, [chan |-> c, msg |-> msg])
  BY DEF Send
<1> HIDE DEF Entry
<1> QED
  BY <1>1, <1>2, <1>3

LEMMA PassTyped ==
  ASSUME ConnTypeOK, Pass
  PROVE  /\ queue # <<>> /\ Head(queue) \in Entry /\ Head(queue) = queue[1]
         /\ queue' = Tail(queue) /\ queue' \in Seq(Entry) /\ Len(queue') <= QueueSize
<1>1. queue \in Seq(Entry) /\ QueueSize \in Nat /\ Len(queue) <= QueueSize
  BY ConnAssumption DEF ConnTypeOK, Entry
<1>2. queue # <<>> /\ queue' = Tail(queue)
  BY DEF Pass
<1> HIDE DEF Entry
<1> QED
  BY <1>1, <1>2

LEMMA DownTyped ==
  ASSUME ConnTypeOK, Down, UNCHANGED <<tuiVars, gitVars>>
  PROVE  ConnTypeOK'
<1>1. queue' \in Seq([chan : Chans, msg : Messages]) /\ Len(queue') <= QueueSize
  BY ConnAssumption DEF Down
<1>2. stage' \in [Chans -> {"open", "exit", "eof", "closed", "cut"}]
  BY DEF Down
<1>3. up' \in BOOLEAN /\ pty' \in BOOLEAN
  BY DEF Down, ConnTypeOK
<1>4. handler' = NoHandler /\ tui' = NoChan /\ git_stdin' = {} /\ UNCHANGED <<ended, got>>
  BY DEF Down
<1> QED
  BY <1>1, <1>2, <1>3, <1>4 DEF ConnTypeOK, tuiVars, gitVars

\* Each handler and each task keeps to the types.
LEMMA TypeRequests ==
  ASSUME ConnTypeOK, Request
  PROVE  ConnTypeOK'
<1> USE ConnAssumption DEF Chans, NoHandler, Free, Fresh, Talks, SetStage, finish_with, loopVars,
        tuiVars, gitVars, clientVars
<1>1. ASSUME NEW c \in ExecChans, ExecAnswered(c) PROVE ConnTypeOK'
  BY <1>1 DEF ConnTypeOK, ExecAnswered
<1>2. ASSUME NEW c \in ExecChans, handle_git(c) PROVE ConnTypeOK'
  BY <1>2 DEF ConnTypeOK, handle_git
<1>3. ASSUME NEW c \in ExecChans, BeginWrite(c) PROVE ConnTypeOK'
  BY <1>3 DEF ConnTypeOK, BeginWrite
<1>4. ASSUME NEW c \in ShellChans, pty_request(c) PROVE ConnTypeOK'
  BY <1>4 DEF ConnTypeOK, pty_request
<1>5. ASSUME NEW c \in ShellChans, shell_request(c) PROVE ConnTypeOK'
  <2>1. CASE stage' = [stage EXCEPT ![c] = "closed"] /\ UNCHANGED <<got, tui, frames, forward>>
    BY <1>5, <2>1 DEF ConnTypeOK, shell_request
  <2>2. CASE tui' = c /\ forward' = [forward EXCEPT ![c] = "recv"] /\ Draw(c, 1)
               /\ UNCHANGED <<stage, got>>
    BY <1>5, <2>2 DEF ConnTypeOK, shell_request, Draw
  <2> QED
    BY <1>5, <2>1, <2>2 DEF shell_request
<1>6. ASSUME NEW c \in ShellChans, on_input(c) PROVE ConnTypeOK'
  BY <1>6, SMTT(30) DEF ConnTypeOK, on_input, Draw
<1>7. ASSUME NEW c \in ShellChans, window_change_request(c) PROVE ConnTypeOK'
  BY <1>7 DEF ConnTypeOK, window_change_request, Draw
<1>8. ASSUME NEW c \in Chans, channel_eof(c) PROVE ConnTypeOK'
  BY <1>8 DEF ConnTypeOK, channel_eof, EndInput
<1>9. ASSUME NEW c \in Chans, channel_close(c) PROVE ConnTypeOK'
  BY <1>9 DEF ConnTypeOK, channel_close, EndInput
<1>10. CASE Lost
  BY <1>10, DownTyped DEF Lost
<1> QED
  BY <1>1, <1>2, <1>3, <1>4, <1>5, <1>6, <1>7, <1>8, <1>9, <1>10 DEF Request

\* What a client has got is bounded because pieces are counted: see PassInv.
LEMMA TypeInductive ==
  ASSUME ConnTypeOK, [ConnNext]_connVars, Pass => got' \in [ExecChans -> 0..MaxMade]
  PROVE  ConnTypeOK'
<1> USE ConnAssumption DEF loopVars, tuiVars, gitVars, clientVars
<1>1. ASSUME NEW c \in ExecChans, WriteStdin(c) \/ WriteFails(c) PROVE ConnTypeOK'
  <2>1. CASE WriteStdin(c)
    BY <2>1, SMTT(30) DEF ConnTypeOK, WriteStdin
  <2>2. CASE WriteFails(c)
    BY <2>2, DownTyped DEF WriteFails
  <2> QED
    BY <1>1, <2>1, <2>2
<1>2. ASSUME NEW c \in ShellChans, teardown(c) PROVE ConnTypeOK'
  <2>1. queue' \in Seq(Entry) /\ Len(queue') <= QueueSize
    BY <1>2, SendTyped DEF teardown, Chans, Messages
  <2>2. handler' \in [at : {"write", "exit", "eof", "close"}, chan : Chans] \cup {NoHandler}
        /\ tui' \in ShellChans \cup {NoChan}
    BY <1>2, ZenonT(60) DEF ConnTypeOK, Chans, NoHandler, teardown, After
  <2> QED
    BY <1>2, <2>1, <2>2 DEF ConnTypeOK, teardown, Entry
<1>3. ASSUME NEW c \in ShellChans, Forwarder(c) PROVE ConnTypeOK'
  <2>1. CASE ForwardTakes(c)
    BY <2>1, SMTT(30) DEF ConnTypeOK, ForwardTakes
  <2>3. CASE ForwardEnds(c)
    BY <2>3 DEF ConnTypeOK, ForwardEnds
  <2>2. CASE ForwardSends(c)
    <3>1. queue' \in Seq(Entry) /\ Len(queue') <= QueueSize
      BY <2>2, SendTyped DEF ForwardSends, Chans, Messages
    <3> QED
      BY <2>2, <3>1 DEF ConnTypeOK, ForwardSends, Entry
  <2> QED
    BY <1>3, <2>1, <2>2, <2>3 DEF Forwarder
<1>4. CASE Pass
  <2>1. queue' \in Seq(Entry) /\ Len(queue') <= QueueSize /\ Head(queue) \in Entry
    BY <1>4, PassTyped
  <2>2. stage' \in [Chans -> {"open", "exit", "eof", "closed", "cut"}]
    BY <1>4, <2>1 DEF ConnTypeOK, Pass, SetStage, Entry, Messages
  <2> QED
    BY <1>4, <2>1, <2>2 DEF ConnTypeOK, Pass, Entry
<1>5. ASSUME NEW c \in ExecChans, Git(c) PROVE ConnTypeOK'
  <2>1. CASE GitReads(c)
    BY <2>1, SMTT(30) DEF ConnTypeOK, GitReads
  <2>2. CASE GitWrites(c)
    BY <2>2, SMTT(30) DEF ConnTypeOK, GitWrites
  <2>3. CASE GitExits(c)
    BY <2>3, SMTT(30) DEF ConnTypeOK, GitExits
  <2> QED
    BY <1>5, <2>1, <2>2, <2>3 DEF Git
<1>6. ASSUME NEW c \in ExecChans, Reader(c) PROVE ConnTypeOK'
  <2>1. CASE ReaderTakes(c)
    BY <2>1, SMTT(30) DEF ConnTypeOK, ReaderTakes
  <2>3. CASE ReaderEnds(c)
    BY <2>3 DEF ConnTypeOK, ReaderEnds
  <2>2. CASE ReaderSends(c)
    <3>1. queue' \in Seq(Entry) /\ Len(queue') <= QueueSize
      BY <2>2, SendTyped DEF ReaderSends, Chans, Messages
    <3> QED
      BY <2>2, <3>1 DEF ConnTypeOK, ReaderSends, Entry
  <2> QED
    BY <1>6, <2>1, <2>2, <2>3 DEF Reader
<1>7. ASSUME NEW c \in ExecChans, Waiter(c) PROVE ConnTypeOK'
  <2>1. CASE ChildWaited(c) \/ ReadersJoined(c)
    BY <2>1 DEF ConnTypeOK, ChildWaited, ReadersJoined, WaiterAt
  <2>2. CASE WaiterTells(c)
    <3>1. queue' \in Seq(Entry) /\ Len(queue') <= QueueSize
      <4>1. waiter[c] \in Messages /\ c \in Chans
        BY <2>2 DEF WaiterTells, Messages, Chans
      <4>2. CASE up
        BY <2>2, <4>1, <4>2, SendTyped DEF WaiterTells
      <4>3. CASE ~up
        BY <2>2, <4>3 DEF WaiterTells, ConnTypeOK, Entry
      <4> QED
        BY <4>2, <4>3
    <3> QED
      BY <2>2, <3>1 DEF ConnTypeOK, WaiterTells, WaiterAt, After, Entry
  <2> QED
    BY <1>7, <2>1, <2>2 DEF Waiter
<1>8. CASE Request
  BY <1>8, TypeRequests
<1>9. CASE UNCHANGED connVars
  BY <1>9 DEF ConnTypeOK, connVars
<1> QED
  BY <1>1, <1>2, <1>3, <1>4, <1>5, <1>6, <1>7, <1>8, <1>9 DEF ConnNext

-----------------------------------------------------------------------------
\* What a message at the end of the queue, or the end of its head, changes.
LEMMA Appended ==
  ASSUME ConnTypeOK, NEW c \in Chans, NEW msg \in Messages, HasRoom, Send(c, msg)
  PROVE  /\ Len(queue) \in Nat /\ Len(queue') = Len(queue) + 1
         /\ \A i \in 1..Len(queue) : queue'[i] = queue[i]
         /\ queue'[Len(queue) + 1] = [chan |-> c, msg |-> msg]
         /\ \A m : Count(queue', m) =
              IF [chan |-> c, msg |-> msg] = m THEN Count(queue, m) + 1 ELSE Count(queue, m)
<1>1. [chan |-> c, msg |-> msg] \in Entry /\ queue \in Seq(Entry)
  BY DEF Entry, ConnTypeOK
<1>2. queue' = Append(queue, [chan |-> c, msg |-> msg])
  BY DEF Send
<1> DEFINE e == [chan |-> c, msg |-> msg]
<1> HIDE DEF Entry, e
<1>3. e \in Entry /\ queue' = Append(queue, e)
  BY <1>1, <1>2 DEF e
<1>4. /\ Len(queue) \in Nat /\ Len(queue') = Len(queue) + 1
      /\ \A i \in 1..Len(queue) : queue'[i] = queue[i]
      /\ queue'[Len(queue) + 1] = e
  BY <1>1, <1>3
<1>5. \A m : Count(queue', m) = IF e = m THEN Count(queue, m) + 1 ELSE Count(queue, m)
  BY <1>1, <1>3, CountAppend
<1> QED
  BY <1>4, <1>5 DEF e

LEMMA Passed ==
  ASSUME ConnTypeOK, Pass
  PROVE  /\ Len(queue) \in Nat \ {0} /\ Len(queue') = Len(queue) - 1
         /\ \A i \in 1..Len(queue') : queue'[i] = queue[i + 1]
         /\ Head(queue) = queue[1] /\ Head(queue) \in Entry
         /\ \A m : Count(queue, m) =
              IF Head(queue) = m THEN Count(queue', m) + 1 ELSE Count(queue', m)
<1>1. queue \in Seq(Entry) /\ queue # <<>> /\ queue' = Tail(queue)
  BY DEF Entry, ConnTypeOK, Pass
<1> HIDE DEF Entry
<1>2. /\ Len(queue) \in Nat \ {0} /\ Len(queue') = Len(queue) - 1
      /\ \A i \in 1..Len(queue') : queue'[i] = queue[i + 1]
      /\ Head(queue) = queue[1] /\ Head(queue) \in Entry
  BY <1>1
<1>3. \A m : Count(queue, m) = IF Head(queue) = m THEN Count(queue', m) + 1 ELSE Count(queue', m)
  BY <1>1, CountTail
<1> QED
  BY <1>2, <1>3

\* What the invariant says of one channel depends on these alone.
LEMMA SameChannel ==
  ASSUME NEW c \in ExecChans, ChannelInv(c), UNCHANGED <<up, queue>>,
         child'[c] = child[c], waiter'[c] = waiter[c], reader'[c] = reader[c],
         outPipe'[c] = outPipe[c], made'[c] = made[c], got'[c] = got[c], stage'[c] = stage[c]
  PROVE  ChannelInv(c)'
BY DEF ChannelInv, TasksInOrder, NothingLost, QueueInOrder, Live, Seen, Told, InReader

\* A message of another channel does not concern it.
LEMMA OthersMessage ==
  ASSUME ConnTypeOK, NEW c \in ExecChans, ChannelInv(c), up' = up,
         child'[c] = child[c], waiter'[c] = waiter[c], reader'[c] = reader[c],
         outPipe'[c] = outPipe[c], made'[c] = made[c], got'[c] = got[c], stage'[c] = stage[c],
         NEW d \in Chans \ {c}, NEW msg \in Messages, HasRoom, Send(d, msg)
  PROVE  ChannelInv(c)'
<1> DEFINE e == [chan |-> d, msg |-> msg]
<1>0. /\ Len(queue) \in Nat /\ Len(queue') = Len(queue) + 1
      /\ \A i \in 1..Len(queue) : queue'[i] = queue[i]
      /\ queue'[Len(queue) + 1] = e
      /\ \A m : Count(queue', m) = IF e = m THEN Count(queue, m) + 1 ELSE Count(queue, m)
  BY Appended
<1>1. /\ Len(queue) \in Nat /\ Len(queue') = Len(queue) + 1
      /\ \A i \in 1..Len(queue) : queue'[i] = queue[i]
      /\ queue'[Len(queue) + 1].chan # c
      /\ Count(queue', Piece(c)) = Count(queue, Piece(c))
  <2>1. e.chan # c /\ e # Piece(c)
    BY DEF Piece
  <2> HIDE DEF e
  <2> QED
    BY <1>0, <2>1
<1>2. TasksInOrder(c)'
  BY DEF ChannelInv, TasksInOrder
<1>3. NothingLost(c)'
  BY <1>1 DEF ChannelInv, NothingLost, Live, InReader, Piece
<1>4. \A i \in 1..Len(queue') : queue'[i].chan = c => i \in 1..Len(queue)
  BY <1>1
<1>5. QueueInOrder(c)'
  <2>1. (Seen(c))' = Seen(c) /\ (Told(c))' = Told(c) /\ (Live(c))' = Live(c)
    BY DEF Seen, Told, Live
  <2>2. QueueInOrder(c) /\ 1..Len(queue) \subseteq 1..Len(queue')
    BY <1>1 DEF ChannelInv
  <2>3. \A m \in {"exit", "eof", "close"} : \A i \in 1..Len(queue) :
          queue[i] = [chan |-> c, msg |-> m] => queue'[i] = [chan |-> c, msg |-> m]
    BY <1>1
  <2> QED
    BY <1>1, <1>4, <2>1, <2>2, <2>3, ZenonT(60) DEF QueueInOrder
<1> QED
  BY <1>2, <1>3, <1>5 DEF ChannelInv

\* Once a channel is cut, or all of the connection is, nothing is owed to its client.
LEMMA Silenced ==
  ASSUME NEW c \in ExecChans, ChannelInv(c),
         UNCHANGED <<child, waiter, reader, outPipe, made, got>>,
         \/ stage'[c] = "cut" /\ UNCHANGED <<up, queue>>
         \/ ~up' /\ queue' = <<>> /\ stage'[c] \in {"closed", "cut"}
              /\ (stage'[c] = "closed" => stage[c] = "closed")
  PROVE  ChannelInv(c)'
BY DEF ChannelInv, TasksInOrder, NothingLost, QueueInOrder, Live

-----------------------------------------------------------------------------
\* The steps of one command's own child and tasks, and what they leave alone.
LEMMA ReaderSendsInv ==
  ASSUME ConnTypeOK, NEW c \in ExecChans, ChannelInv(c), ReaderSends(c)
  PROVE  ChannelInv(c)'
<1>1. /\ reader[c] = "send" /\ reader'[c] = "read" /\ up /\ up'
      /\ UNCHANGED <<child, waiter, outPipe, made, got, stage>>
  BY DEF ReaderSends, ConnTypeOK, loopVars, clientVars
<1>2. /\ Len(queue) \in Nat /\ Len(queue') = Len(queue) + 1
      /\ \A i \in 1..Len(queue) : queue'[i] = queue[i]
      /\ queue'[Len(queue) + 1] = Piece(c)
      /\ Count(queue', Piece(c)) = Count(queue, Piece(c)) + 1
  BY Appended DEF ReaderSends, Chans, Messages, Piece
<1>3. child[c] # "none" /\ waiter[c] \in {"wait", "join"}
  BY <1>1 DEF ChannelInv, TasksInOrder, ConnTypeOK
<1>4. TasksInOrder(c)'
  BY <1>1, <1>3 DEF ChannelInv, TasksInOrder
<1>5. NothingLost(c)'
  <2>1. Count(queue, Piece(c)) \in Nat
    BY CountType DEF ConnTypeOK
  <2>2. got[c] \in Nat /\ outPipe[c] \in Nat /\ made[c] \in Nat
    BY ConnAssumption DEF ConnTypeOK
  <2>3. InReader(c) = 1 /\ (InReader(c))' = 0 /\ (Live(c))' = Live(c)
    BY <1>1 DEF InReader, Live
  <2>4. NothingLost(c)
    BY DEF ChannelInv
  <2>5. (Count(queue, Piece(c)))' = Count(queue, Piece(c)) + 1
    BY <1>2 DEF Piece
  <2> QED
    BY <1>1, <2>1, <2>2, <2>3, <2>4, <2>5 DEF NothingLost
<1>6. QueueInOrder(c)'
  <2>1. (Seen(c))' = Seen(c) /\ (Told(c))' = Told(c) /\ (Live(c))' = Live(c) /\ Told(c) = 0
    BY <1>1, <1>3 DEF Seen, Told, Live
  <2>2. Piece(c).chan = c /\ Piece(c).msg = "data"
    BY DEF Piece
  <2>3. Live(c) => stage[c] = "open"
    BY <2>1 DEF ChannelInv, QueueInOrder, Live, Seen, ConnTypeOK, Chans
  <2>4. Live(c) => \A i \in 1..Len(queue) : queue[i].chan = c => queue[i].msg = "data"
    <3>1. Live(c) => \A i \in 1..Len(queue) : queue[i].chan = c /\ queue[i].msg # "data" =>
            Seen(c) < Rank(queue[i].msg) /\ Rank(queue[i].msg) <= Told(c)
      BY DEF ChannelInv, QueueInOrder
    <3>2. Seen(c) \in Nat /\ Told(c) = 0 /\ \A m : Rank(m) \in Nat
      BY <2>1 DEF Seen, Rank
    <3> QED
      BY <3>1, <3>2
  <2>5. \A i \in 1..Len(queue') : i \in 1..Len(queue) \/ i = Len(queue) + 1
    BY <1>2
  <2>6. \A i \in 1..Len(queue') : queue'[i].chan = c => child'[c] # "none"
    BY <1>1, <1>3
  <2>7. Live(c) => \A i \in 1..Len(queue') : queue'[i].chan = c => queue'[i].msg = "data"
    BY <1>2, <2>2, <2>4, <2>5
  <2>8. Live(c) => Seen(c) = 0 /\ \A m \in {"exit", "eof", "close"} : ~(Rank(m) <= Told(c))
    BY <2>1, <2>3 DEF Seen, Rank
  <2> QED
    BY <1>1, <2>1, <2>3, <2>6, <2>7, <2>8 DEF QueueInOrder
<1> QED
  BY <1>4, <1>5, <1>6 DEF ChannelInv

LEMMA WaiterTellsInv ==
  ASSUME ConnTypeOK, NEW c \in ExecChans, ChannelInv(c), WaiterTells(c)
  PROVE  ChannelInv(c)'
<1>1. /\ waiter[c] \in {"exit", "eof", "close"}
      /\ waiter'[c] = IF waiter[c] = "exit" THEN "eof" ELSE IF waiter[c] = "eof" THEN "close"
                      ELSE "done"
      /\ UNCHANGED <<up, child, reader, outPipe, made, got, stage>>
  BY DEF WaiterTells, WaiterAt, After, ConnTypeOK, loopVars, clientVars
<1>2. TasksInOrder(c)'
  BY <1>1 DEF ChannelInv, TasksInOrder
<1>3. CASE ~up
  <2>1. UNCHANGED queue
    BY <1>3 DEF WaiterTells
  <2> QED
    BY <1>1, <1>2, <1>3, <2>1 DEF ChannelInv, NothingLost, QueueInOrder, Live, TasksInOrder
<1>4. CASE up
  <2> DEFINE e == [chan |-> c, msg |-> waiter[c]]
  <2>1. /\ Len(queue) \in Nat /\ Len(queue') = Len(queue) + 1
        /\ \A i \in 1..Len(queue) : queue'[i] = queue[i]
        /\ queue'[Len(queue) + 1] = e
        /\ Count(queue', Piece(c)) = Count(queue, Piece(c))
    <3>1. c \in Chans /\ waiter[c] \in Messages /\ HasRoom /\ Send(c, waiter[c])
      BY <1>1, <1>4 DEF WaiterTells, Chans, Messages
    <3>2. e # Piece(c)
      BY <1>1 DEF Piece
    <3> QED
      BY <3>1, <3>2, Appended
  <2>2. NothingLost(c)'
    BY <1>1, <2>1 DEF ChannelInv, NothingLost, Live, InReader, Piece
  <2>3. /\ (Seen(c))' = Seen(c) /\ (Live(c))' = Live(c)
        /\ Told(c) \in 0..2 /\ (Told(c))' = Told(c) + 1 /\ Rank(waiter[c]) = Told(c) + 1
    BY <1>1 DEF Seen, Live, Told, Rank
  <2>4. e.chan = c /\ e.msg = waiter[c] /\ waiter[c] # "data"
    BY <1>1
  <2> HIDE DEF e
  <2>5. \A i \in 1..Len(queue') : i \in 1..Len(queue) \/ i = Len(queue) + 1
    BY <2>1
  <2>6. QueueInOrder(c)
    BY DEF ChannelInv
  <2>7. \A i \in 1..Len(queue') : queue'[i].chan = c => child'[c] # "none"
    BY <1>1 DEF ChannelInv, TasksInOrder
  <2>8. ASSUME Live(c) PROVE
          /\ Seen(c) <= Told(c) + 1
          /\ \A i \in 1..Len(queue') : queue'[i].chan = c =>
               IF queue'[i].msg = "data" THEN stage[c] = "open"
               ELSE Seen(c) < Rank(queue'[i].msg) /\ Rank(queue'[i].msg) <= Told(c) + 1
          /\ \A i, j \in 1..Len(queue') :
               i < j /\ queue'[i].chan = c /\ queue'[j].chan = c /\ queue'[i].msg # "data" =>
                 Rank(queue'[i].msg) < Rank(queue'[j].msg)
          /\ \A m \in {"exit", "eof", "close"} : Seen(c) < Rank(m) /\ Rank(m) <= Told(c) + 1 =>
               \E i \in 1..Len(queue') : queue'[i] = [chan |-> c, msg |-> m]
    <3>1. Seen(c) \in Nat /\ Told(c) \in Nat /\ Seen(c) <= Told(c) /\ \A m : Rank(m) \in Nat
      BY <2>3, <2>6, <2>8 DEF QueueInOrder, Seen, Rank
    <3>2. ASSUME NEW i \in 1..Len(queue'), queue'[i].chan = c
          PROVE IF queue'[i].msg = "data" THEN stage[c] = "open"
                ELSE Seen(c) < Rank(queue'[i].msg) /\ Rank(queue'[i].msg) <= Told(c) + 1
      BY <2>1, <2>3, <2>4, <2>5, <2>6, <2>8, <3>1, <3>2, SMTT(30) DEF QueueInOrder
    <3>3. ASSUME NEW i \in 1..Len(queue'), NEW j \in 1..Len(queue'), i < j,
                 queue'[i].chan = c, queue'[j].chan = c, queue'[i].msg # "data"
          PROVE Rank(queue'[i].msg) < Rank(queue'[j].msg)
      <4>1. i \in 1..Len(queue) /\ queue'[i] = queue[i]
        BY <2>1, <2>5, <3>3
      <4>2. CASE j \in 1..Len(queue)
        BY <2>1, <2>6, <2>8, <3>3, <4>1, <4>2 DEF QueueInOrder
      <4>3. CASE j = Len(queue) + 1
        BY <2>1, <2>3, <2>4, <2>6, <2>8, <3>1, <3>3, <4>1, <4>3, SMTT(30) DEF QueueInOrder
      <4> QED
        BY <2>5, <4>2, <4>3
    <3>4. ASSUME NEW m \in {"exit", "eof", "close"}, Seen(c) < Rank(m), Rank(m) <= Told(c) + 1
          PROVE \E i \in 1..Len(queue') : queue'[i] = [chan |-> c, msg |-> m]
      <4>1. CASE Rank(m) <= Told(c)
        <5>1. PICK i \in 1..Len(queue) : queue[i] = [chan |-> c, msg |-> m]
          BY <2>6, <2>8, <3>4, <4>1 DEF QueueInOrder
        <5> QED
          BY <2>1, <5>1
      <4>2. CASE Rank(m) = Told(c) + 1
        <5>1. m = waiter[c]
          BY <1>1, <2>3, <4>2 DEF Rank
        <5> QED
          BY <2>1, <5>1 DEF e
      <4> QED
        BY <3>1, <3>4, <4>1, <4>2
    <3>5. \A i \in 1..Len(queue') : queue'[i].chan = c =>
            IF queue'[i].msg = "data" THEN stage[c] = "open"
            ELSE Seen(c) < Rank(queue'[i].msg) /\ Rank(queue'[i].msg) <= Told(c) + 1
      BY <3>2
    <3>6. \A i, j \in 1..Len(queue') :
            i < j /\ queue'[i].chan = c /\ queue'[j].chan = c /\ queue'[i].msg # "data" =>
              Rank(queue'[i].msg) < Rank(queue'[j].msg)
      BY <3>3
    <3>7. \A m \in {"exit", "eof", "close"} : Seen(c) < Rank(m) /\ Rank(m) <= Told(c) + 1 =>
            \E i \in 1..Len(queue') : queue'[i] = [chan |-> c, msg |-> m]
      BY <3>4
    <3>8. Seen(c) <= Told(c) + 1
      BY <3>1
    <3> QED
      BY <3>5, <3>6, <3>7, <3>8
  <2>9. QueueInOrder(c)'
    BY <1>1, <2>3, <2>7, <2>8 DEF QueueInOrder
  <2> QED
    BY <1>2, <2>2, <2>9 DEF ChannelInv
<1> QED
  BY <1>3, <1>4

\* What comes out of the queue is what the client has to get next.
LEMMA HeadInOrder ==
  ASSUME ConnTypeOK, NEW c \in ExecChans, ChannelInv(c), Pass,
         Head(queue).chan = c, stage[c] \notin {"closed", "cut"}
  PROVE  /\ Live(c) /\ Head(queue).msg \in Messages
         /\ Head(queue).msg = "data" => stage[c] = "open" /\ got[c] < made[c]
         /\ Head(queue).msg # "data" => got[c] = made[c] /\ Rank(Head(queue).msg) = Seen(c) + 1
<1> DEFINE m == Head(queue).msg
<1>1. /\ Len(queue) \in Nat \ {0} /\ Head(queue) = queue[1] /\ 1 \in 1..Len(queue)
      /\ Head(queue) = [chan |-> c, msg |-> m] /\ m \in Messages
  BY Passed DEF Entry
<1>2. Live(c)
  BY <1>1 DEF ChannelInv, QueueInOrder, Live, Pass, Free
<1>3. /\ got[c] \in Nat /\ made[c] \in Nat /\ outPipe[c] \in Nat
      /\ InReader(c) \in {0, 1} /\ Count(queue, Piece(c)) \in Nat
  BY ConnAssumption, CountType DEF ConnTypeOK, InReader
<1>4. got[c] + Count(queue, Piece(c)) + InReader(c) + outPipe[c] = made[c]
  BY <1>2 DEF ChannelInv, NothingLost
<1>5. CASE m = "data"
  <2>1. Count(queue, Piece(c)) > 0
    <3>1. Head(queue) = Piece(c)
      BY <1>1, <1>5 DEF Piece
    <3>2. Count(queue, Piece(c)) = (Count(queue, Piece(c)))' + 1
      BY <3>1, Passed DEF Piece
    <3>3. queue' \in Seq(Entry)
      BY PassTyped
    <3>4. Count(queue', Piece(c)) \in Nat
      BY <3>3, CountType
    <3> QED
      BY <3>2, <3>4 DEF Piece
  <2>2. stage[c] = "open"
    BY <1>1, <1>2, <1>5 DEF ChannelInv, QueueInOrder
  <2> QED
    BY <1>1, <1>2, <1>3, <1>4, <1>5, <2>1, <2>2
<1>6. CASE m # "data"
  <2>1. Seen(c) < Rank(m) /\ Rank(m) <= Told(c) /\ Seen(c) \in Nat /\ Rank(m) \in 1..3
    <3>1. Seen(c) < Rank(queue[1].msg) /\ Rank(queue[1].msg) <= Told(c)
      BY <1>1, <1>2, <1>6 DEF ChannelInv, QueueInOrder
    <3> QED
      BY <1>1, <1>6, <3>1 DEF Seen, Rank
  <2>2. \A j \in 1..Len(queue) : j # 1 /\ queue[j].chan = c => Rank(m) < Rank(queue[j].msg)
    BY <1>1, <1>2, <1>6 DEF ChannelInv, QueueInOrder
  <2>3. Rank(m) = Seen(c) + 1
    <3> SUFFICES ASSUME Seen(c) + 1 < Rank(m) PROVE FALSE
      BY <2>1
    <3>1. PICK n \in {"exit", "eof", "close"} : Rank(n) = Seen(c) + 1
      BY <2>1 DEF Rank
    <3>2. PICK j \in 1..Len(queue) : queue[j] = [chan |-> c, msg |-> n]
      <4>1. Seen(c) < Rank(n) /\ Rank(n) <= Told(c)
        BY <2>1, <3>1 DEF Told
      <4> QED
        BY <1>2, <4>1 DEF ChannelInv, QueueInOrder
    <3>3. j # 1
      <4>1. n # m
        BY <2>1, <3>1
      <4>2. queue[j].msg = n /\ queue[1].msg = m
        BY <1>1, <3>2
      <4> QED
        BY <4>1, <4>2
    <3> QED
      BY <2>1, <2>2, <3>1, <3>2, <3>3
  <2>4. Places(queue, Piece(c)) = {}
    <3>1. Rank("data") = 0
      BY DEF Rank
    <3>2. \A j \in 1..Len(queue) : queue[j] # Piece(c)
      BY <1>1, <1>6, <2>1, <2>2, <3>1 DEF Piece
    <3> QED
      BY <3>2 DEF Places
  <2>5. Count(queue, Piece(c)) = 0
    BY <2>4, FS_EmptySet DEF Count
  <2>6. reader[c] = "done" /\ outPipe[c] = 0
    <3>1. Told(c) > 0
      BY <2>1 DEF Told
    <3> QED
      BY <1>2, <3>1 DEF ChannelInv, TasksInOrder, Live, Told
  <2> QED
    BY <1>1, <1>2, <1>3, <1>4, <1>6, <2>3, <2>5, <2>6 DEF InReader
<1> QED
  BY <1>5, <1>6

LEMMA PassInv ==
  ASSUME ConnTypeOK, NEW c \in ExecChans, ChannelInv(c), Pass
  PROVE  ChannelInv(c)' /\ got'[c] \in 0..MaxMade
<1> DEFINE e == Head(queue)
<1>1. /\ Len(queue) \in Nat \ {0} /\ Len(queue') = Len(queue) - 1
      /\ \A i \in 1..Len(queue') : queue'[i] = queue[i + 1] /\ i + 1 \in 1..Len(queue)
      /\ e = queue[1] /\ e \in Entry
      /\ \A m : Count(queue, m) = IF e = m THEN Count(queue', m) + 1 ELSE Count(queue', m)
  BY Passed
<1>2. UNCHANGED <<up, child, waiter, reader, outPipe, made>> /\ up
  BY DEF Pass, Free, loopVars, gitVars
<1>3. (Told(c))' = Told(c) /\ (InReader(c))' = InReader(c)
  BY <1>2 DEF Told, InReader
<1>4. \A i \in 1..Len(queue') : queue'[i].chan = c => child'[c] # "none"
  BY <1>1, <1>2 DEF ChannelInv, QueueInOrder
<1>5. got[c] \in 0..MaxMade /\ made[c] \in 0..MaxMade /\ got[c] <= made[c] /\ MaxMade \in Nat
  BY ConnAssumption DEF ConnTypeOK, ChannelInv, NothingLost
<1>6. /\ stage \in [Chans -> {"open", "exit", "eof", "closed", "cut"}]
      /\ got \in [ExecChans -> 0..MaxMade] /\ c \in Chans
      /\ QueueInOrder(c) /\ TasksInOrder(c) /\ NothingLost(c)
  BY DEF ConnTypeOK, ChannelInv, Chans
<1>7. ASSUME Live(c) PROVE
        /\ \A i, j \in 1..Len(queue') :
             i < j /\ queue'[i].chan = c /\ queue'[j].chan = c /\ queue'[i].msg # "data" =>
               Rank(queue'[i].msg) < Rank(queue'[j].msg)
        /\ \A i \in 1..Len(queue') : queue'[i].chan = c =>
             IF queue'[i].msg = "data" THEN stage[c] = "open"
             ELSE Seen(c) < Rank(queue'[i].msg) /\ Rank(queue'[i].msg) <= Told(c)
        /\ \A m \in {"exit", "eof", "close"} :
             Seen(c) < Rank(m) /\ Rank(m) <= Told(c) /\ e # [chan |-> c, msg |-> m] =>
               \E i \in 1..Len(queue') : queue'[i] = [chan |-> c, msg |-> m]
  <2>1. \A m : (\E i \in 1..Len(queue) : queue[i] = m) /\ e # m =>
            \E i \in 1..Len(queue') : queue'[i] = m
    <3> SUFFICES ASSUME NEW m, NEW i \in 1..Len(queue), queue[i] = m, e # m
                 PROVE  i - 1 \in 1..Len(queue') /\ queue'[i - 1] = m
      OBVIOUS
    <3> QED
      BY <1>1
  <2>2. \A m \in {"exit", "eof", "close"} :
             Seen(c) < Rank(m) /\ Rank(m) <= Told(c) /\ e # [chan |-> c, msg |-> m] =>
               \E i \in 1..Len(queue') : queue'[i] = [chan |-> c, msg |-> m]
    BY <1>6, <1>7, <2>1 DEF QueueInOrder
  <2>3. \A i \in 1..Len(queue') : queue'[i].chan = c =>
             IF queue'[i].msg = "data" THEN stage[c] = "open"
             ELSE Seen(c) < Rank(queue'[i].msg) /\ Rank(queue'[i].msg) <= Told(c)
    BY <1>1, <1>6, <1>7 DEF QueueInOrder
  <2>4. \A i, j \in 1..Len(queue') :
             i < j /\ queue'[i].chan = c /\ queue'[j].chan = c /\ queue'[i].msg # "data" =>
               Rank(queue'[i].msg) < Rank(queue'[j].msg)
    <3> SUFFICES ASSUME NEW i \in 1..Len(queue'), NEW j \in 1..Len(queue'), i < j,
                        queue'[i].chan = c, queue'[j].chan = c, queue'[i].msg # "data"
                 PROVE  Rank(queue'[i].msg) < Rank(queue'[j].msg)
      OBVIOUS
    <3>1. /\ i + 1 \in 1..Len(queue) /\ j + 1 \in 1..Len(queue) /\ i + 1 < j + 1
          /\ queue'[i] = queue[i + 1] /\ queue'[j] = queue[j + 1]
      BY <1>1
    <3> QED
      BY <1>6, <1>7, <3>1 DEF QueueInOrder
  <2> QED
    BY <2>2, <2>3, <2>4
<1>8. CASE e.chan # c \/ ~Live(c)
  <2>1. stage'[c] = stage[c] /\ got'[c] = got[c]
    <3>1. CASE e.chan # c
      BY <1>6, <3>1 DEF Pass, SetStage, clientVars
    <3>2. CASE e.chan = c /\ ~Live(c)
      <4>1. stage[c] = "cut"
        BY <1>1, <1>2, <1>6, <3>2, SMTT(30) DEF QueueInOrder, Live
      <4> QED
        BY <3>2, <4>1 DEF Pass, clientVars
    <3> QED
      BY <1>8, <3>1, <3>2
  <2>2. (Live(c))' = Live(c) /\ (Seen(c))' = Seen(c)
    BY <1>2, <2>1 DEF Live, Seen
  <2>3. TasksInOrder(c)'
    BY <1>2, <1>6, <2>1 DEF TasksInOrder
  <2>4. NothingLost(c)'
    <3>1. Live(c) => e # Piece(c)
      BY <1>8 DEF Piece
    <3>2. Live(c) => (Count(queue, Piece(c)))' = Count(queue, Piece(c))
      BY <1>1, <3>1 DEF Piece
    <3> QED
      BY <1>2, <1>3, <1>6, <2>1, <2>2, <3>2 DEF NothingLost
  <2>5. Live(c) => \A m : e # [chan |-> c, msg |-> m]
    BY <1>8
  <2>6. Live(c) => Seen(c) <= Told(c)
    BY <1>6 DEF QueueInOrder
  <2>7. QueueInOrder(c)'
    BY <1>2, <1>3, <1>4, <1>7, <2>1, <2>2, <2>5, <2>6 DEF QueueInOrder
  <2> QED
    BY <1>5, <2>1, <2>3, <2>4, <2>7 DEF ChannelInv
<1>9. CASE e.chan = c /\ Live(c) /\ e.msg = "data"
  <2>1. stage[c] = "open" /\ e = Piece(c)
    BY <1>1, <1>6, <1>9 DEF QueueInOrder, Piece, Entry
  <2>2. got[c] < made[c]
    BY <1>9, <2>1, HeadInOrder
  <2>3. UNCHANGED stage /\ got' = [got EXCEPT ![c] = @ + 1]
    BY <1>9, <2>1 DEF Pass
  <2>4. got'[c] = got[c] + 1 /\ got'[c] \in 0..MaxMade /\ got'[c] <= made[c]
    BY <1>5, <1>6, <2>2, <2>3
  <2>5. (Live(c))' = Live(c) /\ (Seen(c))' = Seen(c)
    BY <1>2, <2>3 DEF Live, Seen
  <2>6. TasksInOrder(c)'
    BY <1>2, <1>6, <1>9, <2>3 DEF TasksInOrder, Live
  <2>7. NothingLost(c)'
    <3>1. /\ Count(queue, Piece(c)) = (Count(queue, Piece(c)))' + 1
          /\ (Count(queue, Piece(c)))' \in Nat
      <4>1. queue' \in Seq(Entry)
        BY PassTyped
      <4>2. Count(queue', Piece(c)) \in Nat
        BY <4>1, CountType
      <4> QED
        BY <1>1, <2>1, <4>2 DEF Piece
    <3>2. outPipe[c] \in Nat /\ InReader(c) \in Nat
      BY ConnAssumption DEF ConnTypeOK, InReader
    <3> QED
      BY <1>2, <1>3, <1>5, <1>6, <2>4, <2>5, <3>1, <3>2 DEF NothingLost
  <2>8. Live(c) => \A m \in {"exit", "eof", "close"} : e # [chan |-> c, msg |-> m]
    BY <1>9
  <2>9. Live(c) => Seen(c) <= Told(c)
    BY <1>6 DEF QueueInOrder
  <2>10. QueueInOrder(c)'
    BY <1>2, <1>3, <1>4, <1>7, <2>3, <2>5, <2>8, <2>9 DEF QueueInOrder
  <2> QED
    BY <2>4, <2>6, <2>7, <2>10 DEF ChannelInv
<1>10. CASE e.chan = c /\ Live(c) /\ e.msg # "data"
  <2>1. e = [chan |-> c, msg |-> e.msg] /\ e.msg \in {"exit", "eof", "close"} /\ e = queue[1]
        /\ 1 \in 1..Len(queue)
    BY <1>1, <1>10 DEF Entry, Messages
  <2>2. Seen(c) < Rank(e.msg) /\ Rank(e.msg) <= Told(c)
    BY <1>6, <1>10, <2>1 DEF QueueInOrder
  <2>3. stage[c] \notin {"closed", "cut"}
    BY <1>10, <2>1, <2>2 DEF Live, Seen, Rank
  <2>4. got[c] = made[c] /\ Rank(e.msg) = Seen(c) + 1
    BY <1>10, <2>3, HeadInOrder
  <2>5. UNCHANGED got
        /\ stage' = [stage EXCEPT ![c] = IF e.msg = "close" THEN "closed" ELSE e.msg]
    BY <1>10, <2>3 DEF Pass, SetStage
  <2>6. (Live(c))' = Live(c) /\ (Seen(c))' = Rank(e.msg)
    BY <1>2, <1>6, <1>10, <2>1, <2>5 DEF Live, Seen, Rank
  <2>7. TasksInOrder(c)'
    <3>1. waiter[c] # "wait"
      BY <2>1, <2>2 DEF Told, Rank
    <3> QED
      BY <1>2, <1>6, <2>5, <3>1 DEF TasksInOrder
  <2>8. NothingLost(c)'
    <3>1. e # Piece(c)
      BY <1>10 DEF Piece
    <3>2. (Count(queue, Piece(c)))' = Count(queue, Piece(c))
      BY <1>1, <3>1 DEF Piece
    <3> QED
      BY <1>2, <1>3, <1>6, <2>5, <2>6, <3>2 DEF NothingLost
  <2>9. \A i \in 1..Len(queue') : queue'[i].chan = c => Rank(e.msg) < Rank(queue'[i].msg)
    <3> SUFFICES ASSUME NEW i \in 1..Len(queue'), queue'[i].chan = c
                 PROVE  Rank(e.msg) < Rank(queue'[i].msg)
      OBVIOUS
    <3>1. i + 1 \in 1..Len(queue) /\ 1 < i + 1 /\ queue'[i] = queue[i + 1]
      BY <1>1
    <3> QED
      BY <1>6, <1>10, <2>1, <3>1 DEF QueueInOrder
  <2>10. \A i \in 1..Len(queue') : queue'[i].chan = c =>
           queue'[i].msg # "data" /\ Rank(e.msg) < Rank(queue'[i].msg)
             /\ Rank(queue'[i].msg) <= Told(c)
    BY <1>7, <1>10, <2>1, <2>9 DEF Rank
  <2>11. \A m \in {"exit", "eof", "close"} : Rank(e.msg) < Rank(m) /\ Rank(m) <= Told(c) =>
             \E i \in 1..Len(queue') : queue'[i] = [chan |-> c, msg |-> m]
    <3> SUFFICES ASSUME NEW m \in {"exit", "eof", "close"},
                        Rank(e.msg) < Rank(m), Rank(m) <= Told(c)
                 PROVE  \E i \in 1..Len(queue') : queue'[i] = [chan |-> c, msg |-> m]
      OBVIOUS
    <3>1. m # e.msg
      BY DEF Rank
    <3>2. Seen(c) < Rank(m)
      BY <2>2 DEF Seen, Rank
    <3> QED
      BY <1>7, <1>10, <2>1, <3>1, <3>2
  <2>12. QueueInOrder(c)'
    BY <1>2, <1>3, <1>4, <1>7, <1>10, <2>2, <2>6, <2>10, <2>11 DEF QueueInOrder
  <2> QED
    BY <1>5, <2>5, <2>7, <2>8, <2>12 DEF ChannelInv
<1> QED
  BY <1>8, <1>9, <1>10

\* The other steps of a command: its request, its child, its reader, its waiter.
LEMMA CommandStepInv ==
  ASSUME ConnTypeOK, NEW c \in ExecChans, ChannelInv(c),
         \/ ExecAnswered(c) \/ handle_git(c) \/ Git(c) \/ ReaderTakes(c) \/ ReaderEnds(c)
         \/ ChildWaited(c) \/ ReadersJoined(c)
  PROVE  ChannelInv(c)'
<1> USE DEF loopVars, tuiVars, gitVars, clientVars
<1>1. /\ UNCHANGED <<up, queue>> /\ (Count(queue, Piece(c)))' = Count(queue, Piece(c))
      /\ TasksInOrder(c) /\ NothingLost(c) /\ QueueInOrder(c)
  BY DEF ChannelInv, ExecAnswered, handle_git, Git, GitReads, GitWrites, GitExits, ReaderTakes,
         ReaderEnds, ChildWaited, ReadersJoined, WaiterAt, Piece
<1>2. /\ got[c] \in Nat /\ made[c] \in Nat /\ outPipe[c] \in Nat
      /\ Count(queue, Piece(c)) \in Nat /\ c \in Chans
  BY ConnAssumption, CountType DEF ConnTypeOK, Chans
<1>3. CASE ExecAnswered(c)
  <2>1. child[c] = "none" /\ stage'[c] = "closed" /\ UNCHANGED <<child, waiter, reader, outPipe,
                                                               made, got>>
    BY <1>2, <1>3 DEF ExecAnswered, finish_with, SetStage, ConnTypeOK
  <2> QED
    BY <1>1, <2>1 DEF ChannelInv, TasksInOrder, NothingLost, QueueInOrder, Live
<1>4. CASE handle_git(c)
  <2>1. /\ child[c] = "none" /\ stage[c] = "open" /\ up
        /\ child'[c] = "running" /\ reader'[c] = "read" /\ waiter'[c] = "wait"
        /\ UNCHANGED <<outPipe, made, got, stage>>
    BY <1>4 DEF handle_git, Fresh, Free, ConnTypeOK
  <2>2. TasksInOrder(c)'
    BY <2>1 DEF TasksInOrder
  <2>3. \A i \in 1..Len(queue) : queue[i].chan # c
    BY <1>1, <2>1 DEF QueueInOrder
  <2>4. Places(queue, Piece(c)) = {}
    BY <2>3 DEF Places, Piece
  <2>5. Count(queue, Piece(c)) = 0
    BY <2>4, FS_EmptySet DEF Count
  <2>6. NothingLost(c)'
    BY <1>1, <1>2, <2>1, <2>5 DEF NothingLost, InReader, TasksInOrder
  <2>7. (Seen(c))' = 0 /\ (Told(c))' = 0
    BY <2>1 DEF Seen, Told
  <2>8. QueueInOrder(c)'
    BY <1>1, <2>1, <2>3, <2>7 DEF QueueInOrder, Rank
  <2> QED
    BY <2>2, <2>6, <2>8 DEF ChannelInv
<1>5. CASE Git(c)
  <2>1. /\ child[c] = "running" /\ child'[c] \in {"running", "exited"}
        /\ up => reader[c] # "done"
        /\ UNCHANGED <<waiter, reader, got, stage>>
        /\ \/ UNCHANGED <<made, outPipe>>
           \/ made'[c] = made[c] + 1 /\ outPipe'[c] = outPipe[c] + 1
    <3>1. child[c] = "running" /\ (up => reader[c] # "done")
      BY <1>1, <1>5 DEF Git, GitReads, GitWrites, GitExits, TasksInOrder
    <3>2. CASE GitReads(c)
      BY <3>1, <3>2 DEF GitReads
    <3>3. CASE GitWrites(c)
      BY <3>1, <3>3 DEF GitWrites, ConnTypeOK
    <3>4. CASE GitExits(c)
      BY <3>1, <3>4 DEF GitExits, ConnTypeOK
    <3> QED
      BY <1>5, <3>2, <3>3, <3>4 DEF Git
  <2>2. TasksInOrder(c)'
    BY <1>1, <2>1 DEF TasksInOrder
  <2>3. NothingLost(c)'
    BY <1>1, <1>2, <2>1 DEF NothingLost, InReader, Live
  <2>4. QueueInOrder(c)'
    BY <1>1, <2>1 DEF QueueInOrder, Live, Seen, Told
  <2> QED
    BY <2>2, <2>3, <2>4 DEF ChannelInv
<1>6. CASE ReaderTakes(c)
  <2>1. /\ reader[c] = "read" /\ reader'[c] = "send" /\ outPipe'[c] = outPipe[c] - 1
        /\ UNCHANGED <<child, waiter, made, got, stage>>
    BY <1>6 DEF ReaderTakes, ConnTypeOK
  <2>2. TasksInOrder(c)'
    BY <1>1, <2>1 DEF TasksInOrder
  <2>3. NothingLost(c)'
    BY <1>1, <1>2, <2>1 DEF NothingLost, InReader, Live
  <2>4. QueueInOrder(c)'
    BY <1>1, <2>1 DEF QueueInOrder, Live, Seen, Told
  <2> QED
    BY <2>2, <2>3, <2>4 DEF ChannelInv
<1>7. CASE ReaderEnds(c)
  <2>1. /\ reader'[c] = "done" /\ UNCHANGED <<child, waiter, outPipe, made, got, stage>>
        /\ reader[c] \in {"read", "send"} /\ (up => reader[c] = "read")
        /\ up => outPipe[c] = 0 /\ child[c] = "exited"
    BY <1>7 DEF ReaderEnds, ConnTypeOK
  <2>2. TasksInOrder(c)'
    BY <1>1, <2>1 DEF TasksInOrder
  <2>3. NothingLost(c)'
    BY <1>1, <1>2, <2>1 DEF NothingLost, InReader, Live
  <2>4. QueueInOrder(c)'
    BY <1>1, <2>1 DEF QueueInOrder, Live, Seen, Told
  <2> QED
    BY <2>2, <2>3, <2>4 DEF ChannelInv
<1>8. CASE ChildWaited(c) \/ ReadersJoined(c)
  <2>1. /\ UNCHANGED <<child, reader, outPipe, made, got, stage>>
        /\ \/ child[c] = "exited" /\ waiter[c] = "wait" /\ waiter'[c] = "join"
           \/ reader[c] = "done" /\ waiter[c] = "join" /\ waiter'[c] = "exit"
    BY <1>8 DEF ChildWaited, ReadersJoined, WaiterAt, ConnTypeOK
  <2>2. TasksInOrder(c)'
    BY <1>1, <2>1 DEF TasksInOrder
  <2>3. NothingLost(c)'
    BY <1>1, <1>2, <2>1 DEF NothingLost, InReader, Live
  <2>4. (Told(c))' = Told(c) /\ (Seen(c))' = Seen(c) /\ (Live(c))' = Live(c)
    BY <1>1, <2>1 DEF Told, Seen, Live
  <2>5. QueueInOrder(c)'
    BY <1>1, <2>1, <2>4 DEF QueueInOrder
  <2> QED
    BY <2>2, <2>3, <2>5 DEF ChannelInv
<1> QED
  BY <1>3, <1>4, <1>5, <1>6, <1>7, <1>8

-----------------------------------------------------------------------------
\* Each step concerns the channel it is for, and the connection's end all of them.
LEMMA ChannelsInv ==
  ASSUME ConnTypeOK, \A c \in ExecChans : ChannelInv(c), [ConnNext]_connVars
  PROVE  \A d \in ExecChans : ChannelInv(d)'
<1> SUFFICES ASSUME NEW d \in ExecChans PROVE ChannelInv(d)'
  OBVIOUS
<1> USE DEF loopVars, tuiVars, gitVars, clientVars
<1>1. ChannelInv(d) /\ d \in Chans /\ ExecChans \cap ShellChans = {}
  BY ConnAssumption DEF Chans
<1>2. CASE UNCHANGED <<up, queue, child, waiter, reader, outPipe, made, got, stage>>
  BY <1>1, <1>2, SameChannel
<1>3. CASE Lost \/ \E c \in ExecChans : WriteFails(c)
  <2>1. Down /\ UNCHANGED gitVars
    BY <1>3 DEF Lost, WriteFails
  <2>2. /\ ~up' /\ queue' = <<>> /\ stage'[d] \in {"closed", "cut"}
        /\ stage'[d] = "closed" => stage[d] = "closed"
    BY <1>1, <2>1 DEF Down
  <2> QED
    BY <1>1, <2>1, <2>2, Silenced DEF Down
<1>4. ASSUME NEW c \in Chans, channel_eof(c) \/ channel_close(c) PROVE ChannelInv(d)'
  <2>1. UNCHANGED <<up, queue, child, waiter, reader, outPipe, made, got>>
    BY <1>4 DEF channel_eof, channel_close, EndInput
  <2>2. stage'[d] = stage[d] \/ stage'[d] = "cut"
    BY <1>1, <1>4 DEF channel_eof, channel_close, SetStage, ConnTypeOK
  <2> QED
    BY <1>1, <2>1, <2>2, SameChannel, Silenced
<1>5. ASSUME NEW c \in ShellChans,
             pty_request(c) \/ shell_request(c) \/ on_input(c) \/ window_change_request(c)
      PROVE  ChannelInv(d)'
  <2>1. UNCHANGED <<up, queue, child, waiter, reader, outPipe, made>>
    BY <1>5 DEF pty_request, shell_request, on_input, window_change_request, Draw
  <2>2. stage'[d] = stage[d] /\ got'[d] = got[d]
    BY <1>1, <1>5 DEF pty_request, shell_request, on_input, window_change_request,
                      finish_with, SetStage, ConnTypeOK
  <2> QED
    BY <1>1, <2>1, <2>2, SameChannel
<1>6. ASSUME NEW c \in ShellChans, teardown(c) \/ Forwarder(c) PROVE ChannelInv(d)'
  <2>1. CASE ForwardTakes(c) \/ ForwardEnds(c)
    BY <1>2, <2>1 DEF ForwardTakes, ForwardEnds
  <2>2. CASE teardown(c) \/ ForwardSends(c)
    <3>1. /\ UNCHANGED <<up, child, waiter, reader, outPipe, made, got, stage>> /\ HasRoom
          /\ \E msg \in Messages : Send(c, msg)
      BY <2>2 DEF teardown, ForwardSends, Messages
    <3>2. c \in Chans \ {d}
      BY <1>1 DEF Chans
    <3> QED
      BY <1>1, <3>1, <3>2, OthersMessage
  <2> QED
    BY <1>6, <2>1, <2>2 DEF Forwarder
<1>7. CASE Pass
  BY <1>1, <1>7, PassInv
<1>8. ASSUME NEW c \in ExecChans, BeginWrite(c) \/ WriteStdin(c) PROVE ChannelInv(d)'
  BY <1>2, <1>8 DEF BeginWrite, WriteStdin
<1>9. ASSUME NEW c \in ExecChans,
             \/ ExecAnswered(c) \/ handle_git(c) \/ Git(c) \/ ReaderTakes(c) \/ ReaderEnds(c)
             \/ ChildWaited(c) \/ ReadersJoined(c)
      PROVE  ChannelInv(d)'
  <2>1. CASE c = d
    BY <1>1, <1>9, <2>1, CommandStepInv
  <2>2. CASE c # d
    <3>1. UNCHANGED <<up, queue>>
      BY <1>9 DEF ExecAnswered, handle_git, Git, GitReads, GitWrites, GitExits, ReaderTakes,
                  ReaderEnds, ChildWaited, ReadersJoined, WaiterAt
    <3>2. /\ child'[d] = child[d] /\ waiter'[d] = waiter[d] /\ reader'[d] = reader[d]
          /\ outPipe'[d] = outPipe[d] /\ made'[d] = made[d] /\ got'[d] = got[d]
          /\ stage'[d] = stage[d]
      <4>1. CASE ExecAnswered(c) \/ handle_git(c)
        BY <1>1, <2>2, <4>1 DEF ConnTypeOK, ExecAnswered, handle_git, finish_with, SetStage
      <4>2. CASE Git(c)
        BY <1>1, <2>2, <4>2 DEF ConnTypeOK, Git, GitReads, GitWrites, GitExits
      <4>3. CASE ReaderTakes(c) \/ ReaderEnds(c)
        BY <1>1, <2>2, <4>3 DEF ConnTypeOK, ReaderTakes, ReaderEnds
      <4>4. CASE ChildWaited(c) \/ ReadersJoined(c)
        BY <1>1, <2>2, <4>4 DEF ConnTypeOK, ChildWaited, ReadersJoined, WaiterAt
      <4> QED
        BY <1>9, <4>1, <4>2, <4>3, <4>4
    <3> QED
      BY <1>1, <3>1, <3>2, SameChannel
  <2> QED
    BY <2>1, <2>2
<1>10. ASSUME NEW c \in ExecChans, ReaderSends(c) \/ WaiterTells(c) PROVE ChannelInv(d)'
  <2>1. CASE c = d
    BY <1>1, <1>10, <2>1, ReaderSendsInv, WaiterTellsInv
  <2>2. CASE c # d
    <3>1. /\ up' = up
          /\ child'[d] = child[d] /\ waiter'[d] = waiter[d] /\ reader'[d] = reader[d]
          /\ outPipe'[d] = outPipe[d] /\ made'[d] = made[d] /\ got'[d] = got[d]
          /\ stage'[d] = stage[d]
      BY <1>1, <1>10, <2>2 DEF ReaderSends, WaiterTells, WaiterAt, ConnTypeOK
    <3>2. UNCHANGED queue \/ (HasRoom /\ \E msg \in Messages : Send(c, msg))
      BY <1>10 DEF ReaderSends, WaiterTells, Messages
    <3>3. c \in Chans \ {d}
      BY <2>2 DEF Chans
    <3> QED
      BY <1>1, <3>1, <3>2, <3>3, SameChannel, OthersMessage
  <2> QED
    BY <2>1, <2>2
<1>11. CASE UNCHANGED connVars
  BY <1>2, <1>11 DEF connVars
<1> QED
  BY <1>3, <1>4, <1>5, <1>6, <1>7, <1>8, <1>9, <1>10, <1>11
  DEF ConnNext, Request, Reader, Waiter

LEMMA DownInv == DownIsDown /\ [ConnNext]_connVars => DownIsDown'
<1> SUFFICES ASSUME DownIsDown, [ConnNext]_connVars, ~up'
             PROVE  handler' = NoHandler /\ queue' = <<>>
                      /\ \A c \in Chans : stage'[c] \in {"closed", "cut"}
  BY DEF DownIsDown
<1> USE DEF loopVars, tuiVars, gitVars, clientVars
<1>1. CASE Lost \/ \E c \in ExecChans : WriteFails(c)
  BY <1>1 DEF Lost, WriteFails, Down
<1>2. CASE Pass \/ (Request /\ ~Lost)
  BY <1>2 DEF Pass, Request, Free, Talks, ExecAnswered, handle_git, BeginWrite, pty_request,
     shell_request, on_input, window_change_request, channel_eof, channel_close
<1>3. ASSUME NEW c \in ExecChans, WriteStdin(c) PROVE FALSE
  BY <1>3 DEF WriteStdin, DownIsDown, NoHandler
<1>4. ASSUME NEW c \in ShellChans, teardown(c) PROVE FALSE
  BY <1>4 DEF teardown, DownIsDown, NoHandler
<1>5. CASE UNCHANGED <<up, handler, queue, stage>>
  BY <1>5 DEF DownIsDown
<1>6. ASSUME NEW c \in ShellChans, Forwarder(c) PROVE UNCHANGED <<up, handler, queue, stage>>
  BY <1>6 DEF Forwarder, ForwardTakes, ForwardSends, ForwardEnds
<1>7. ASSUME NEW c \in ExecChans, Git(c) \/ Reader(c) \/ Waiter(c)
      PROVE  UNCHANGED <<up, handler, queue, stage>>
  BY <1>7 DEF Git, GitReads, GitWrites, GitExits, Reader, ReaderTakes, ReaderSends, ReaderEnds,
              Waiter, ChildWaited, ReadersJoined, WaiterTells, WaiterAt
<1>8. CASE UNCHANGED connVars
  BY <1>5, <1>8 DEF connVars
<1> QED
  BY <1>1, <1>2, <1>3, <1>4, <1>5, <1>6, <1>7, <1>8 DEF ConnNext

LEMMA InvInit == ConnInit => Inv
<1> SUFFICES ASSUME ConnInit PROVE Inv
  OBVIOUS
<1>1. ConnTypeOK
  <2>1. queue \in Seq([chan : Chans, msg : Messages]) /\ Len(queue) <= QueueSize
    BY ConnAssumption DEF ConnInit
  <2>2. /\ frames \in [ShellChans -> 0..MaxFrames]
        /\ inPipe \in [ExecChans -> 0..PipeSize] /\ outPipe \in [ExecChans -> 0..PipeSize]
        /\ made \in [ExecChans -> 0..MaxMade] /\ got \in [ExecChans -> 0..MaxMade]
    BY ConnAssumption DEF ConnInit
  <2>3. /\ child \in [ExecChans -> {"none", "running", "exited"}]
        /\ reader \in [ExecChans -> {"none", "read", "send", "done"}]
        /\ waiter \in [ExecChans -> {"none", "wait", "join", "exit", "eof", "close", "done"}]
        /\ forward \in [ShellChans -> {"none", "recv", "send", "done"}]
        /\ stage \in [Chans -> {"open", "exit", "eof", "closed", "cut"}]
    BY DEF ConnInit
  <2>4. /\ up \in BOOLEAN /\ pty \in BOOLEAN /\ handler = NoHandler /\ tui = NoChan
        /\ git_stdin = {} /\ ended = {}
    BY DEF ConnInit
  <2> QED
    BY <2>1, <2>2, <2>3, <2>4 DEF ConnTypeOK
<1>2. ASSUME NEW c \in ExecChans PROVE ChannelInv(c)
  <2>1. /\ child[c] = "none" /\ reader[c] = "none" /\ waiter[c] = "none"
        /\ outPipe[c] = 0 /\ made[c] = 0 /\ got[c] = 0 /\ Len(queue) = 0
    BY <1>2 DEF ConnInit
  <2> QED
    BY <2>1 DEF ChannelInv, TasksInOrder, NothingLost, QueueInOrder, Live
<1> QED
  BY <1>1, <1>2 DEF Inv, DownIsDown, ConnInit

LEMMA InvNext == Inv /\ [ConnNext]_connVars => Inv'
<1> SUFFICES ASSUME Inv, [ConnNext]_connVars PROVE Inv'
  OBVIOUS
<1>1. \A c \in ExecChans : ChannelInv(c)'
  BY ChannelsInv DEF Inv
<1>2. Pass => got' \in [ExecChans -> 0..MaxMade]
  <2> SUFFICES ASSUME Pass PROVE got' \in [ExecChans -> 0..MaxMade]
    OBVIOUS
  <2>1. \A c \in ExecChans : got'[c] \in 0..MaxMade
    BY PassInv DEF Inv
  <2>2. got' = [c \in ExecChans |-> got'[c]]
    BY DEF Pass, clientVars, Inv, ConnTypeOK
  <2> QED
    BY <2>1, <2>2
<1> QED
  BY <1>1, <1>2, TypeInductive, DownInv DEF Inv

\* What is counted and ordered stays so in every behaviour of the connection.
THEOREM ConnInvariant == ConnSpec => []Inv
BY InvInit, InvNext, PTL DEF ConnSpec

\* Type correctness, with the bounds of the queue and of the pipes.
THEOREM ConnTypeCorrect == ConnSpec => []ConnTypeOK
<1>1. Inv => ConnTypeOK
  BY DEF Inv
<1> QED
  BY <1>1, ConnInvariant, PTL

-----------------------------------------------------------------------------
\* A step that the client of no command sees.
LEMMA Unseen ==
  ASSUME UNCHANGED <<stage, made, got>>
  PROVE  UNCHANGED Order!channelVars
BY DEF Order!channelVars

\* Channels that are cut, of commands and of others.
LEMMA CutSeen ==
  ASSUME UNCHANGED <<made, got>>,
         \A c \in ExecChans : stage'[c] = stage[c] \/ stage'[c] = "cut"
  PROVE  Order!Cut
<1> DEFINE cs == {c \in ExecChans : stage'[c] # stage[c]}
<1>1. [c \in ExecChans |-> stage'[c]]
        = [c \in ExecChans |-> IF c \in cs THEN "cut" ELSE [d \in ExecChans |-> stage[d]][c]]
  OBVIOUS
<1>2. cs \in SUBSET ExecChans
  OBVIOUS
<1> QED
  BY <1>1, <1>2 DEF Order!Cut

\* One channel goes one stage on.
LEMMA AdvanceSeen ==
  ASSUME UNCHANGED <<made, got>>, NEW c \in ExecChans, NEW from, NEW to, stage[c] = from,
         stage \in [Chans -> {"open", "exit", "eof", "closed", "cut"}],
         stage' = [stage EXCEPT ![c] = to]
  PROVE  Order!Advance(c, from, to)
BY DEF Order!Advance, Chans

LEMMA PassSeen ==
  ASSUME Inv, Pass
  PROVE  [Order!ChannelNext]_(Order!channelVars)
<1> PICK c \in Chans, msg \in Messages : c = Head(queue).chan /\ msg = Head(queue).msg
  BY Passed DEF Entry, Inv, Pass
<1>1. stage \in [Chans -> {"open", "exit", "eof", "closed", "cut"}]
      /\ got \in [ExecChans -> 0..MaxMade] /\ UNCHANGED made
  BY DEF Inv, ConnTypeOK, Pass, gitVars
<1>2. CASE UNCHANGED clientVars
  BY <1>1, <1>2, Unseen DEF clientVars
<1>3. CASE c \notin ExecChans
  <2>1. got' = got
    BY <1>3 DEF Pass, clientVars
  <2>2. stage' = stage \/ \E to : stage' = [stage EXCEPT ![c] = to]
    BY DEF Pass, SetStage, clientVars
  <2>3. \A d \in ExecChans : stage'[d] = stage[d]
    <3>1. CASE stage' = stage
      BY <3>1
    <3>2. ASSUME NEW to, stage' = [stage EXCEPT ![c] = to]
          PROVE  \A d \in ExecChans : stage'[d] = stage[d]
      BY <1>1, <1>3, <3>2
    <3> QED
      BY <2>2, <3>1, <3>2
  <2> QED
    BY <1>1, <2>1, <2>3 DEF Order!channelVars
<1>4. CASE c \in ExecChans /\ stage[c] \notin {"closed", "cut"}
  <2>1. /\ Live(c)
        /\ msg = "data" => stage[c] = "open" /\ got[c] < made[c]
        /\ msg # "data" => got[c] = made[c] /\ Rank(msg) = Seen(c) + 1
    BY <1>4, HeadInOrder DEF Inv
  <2>2. CASE msg = "data"
    <3>1. got' = [got EXCEPT ![c] = @ + 1] /\ stage' = stage
      BY <1>4, <2>2 DEF Pass
    <3>2. Order!Deliver(c)
      BY <1>1, <1>4, <2>1, <2>2, <3>1 DEF Order!Deliver
    <3> QED
      BY <1>4, <3>2 DEF Order!ChannelNext
  <2>3. CASE msg # "data"
    <3>1. got' = got /\ stage' = [stage EXCEPT ![c] = IF msg = "close" THEN "closed" ELSE msg]
      BY <1>4, <2>3 DEF Pass, SetStage
    <3>2. \/ msg = "exit" /\ stage[c] = "open"
          \/ msg = "eof" /\ stage[c] = "exit"
          \/ msg = "close" /\ stage[c] = "eof"
      BY <1>1, <1>4, <2>1, <2>3 DEF Rank, Seen, Messages
    <3>3. Order!ExitStatus(c) \/ Order!Eof(c) \/ Order!Close(c)
      BY <1>1, <1>4, <2>1, <2>3, <3>1, <3>2, AdvanceSeen
      DEF Order!ExitStatus, Order!Eof, Order!Close
    <3> QED
      BY <1>4, <3>3 DEF Order!ChannelNext
  <2> QED
    BY <2>2, <2>3
<1> QED
  BY <1>2, <1>3, <1>4 DEF Pass

\* Every step of the connection is, for the client of a command, a step of
\* SessionChannel or none.
LEMMA StepSeen == Inv /\ [ConnNext]_connVars => [Order!ChannelNext]_(Order!channelVars)
<1> SUFFICES ASSUME Inv, [ConnNext]_connVars PROVE [Order!ChannelNext]_(Order!channelVars)
  OBVIOUS
<1> USE DEF loopVars, tuiVars, gitVars, clientVars
<1>1. stage \in [Chans -> {"open", "exit", "eof", "closed", "cut"}]
      /\ ExecChans \subseteq Chans /\ ExecChans \cap ShellChans = {}
  BY ConnAssumption DEF Inv, ConnTypeOK, Chans
<1>2. CASE Lost \/ \E c \in ExecChans : WriteFails(c)
  <2>1. UNCHANGED <<made, got>> /\ \A c \in ExecChans : stage'[c] = stage[c] \/ stage'[c] = "cut"
    BY <1>1, <1>2 DEF Lost, WriteFails, Down
  <2> QED
    BY <2>1, CutSeen DEF Order!ChannelNext
<1>3. ASSUME NEW c \in Chans, channel_close(c) PROVE [Order!ChannelNext]_(Order!channelVars)
  <2>1. UNCHANGED <<made, got>> /\ \A d \in ExecChans : stage'[d] = stage[d] \/ stage'[d] = "cut"
    BY <1>1, <1>3 DEF channel_close, SetStage
  <2> QED
    BY <2>1, CutSeen DEF Order!ChannelNext
<1>4. ASSUME NEW c \in ExecChans, ExecAnswered(c) PROVE [Order!ChannelNext]_(Order!channelVars)
  <2>1. /\ stage[c] = "open" /\ stage' = [stage EXCEPT ![c] = "closed"] /\ made[c] = 0
        /\ UNCHANGED <<made, got>>
    BY <1>4 DEF ExecAnswered, finish_with, SetStage, Fresh, Inv, ChannelInv, TasksInOrder
  <2>2. Order!Answer(c)
    BY <1>1, <2>1, AdvanceSeen DEF Order!Answer
  <2> QED
    BY <2>2 DEF Order!ChannelNext
<1>5. ASSUME NEW c \in ExecChans, GitWrites(c) PROVE [Order!ChannelNext]_(Order!channelVars)
  <2>1. stage[c] \in {"open", "cut"} /\ made' = [made EXCEPT ![c] = @ + 1] /\ UNCHANGED <<stage, got>>
    BY <1>5 DEF GitWrites, Inv, ChannelInv, TasksInOrder
  <2>2. Order!Write(c)
    BY <2>1 DEF Order!Write
  <2> QED
    BY <2>2 DEF Order!ChannelNext
<1>6. ASSUME NEW c \in ShellChans, shell_request(c) PROVE [Order!ChannelNext]_(Order!channelVars)
  <2>1. UNCHANGED <<made, got>> /\ \A d \in ExecChans : stage'[d] = stage[d]
    BY <1>1, <1>6 DEF shell_request, finish_with, SetStage
  <2> QED
    BY <2>1 DEF Order!channelVars
<1>7. CASE Pass
  BY <1>7, PassSeen
<1>8. CASE UNCHANGED <<stage, made, got>>
  BY <1>8, Unseen
<1>9. ASSUME NEW c \in ExecChans,
             handle_git(c) \/ BeginWrite(c) \/ WriteStdin(c) \/ GitReads(c) \/ GitExits(c)
      PROVE  UNCHANGED <<stage, made, got>>
  BY <1>9 DEF handle_git, BeginWrite, WriteStdin, GitReads, GitExits
<1>10. ASSUME NEW c \in ShellChans,
              \/ pty_request(c) \/ on_input(c) \/ window_change_request(c) \/ teardown(c)
              \/ Forwarder(c)
       PROVE  UNCHANGED <<stage, made, got>>
  BY <1>10 DEF pty_request, on_input, window_change_request, teardown, Forwarder, ForwardTakes,
               ForwardSends, ForwardEnds
<1>11. ASSUME NEW c \in ExecChans, Reader(c) \/ Waiter(c) PROVE UNCHANGED <<stage, made, got>>
  BY <1>11 DEF Reader, ReaderTakes, ReaderSends, ReaderEnds, Waiter, ChildWaited,
               ReadersJoined, WaiterTells, WaiterAt
<1>12. ASSUME NEW c \in Chans, channel_eof(c) PROVE UNCHANGED <<stage, made, got>>
  BY <1>12 DEF channel_eof
<1>13. CASE UNCHANGED connVars
  BY <1>8, <1>13 DEF connVars
<1> QED
  BY <1>2, <1>3, <1>4, <1>5, <1>6, <1>7, <1>8, <1>9, <1>10, <1>11, <1>12, <1>13
  DEF ConnNext, Request, Git

\* For any number of channels, any queue and any pipes: a command's client gets
\* all output, then the exit status, then the end, then the close, although they
\* come from three tasks over one queue (server.rs:195-236).
THEOREM ChannelsKeepOrderHolds == ConnSpec => ChannelsKeepOrder
<1>1. ConnInit => Order!ChannelInit
  BY DEF ConnInit, Order!ChannelInit, Chans
<1> QED
  BY <1>1, ConnInvariant, StepSeen, PTL DEF ConnSpec, ChannelsKeepOrder, Order!ChannelSpec
=============================================================================
