-------------------------------- MODULE Conn --------------------------------
(***************************************************************************)
(* One SSH connection (server.rs Conn, tui/mod.rs Tui): its session loop   *)
(* runs one handler at a time; git children, the tasks that copy their     *)
(* output, the task that waits for them, and a TUI's forwarder run beside  *)
(* it.  Tasks talk to the client through the connection's queue, which the *)
(* loop empties only while no handler runs; a handler's own answers        *)
(* (finish_with) go out directly.                                          *)
(*                                                                         *)
(* External: russh (the loop and its queue), pipes, git.  Left out: the    *)
(* bytes, the window sizes, and the second pipe of a child, its standard   *)
(* error, which is copied and waited for just as the first.                *)
(***************************************************************************)
EXTENDS Naturals, Sequences

CONSTANTS
    ExecChans,    \* channels the client runs a command on
    ShellChans,   \* channels it asks for a shell on
    NoChan,
    QueueSize,    \* room in the connection's queue (russh: 10)
    PipeSize,     \* room in a pipe
    MaxMade,      \* bound: pieces of output of one git command
    MaxFrames     \* bound: screens that wait for a TUI's forwarder

Chans == ExecChans \cup ShellChans

ASSUME ConnAssumption ==
    /\ ExecChans \cap ShellChans = {} /\ NoChan \notin Chans
    /\ QueueSize \in Nat \ {0} /\ PipeSize \in Nat \ {0}
    /\ MaxMade \in Nat /\ MaxFrames \in Nat \ {0}

VARIABLES
    up,        \* is the connection there?
    pty,       \* has any of its channels asked for a terminal?
    handler,   \* the handler that waits in the middle, and the channel it is for
    queue,     \* messages of the tasks to the client
    tui,       \* the channel of the one TUI, or NoChan
    frames,    \* screens drawn and not yet taken by the TUI's forwarder
    forward,   \* the forwarder of each TUI
    git_stdin, \* channels whose child's standard input is held
    ended,     \* channels on which the client has sent its last byte
    child,     \* the git child of each channel
    inPipe, outPipe,   \* what is in its pipes
    reader,    \* the pipe_reader of its output
    waiter,    \* the task that waits for it and tells the client
    stage, made, got   \* what the client sees, as in SessionChannel

loopVars == <<up, pty, handler, tui, git_stdin, ended>>
tuiVars == <<frames, forward>>
gitVars == <<child, inPipe, outPipe, reader, waiter, made>>
clientVars == <<stage, got>>
connVars == <<loopVars, queue, tuiVars, gitVars, clientVars>>

NoHandler == [at |-> "idle", chan |-> NoChan]
Messages == {"data", "exit", "eof", "close"}

ConnTypeOK ==
    /\ up \in BOOLEAN /\ pty \in BOOLEAN
    /\ handler \in [at : {"write", "exit", "eof", "close"}, chan : Chans] \cup {NoHandler}
    /\ queue \in Seq([chan : Chans, msg : Messages]) /\ Len(queue) <= QueueSize
    /\ tui \in ShellChans \cup {NoChan}
    /\ frames \in [ShellChans -> 0..MaxFrames]
    /\ forward \in [ShellChans -> {"none", "recv", "send", "done"}]
    /\ git_stdin \subseteq ExecChans /\ ended \subseteq Chans
    /\ child \in [ExecChans -> {"none", "running", "exited"}]
    /\ inPipe \in [ExecChans -> 0..PipeSize] /\ outPipe \in [ExecChans -> 0..PipeSize]
    /\ reader \in [ExecChans -> {"none", "read", "send", "done"}]
    /\ waiter \in [ExecChans -> {"none", "wait", "join", "exit", "eof", "close", "done"}]
    /\ stage \in [Chans -> {"open", "exit", "eof", "closed", "cut"}]
    /\ made \in [ExecChans -> 0..MaxMade] /\ got \in [ExecChans -> 0..MaxMade]

-----------------------------------------------------------------------------
\* The session loop takes the next message, of the client or of the queue,
\* when the handler before it has returned.
Free == up /\ handler = NoHandler

Fresh(c) == stage[c] = "open" /\ c \notin ended

\* A client talks on a channel until it ends it, or until the channel is cut.
Talks(c) == Free /\ stage[c] # "cut" /\ c \notin ended

SetStage(c, s) == stage' = [stage EXCEPT ![c] = s]

\* finish_with, handle_issues, handle_ci: the whole answer at once.
finish_with(c) == SetStage(c, "closed") /\ UNCHANGED got

\* exec_request of anything but git, or of git that is refused or does not start.
ExecAnswered(c) ==
    /\ Free /\ Fresh(c) /\ child[c] = "none"
    /\ finish_with(c)
    /\ UNCHANGED <<loopVars, queue, tuiVars, gitVars>>

\* handle_git: the child, its readers and the waiting task start.
handle_git(c) ==
    /\ Free /\ Fresh(c) /\ child[c] = "none"
    /\ child' = [child EXCEPT ![c] = "running"]
    /\ git_stdin' = git_stdin \cup {c}
    /\ reader' = [reader EXCEPT ![c] = "read"]
    /\ waiter' = [waiter EXCEPT ![c] = "wait"]
    /\ UNCHANGED <<up, pty, handler, tui, ended, queue, tuiVars, inPipe, outPipe, made,
                   clientVars>>

pty_request(c) ==
    /\ Free /\ Fresh(c) /\ ~pty
    /\ pty' = TRUE
    /\ UNCHANGED <<up, handler, tui, git_stdin, ended, queue, tuiVars, gitVars, clientVars>>

\* A frame: what one draw, or teardown, flushes to the forwarder.
Draw(c, n) ==
    /\ frames[c] + n <= MaxFrames          \* bound
    /\ frames' = [frames EXCEPT ![c] = @ + n]

\* shell_request: with a terminal, Tui::start, whose TUI takes the place of
\* the one there is; else a hint.
shell_request(c) ==
    /\ Free /\ Fresh(c) /\ forward[c] = "none"
    /\ \/ /\ ~pty
          /\ finish_with(c)
          /\ UNCHANGED <<tui, tuiVars>>
       \/ /\ pty
          /\ tui' = c
          /\ forward' = [forward EXCEPT ![c] = "recv"]
          /\ Draw(c, 1)
          /\ UNCHANGED clientVars
    /\ UNCHANGED <<up, pty, handler, git_stdin, ended, queue, gitVars>>

\* data for the TUI: each key is handled and redrawn, up to a Ctrl-C, which
\* flushes once more and goes on in teardown.
on_input(c) ==
    /\ Talks(c) /\ tui = c
    /\ \E n \in 0..MaxFrames, quit \in BOOLEAN :
         /\ Draw(c, IF quit THEN n + 1 ELSE n)
         /\ handler' = IF quit THEN [at |-> "exit", chan |-> c] ELSE NoHandler
    /\ UNCHANGED <<up, pty, tui, git_stdin, ended, queue, forward, gitVars, clientVars>>

\* data for git: the handler writes all of it, however long that takes.
BeginWrite(c) ==
    /\ Talks(c) /\ c \in git_stdin
    /\ handler' = [at |-> "write", chan |-> c]
    /\ UNCHANGED <<up, pty, tui, git_stdin, ended, queue, tuiVars, gitVars, clientVars>>

\* window_change_request on the TUI's channel draws it anew.
window_change_request(c) ==
    /\ Talks(c) /\ tui = c
    /\ Draw(c, 1)
    /\ UNCHANGED <<loopVars, queue, forward, gitVars, clientVars>>

\* Mutant: the end of the client's input leaves the child's input open.
BugEndInput(c) ==
    /\ tui' = IF tui = c THEN NoChan ELSE tui
    /\ ended' = ended \cup {c}
    /\ UNCHANGED git_stdin

\* channel_eof and channel_close: the child's input ends, and the TUI is dropped.
EndInput(c) ==
    /\ git_stdin' = git_stdin \ {c}
    /\ tui' = IF tui = c THEN NoChan ELSE tui
    /\ ended' = ended \cup {c}

channel_eof(c) ==
    /\ Talks(c) /\ EndInput(c)
    /\ UNCHANGED <<up, pty, handler, queue, tuiVars, gitVars, clientVars>>

channel_close(c) ==
    /\ Free /\ stage[c] # "cut" /\ EndInput(c)
    /\ SetStage(c, "cut")
    /\ UNCHANGED <<up, pty, handler, queue, tuiVars, gitVars, got>>

\* The connection ends: Conn is dropped with all it holds, the queue is gone.
Down ==
    /\ up' = FALSE
    /\ handler' = NoHandler
    /\ queue' = <<>>
    /\ git_stdin' = {} /\ tui' = NoChan
    /\ stage' = [c \in Chans |-> IF stage[c] = "closed" THEN "closed" ELSE "cut"]
    /\ UNCHANGED <<pty, ended, got>>

\* The client goes away; the loop sees it when no handler runs.
Lost == Free /\ Down /\ UNCHANGED <<tuiVars, gitVars>>

-----------------------------------------------------------------------------
\* Mutant: a write to a child that has exited is tried for ever.
BugWriteFails(c) ==
    /\ handler = [at |-> "write", chan |-> c] /\ child[c] = "exited" /\ FALSE
    /\ Down
    /\ UNCHANGED <<tuiVars, gitVars>>

\* The handler writes to the child ...
WriteStdin(c) ==
    /\ handler = [at |-> "write", chan |-> c]
    /\ child[c] = "running" /\ inPipe[c] < PipeSize
    /\ inPipe' = [inPipe EXCEPT ![c] = @ + 1]
    /\ handler' = NoHandler
    /\ UNCHANGED <<up, pty, tui, git_stdin, ended, queue, tuiVars, child, outPipe, reader,
                   waiter, made, clientVars>>

\* ... or finds that it has exited: the error ends the whole connection.
WriteFails(c) ==
    /\ handler = [at |-> "write", chan |-> c] /\ child[c] = "exited"
    /\ Down
    /\ UNCHANGED <<tuiVars, gitVars>>

HasRoom == Len(queue) < QueueSize
Send(c, msg) == queue' = Append(queue, [chan |-> c, msg |-> msg])

After(at) == CASE at = "exit" -> "eof" [] at = "eof" -> "close" [] OTHER -> "idle"

\* Mutant: teardown tells the client twice.
BugTeardown(c) ==
    /\ handler.chan = c /\ handler.at \in {"exit", "eof", "close"}
    /\ Len(queue) + 1 < QueueSize
    /\ queue' = queue \o <<[chan |-> c, msg |-> handler.at], [chan |-> c, msg |-> handler.at]>>
    /\ IF handler.at = "close"
       THEN handler' = NoHandler /\ tui' = NoChan
       ELSE handler' = [handler EXCEPT !.at = After(@)] /\ UNCHANGED tui
    /\ UNCHANGED <<up, pty, git_stdin, ended, tuiVars, gitVars, clientVars>>

\* Tui::teardown sends through the queue that waits for its own handler.
teardown(c) ==
    /\ handler.chan = c /\ handler.at \in {"exit", "eof", "close"} /\ HasRoom
    /\ Send(c, handler.at)
    /\ IF handler.at = "close"
       THEN handler' = NoHandler /\ tui' = NoChan
       ELSE handler' = [handler EXCEPT !.at = After(@)] /\ UNCHANGED tui
    /\ UNCHANGED <<up, pty, git_stdin, ended, tuiVars, gitVars, clientVars>>

\* The loop passes a task's message on; one for a channel that is gone is dropped.
Pass ==
    /\ Free /\ queue # <<>>
    /\ queue' = Tail(queue)
    /\ LET c == Head(queue).chan
           msg == Head(queue).msg
       IN  IF stage[c] \in {"closed", "cut"} THEN UNCHANGED clientVars
           ELSE IF msg = "data"
           THEN /\ got' = IF c \in ExecChans THEN [got EXCEPT ![c] = @ + 1] ELSE got
                /\ UNCHANGED stage
           ELSE SetStage(c, IF msg = "close" THEN "closed" ELSE msg) /\ UNCHANGED got
    /\ UNCHANGED <<loopVars, tuiVars, gitVars>>

-----------------------------------------------------------------------------
\* The forwarder of a TUI; it ends when the TUI is gone or the connection is.
ForwardTakes(c) ==
    /\ forward[c] = "recv" /\ frames[c] > 0
    /\ frames' = [frames EXCEPT ![c] = @ - 1]
    /\ forward' = [forward EXCEPT ![c] = "send"]
    /\ UNCHANGED <<loopVars, queue, gitVars, clientVars>>

\* Mutant: it does not wait for room.
BugForwardSends(c) ==
    /\ forward[c] = "send" /\ up
    /\ Send(c, "data")
    /\ forward' = [forward EXCEPT ![c] = "recv"]
    /\ UNCHANGED <<loopVars, frames, gitVars, clientVars>>

ForwardSends(c) ==
    /\ forward[c] = "send" /\ up /\ HasRoom
    /\ Send(c, "data")
    /\ forward' = [forward EXCEPT ![c] = "recv"]
    /\ UNCHANGED <<loopVars, frames, gitVars, clientVars>>

ForwardEnds(c) ==
    /\ \/ forward[c] = "send" /\ ~up
       \/ forward[c] = "recv" /\ frames[c] = 0 /\ tui # c
    /\ forward' = [forward EXCEPT ![c] = "done"]
    /\ frames' = [frames EXCEPT ![c] = 0]
    /\ UNCHANGED <<loopVars, queue, gitVars, clientVars>>

-----------------------------------------------------------------------------
\* git reads, writes and ends as it likes.
GitReads(c) ==
    /\ child[c] = "running" /\ inPipe[c] > 0
    /\ inPipe' = [inPipe EXCEPT ![c] = @ - 1]
    /\ UNCHANGED <<loopVars, queue, tuiVars, child, outPipe, reader, waiter, made, clientVars>>

GitWrites(c) ==
    /\ child[c] = "running" /\ outPipe[c] < PipeSize /\ reader[c] # "done"
    /\ made[c] < MaxMade                   \* bound
    /\ made' = [made EXCEPT ![c] = @ + 1]
    /\ outPipe' = [outPipe EXCEPT ![c] = @ + 1]
    /\ UNCHANGED <<loopVars, queue, tuiVars, child, inPipe, reader, waiter, clientVars>>

GitExits(c) ==
    /\ child[c] = "running"
    /\ child' = [child EXCEPT ![c] = "exited"]
    /\ inPipe' = [inPipe EXCEPT ![c] = 0]
    /\ UNCHANGED <<loopVars, queue, tuiVars, outPipe, reader, waiter, made, clientVars>>

\* pipe_reader: takes what is in the pipe and sends it.
ReaderTakes(c) ==
    /\ reader[c] = "read" /\ outPipe[c] > 0
    /\ outPipe' = [outPipe EXCEPT ![c] = @ - 1]
    /\ reader' = [reader EXCEPT ![c] = "send"]
    /\ UNCHANGED <<loopVars, queue, tuiVars, child, inPipe, waiter, made, clientVars>>

ReaderSends(c) ==
    /\ reader[c] = "send" /\ up /\ HasRoom
    /\ Send(c, "data")
    /\ reader' = [reader EXCEPT ![c] = "read"]
    /\ UNCHANGED <<loopVars, tuiVars, child, inPipe, outPipe, waiter, made, clientVars>>

\* Mutant: a message that cannot be sent does not stop it.
BugReaderEnds(c) ==
    /\ reader[c] = "read" /\ outPipe[c] = 0 /\ child[c] = "exited"
    /\ reader' = [reader EXCEPT ![c] = "done"]
    /\ UNCHANGED <<loopVars, queue, tuiVars, child, inPipe, outPipe, waiter, made, clientVars>>

\* It ends with the pipe, or when there is nobody to send to.
ReaderEnds(c) ==
    /\ \/ reader[c] = "read" /\ outPipe[c] = 0 /\ child[c] = "exited"
       \/ reader[c] = "send" /\ ~up
    /\ reader' = [reader EXCEPT ![c] = "done"]
    /\ UNCHANGED <<loopVars, queue, tuiVars, child, inPipe, outPipe, waiter, made, clientVars>>

WaiterAt(c, from, to) ==
    /\ waiter[c] = from
    /\ waiter' = [waiter EXCEPT ![c] = to]
    /\ UNCHANGED <<loopVars, tuiVars, child, inPipe, outPipe, reader, made, clientVars>>

\* The spawned task waits for the child ...
ChildWaited(c) == child[c] = "exited" /\ WaiterAt(c, "wait", "join") /\ UNCHANGED queue

\* Mutant: it does not wait for what is still in the pipe.
BugReadersJoined(c) == WaiterAt(c, "join", "exit") /\ UNCHANGED queue

\* ... and for the readers (enqueue_push, which comes next, is module CiPush),
ReadersJoined(c) == reader[c] = "done" /\ WaiterAt(c, "join", "exit") /\ UNCHANGED queue

\* ... and tells the client, if there still is one.
WaiterTells(c) ==
    /\ waiter[c] \in {"exit", "eof", "close"}
    /\ IF up THEN HasRoom /\ Send(c, waiter[c]) ELSE UNCHANGED queue
    /\ WaiterAt(c, waiter[c], IF waiter[c] = "close" THEN "done" ELSE After(waiter[c]))

-----------------------------------------------------------------------------
ConnInit ==
    /\ up = TRUE /\ pty = FALSE
    /\ handler = NoHandler /\ queue = <<>>
    /\ tui = NoChan
    /\ frames = [c \in ShellChans |-> 0]
    /\ forward = [c \in ShellChans |-> "none"]
    /\ git_stdin = {} /\ ended = {}
    /\ child = [c \in ExecChans |-> "none"]
    /\ inPipe = [c \in ExecChans |-> 0] /\ outPipe = [c \in ExecChans |-> 0]
    /\ reader = [c \in ExecChans |-> "none"]
    /\ waiter = [c \in ExecChans |-> "none"]
    /\ stage = [c \in Chans |-> "open"]
    /\ made = [c \in ExecChans |-> 0] /\ got = [c \in ExecChans |-> 0]

Request ==
    \/ \E c \in ExecChans : ExecAnswered(c) \/ handle_git(c) \/ BeginWrite(c)
    \/ \E c \in ShellChans : pty_request(c) \/ shell_request(c) \/ on_input(c)
                               \/ window_change_request(c)
    \/ \E c \in Chans : channel_eof(c) \/ channel_close(c)
    \/ Lost

Forwarder(c) == ForwardTakes(c) \/ ForwardSends(c) \/ ForwardEnds(c)
Reader(c) == ReaderTakes(c) \/ ReaderSends(c) \/ ReaderEnds(c)
Waiter(c) == ChildWaited(c) \/ ReadersJoined(c) \/ WaiterTells(c)
Git(c) == GitReads(c) \/ GitWrites(c) \/ GitExits(c)

ConnNext ==
    \/ Request
    \/ \E c \in ExecChans : WriteStdin(c) \/ WriteFails(c)
    \/ \E c \in ShellChans : teardown(c) \/ Forwarder(c)
    \/ Pass
    \/ \E c \in ExecChans : Git(c) \/ Reader(c) \/ Waiter(c)

ConnSpec == ConnInit /\ [][ConnNext]_connVars

\* A handler that can go on does.  select! and the queue's semaphore are fair:
\* the loop gets to its queue between the client's messages, and a task to
\* its place in the queue between the other tasks'.  Nothing is asked of a git
\* whose output nobody takes; any other reads what it is sent, or ends, and
\* ends when its input has.
GitHeld(c) == outPipe[c] = PipeSize /\ reader[c] # "done"

GitGoesOn(c) ==
    /\ ~GitHeld(c)
    /\ inPipe[c] > 0 \/ c \notin git_stdin
    /\ GitReads(c) \/ GitExits(c)

ConnFair ==
    /\ SF_connVars(Pass)
    /\ \A c \in ExecChans :
         /\ WF_connVars(WriteStdin(c) \/ WriteFails(c)) /\ WF_connVars(GitGoesOn(c))
         /\ SF_connVars(Reader(c)) /\ SF_connVars(Waiter(c))
    /\ \A c \in ShellChans : WF_connVars(teardown(c)) /\ SF_connVars(Forwarder(c))

ConnFairSpec == ConnSpec /\ ConnFair

-----------------------------------------------------------------------------
\* What a command's client sees is what SessionChannel promises: all output
\* before the exit status, nothing after it, although the output, the status
\* and the end of the channel come from three tasks (server.rs:195-236).
Order == INSTANCE SessionChannel WITH
    Chans <- ExecChans, stage <- [c \in ExecChans |-> stage[c]]
ChannelsKeepOrder == Order!ChannelSpec

\* Everyone waits for the next: the handler for room in git's input, git for
\* room in its output, the reader for room in the queue, and the queue for the
\* loop, which waits for its handler.
Stuck(c) ==
    /\ handler = [at |-> "write", chan |-> c]
    /\ inPipe[c] = PipeSize /\ outPipe[c] = PipeSize
    /\ reader[c] = "send" /\ ~HasRoom

\* A handler in teardown that finds the queue full waits for itself.
Hung == \/ handler.at \in {"exit", "eof", "close"} /\ ~HasRoom
        \/ \E c \in ExecChans : Stuck(c)

\* A git command whose client has sent all it will send comes to its end: the
\* child exits, and its channel is closed or was cut -- unless the connection
\* hangs, in a TUI's teardown or in a write to another command
\* (server.rs:414-424, 195-236).
GitCommandEnds ==
    \A c \in ExecChans :
        (child[c] = "running" /\ c \in ended)
            ~> (child[c] = "exited" /\ stage[c] \in {"closed", "cut"}) \/ Hung

\* When the connection is gone, so are its children and its tasks, before long
\* (kill_on_drop does not help: the waiting task holds the child).
NothingOutlivesConnection ==
    ~up ~> /\ \A c \in ExecChans : child[c] # "running" /\ reader[c] \in {"none", "done"}
                                     /\ waiter[c] \in {"none", "done"}
           /\ \A c \in ShellChans : forward[c] \in {"none", "done"}

\* A write to git holds up the session loop for good in one case only: when
\* both pipes of the child and the queue are full and its reader waits for the
\* queue.  No other command, no TUI and no exit of the child can do it
\* (server.rs:402-412).
WritesEndUnlessStuck ==
    \A c \in ExecChans :
        handler = [at |-> "write", chan |-> c] ~> handler.at # "write" \/ Stuck(c)

\* What the forwarder of c has yet to put into the queue.
Unsent(c) == frames[c] + (IF forward[c] = "send" THEN 1 ELSE 0)

\* Ctrl-C ends a TUI when what waits to be sent, with the three messages of
\* teardown, fits into the queue and no command wants a place in it
\* (tui/mod.rs:140-180); if it does not fit, teardown may wait for ever.
QuitEndsWhenItFits ==
    \A c \in ShellChans :
        (/\ handler = [at |-> "exit", chan |-> c]
         /\ \A e \in ExecChans : waiter[e] \in {"none", "done"}
         /\ Len(queue) + Unsent(c) + 3 <= QueueSize)
            ~> handler.at = "idle"
=============================================================================
