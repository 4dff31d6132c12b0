------------------------------- MODULE CiPush -------------------------------
(***************************************************************************)
(* From a push to its CI run: the task server.rs:195-236 spawns for every  *)
(* git command and ci.rs enqueue_push / dispatch_ready.                    *)
(*                                                                         *)
(* When receive-pack has ended, five git commands read HEAD one after the  *)
(* other -- is there a .ci/push, which commit is it, check it out, how     *)
(* long is .ci/push, read it -- and nothing keeps other pushes, or the     *)
(* deletion of the repository, out of the way in between.  A ticket is     *)
(* then created and a detached thread dispatches every ready ticket        *)
(* labelled ci:push.                                                       *)
(*                                                                         *)
(* myque and chilin are external.  Assumed of them: create_task is one     *)
(* step; dispatch_with looks at every ticket that is ready when it begins, *)
(* and may look at later ones; it rejects a ticket, which stays ready, or  *)
(* starts it, at most max_attempts times, and marks it running in the same *)
(* step; a run that ends, or that cannot be started, leaves its ticket     *)
(* done, failed or ready again; an error ends the dispatch and leaves all  *)
(* tickets as they are.  Commits are numbered in the order in which HEAD's *)
(* branch took them, whatever their ancestry.                              *)
(***************************************************************************)
EXTENDS Integers, Sequences

CONSTANTS
    Pushes,       \* the pushes there will be; each is made by its own user
    Contents,     \* what a commit may have under .ci/push: nothing, a ticket
                  \* template, or something that is none (binary, too long,
                  \* frontmatter that does not parse)
    Issues,       \* tickets that are not labelled ci:push
    MaxAttempts,  \* max_attempts of the templates
    MaxCrashes,   \* bound: how often the server process dies
    Deletes,      \* may the repository be deleted?
    NoTicket

Tickets == Pushes \cup Issues     \* a push has at most one ticket

ASSUME CiAssumption ==
    /\ Pushes \cap Issues = {} /\ NoTicket \notin Tickets
    /\ Contents \subseteq {"none", "template", "bad"}
    /\ MaxAttempts \in Nat \ {0} /\ MaxCrashes \in Nat /\ Deletes \in BOOLEAN

VARIABLES
    log,       \* the commits HEAD's branch has had: who pushed it, its .ci/push
    gone,      \* has the repository been deleted?
    pushed,    \* history: the commit each push put on HEAD's branch, or 0
    pc,        \* where each push's task is
    sha,       \* the commit resolve_head found
    work,      \* the commit checkout_head checked out
    tmpl,      \* the commit the template was read from
    ticket,    \* the status of every ticket
    attempts,  \* how often each push's ticket has been started
    disp,      \* where the dispatcher of each push is
    job,       \* the ticket it runs
    todo,      \* history: the tickets it may run that were ready when it began,
               \* less those it has started or rejected
    crashes    \* how often the process has died

repoVars == <<log, gone, pushed>>
readVars == <<sha, work, tmpl>>
ticketVars == <<ticket, attempts>>
dispVars == <<disp, job, todo>>
vars == <<repoVars, pc, readVars, ticketVars, dispVars, crashes>>

HeadCommit == IF gone THEN 0 ELSE Len(log)
ContentAt(n) == IF n = 0 THEN "none" ELSE log[n].content

TypeOK ==
    /\ log \in Seq([by : Pushes, content : Contents])
    /\ gone \in BOOLEAN
    /\ pushed \in [Pushes -> 0..Len(log)]
    /\ pc \in [Pushes -> {"receive", "probe", "resolve", "checkout", "size", "read", "create",
                          "report", "closed", "dead"}]
    /\ {sha, work, tmpl} \subseteq [Pushes -> 0..Len(log)]
    /\ ticket \in [Tickets -> {"none", "ready", "running", "done", "failed"}]
    /\ attempts \in [Tickets -> 0..MaxAttempts]
    /\ disp \in [Pushes -> {"off", "claim", "run", "failed"}]
    /\ job \in [Pushes -> Tickets \cup {NoTicket}]
    /\ todo \in [Pushes -> SUBSET Tickets]
    /\ \A p \in Pushes : disp[p] = "run" <=> job[p] # NoTicket
    /\ crashes \in 0..MaxCrashes

-----------------------------------------------------------------------------
Goto(p, l) == pc' = [pc EXCEPT ![p] = l]

\* git receive-pack ends well; it moved HEAD's branch or some other ref.
Receive(p, content) ==
    /\ pc[p] = "receive" /\ ~gone
    /\ \/ /\ log' = Append(log, [by |-> p, content |-> content])
          /\ pushed' = [pushed EXCEPT ![p] = Len(log) + 1]
       \/ UNCHANGED <<log, pushed>>
    /\ Goto(p, "probe")
    /\ UNCHANGED <<gone, readVars, ticketVars, dispVars, crashes>>

\* It exits with an error: the code goes straight to the client.
ReceiveFails(p) ==
    /\ pc[p] = "receive"
    /\ Goto(p, "report")
    /\ UNCHANGED <<repoVars, readVars, ticketVars, dispVars, crashes>>

\* path_exists_at_head: any .ci/push will do; a failing git counts as none.
Probe(p) ==
    /\ pc[p] = "probe"
    /\ Goto(p, IF ContentAt(HeadCommit) = "none" THEN "report" ELSE "resolve")
    /\ UNCHANGED <<repoVars, readVars, ticketVars, dispVars, crashes>>

ResolveHead(p) ==
    /\ pc[p] = "resolve"
    /\ sha' = [sha EXCEPT ![p] = HeadCommit]
    /\ Goto(p, IF HeadCommit = 0 THEN "report" ELSE "checkout")
    /\ UNCHANGED <<repoVars, work, tmpl, ticketVars, dispVars, crashes>>

\* Mutant: the work directory of an earlier push is used again.
BugCheckoutHead(p) ==
    /\ pc[p] = "checkout"
    /\ work' = [work EXCEPT ![p] = IF \E q \in Pushes \ {p} : work[q] # 0
                                  THEN work[CHOOSE q \in Pushes \ {p} : work[q] # 0]
                                  ELSE HeadCommit]
    /\ Goto(p, IF HeadCommit = 0 THEN "report" ELSE "size")
    /\ UNCHANGED <<repoVars, sha, tmpl, ticketVars, dispVars, crashes>>

\* git clone of the bare repository; it fails when that is gone.
CheckoutHead(p) ==
    /\ pc[p] = "checkout"
    /\ work' = [work EXCEPT ![p] = HeadCommit]
    /\ Goto(p, IF HeadCommit = 0 THEN "report" ELSE "size")
    /\ UNCHANGED <<repoVars, sha, tmpl, ticketVars, dispVars, crashes>>

\* Mutant: an error of enqueue_push ends the task.
BugReadTemplate(p) ==
    /\ pc[p] = "read"
    /\ tmpl' = [tmpl EXCEPT ![p] = HeadCommit]
    /\ Goto(p, IF ContentAt(HeadCommit) = "template" THEN "create" ELSE "dead")
    /\ UNCHANGED <<repoVars, sha, work, ticketVars, dispVars, crashes>>

\* read_blob asks for the size first: .ci/push may be gone, or too long.
ReadSize(p) ==
    /\ pc[p] = "size"
    /\ \/ ContentAt(HeadCommit) # "none" /\ Goto(p, "read")
       \/ ContentAt(HeadCommit) # "template" /\ Goto(p, "report")
    /\ UNCHANGED <<repoVars, readVars, ticketVars, dispVars, crashes>>

\* Then for the text: it may be gone by now, or be no ticket template.
ReadTemplate(p) ==
    /\ pc[p] = "read"
    /\ tmpl' = [tmpl EXCEPT ![p] = HeadCommit]
    /\ Goto(p, IF ContentAt(HeadCommit) = "template" THEN "create" ELSE "report")
    /\ UNCHANGED <<repoVars, sha, work, ticketVars, dispVars, crashes>>

-----------------------------------------------------------------------------
\* Mutant: the label policy is not set.
BugAllowed == Tickets

\* require_allowed_label with allowed_labels = ["ci:push"].
Allowed == Pushes

ReadyTickets == {t \in Allowed : ticket[t] = "ready"}

\* create_task writes a ready ticket; spawn_blocking starts a dispatcher.
CreateTask(p) ==
    /\ pc[p] = "create"
    /\ ticket' = [ticket EXCEPT ![p] = "ready"]
    /\ disp' = [disp EXCEPT ![p] = "claim"]
    /\ todo' = [todo EXCEPT ![p] = ReadyTickets \cup {p}]
    /\ Goto(p, "report")
    /\ UNCHANGED <<repoVars, readVars, attempts, job, crashes>>

\* The ticket store or its configuration cannot be read or written: no ticket.
CreateFails(p) ==
    /\ pc[p] = "create"
    /\ Goto(p, "report")
    /\ UNCHANGED <<repoVars, readVars, ticketVars, dispVars, crashes>>

\* exit-status, EOF and close go to the client whatever became of the ticket.
Report(p) ==
    /\ pc[p] = "report"
    /\ Goto(p, "closed")
    /\ UNCHANGED <<repoVars, readVars, ticketVars, dispVars, crashes>>

-----------------------------------------------------------------------------
LooksAt(p, t) == todo' = [todo EXCEPT ![p] = @ \ {t}]

\* The dispatcher starts a ready ticket ...
Claim(p) ==
    /\ disp[p] = "claim"
    /\ \E t \in ReadyTickets :
         /\ attempts[t] < MaxAttempts
         /\ ticket' = [ticket EXCEPT ![t] = "running"]
         /\ attempts' = [attempts EXCEPT ![t] = @ + 1]
         /\ job' = [job EXCEPT ![p] = t]
         /\ LooksAt(p, t)
    /\ disp' = [disp EXCEPT ![p] = "run"]
    /\ UNCHANGED <<repoVars, pc, readVars, crashes>>

\* ... rejects one for any other reason the policy has ...
Reject(p) ==
    /\ disp[p] = "claim"
    /\ \E t \in todo[p] : ticket[t] = "ready" /\ LooksAt(p, t)
    /\ UNCHANGED <<repoVars, pc, readVars, ticketVars, disp, job, crashes>>

\* ... or has none left to look at.
Dispatched(p) ==
    /\ disp[p] = "claim" /\ todo[p] \cap ReadyTickets = {}
    /\ disp' = [disp EXCEPT ![p] = "off"]
    /\ todo' = [todo EXCEPT ![p] = {}]
    /\ UNCHANGED <<repoVars, pc, readVars, ticketVars, job, crashes>>

\* Mutant: the dispatcher does not let go of the ticket it ran.
BugRunEnds(p) ==
    /\ disp[p] = "run"
    /\ \E end \in {"done", "failed", "ready"} : ticket' = [ticket EXCEPT ![job[p]] = end]
    /\ disp' = [disp EXCEPT ![p] = "claim"]
    /\ UNCHANGED <<repoVars, pc, readVars, attempts, job, todo, crashes>>


\* The job ends, or could not be started; the ticket may be left for another attempt.
RunEnds(p) ==
    /\ disp[p] = "run"
    /\ \E end \in {"done", "failed", "ready"} : ticket' = [ticket EXCEPT ![job[p]] = end]
    /\ job' = [job EXCEPT ![p] = NoTicket]
    /\ disp' = [disp EXCEPT ![p] = "claim"]
    /\ UNCHANGED <<repoVars, pc, readVars, attempts, todo, crashes>>

\* load_config or dispatch_with fails: the error is logged, nothing is tried again,
\* and a ticket the dispatcher was running stays marked so.
DispatchFails(p) ==
    /\ disp[p] \in {"claim", "run"}
    /\ disp' = [disp EXCEPT ![p] = "failed"]
    /\ job' = [job EXCEPT ![p] = NoTicket]
    /\ UNCHANGED <<repoVars, pc, readVars, ticketVars, todo, crashes>>

\* A user makes an ordinary ticket ready.
NewIssue(t) ==
    /\ t \in Issues /\ ticket[t] = "none"
    /\ ticket' = [ticket EXCEPT ![t] = "ready"]
    /\ UNCHANGED <<repoVars, pc, readVars, attempts, dispVars, crashes>>

DeleteRepo ==
    /\ Deletes /\ ~gone
    /\ gone' = TRUE
    /\ UNCHANGED <<log, pushed, pc, readVars, ticketVars, dispVars, crashes>>

\* The process dies: its tasks and threads are gone, the tickets stay.
Crash ==
    /\ crashes < MaxCrashes
    /\ crashes' = crashes + 1
    /\ pc' = [p \in Pushes |-> IF pc[p] \in {"receive", "closed"} THEN pc[p] ELSE "dead"]
    /\ disp' = [p \in Pushes |-> "off"]
    /\ job' = [p \in Pushes |-> NoTicket]
    /\ todo' = [p \in Pushes |-> {}]
    /\ UNCHANGED <<repoVars, readVars, ticketVars>>

Init ==
    /\ log = <<>> /\ gone = FALSE
    /\ pushed = [p \in Pushes |-> 0]
    /\ pc = [p \in Pushes |-> "receive"]
    /\ sha = [p \in Pushes |-> 0]
    /\ work = [p \in Pushes |-> 0]
    /\ tmpl = [p \in Pushes |-> 0]
    /\ ticket = [t \in Tickets |-> "none"]
    /\ attempts = [t \in Tickets |-> 0]
    /\ disp = [p \in Pushes |-> "off"]
    /\ job = [p \in Pushes |-> NoTicket]
    /\ todo = [p \in Pushes |-> {}]
    /\ crashes = 0

\* One step of what the server does on its own once receive-pack has ended.
TaskStep(p) ==
    \/ Probe(p)
    \/ ResolveHead(p)
    \/ CheckoutHead(p)
    \/ ReadSize(p)
    \/ ReadTemplate(p)
    \/ CreateTask(p)
    \/ CreateFails(p)
    \/ Report(p)

\* One step of dispatch_ready, in its detached thread.
DispatcherStep(p) ==
    \/ Claim(p)
    \/ Reject(p)
    \/ RunEnds(p)
    \/ Dispatched(p)
    \/ DispatchFails(p)

Next ==
    \/ \E p \in Pushes :
         \/ \E content \in Contents : Receive(p, content)
         \/ ReceiveFails(p)
         \/ TaskStep(p)
         \/ DispatcherStep(p)
    \/ \E t \in Issues : NewIssue(t)
    \/ DeleteRepo
    \/ Crash

Spec == Init /\ [][Next]_vars

\* The spawned task and the dispatcher thread go on while the process lives;
\* git clone and the CI job end.
Fair == \A p \in Pushes : WF_vars(TaskStep(p)) /\ WF_vars(DispatcherStep(p))

FairSpec == Spec /\ Fair

-----------------------------------------------------------------------------
\* However pushes interleave, CI never runs an older tree than its push
\* delivered, the checkout is never older than the sha the ticket names, and
\* the template never older than the checkout (the order of the reads in
\* ci.rs:19-34).  So when the first and the last read agree, the checkout is
\* that very commit.
ReadsGoForward ==
    \A p \in Pushes : ticket[p] # "none" =>
        pushed[p] <= sha[p] /\ sha[p] <= work[p] /\ work[p] <= tmpl[p]


\* Whatever goes wrong with CI, the pusher's channel is closed in the end,
\* unless the process dies (server.rs:203-235).
EveryPushAnswered ==
    \A p \in Pushes : pc[p] = "probe" ~> (pc[p] = "closed" \/ crashes > 0)

\* Many dispatchers on one ticket store, crashes and errors between any two steps:
\* no ordinary ticket is run, no ticket by two dispatchers at once, and one that has
\* ended, or that a crash or an error cut off, is not taken again, unless a user
\* moves it (ci.rs:61-77).
Waiting == {p \in Pushes : ticket[p] = "ready"}
Ended == {p \in Pushes : ticket[p] \in {"done", "failed"}}
CutOff == {p \in Pushes : ticket[p] = "running" /\ \A q \in Pushes : job[q] # p}
Queue == INSTANCE CiQueue WITH
    Jobs <- Pushes, Workers <- Pushes, Nothing <- NoTicket,
    waiting <- Waiting, taken <- job, ended <- Ended, lost <- CutOff
DispatchersShareAQueue == Queue!QueueSpec

\* What docs/CI.md:38 and 42 say of a ticket: "Commit {sha} was pushed by
\* {pusher}" and "Run in the checked-out pushed commit".
TicketIsAboutItsPush ==
    \A p \in Pushes : ticket[p] # "none" => log[sha[p]].by = p /\ work[p] = sha[p]
=============================================================================
