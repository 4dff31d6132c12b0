------------------------------ MODULE CiProofs ------------------------------
(***************************************************************************)
(* For any number of pushes, ordinary tickets and crashes: the five reads  *)
(* of HEAD behind a push never go back, and the dispatchers share the      *)
(* tickets of CI as jobs of a queue: CiPush implements CiQueue.            *)
(***************************************************************************)
EXTENDS CiPush, TLAPS

\* How far the reads of a push are, by where its task is: each read that has
\* been made found a commit no older than the one before it.
ReadsInOrder(p) ==
    /\ pc[p] \in {"checkout", "size", "read", "create"} => pushed[p] <= sha[p]
    /\ pc[p] \in {"size", "read", "create"} => sha[p] <= work[p]
    /\ pc[p] = "create" => work[p] <= tmpl[p]
    /\ ticket[p] # "none" =>
         /\ pc[p] \in {"report", "closed", "dead"}
         /\ pushed[p] <= sha[p] /\ sha[p] <= work[p] /\ work[p] <= tmpl[p]

\* A dispatcher starts after its push's ticket; at work, it runs a CI ticket, which
\* is marked so, and runs it alone.
JobsSound ==
    /\ \A p \in Pushes : disp[p] # "off" => ticket[p] # "none"
    /\ \A t \in Issues : ticket[t] \in {"none", "ready"}
    /\ \A p \in Pushes : job[p] # NoTicket =>
         /\ job[p] \in Pushes /\ ticket[job[p]] = "running"
         /\ \A q \in Pushes : job[q] = job[p] => q = p

Inv == TypeOK /\ (\A p \in Pushes : ReadsInOrder(p)) /\ JobsSound

-----------------------------------------------------------------------------
\* HEAD, while the repository is there, is at the newest commit.
LEMMA HeadIsNewest ==
  ASSUME TypeOK, HeadCommit # 0
  PROVE  HeadCommit = Len(log)
BY DEF HeadCommit

LEMMA HeadTyped == TypeOK => Len(log) \in Nat /\ HeadCommit \in 0..Len(log)
<1> SUFFICES ASSUME TypeOK PROVE Len(log) \in Nat /\ HeadCommit \in 0..Len(log)
  OBVIOUS
<1>1. Len(log) \in Nat
  BY DEF TypeOK
<1> QED
  BY <1>1 DEF HeadCommit

\* A step of a push's task that neither commits, nor makes a ticket.
LEMMA TaskMoves ==
  ASSUME Inv, NEW p \in Pushes, UNCHANGED <<repoVars, ticketVars, dispVars, crashes>>,
         NEW l \in {"probe", "resolve", "checkout", "size", "read", "create", "report", "closed"},
         Goto(p, l),
         {sha', work', tmpl'} \subseteq [Pushes -> 0..Len(log)],
         \A q \in Pushes \ {p} : sha'[q] = sha[q] /\ work'[q] = work[q] /\ tmpl'[q] = tmpl[q],
         ReadsInOrder(p)'
  PROVE  Inv'
<1>1. TypeOK'
  BY DEF TypeOK, Inv, Goto, repoVars, ticketVars, dispVars
<1>2. ASSUME NEW q \in Pushes \ {p} PROVE ReadsInOrder(q)'
  <2>1. pc'[q] = pc[q] /\ pushed'[q] = pushed[q] /\ ticket'[q] = ticket[q]
    BY DEF Inv, TypeOK, Goto, repoVars, ticketVars
  <2> QED
    BY <2>1 DEF Inv, ReadsInOrder
<1>3. JobsSound'
  BY DEF Inv, JobsSound, ticketVars, dispVars
<1> QED
  BY <1>1, <1>2, <1>3 DEF Inv

\* Each read of the task keeps the reads in order.
LEMMA TaskInv ==
  ASSUME Inv, NEW p \in Pushes,
         \/ ReceiveFails(p) \/ Probe(p) \/ ResolveHead(p) \/ CheckoutHead(p)
         \/ ReadSize(p) \/ ReadTemplate(p) \/ CreateFails(p) \/ Report(p)
  PROVE  Inv'
<1> DEFINE at == pc'[p]
<1>1. /\ Len(log) \in Nat /\ HeadCommit \in 0..Len(log)
      /\ HeadCommit # 0 => HeadCommit = Len(log)
  BY HeadTyped, HeadIsNewest DEF Inv
<1>2. /\ pushed[p] \in 0..Len(log) /\ pc \in [Pushes -> {"receive", "probe", "resolve",
           "checkout", "size", "read", "create", "report", "closed", "dead"}]
      /\ {sha, work, tmpl} \subseteq [Pushes -> 0..Len(log)]
  BY DEF Inv, TypeOK
<1>3. ReadsInOrder(p)
  BY DEF Inv
<1>4. CASE ReceiveFails(p) \/ Probe(p) \/ ReadSize(p) \/ CreateFails(p) \/ Report(p)
  <2>1. /\ UNCHANGED <<repoVars, readVars, ticketVars, dispVars, crashes>>
        /\ \E l \in {"probe", "resolve", "read", "report", "closed"} : Goto(p, l)
        /\ pc'[p] \in {"read"} => pc[p] = "size"
        /\ pc'[p] \in {"probe", "resolve", "read", "report", "closed"}
        /\ ticket[p] # "none" => pc'[p] \in {"report", "closed"}
    BY <1>2, <1>3, <1>4
    DEF ReceiveFails, Probe, ReadSize, CreateFails, Report, Goto, ReadsInOrder
  <2>2. ReadsInOrder(p)'
    BY <1>3, <2>1 DEF ReadsInOrder, repoVars, readVars, ticketVars
  <2> QED
    BY <1>2, <2>1, <2>2, TaskMoves DEF readVars
<1>5. CASE ResolveHead(p)
  <2>1. /\ sha' = [sha EXCEPT ![p] = HeadCommit] /\ pc[p] = "resolve"
        /\ UNCHANGED <<repoVars, work, tmpl, ticketVars, dispVars, crashes>>
        /\ \/ HeadCommit = 0 /\ Goto(p, "report")
           \/ HeadCommit = Len(log) /\ Goto(p, "checkout")
    BY <1>1, <1>5 DEF ResolveHead
  <2>2. ReadsInOrder(p)'
    BY <1>1, <1>2, <1>3, <2>1 DEF ReadsInOrder, Goto, repoVars, ticketVars
  <2> QED
    BY <1>1, <1>2, <2>1, <2>2, TaskMoves, ZenonT(60)
<1>6. CASE CheckoutHead(p)
  <2>1. /\ work' = [work EXCEPT ![p] = HeadCommit] /\ pc[p] = "checkout"
        /\ UNCHANGED <<repoVars, sha, tmpl, ticketVars, dispVars, crashes>>
        /\ \/ HeadCommit = 0 /\ Goto(p, "report")
           \/ HeadCommit = Len(log) /\ Goto(p, "size")
    BY <1>1, <1>6 DEF CheckoutHead
  <2>2. ReadsInOrder(p)'
    BY <1>1, <1>2, <1>3, <2>1 DEF ReadsInOrder, Goto, repoVars, ticketVars
  <2> QED
    BY <1>1, <1>2, <2>1, <2>2, TaskMoves, ZenonT(60)
<1>7. CASE ReadTemplate(p)
  <2>1. /\ tmpl' = [tmpl EXCEPT ![p] = HeadCommit] /\ pc[p] = "read"
        /\ UNCHANGED <<repoVars, sha, work, ticketVars, dispVars, crashes>>
        /\ \/ Goto(p, "report")
           \/ HeadCommit = Len(log) /\ Goto(p, "create")
    BY <1>1, <1>7 DEF ReadTemplate, ContentAt
  <2>2. ReadsInOrder(p)'
    BY <1>1, <1>2, <1>3, <2>1 DEF ReadsInOrder, Goto, repoVars, ticketVars
  <2> QED
    BY <1>1, <1>2, <2>1, <2>2, TaskMoves
<1> QED
  BY <1>4, <1>5, <1>6, <1>7

\* A push: the branch only grows, so what was read before stays as it is.
LEMMA ReceiveInv ==
  ASSUME Inv, NEW p \in Pushes, NEW content \in Contents, Receive(p, content)
  PROVE  Inv'
<1>1. /\ Len(log) \in Nat /\ Len(log') \in Nat /\ Len(log) <= Len(log')
      /\ log' \in Seq([by : Pushes, content : Contents])
      /\ pushed' \in [Pushes -> 0..Len(log')]
      /\ \A q \in Pushes \ {p} : pushed'[q] = pushed[q]
  <2>1. log \in Seq([by : Pushes, content : Contents]) /\ pushed \in [Pushes -> 0..Len(log)]
    BY DEF Inv, TypeOK
  <2>2. CASE UNCHANGED <<log, pushed>>
    BY <2>1, <2>2
  <2>3. CASE ~UNCHANGED <<log, pushed>>
    <3> DEFINE commit == [by |-> p, content |-> content]
    <3>1. log' = Append(log, commit) /\ pushed' = [pushed EXCEPT ![p] = Len(log) + 1]
      BY <2>3 DEF Receive
    <3>2. commit \in [by : Pushes, content : Contents]
      OBVIOUS
    <3> HIDE DEF commit
    <3>3. Len(log') = Len(log) + 1 /\ log' \in Seq([by : Pushes, content : Contents])
      BY <2>1, <3>1, <3>2
    <3> QED
      BY <2>1, <3>1, <3>3
  <2> QED
    BY <2>2, <2>3
<1>2. pc[p] = "receive" /\ Goto(p, "probe")
      /\ UNCHANGED <<gone, readVars, ticketVars, dispVars, crashes>>
  BY DEF Receive
<1>3. TypeOK'
  <2>1. {sha', work', tmpl'} \subseteq [Pushes -> 0..Len(log')]
    BY <1>1, <1>2 DEF Inv, TypeOK, readVars
  <2> QED
    BY <1>1, <1>2, <2>1 DEF Inv, TypeOK, Goto, ticketVars, dispVars
<1>4. ASSUME NEW q \in Pushes PROVE ReadsInOrder(q)'
  <2>1. ReadsInOrder(q) /\ UNCHANGED <<sha, work, tmpl, ticket>>
    BY <1>2 DEF Inv, readVars, ticketVars
  <2>2. CASE q = p
    BY <1>2, <2>1, <2>2 DEF ReadsInOrder, Goto, Inv, TypeOK
  <2>3. CASE q # p
    BY <1>1, <1>2, <2>1, <2>3 DEF ReadsInOrder, Goto, Inv, TypeOK
  <2> QED
    BY <2>2, <2>3
<1>5. JobsSound'
  BY <1>2 DEF Inv, JobsSound, ticketVars, dispVars
<1> QED
  BY <1>3, <1>4, <1>5 DEF Inv

\* The ticket comes when all reads have been made.
LEMMA CreateInv ==
  ASSUME Inv, NEW p \in Pushes, CreateTask(p)
  PROVE  Inv'
<1>1. /\ pc[p] = "create" /\ ticket[p] = "none"
      /\ ticket' = [ticket EXCEPT ![p] = "ready"] /\ disp' = [disp EXCEPT ![p] = "claim"]
      /\ Goto(p, "report") /\ UNCHANGED <<repoVars, readVars, attempts, job, crashes>>
      /\ todo' = [todo EXCEPT ![p] = ReadyTickets \cup {p}]
  BY DEF CreateTask, Inv, ReadsInOrder
<1>2. disp[p] = "off" /\ job[p] = NoTicket
  BY <1>1 DEF Inv, TypeOK, JobsSound
<1>3. TypeOK'
  BY <1>1, <1>2 DEF Inv, TypeOK, Goto, Tickets, ReadyTickets, Allowed, repoVars, readVars
<1>4. ASSUME NEW q \in Pushes PROVE ReadsInOrder(q)'
  <2>1. ReadsInOrder(q) /\ UNCHANGED <<pushed, sha, work, tmpl>>
    BY <1>1 DEF Inv, repoVars, readVars
  <2> QED
    BY <1>1, <2>1 DEF ReadsInOrder, Goto, Inv, TypeOK, Tickets
<1>5. JobsSound'
  <2>1. ticket \in [Tickets -> {"none", "ready", "running", "done", "failed"}]
        /\ Pushes \cap Issues = {}
    BY CiAssumption DEF Inv, TypeOK
  <2> QED
    BY <1>1, <1>2, <2>1 DEF Inv, TypeOK, JobsSound, Tickets
<1> QED
  BY <1>3, <1>4, <1>5 DEF Inv

\* A dispatcher claims a ticket that is ready, so one that nobody runs.
LEMMA ClaimInv ==
  ASSUME Inv, NEW p \in Pushes, Claim(p)
  PROVE  Inv'
<1>1. disp[p] = "claim" /\ job[p] = NoTicket /\ UNCHANGED <<repoVars, pc, readVars, crashes>>
  BY DEF Claim, Inv, TypeOK
<1>2. PICK t \in ReadyTickets :
        /\ attempts[t] < MaxAttempts
        /\ ticket' = [ticket EXCEPT ![t] = "running"]
        /\ attempts' = [attempts EXCEPT ![t] = @ + 1]
        /\ job' = [job EXCEPT ![p] = t]
        /\ LooksAt(p, t)
  BY DEF Claim
<1>3. disp' = [disp EXCEPT ![p] = "run"]
  BY DEF Claim
<1>4. t \in Pushes /\ t \in Tickets /\ ticket[t] = "ready" /\ t # NoTicket /\ t \notin Issues
  BY CiAssumption DEF ReadyTickets, Allowed, Tickets
<1>5. TypeOK'
  <2>1. attempts' \in [Tickets -> 0..MaxAttempts]
    BY <1>2, <1>4, CiAssumption DEF Inv, TypeOK
  <2>2. todo' \in [Pushes -> SUBSET Tickets]
    BY <1>2 DEF Inv, TypeOK, LooksAt
  <2> QED
    BY <1>1, <1>2, <1>3, <1>4, <2>1, <2>2 DEF Inv, TypeOK, repoVars, readVars
<1>6. ASSUME NEW q \in Pushes PROVE ReadsInOrder(q)'
  <2>1. ReadsInOrder(q) /\ UNCHANGED <<pushed, sha, work, tmpl, pc>>
    BY <1>1 DEF Inv, repoVars, readVars
  <2>2. ticket'[q] # "none" => ticket[q] # "none"
    BY <1>2, <1>4 DEF Inv, TypeOK, Tickets
  <2> QED
    BY <2>1, <2>2 DEF ReadsInOrder
<1>7. JobsSound'
  <2>1. \A u \in Tickets : ticket'[u] = IF u = t THEN "running" ELSE ticket[u]
    BY <1>2 DEF Inv, TypeOK
  <2>2. \A q \in Pushes : job'[q] = IF q = p THEN t ELSE job[q]
    BY <1>2 DEF Inv, TypeOK
  <2>3. \A q \in Pushes : job[q] # t
    BY <1>4 DEF Inv, JobsSound
  <2>4. \A q \in Pushes : disp'[q] # "off" => q = p \/ disp[q] # "off"
    BY <1>3 DEF Inv, TypeOK
  <2>5. ticket[p] # "none"
    BY <1>1 DEF Inv, JobsSound
  <2> QED
    BY <1>4, <2>1, <2>2, <2>3, <2>4, <2>5 DEF Inv, JobsSound, Tickets
<1> QED
  BY <1>5, <1>6, <1>7 DEF Inv

\* It rejects a ticket, ends, or fails and lets go of what it runs: no ticket changes.
LEMMA LeavesInv ==
  ASSUME Inv, NEW p \in Pushes, Reject(p) \/ Dispatched(p) \/ DispatchFails(p)
  PROVE  Inv'
<1>1. UNCHANGED <<repoVars, pc, readVars, ticketVars, crashes>>
  BY DEF Reject, Dispatched, DispatchFails
<1>2. /\ disp' \in [Pushes -> {"off", "claim", "run", "failed"}]
      /\ todo' \in [Pushes -> SUBSET Tickets]
      /\ job' \in [Pushes -> Tickets \cup {NoTicket}]
      /\ disp[p] # "off"
      /\ \A q \in Pushes : \/ disp'[q] = disp[q] /\ job'[q] = job[q]
                           \/ q = p /\ disp'[q] \in {"off", "failed"} /\ job'[q] = NoTicket
  BY DEF Reject, Dispatched, DispatchFails, LooksAt, Inv, TypeOK
<1>3. TypeOK'
  <2>1. \A q \in Pushes : disp'[q] = "run" <=> job'[q] # NoTicket
    BY <1>2 DEF Inv, TypeOK
  <2> QED
    BY <1>1, <1>2, <2>1 DEF Inv, TypeOK, repoVars, readVars, ticketVars
<1>4. \A q \in Pushes : ReadsInOrder(q)'
  BY <1>1 DEF Inv, ReadsInOrder, repoVars, readVars, ticketVars
<1>5. JobsSound'
  BY <1>1, <1>2 DEF Inv, JobsSound, ticketVars
<1> QED
  BY <1>3, <1>4, <1>5 DEF Inv

\* It lets go of the ticket it has run.
LEMMA RunEndsInv ==
  ASSUME Inv, NEW p \in Pushes, RunEnds(p)
  PROVE  Inv'
<1>1. /\ disp[p] = "run" /\ job' = [job EXCEPT ![p] = NoTicket]
      /\ disp' = [disp EXCEPT ![p] = "claim"]
      /\ UNCHANGED <<repoVars, pc, readVars, attempts, todo, crashes>>
  BY DEF RunEnds
<1>2. PICK end \in {"done", "failed", "ready"} : ticket' = [ticket EXCEPT ![job[p]] = end]
  BY DEF RunEnds
<1>3. job[p] # NoTicket /\ job[p] \in Pushes /\ job[p] \in Tickets /\ job[p] \notin Issues
      /\ ticket[job[p]] = "running"
  BY <1>1, CiAssumption DEF Inv, TypeOK, JobsSound, Tickets
<1>4. TypeOK'
  BY <1>1, <1>2, <1>3 DEF Inv, TypeOK, repoVars, readVars
<1>5. \A u \in Tickets : ticket'[u] = IF u = job[p] THEN end ELSE ticket[u]
  BY <1>2 DEF Inv, TypeOK
<1>6. ASSUME NEW q \in Pushes PROVE ReadsInOrder(q)'
  <2>1. ReadsInOrder(q) /\ UNCHANGED <<pushed, sha, work, tmpl, pc>>
    BY <1>1 DEF Inv, repoVars, readVars
  <2>2. ticket'[q] # "none" => ticket[q] # "none"
    BY <1>3, <1>5 DEF Tickets
  <2> QED
    BY <2>1, <2>2 DEF ReadsInOrder
<1>7. JobsSound'
  <2>1. \A q \in Pushes : job'[q] = IF q = p THEN NoTicket ELSE job[q]
    BY <1>1 DEF Inv, TypeOK
  <2>2. \A q \in Pushes : disp'[q] # "off" => disp[q] # "off"
    BY <1>1 DEF Inv, TypeOK
  <2> QED
    BY <1>3, <1>5, <2>1, <2>2 DEF Inv, JobsSound, Tickets
<1> QED
  BY <1>4, <1>6, <1>7 DEF Inv

\* What others do, and a crash, which leaves the tickets and ends all else.
LEMMA OthersInv ==
  ASSUME Inv, (\E t \in Issues : NewIssue(t)) \/ DeleteRepo \/ Crash
  PROVE  Inv'
<1>1. CASE DeleteRepo
  <2>1. TypeOK'
    BY <1>1 DEF DeleteRepo, Inv, TypeOK, readVars, ticketVars, dispVars
  <2>2. (\A p \in Pushes : ReadsInOrder(p)') /\ JobsSound'
    BY <1>1 DEF DeleteRepo, Inv, ReadsInOrder, JobsSound, readVars, ticketVars, dispVars
  <2> QED
    BY <2>1, <2>2 DEF Inv
<1>2. CASE Crash
  <2>1. TypeOK'
    BY <1>2, CiAssumption DEF Crash, Inv, TypeOK, repoVars, readVars, ticketVars
  <2>2. ASSUME NEW p \in Pushes PROVE ReadsInOrder(p)'
    <3>1. ReadsInOrder(p) /\ UNCHANGED <<pushed, sha, work, tmpl, ticket>>
      BY <1>2 DEF Crash, Inv, repoVars, readVars, ticketVars
    <3>2. pc'[p] = IF pc[p] \in {"receive", "closed"} THEN pc[p] ELSE "dead"
      BY <1>2 DEF Crash
    <3> QED
      BY <3>1, <3>2 DEF ReadsInOrder
  <2>3. JobsSound'
    BY <1>2 DEF Crash, Inv, JobsSound, ticketVars
  <2> QED
    BY <2>1, <2>2, <2>3 DEF Inv
<1>3. ASSUME NEW t \in Issues, NewIssue(t) PROVE Inv'
  <2>1. /\ ticket[t] = "none" /\ ticket' = [ticket EXCEPT ![t] = "ready"]
        /\ UNCHANGED <<repoVars, pc, readVars, attempts, dispVars, crashes>>
        /\ t \in Tickets /\ t \notin Pushes
    BY <1>3, CiAssumption DEF NewIssue, Tickets
  <2>2. TypeOK'
    BY <2>1 DEF Inv, TypeOK, repoVars, readVars, ticketVars, dispVars
  <2>3. \A u \in Tickets : ticket'[u] = IF u = t THEN "ready" ELSE ticket[u]
    BY <2>1 DEF Inv, TypeOK
  <2>4. \A p \in Pushes : ReadsInOrder(p)'
    BY <2>1, <2>3 DEF Inv, ReadsInOrder, Tickets, repoVars, readVars
  <2>5. JobsSound'
    BY <2>1, <2>3 DEF Inv, JobsSound, Tickets, ticketVars, dispVars
  <2> QED
    BY <2>2, <2>4, <2>5 DEF Inv
<1> QED
  BY <1>1, <1>2, <1>3

-----------------------------------------------------------------------------
LEMMA InvInit == Init => Inv
<1> SUFFICES ASSUME Init PROVE Inv
  OBVIOUS
<1>1. /\ Len(log) = 0 /\ log \in Seq([by : Pushes, content : Contents])
      /\ \A p \in Pushes : pc[p] = "receive" /\ ticket[p] = "none" /\ job[p] = NoTicket
      /\ \A p \in Pushes : disp[p] = "off"
  BY DEF Init, Tickets
<1>2. TypeOK
  <2>1. /\ pushed \in [Pushes -> 0..Len(log)]
        /\ sha \in [Pushes -> 0..Len(log)]
        /\ work \in [Pushes -> 0..Len(log)]
        /\ tmpl \in [Pushes -> 0..Len(log)]
    BY <1>1 DEF Init
  <2>2. /\ gone \in BOOLEAN
        /\ pc \in [Pushes -> {"receive", "probe", "resolve", "checkout", "size", "read",
                              "create", "report", "closed", "dead"}]
    BY DEF Init
  <2>3. ticket \in [Tickets -> {"none", "ready", "running", "done", "failed"}]
    BY DEF Init
  <2>4. /\ disp \in [Pushes -> {"off", "claim", "run", "failed"}]
        /\ job \in [Pushes -> Tickets \cup {NoTicket}]
        /\ attempts \in [Tickets -> 0..MaxAttempts]
        /\ todo \in [Pushes -> SUBSET Tickets]
    BY CiAssumption DEF Init
  <2>5. crashes \in 0..MaxCrashes
    BY CiAssumption DEF Init
  <2>6. \A p \in Pushes : disp[p] = "run" <=> job[p] # NoTicket
    BY <1>1
  <2>7. {sha, work, tmpl} \subseteq [Pushes -> 0..Len(log)]
    BY <2>1
  <2> QED
    BY <1>1, <2>1, <2>2, <2>3, <2>4, <2>5, <2>6, <2>7, Zenon DEF TypeOK
<1>3. JobsSound
  BY DEF Init, JobsSound, Tickets
<1>4. \A p \in Pushes : ReadsInOrder(p)
  BY <1>1 DEF ReadsInOrder
<1> QED
  BY <1>2, <1>3, <1>4 DEF Inv

LEMMA InvNext == Inv /\ [Next]_vars => Inv'
<1> SUFFICES ASSUME Inv, [Next]_vars PROVE Inv'
  OBVIOUS
<1>1. ASSUME NEW p \in Pushes, TaskStep(p) \/ ReceiveFails(p) PROVE Inv'
  BY <1>1, TaskInv, CreateInv DEF TaskStep
<1>2. ASSUME NEW p \in Pushes, NEW content \in Contents, Receive(p, content) PROVE Inv'
  BY <1>2, ReceiveInv
<1>3. ASSUME NEW p \in Pushes, DispatcherStep(p) PROVE Inv'
  BY <1>3, ClaimInv, LeavesInv, RunEndsInv DEF DispatcherStep
<1>4. CASE UNCHANGED vars
  <2>1. TypeOK'
    BY <1>4 DEF Inv, TypeOK, vars, repoVars, readVars, ticketVars, dispVars
  <2>2. (\A p \in Pushes : ReadsInOrder(p)') /\ JobsSound'
    BY <1>4 DEF Inv, ReadsInOrder, JobsSound, vars, repoVars, readVars, ticketVars, dispVars
  <2> QED
    BY <2>1, <2>2 DEF Inv
<1> QED
  BY <1>1, <1>2, <1>3, <1>4, OthersInv DEF Next

\* The strengthening: how far each push's reads are, and who runs what.
THEOREM CiInvariant == Spec => []Inv
BY InvInit, InvNext, PTL DEF Spec

\* Type correctness, for any number of pushes and crashes.
THEOREM CiTypeCorrect == Spec => []TypeOK
<1>1. Inv => TypeOK
  BY DEF Inv
<1> QED
  BY <1>1, CiInvariant, PTL

\* However many pushes, deletions and crashes come between the five reads of
\* ci.rs:19-34, none of them finds an older commit than the one before.
THEOREM ReadsGoForwardHolds == Spec => []ReadsGoForward
<1>1. Inv => ReadsGoForward
  BY DEF Inv, ReadsInOrder, ReadsGoForward
<1> QED
  BY <1>1, CiInvariant, PTL

-----------------------------------------------------------------------------
\* What the queue is made of stays, if no ticket of a push changes its status.
LEMMA QueueSame ==
  ASSUME UNCHANGED job, \A t \in Pushes : ticket'[t] = ticket[t]
  PROVE  UNCHANGED Queue!queueVars
<1>1. UNCHANGED <<Waiting, Ended, CutOff>>
  BY DEF Waiting, Ended, CutOff
<1> QED
  BY <1>1 DEF Queue!queueVars

\* A new ticket is a job that nobody has.
LEMMA CreateSubmits ==
  ASSUME Inv, NEW p \in Pushes, CreateTask(p)
  PROVE  Queue!Submit(p)
<1>1. /\ ticket[p] = "none" /\ UNCHANGED job
      /\ \A t \in Pushes : ticket'[t] = IF t = p THEN "ready" ELSE ticket[t]
  BY DEF CreateTask, Inv, TypeOK, ReadsInOrder, Tickets
<1>2. \A q \in Pushes : job[q] # p
  BY <1>1, CiAssumption DEF Inv, JobsSound, Tickets
<1>3. Waiting' = Waiting \cup {p} /\ UNCHANGED <<Ended, CutOff>>
  BY <1>1 DEF Waiting, Ended, CutOff
<1>4. p \notin Waiting \cup Queue!Running \cup Ended \cup CutOff
  BY <1>1, <1>2 DEF Waiting, Ended, CutOff, Queue!Running
<1> QED
  BY <1>1, <1>3, <1>4 DEF Queue!Submit

\* A claim takes a job.
LEMMA ClaimTakes ==
  ASSUME Inv, NEW p \in Pushes, Claim(p)
  PROVE  \E t \in Pushes : Queue!Take(p, t)
<1>1. job[p] = NoTicket
  BY DEF Claim, Inv, TypeOK
<1>2. PICK t \in ReadyTickets : /\ ticket' = [ticket EXCEPT ![t] = "running"]
                               /\ job' = [job EXCEPT ![p] = t]
  BY DEF Claim
<1>3. t \in Pushes /\ ticket[t] = "ready" /\ NoTicket \notin Pushes
  BY CiAssumption DEF ReadyTickets, Allowed, Tickets
<1>4. /\ \A u \in Pushes : ticket'[u] = IF u = t THEN "running" ELSE ticket[u]
      /\ \A q \in Pushes : job'[q] = IF q = p THEN t ELSE job[q]
  BY <1>2 DEF Inv, TypeOK, Tickets
<1>5. t \in Waiting /\ Waiting' = Waiting \ {t} /\ Ended' = Ended
  BY <1>3, <1>4 DEF Waiting, Ended
<1>6. CutOff' = CutOff
  <2>1. ASSUME NEW u \in Pushes PROVE u \in CutOff' <=> u \in CutOff
    <3>1. CASE u = t
      BY <1>3, <1>4, <3>1 DEF CutOff
    <3>2. CASE u # t
      BY <1>1, <1>3, <1>4, <3>2 DEF CutOff
    <3> QED
      BY <3>1, <3>2
  <2> QED
    BY <2>1 DEF CutOff
<1> QED
  BY <1>1, <1>2, <1>3, <1>5, <1>6 DEF Queue!Take

\* Its end is the end of the job the dispatcher has, or puts that back.
LEMMA RunFinishes ==
  ASSUME Inv, NEW p \in Pushes, RunEnds(p)
  PROVE  Queue!Finish(p) \/ Queue!PutBack(p)
<1>1. PICK end \in {"done", "failed", "ready"} : ticket' = [ticket EXCEPT ![job[p]] = end]
  BY DEF RunEnds
<1>2. job' = [job EXCEPT ![p] = NoTicket] /\ job[p] # NoTicket
  BY DEF RunEnds, Inv, TypeOK
<1>3. job[p] \in Pushes /\ ticket[job[p]] = "running" /\ NoTicket \notin Pushes
  BY <1>2, CiAssumption DEF Inv, JobsSound, Tickets
<1>4. /\ \A u \in Pushes : ticket'[u] = IF u = job[p] THEN end ELSE ticket[u]
      /\ \A q \in Pushes : job'[q] = IF q = p THEN NoTicket ELSE job[q]
  BY <1>1, <1>2 DEF Inv, TypeOK, Tickets
<1>5. CutOff' = CutOff
  <2>1. ASSUME NEW u \in Pushes PROVE u \in CutOff' <=> u \in CutOff
    <3>1. CASE u = job[p]
      BY <1>3, <1>4, <3>1 DEF CutOff
    <3>2. CASE u # job[p]
      BY <1>3, <1>4, <3>2 DEF CutOff
    <3> QED
      BY <3>1, <3>2
  <2> QED
    BY <2>1 DEF CutOff
<1>6. CASE end = "ready"
  <2>1. Ended' = Ended /\ Waiting' = Waiting \cup {job[p]}
    BY <1>3, <1>4, <1>6 DEF Waiting, Ended
  <2> QED
    BY <1>2, <1>5, <2>1 DEF Queue!PutBack
<1>7. CASE end # "ready"
  <2>1. Waiting' = Waiting /\ Ended' = Ended \cup {job[p]}
    BY <1>3, <1>4, <1>7 DEF Waiting, Ended
  <2> QED
    BY <1>2, <1>5, <2>1 DEF Queue!Finish
<1> QED
  BY <1>6, <1>7

\* A dispatch that fails drops its job, if it has one.
LEMMA FailDrops ==
  ASSUME Inv, NEW p \in Pushes, DispatchFails(p)
  PROVE  Queue!Drop(p) \/ UNCHANGED Queue!queueVars
<1>1. UNCHANGED ticket /\ job' = [job EXCEPT ![p] = NoTicket]
  BY DEF DispatchFails, ticketVars
<1>2. \A q \in Pushes : job'[q] = IF q = p THEN NoTicket ELSE job[q]
  BY <1>1 DEF Inv, TypeOK
<1>3. CASE job[p] = NoTicket
  <2>1. job' = job
    BY <1>1, <1>3 DEF Inv, TypeOK
  <2> QED
    BY <1>1, <2>1, QueueSame
<1>4. CASE job[p] # NoTicket
  <2>1. /\ job[p] \in Pushes /\ ticket[job[p]] = "running" /\ NoTicket \notin Pushes
        /\ \A q \in Pushes : job[q] = job[p] => q = p
    BY <1>4, CiAssumption DEF Inv, JobsSound, Tickets
  <2>2. UNCHANGED <<Waiting, Ended>>
    BY <1>1 DEF Waiting, Ended
  <2>3. ASSUME NEW u \in Pushes PROVE u \in CutOff' <=> u \in CutOff \cup {job[p]}
    <3>1. CASE u = job[p]
      BY <1>1, <1>2, <2>1, <3>1 DEF CutOff
    <3>2. CASE u # job[p]
      BY <1>1, <1>2, <2>1, <3>2 DEF CutOff
    <3> QED
      BY <3>1, <3>2
  <2>4. CutOff' = CutOff \cup {job[p]}
    BY <2>1, <2>3 DEF CutOff
  <2> QED
    BY <1>1, <1>4, <2>2, <2>4 DEF Queue!Drop
<1> QED
  BY <1>3, <1>4

\* A crash cuts off what is being run: every ticket that is running now has no
\* dispatcher any more.
LEMMA CrashCuts ==
  ASSUME Inv, Crash
  PROVE  Queue!Cut
<1>1. UNCHANGED ticket /\ job' = [q \in Pushes |-> NoTicket] /\ NoTicket \notin Pushes
  BY CiAssumption DEF Crash, Tickets, ticketVars
<1>2. UNCHANGED <<Waiting, Ended>>
  BY <1>1 DEF Waiting, Ended
<1>3. CutOff' = {t \in Pushes : ticket[t] = "running"}
  BY <1>1 DEF CutOff
<1>4. \A t : t \in Queue!Running <=> \E q \in Pushes : t = job[q] /\ t # NoTicket
  BY DEF Queue!Running
<1>5. \A q \in Pushes : job[q] # NoTicket => job[q] \in Pushes /\ ticket[job[q]] = "running"
  BY DEF Inv, JobsSound
<1>6. CutOff' = CutOff \cup Queue!Running
  <2>1. ASSUME NEW t \in Pushes, ticket[t] = "running" PROVE t \in CutOff \cup Queue!Running
    BY <1>1, <1>4, <2>1 DEF CutOff
  <2>2. ASSUME NEW t \in CutOff \cup Queue!Running
        PROVE  t \in Pushes /\ ticket[t] = "running"
    BY <1>4, <1>5, <2>2 DEF CutOff
  <2> QED
    BY <1>3, <2>1, <2>2
<1> QED
  BY <1>1, <1>2, <1>6 DEF Queue!Cut

\* Nothing but these touches a push's ticket.
LEMMA QueueSteps == Inv /\ [Next]_vars => [Queue!QueueNext]_(Queue!queueVars)
<1> SUFFICES ASSUME Inv, [Next]_vars PROVE [Queue!QueueNext]_(Queue!queueVars)
  OBVIOUS
<1>1. ASSUME NEW p \in Pushes, CreateTask(p) PROVE Queue!QueueNext
  BY <1>1, CreateSubmits DEF Queue!QueueNext
<1>2. ASSUME NEW p \in Pushes, Claim(p) PROVE Queue!QueueNext
  BY <1>2, ClaimTakes DEF Queue!QueueNext
<1>3. ASSUME NEW p \in Pushes, RunEnds(p) PROVE Queue!QueueNext
  BY <1>3, RunFinishes DEF Queue!QueueNext
<1>10. ASSUME NEW p \in Pushes, DispatchFails(p) PROVE [Queue!QueueNext]_(Queue!queueVars)
  BY <1>10, FailDrops DEF Queue!QueueNext
<1>4. CASE Crash
  BY <1>4, CrashCuts DEF Queue!QueueNext
<1>5. CASE UNCHANGED <<ticket, job>>
  BY <1>5, QueueSame
<1>6. ASSUME NEW t \in Issues, NewIssue(t) PROVE UNCHANGED Queue!queueVars
  <2>1. UNCHANGED job /\ \A u \in Pushes : ticket'[u] = ticket[u]
    BY <1>6, CiAssumption DEF NewIssue, ticketVars, dispVars, Inv, TypeOK, Tickets
  <2> QED
    BY <2>1, QueueSame
<1>7. ASSUME NEW p \in Pushes,
             \/ \E content \in Contents : Receive(p, content)
             \/ ReceiveFails(p) \/ Probe(p) \/ ResolveHead(p) \/ CheckoutHead(p)
             \/ ReadSize(p) \/ ReadTemplate(p) \/ CreateFails(p) \/ Report(p)
             \/ Reject(p) \/ Dispatched(p)
      PROVE  UNCHANGED <<ticket, job>>
  BY <1>7 DEF Receive, ReceiveFails, Probe, ResolveHead, CheckoutHead, ReadSize, ReadTemplate,
              CreateFails, Report, Reject, Dispatched, ticketVars, dispVars
<1>8. DeleteRepo => UNCHANGED <<ticket, job>>
  BY DEF DeleteRepo, ticketVars, dispVars
<1>9. UNCHANGED vars => UNCHANGED <<ticket, job>>
  BY DEF vars, ticketVars, dispVars
<1> QED
  BY <1>1, <1>2, <1>3, <1>4, <1>5, <1>6, <1>7, <1>8, <1>9, <1>10 DEF Next, TaskStep, DispatcherStep

\* Push CI implements CiQueue, for any number of pushes, attempts and crashes: no
\* ticket but a push's is run, by one dispatcher at a time, and what has ended, or what
\* a crash or an error cut off, never again (ci.rs:61-77).
THEOREM DispatchersShareAQueueHolds == Spec => DispatchersShareAQueue
<1>1. Init => Queue!QueueInit
  BY DEF Init, Queue!QueueInit, Waiting, Ended, CutOff, Tickets
<1>2. Inv /\ [Next]_vars => [Queue!QueueNext]_(Queue!queueVars)
  BY QueueSteps
<1> QED
  BY <1>1, <1>2, CiInvariant, PTL DEF Spec, DispatchersShareAQueue, Queue!QueueSpec
=============================================================================
