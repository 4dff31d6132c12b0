------------------------------- MODULE Tickets -------------------------------
(***************************************************************************)
(* The tickets of one repository: files that `ssh host issues ...`, the    *)
(* Kanban board and dispatchers all write (tickets.rs).  set_body reads a  *)
(* ticket, replaces its body, writes the whole of it back and reads it     *)
(* once more, without a lock; handlers of different connections run at the *)
(* same time.                                                              *)
(*                                                                         *)
(* myque is external: create_task, update_status and a dispatcher's claim  *)
(* are one step each.  A body is named by the ticket whose text it is.     *)
(***************************************************************************)
EXTENDS Integers

CONSTANTS
    Ids,          \* ticket ids, in the order in which tickets are listed
    Statuses,     \* the statuses in use
    Workers,      \* connections that edit bodies
    Dispatchers,  \* `issues dispatch` commands and CI threads
    IoErrors      \* may a read or a write of a ticket file fail?

AllStatuses == {"backlog", "ready", "blocked", "running", "review", "done", "failed",
                "cancelled"}

ASSUME TicketsAssumption ==
    /\ Ids \subseteq Nat \ {0}
    /\ Statuses \subseteq AllStatuses /\ "backlog" \in Statuses
    /\ Dispatchers # {} => {"ready", "running", "done", "failed"} \subseteq Statuses
    /\ IoErrors \in BOOLEAN

VARIABLES
    tasks,   \* the ticket files: status and body of every ticket there is
    pc,      \* where each worker's set_body is
    held,    \* the ticket it has read, with the new body in it
    raced,   \* history: has that ticket's status changed since it was read?
    job,     \* the ticket each dispatcher runs
    again    \* history: tickets made ready while they run

editVars == <<pc, held, raced>>
dispatchVars == <<job, again>>
ticketVars == <<tasks, editVars, dispatchVars>>

NoId == 0
Task == [status : Statuses, body : Ids]
NoTask == [id |-> NoId, task |-> [status |-> "backlog", body |-> NoId]]
Known == DOMAIN tasks

Running == {job[d] : d \in Dispatchers} \ {NoId}

TicketsTypeOK ==
    /\ Known \subseteq Ids
    /\ tasks \in [Known -> Task]
    /\ pc \in [Workers -> {"idle", "write", "reread"}]
    /\ held \in [Workers -> [id : Ids, task : Task] \cup {NoTask}]
    /\ \A w \in Workers : pc[w] # "idle" => held[w].id \in Known
    /\ raced \in [Workers -> BOOLEAN]
    /\ job \in [Dispatchers -> Known \cup {NoId}]
    /\ again \subseteq Running

TicketsInit ==
    /\ tasks = <<>>
    /\ pc = [w \in Workers |-> "idle"]
    /\ held = [w \in Workers |-> NoTask]
    /\ raced = [w \in Workers |-> FALSE]
    /\ job = [d \in Dispatchers |-> NoId]
    /\ again = {}

-----------------------------------------------------------------------------
\* Mutant: a ticket that is created without a body gets none.
BugCreate(id, status) ==
    /\ id \in Ids \ Known
    /\ tasks' = [i \in Known \cup {id} |->
                  IF i = id THEN [status |-> status, body |-> NoId] ELSE tasks[i]]
    /\ UNCHANGED <<editVars, dispatchVars>>

\* create_with_body, and `issues new`: a ticket file of its own.
Create(id, status) ==
    /\ id \in Ids \ Known
    /\ tasks' = [i \in Known \cup {id} |->
                  IF i = id THEN [status |-> status, body |-> id] ELSE tasks[i]]
    /\ UNCHANGED <<editVars, dispatchVars>>

\* History: ticket id has changed since the others read it.
RacedBy(id, others) ==
    [w \in Workers |-> raced[w] \/ (w \in others /\ pc[w] = "write" /\ held[w].id = id)]

AgainWhen(id, status) ==
    IF status = "ready" /\ id \in Running THEN again \cup {id} ELSE again

\* The status in a ticket's file changes.
SetStatus(id, status) ==
    /\ tasks' = [tasks EXCEPT ![id].status = status]
    /\ raced' = RacedBy(id, Workers)

\* set_status and `issues move`: update_status.
Move(id, status) ==
    /\ id \in Known
    /\ SetStatus(id, status)
    /\ again' = AgainWhen(id, status)
    /\ UNCHANGED <<pc, held, job>>

\* Mutant: set_body starts from a new ticket instead of the stored one.
BugReadTask(w, id, body) ==
    /\ pc[w] = "idle" /\ id \in Known
    /\ held' = [held EXCEPT ![w] = [id |-> id, task |-> [status |-> "backlog", body |-> body]]]
    /\ raced' = [raced EXCEPT ![w] = FALSE]
    /\ pc' = [pc EXCEPT ![w] = "write"]
    /\ UNCHANGED <<tasks, dispatchVars>>

\* set_body: get_task, and the body is replaced in memory.
ReadTask(w, id, body) ==
    /\ pc[w] = "idle" /\ id \in Known
    /\ held' = [held EXCEPT ![w] = [id |-> id, task |-> [tasks[id] EXCEPT !.body = body]]]
    /\ raced' = [raced EXCEPT ![w] = FALSE]
    /\ pc' = [pc EXCEPT ![w] = "write"]
    /\ UNCHANGED <<tasks, dispatchVars>>

\* A worker has left set_body.
Leave(w) ==
    /\ pc' = [pc EXCEPT ![w] = "idle"]
    /\ held' = [held EXCEPT ![w] = NoTask]
    /\ raced' = [raced EXCEPT ![w] = FALSE]
    /\ UNCHANGED <<tasks, dispatchVars>>

\* write_task puts all of the ticket back, its status as it was read included.
WriteTask(w) ==
    /\ pc[w] = "write"
    /\ LET id == held[w].id
           undone == held[w].task.status # tasks[id].status
       IN  /\ tasks' = [tasks EXCEPT ![id] = held[w].task]
           /\ raced' = RacedBy(id, IF undone THEN Workers \ {w} ELSE {})
           /\ again' = IF raced[w] THEN AgainWhen(id, held[w].task.status) ELSE again
    /\ pc' = [pc EXCEPT ![w] = "reread"]
    /\ UNCHANGED <<held, job>>

WriteFails(w) ==
    /\ pc[w] = "write" /\ IoErrors
    /\ Leave(w)

\* get_task once more, for the caller; `issues edit` drops its result.
Reread(w) ==
    /\ pc[w] = "reread"
    /\ Leave(w)

-----------------------------------------------------------------------------
\* Mutant: a dispatcher takes the tickets that are running as well.
BugReady == {id \in Known : tasks[id].status \in {"ready", "running"}}

Ready == {id \in Known : tasks[id].status = "ready"}

\* `issues dispatch` (ContainerBackend) or a CI thread takes a ready ticket ...
Claim(d) ==
    /\ job[d] = NoId
    /\ \E id \in Ready :
         /\ job' = [job EXCEPT ![d] = id]
         /\ SetStatus(id, "running")
    /\ UNCHANGED <<pc, held, again>>

EndRun(d, status) ==
    /\ job[d] # NoId
    /\ SetStatus(job[d], status)
    /\ job' = [job EXCEPT ![d] = NoId]
    /\ again' = IF \E c \in Dispatchers \ {d} : job[c] = job[d]
                THEN AgainWhen(job[d], status)
                ELSE again \ {job[d]}
    /\ UNCHANGED <<pc, held>>

\* ... cannot start it: its agent has no usable command, or the work directory,
\* the clone or the copy of the ticket fails.  myque takes note, or leaves it for another attempt.
RejectStart(d) == \E status \in {"failed", "ready"} : EndRun(d, status)

\* ... or runs it to its end and notes how it ended.
RunEnds(d) == \E status \in {"done", "failed"} : EndRun(d, status)

\* The commands of run_issues that change something.
Issues(w) ==
    \/ \E id \in Ids, status \in Statuses : Create(id, status)
    \/ \E id \in Ids, status \in Statuses : Move(id, status)
    \/ \E id \in Ids : ReadTask(w, id, id)
    \/ WriteTask(w)
    \/ WriteFails(w)
    \/ Reread(w)

Dispatch(d) == Claim(d) \/ RejectStart(d) \/ RunEnds(d)

TicketsNext ==
    \/ \E w \in Workers : Issues(w)
    \/ \E d \in Dispatchers : Dispatch(d)

TicketsSpec == TicketsInit /\ [][TicketsNext]_ticketVars

-----------------------------------------------------------------------------
\* Editing a body leaves the ticket's status alone, except that it undoes a
\* change that fell between set_body's own read and its write (tickets.rs:72-76).
EditKeepsStatus ==
    [][\A w \in Workers :
          (pc[w] = "write" /\ pc'[w] = "reread" /\ ~raced[w])
              => tasks'[held[w].id].status = tasks[held[w].id].status]_ticketVars

\* Two dispatchers run one ticket only when something made it ready again while
\* it ran: a move, or an edit that undid the claim.
SecondRunHasACause ==
    \A c, d \in Dispatchers : c # d /\ job[c] = job[d] /\ job[c] # NoId => job[c] \in again
=============================================================================
