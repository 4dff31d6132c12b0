---------------------------- MODULE KanbanProofs -----------------------------
(***************************************************************************)
(* Tickets, and the board in front of them, for any number of tickets,     *)
(* editors, dispatchers and sessions.                                      *)
(*                                                                         *)
(* Tickets: type correctness, what an edit may do to a ticket's status,    *)
(* and when a ticket is run twice.  The last two rest on an invariant      *)
(* each: an edit that was not overtaken still holds the status that is in  *)
(* the file, and a ticket that is being run is not ready unless something  *)
(* made it so.                                                             *)
(*                                                                         *)
(* The board implements Tickets, so what is proved of an edit holds of     *)
(* every edit the board saves; a text stays in the ticket it was written   *)
(* for; cursor, dialogs and modes fit what is shown; and readers only      *)
(* read.  The inductive invariant says of every view that it is sound, and *)
(* follows a text on its way: every file holds its own text, so does a     *)
(* ticket that a session has opened or that set_body holds, and the editor *)
(* holds the text of the ticket that is open.                              *)
(***************************************************************************)
EXTENDS Kanban, FiniteSetTheorems, TLAPS

\* One step after another: files, edits and runs keep their types.
LEMMA TicketsTypeInductive ==
    TicketsTypeOK /\ [TicketsNext]_ticketVars => TicketsTypeOK'
<1> SUFFICES ASSUME TicketsTypeOK, [TicketsNext]_ticketVars
             PROVE  TicketsTypeOK'
  OBVIOUS
<1> USE TicketsAssumption DEF TicketsTypeOK, Known, Running, NoTask, Task, NoId
<1>1. ASSUME NEW w \in Workers, NEW id \in Ids, NEW status \in Statuses, Create(id, status)
      PROVE  TicketsTypeOK'
  BY <1>1 DEF Create, editVars, dispatchVars
<1>2. ASSUME NEW w \in Workers, NEW id \in Ids, NEW status \in Statuses, Move(id, status)
      PROVE  TicketsTypeOK'
  BY <1>2 DEF Move, SetStatus, RacedBy, AgainWhen
<1>3. ASSUME NEW w \in Workers, NEW id \in Ids, ReadTask(w, id, id)
      PROVE  TicketsTypeOK'
  BY <1>3 DEF ReadTask, dispatchVars
<1>4. ASSUME NEW w \in Workers, WriteTask(w)
      PROVE  TicketsTypeOK'
  BY <1>4 DEF WriteTask, RacedBy, AgainWhen
<1>5. ASSUME NEW w \in Workers, Leave(w)
      PROVE  TicketsTypeOK'
  BY <1>5 DEF Leave, dispatchVars
<1>6. ASSUME NEW d \in Dispatchers, Claim(d)
      PROVE  TicketsTypeOK'
  BY <1>6 DEF Claim, Ready, SetStatus, RacedBy
<1>7. ASSUME NEW d \in Dispatchers, RejectStart(d) \/ RunEnds(d)
      PROVE  TicketsTypeOK'
  <2>1. PICK status \in Statuses : EndRun(d, status)
    BY <1>7 DEF RejectStart, RunEnds
  <2>2. tasks' \in [Known -> Task] /\ DOMAIN tasks' = Known
    BY <2>1 DEF EndRun, SetStatus
  <2>3. job' \in [Dispatchers -> Known \cup {NoId}]
    BY <2>1 DEF EndRun
  <2>4. again' \subseteq Running'
    BY <2>1 DEF EndRun, AgainWhen
  <2> QED
    BY <2>1, <2>2, <2>3, <2>4 DEF EndRun, SetStatus, RacedBy
<1>8. CASE UNCHANGED ticketVars
  BY <1>8 DEF ticketVars, editVars, dispatchVars
<1> QED
  BY <1>1, <1>2, <1>3, <1>4, <1>5, <1>6, <1>7, <1>8
  DEF TicketsNext, Issues, Dispatch, WriteFails, Reread

\* Type correctness: a ticket file once written stays, whatever is edited.
THEOREM TicketsTypeCorrect == TicketsSpec => []TicketsTypeOK
<1>1. TicketsInit => TicketsTypeOK
  BY TicketsAssumption
  DEF TicketsInit, TicketsTypeOK, Known, NoTask, NoId, Running
<1> QED
  BY <1>1, TicketsTypeInductive, PTL DEF TicketsSpec

-----------------------------------------------------------------------------
\* An edit that no status change has overtaken holds the file's own status.
HeldIsCurrent ==
    \A w \in Workers : pc[w] = "write" /\ ~raced[w] =>
        held[w].task.status = tasks[held[w].id].status

\* A step that changes the status of a ticket marks the edits that hold it as raced.
LEMMA HeldIsCurrentInductive ==
    TicketsTypeOK /\ HeldIsCurrent /\ [TicketsNext]_ticketVars => HeldIsCurrent'
<1> SUFFICES ASSUME TicketsTypeOK, HeldIsCurrent, [TicketsNext]_ticketVars
             PROVE  HeldIsCurrent'
  OBVIOUS
<1> USE TicketsAssumption DEF TicketsTypeOK, HeldIsCurrent, Known, NoTask, NoId, Task
<1>1. ASSUME NEW id \in Ids, NEW status \in Statuses, Create(id, status)
      PROVE  HeldIsCurrent'
  BY <1>1 DEF Create, editVars, dispatchVars
<1>2. ASSUME NEW id \in Known, NEW status \in Statuses, SetStatus(id, status),
             UNCHANGED <<pc, held>>
      PROVE  HeldIsCurrent'
  BY <1>2 DEF SetStatus, RacedBy
<1>3. ASSUME NEW w \in Workers, NEW id \in Ids, ReadTask(w, id, id)
      PROVE  HeldIsCurrent'
  BY <1>3 DEF ReadTask, dispatchVars
<1>4. ASSUME NEW w \in Workers, WriteTask(w)
      PROVE  HeldIsCurrent'
  BY <1>4 DEF WriteTask, RacedBy
<1>5. ASSUME NEW w \in Workers, Leave(w)
      PROVE  HeldIsCurrent'
  BY <1>5 DEF Leave, dispatchVars
<1>6. ASSUME NEW d \in Dispatchers, Dispatch(d)
      PROVE  HeldIsCurrent'
  <2>1. CASE Claim(d)
    BY <1>2, <2>1 DEF Claim, Ready
  <2>2. CASE RejectStart(d) \/ RunEnds(d)
    BY <1>2, <2>2 DEF RejectStart, RunEnds, EndRun, Running
  <2> QED
    BY <1>6, <2>1, <2>2 DEF Dispatch
<1>7. CASE UNCHANGED ticketVars
  BY <1>7 DEF ticketVars, editVars, dispatchVars
<1> QED
  BY <1>1, <1>2, <1>3, <1>4, <1>5, <1>6, <1>7
  DEF TicketsNext, Issues, Move, WriteFails, Reread

\* However many editors and dispatchers work on the tickets, an edit that was
\* not overtaken between its read and its write leaves the status as it is.
THEOREM EditKeepsStatusHolds == TicketsSpec => EditKeepsStatus
<1>1. TicketsInit => HeldIsCurrent
  BY DEF TicketsInit, HeldIsCurrent
<1>2. TicketsTypeOK /\ HeldIsCurrent /\ [TicketsNext]_ticketVars
        => [\A w \in Workers :
              (pc[w] = "write" /\ pc'[w] = "reread" /\ ~raced[w])
                => tasks'[held[w].id].status = tasks[held[w].id].status]_ticketVars
  <2> SUFFICES ASSUME TicketsTypeOK, HeldIsCurrent, TicketsNext,
                      NEW w \in Workers,
                      pc[w] = "write", pc'[w] = "reread", ~raced[w]
               PROVE  tasks'[held[w].id].status = tasks[held[w].id].status
    OBVIOUS
  <2> USE DEF TicketsTypeOK
  <2>1. WriteTask(w)
    <3>1. ASSUME NEW v \in Workers, Issues(v), ~WriteTask(w)
          PROVE  FALSE
      BY <3>1 DEF Issues, Create, Move, ReadTask, WriteTask, WriteFails, Reread, Leave,
                  editVars
    <3>2. ASSUME NEW d \in Dispatchers, Dispatch(d)
          PROVE  FALSE
      BY <3>2 DEF Dispatch, Claim, RejectStart, RunEnds, EndRun
    <3> QED
      BY <3>1, <3>2 DEF TicketsNext
  <2> QED
    BY <2>1 DEF WriteTask, HeldIsCurrent, Known
<1> QED
  BY <1>1, <1>2, HeldIsCurrentInductive, TicketsTypeCorrect, PTL
  DEF TicketsSpec, EditKeepsStatus

-----------------------------------------------------------------------------
\* A ticket that is being run is not ready, and has one dispatcher, unless
\* something made it ready again.
OneRun ==
    /\ \A d \in Dispatchers : job[d] # NoId /\ job[d] \notin again =>
          tasks[job[d]].status # "ready"
    /\ SecondRunHasACause

\* A claim only takes a ready ticket, and a run ticket is ready only if noted.
LEMMA OneRunInductive ==
    TicketsTypeOK /\ HeldIsCurrent /\ OneRun /\ [TicketsNext]_ticketVars => OneRun'
<1> SUFFICES ASSUME TicketsTypeOK, HeldIsCurrent, OneRun, [TicketsNext]_ticketVars
             PROVE  OneRun'
  OBVIOUS
<1> USE TicketsAssumption
    DEF TicketsTypeOK, OneRun, SecondRunHasACause, Known, NoTask, NoId, Task, Running
<1>1. ASSUME NEW id \in Ids, NEW status \in Statuses, Create(id, status)
      PROVE  OneRun'
  BY <1>1 DEF Create, editVars, dispatchVars
<1>2. ASSUME NEW id \in Ids, NEW status \in Statuses, Move(id, status)
      PROVE  OneRun'
  BY <1>2 DEF Move, SetStatus, AgainWhen
<1>3. ASSUME NEW w \in Workers, NEW id \in Ids, ReadTask(w, id, id)
      PROVE  OneRun'
  BY <1>3 DEF ReadTask, dispatchVars
<1>4. ASSUME NEW w \in Workers, WriteTask(w)
      PROVE  OneRun'
  BY <1>4 DEF WriteTask, AgainWhen, HeldIsCurrent
<1>5. ASSUME NEW w \in Workers, Leave(w)
      PROVE  OneRun'
  BY <1>5 DEF Leave, dispatchVars
<1>6. ASSUME NEW d \in Dispatchers, Claim(d)
      PROVE  OneRun'
  BY <1>6 DEF Claim, Ready, SetStatus
<1>7. ASSUME NEW d \in Dispatchers, RejectStart(d) \/ RunEnds(d)
      PROVE  OneRun'
  BY <1>7, SMTT(30) DEF RejectStart, RunEnds, EndRun, SetStatus, AgainWhen
<1>8. CASE UNCHANGED ticketVars
  BY <1>8 DEF ticketVars, editVars, dispatchVars
<1> QED
  BY <1>1, <1>2, <1>3, <1>4, <1>5, <1>6, <1>7, <1>8
  DEF TicketsNext, Issues, Dispatch, WriteFails, Reread

\* For any number of dispatchers, no ticket is run twice at once unless it was
\* moved back to ready, or an overtaken edit put it back.
THEOREM SecondRunHasACauseHolds == TicketsSpec => []SecondRunHasACause
<1>1. TicketsInit => HeldIsCurrent /\ OneRun
  BY DEF TicketsInit, HeldIsCurrent, OneRun, SecondRunHasACause
<1>2. OneRun => SecondRunHasACause
  BY DEF OneRun
<1> QED
  BY <1>1, <1>2, HeldIsCurrentInductive, OneRunInductive, TicketsTypeCorrect, PTL
  DEF TicketsSpec

-----------------------------------------------------------------------------
\* The board.
Fields == {"sub", "depth", "blob", "mode", "items", "tab", "sel", "selected", "draft"}

IsView(v) == v = [f \in Fields |-> v[f]]

\* What one session shows is of the right kind, when there are the tickets in known.
Framed(v, known) ==
    /\ IsView(v)
    /\ v.sub \in {"closed", "files", "commits", "kanban"}
    /\ v.depth \in 0..MaxDepth /\ v.blob \in BOOLEAN
    /\ v.mode \in {"list", "detail", "new", "edit", "saving", "pick"}
    /\ DOMAIN v.items \subseteq known /\ \A id \in DOMAIN v.items : v.items[id] \in Statuses
    /\ v.tab \in 1..Len(Tabs) /\ v.sel \in Nat
    /\ v.selected \in [id : known, task : Task] \cup {NoTask}
    /\ v.draft \in Ids \cup {NoId}

\* Its mode, its tab, the open ticket and the editor fit one another.
Fits(v) ==
    /\ v.selected # NoTask => v.selected.task.body = v.selected.id
    /\ v.mode \in {"detail", "edit", "saving", "pick"} <=> v.selected # NoTask
    /\ v.mode \in {"edit", "saving"} => v.draft = v.selected.id
    /\ v.mode \in {"new", "pick", "saving"} => v.sub = "kanban"
    /\ v.blob => v.sub = "files"

OnARow(v) ==
    LET n == Rows(v.items, v.tab) IN IF n = 0 THEN v.sel = 0 ELSE v.sel \in 1..n

Sound(v, known) == Framed(v, known) /\ Fits(v) /\ OnARow(v)

ViewsSound ==
    /\ view = [s \in Sessions |-> view[s]]
    /\ \A s \in Sessions : Sound(view[s], Known)

FilesSound ==
    /\ IsFiniteSet(Known)
    /\ \A id \in Known : tasks[id].body = id
    /\ \A w \in Workers : pc[w] = "write" => held[w].task.body = held[w].id

\* A session is inside set_body only while its board is saving.
SavesSound == \A s \in Sessions : pc[s] # "idle" => view[s].mode = "saving"

WritersWrite == write \in [Sessions -> {"never", "yes", "lost"}] /\ ReadersOnlyRead

Inv == TicketsTypeOK /\ FilesSound /\ ViewsSound /\ SavesSound /\ WritersWrite

-----------------------------------------------------------------------------
\* A session that shows another sound view leaves the views sound.
LEMMA ShowSound ==
  ASSUME ViewsSound, Known \subseteq Known',
         NEW s \in Sessions, NEW v, view' = [view EXCEPT ![s] = v], Sound(v, Known')
  PROVE  ViewsSound'
<1>1. \A r \in Sessions : Sound(view[r], Known')
  BY DEF ViewsSound, Sound, Framed
<1> QED
  BY <1>1 DEF ViewsSound

\* Views that do not change stay sound when tickets are only added.
LEMMA StillSound ==
  ASSUME ViewsSound, Known \subseteq Known', view' = view
  PROVE  ViewsSound'
BY DEF ViewsSound, Sound, Framed

\* A list of tickets there are has a number of rows.
LEMMA RowsType ==
  ASSUME NEW known, IsFiniteSet(known), NEW items, DOMAIN items \subseteq known, NEW t
  PROVE  Rows(items, t) \in Nat
<1>1. IsFiniteSet(Visible(items, t))
  BY FS_Subset DEF Visible
<1> QED
  BY <1>1, FS_CardinalityType DEF Rows

\* select_first puts the cursor on a row, if there is one.
LEMMA SelectSound ==
  ASSUME NEW known, IsFiniteSet(known), NEW v, Framed(v, known), Fits(v)
  PROVE  Sound(select_first(v), known)
<1> DEFINE n == Rows(v.items, v.tab)
           sel == fix_selection(v.sel, n)
<1>1. n \in Nat
  BY RowsType DEF Framed
<1>2. sel \in Nat /\ IF n = 0 THEN sel = 0 ELSE sel \in 1..n
  BY <1>1 DEF Framed, fix_selection, AtMost, AtLeast
<1> HIDE DEF sel
<1>3. select_first(v) = [v EXCEPT !.sel = sel]
  BY DEF select_first, sel
<1>4. Framed([v EXCEPT !.sel = sel], known)
  BY <1>2 DEF Framed, IsView, Fields
<1>5. Fits([v EXCEPT !.sel = sel])
  BY DEF Fits, Framed, IsView, Fields
<1>6. OnARow([v EXCEPT !.sel = sel])
  BY <1>2 DEF OnARow, Framed, IsView, Fields
<1> QED
  BY <1>3, <1>4, <1>5, <1>6 DEF Sound

\* Keys move the cursor from row to row.
LEMMA ReachableRows ==
  ASSUME NEW n \in Nat, NEW sel \in Nat, NEW p \in Reachable(sel, n)
  PROVE  IF n = 0 THEN p = 0 ELSE p \in 1..n
BY DEF Reachable, Moves, fix_selection, AtMost, AtLeast

\* Loading the list touches the list and its cursor only.
LEMMA LoadsSound ==
  ASSUME TicketsTypeOK', FilesSound', NEW v, Sound(v, Known'), NEW loaded \in Loads(v)
  PROVE  Sound(loaded, Known')
<1> DEFINE items == [id \in DOMAIN tasks' |-> tasks'[id].status]
<1>1. DOMAIN items \subseteq Known' /\ \A id \in DOMAIN items : items[id] \in Statuses
  BY DEF TicketsTypeOK, Known, Task
<1> HIDE DEF items
<1>2. CASE loaded = select_first([v EXCEPT !.items = items])
  <2>1. Framed([v EXCEPT !.items = items], Known') /\ Fits([v EXCEPT !.items = items])
    BY <1>1 DEF Sound, Framed, Fits, IsView, Fields
  <2> QED
    BY <1>2, <2>1, SelectSound DEF FilesSound
<1>3. CASE loaded = [v EXCEPT !.items = <<>>, !.sel = 0]
  <2>1. Rows(<<>>, v.tab) = 0
    BY FS_EmptySet DEF Rows, Visible
  <2>2. \A none : DOMAIN none = {} => Framed([v EXCEPT !.items = none, !.sel = 0], Known')
    BY DEF Sound, Framed, IsView, Fields
  <2>3. Framed(loaded, Known')
    <3>1. DOMAIN <<>> = {}
      OBVIOUS
    <3> HIDE DEF Framed
    <3> QED
      BY <1>3, <2>2, <3>1
  <2>4. Fits(loaded)
    BY <1>3 DEF Sound, Framed, Fits, IsView, Fields
  <2>5. OnARow(loaded)
    BY <1>3, <2>1 DEF OnARow, Sound, Framed, IsView, Fields
  <2> QED
    BY <2>3, <2>4, <2>5 DEF Sound
<1> QED
  BY <1>2, <1>3 DEF Loads, items

-----------------------------------------------------------------------------
\* What any step on tickets does to the texts in the files.
LEMMA FilesInductive ==
    TicketsTypeOK /\ FilesSound /\ [TicketsNext]_ticketVars
        => FilesSound' /\ Known \subseteq Known'
<1> SUFFICES ASSUME TicketsTypeOK, FilesSound, [TicketsNext]_ticketVars
             PROVE  FilesSound' /\ Known \subseteq Known'
  OBVIOUS
<1> USE TicketsAssumption DEF TicketsTypeOK, FilesSound, Known, NoTask, NoId, Task
<1>1. ASSUME NEW id \in Ids, NEW status \in Statuses, Create(id, status)
      PROVE  FilesSound' /\ Known \subseteq Known'
  <2>1. Known' = Known \cup {id}
    BY <1>1 DEF Create
  <2>2. IsFiniteSet(Known')
    BY <2>1, FS_AddElement DEF FilesSound
  <2> QED
    BY <1>1, <2>1, <2>2 DEF Create, editVars, dispatchVars
<1>2. ASSUME NEW id \in Known, NEW status \in Statuses, SetStatus(id, status),
             UNCHANGED <<pc, held>>
      PROVE  FilesSound' /\ Known \subseteq Known'
  BY <1>2 DEF SetStatus
<1>3. ASSUME NEW w \in Workers, NEW id \in Ids, ReadTask(w, id, id)
      PROVE  FilesSound' /\ Known \subseteq Known'
  BY <1>3 DEF ReadTask, dispatchVars
<1>4. ASSUME NEW w \in Workers, WriteTask(w)
      PROVE  FilesSound' /\ Known \subseteq Known'
  BY <1>4 DEF WriteTask
<1>5. ASSUME NEW w \in Workers, Leave(w)
      PROVE  FilesSound' /\ Known \subseteq Known'
  BY <1>5 DEF Leave, dispatchVars
<1>6. ASSUME NEW d \in Dispatchers, Dispatch(d)
      PROVE  FilesSound' /\ Known \subseteq Known'
  <2>1. CASE Claim(d)
    BY <1>2, <2>1 DEF Claim, Ready
  <2>2. CASE RejectStart(d) \/ RunEnds(d)
    BY <1>2, <2>2 DEF RejectStart, RunEnds, EndRun, Running
  <2> QED
    BY <1>6, <2>1, <2>2 DEF Dispatch
<1>7. CASE UNCHANGED ticketVars
  BY <1>7 DEF ticketVars, editVars, dispatchVars
<1> QED
  BY <1>1, <1>2, <1>3, <1>4, <1>5, <1>6, <1>7
  DEF TicketsNext, Issues, Move, WriteFails, Reread

\* Every step of the board is a step on tickets or none.
LEMMA StepImplements == Inv /\ [KanbanNext]_kanbanVars => [TicketsNext]_ticketVars
<1> SUFFICES ASSUME Inv, [KanbanNext]_kanbanVars PROVE [TicketsNext]_ticketVars
  OBVIOUS
<1>1. ASSUME NEW s \in Sessions, KanbanUpdate(s)
      PROVE  [TicketsNext]_ticketVars
  <2> s \in Workers
    BY KanbanAssumption
  <2>1. CASE New(s)
    BY <2>1, TicketsAssumption DEF New, TicketsNext, Issues, Still
  <2>2. CASE Save(s)
    <3>1. view[s].draft = view[s].selected.id /\ view[s].selected.id \in Ids
      BY <2>2 DEF Save, In, Inv, ViewsSound, Sound, Framed, Fits, TicketsTypeOK, ReadTask
    <3> QED
      BY <2>2, <3>1 DEF Save, TicketsNext, Issues
  <2>3. CASE SaveWrites(s) \/ Saved(s) \/ SaveFails(s)
    BY <2>3 DEF SaveWrites, Saved, SaveFails, TicketsNext, Issues, Still
  <2>4. CASE PickStatus(s)
    <3>1. PICK status \in Statuses : Move(view[s].selected.id, status)
      BY <2>4 DEF PickStatus
    <3>2. view[s].selected.id \in Ids
      BY <3>1 DEF Move, Inv, TicketsTypeOK
    <3> QED
      BY <3>1, <3>2 DEF TicketsNext, Issues
  <2>5. CASE Still
    BY <2>5 DEF Still
  <2> QED
    BY <1>1, <2>1, <2>2, <2>3, <2>4, <2>5
    DEF KanbanUpdate, MoveCursor, SetTab, OpenTicket, AskNew, CancelNew, LeaveDetail,
        Edit, CancelEdit, AskStatus, LeavePick
<1>2. ASSUME NEW s \in Sessions, RepoDetailUpdate(s) \/ Open(s) \/ Quit(s) \/ ChangeAccess(s)
      PROVE  [TicketsNext]_ticketVars
  BY <1>2 DEF RepoDetailUpdate, SwitchSub, EscOutside, EnterFile, Open, Quit, ChangeAccess,
              Still
<1>3. ASSUME NEW w \in Workers \ Sessions, Issues(w)
      PROVE  [TicketsNext]_ticketVars
  BY <1>3 DEF TicketsNext
<1>4. CASE UNCHANGED kanbanVars
  BY <1>4 DEF kanbanVars
<1> QED
  BY <1>1, <1>2, <1>3, <1>4 DEF KanbanNext

\* A view whose list, tab and cursor stay is sound if what changes fits.
LEMMA ChangeSound ==
  ASSUME NEW v, NEW known, Sound(v, known), NEW w, Framed(w, known), Fits(w),
         w.items = v.items, w.tab = v.tab, w.sel = v.sel
  PROVE  Sound(w, known)
BY DEF Sound, OnARow

\* A change of the mode alone.
LEMMA ModeSound ==
  ASSUME NEW v, NEW known, Sound(v, known),
         NEW mode \in {"list", "detail", "new", "edit", "saving", "pick"},
         mode \in {"detail", "edit", "saving", "pick"} <=> v.selected # NoTask,
         mode \in {"edit", "saving"} => v.draft = v.selected.id,
         mode \in {"new", "pick", "saving"} => v.sub = "kanban"
  PROVE  Sound([v EXCEPT !.mode = mode], known)
<1> DEFINE w == [v EXCEPT !.mode = mode]
<1>1. Framed(w, known) /\ w.items = v.items /\ w.tab = v.tab /\ w.sel = v.sel
  BY DEF Sound, Framed, IsView, Fields
<1>2. Fits(w)
  BY DEF Sound, Framed, Fits, IsView, Fields
<1> QED
  BY <1>1, <1>2, ChangeSound

\* The view shows a ticket that there is, with its own text.
OwnText(ticket, known) ==
    ticket \in [id : known, task : Task] /\ ticket.task.body = ticket.id /\ ticket.id # NoId

LEMMA OpenedSound ==
  ASSUME NEW v, NEW known, Sound(v, known), NEW ticket, OwnText(ticket, known)
  PROVE  Sound([v EXCEPT !.selected = ticket, !.mode = "detail"], known)
<1> DEFINE w == [v EXCEPT !.selected = ticket, !.mode = "detail"]
<1>1. ticket \in [id : known, task : Task] /\ ticket # NoTask /\ ticket.task.body = ticket.id
  BY DEF OwnText, NoTask
<1>2. Framed(w, known) /\ w.items = v.items /\ w.tab = v.tab /\ w.sel = v.sel
  BY <1>1 DEF Sound, Framed, IsView, Fields
<1>3. Fits(w)
  BY <1>1 DEF Sound, Framed, Fits, IsView, Fields
<1> QED
  BY <1>2, <1>3, ChangeSound

\* One directory up or down.
LEMMA DepthSound ==
  ASSUME NEW v, NEW known, Sound(v, known), NEW depth \in 0..MaxDepth
  PROVE  Sound([v EXCEPT !.depth = depth], known)
<1> DEFINE w == [v EXCEPT !.depth = depth]
<1>1. Framed(w, known) /\ Fits(w) /\ w.items = v.items /\ w.tab = v.tab /\ w.sel = v.sel
  BY DEF Sound, Framed, Fits, IsView, Fields
<1> QED
  BY <1>1, ChangeSound

LEMMA ClosedSound == \A known : Sound(Closed, known)
<1> SUFFICES ASSUME NEW known PROVE Sound(Closed, known)
  OBVIOUS
<1> DEFINE none == <<>>
<1>1. DOMAIN none = {}
  OBVIOUS
<1> HIDE DEF none
<1>2. Closed = [sub |-> "closed", depth |-> 0, blob |-> FALSE, mode |-> "list", items |-> none,
                tab |-> 1, sel |-> 0, selected |-> NoTask, draft |-> NoId]
  BY DEF Closed, none
<1>3. Framed(Closed, known)
  <2>1. 1 \in 1..Len(Tabs)
    BY DEF Tabs, ALL_STATUSES
  <2>2. IsView(Closed)
    BY <1>2 DEF IsView, Fields
  <2> QED
    BY <1>1, <1>2, <2>1, <2>2, KanbanAssumption DEF Framed
<1>4. Fits(Closed)
  BY DEF Fits, Closed
<1>5. Rows(<<>>, 1) = 0
  BY FS_EmptySet DEF Rows, Visible
<1>6. OnARow(Closed)
  BY <1>5 DEF OnARow, Closed
<1> QED
  BY <1>3, <1>4, <1>6 DEF Sound

\* Outside the board: a key never touches the open ticket or the editor.
LEMMA OutsideSound ==
  ASSUME Inv, TicketsTypeOK', FilesSound', Known \subseteq Known', NEW s \in Sessions,
         RepoDetailUpdate(s) \/ Open(s) \/ Quit(s)
  PROVE  ViewsSound'
<1>1. Sound(view[s], Known') /\ ViewsSound
  BY DEF Inv, ViewsSound, Sound, Framed
<1>2. Sound(Closed, Known')
  BY ClosedSound
<1> DEFINE v == view[s]
<1>3. CASE SwitchSub(s)
  <2>1. PICK sub \in {next_sub(v.sub), prev_sub(v.sub)} : view' = [view EXCEPT ![s] = [v EXCEPT !.sub = sub]]
    BY <1>3 DEF SwitchSub, Show
  <2>2. sub \in {"files", "commits", "kanban"}
    BY <1>1, <1>3, <2>1 DEF SwitchSub, next_sub, prev_sub, Sound, Framed
  <2>3. Framed([v EXCEPT !.sub = sub], Known')
    BY <1>1, <2>2 DEF Sound, Framed, IsView, Fields
  <2>4. Fits([v EXCEPT !.sub = sub])
    BY <1>1, <1>3, <2>2 DEF SwitchSub, is_modal, Sound, Framed, Fits, IsView, Fields
  <2>5. Sound([v EXCEPT !.sub = sub], Known')
    BY <1>1, <2>3, <2>4, ChangeSound DEF Sound, Framed, IsView, Fields
  <2> QED
    BY <1>1, <2>1, <2>5, ShowSound
<1>4. CASE EscOutside(s)
  <2>1. Sound([v EXCEPT !.blob = FALSE], Known')
    <3>1. Framed([v EXCEPT !.blob = FALSE], Known') /\ Fits([v EXCEPT !.blob = FALSE])
      BY <1>1 DEF Sound, Framed, Fits, IsView, Fields
    <3> QED
      BY <1>1, <3>1, ChangeSound DEF Sound, Framed, IsView, Fields
  <2>2. v.depth > 0 => Sound([v EXCEPT !.depth = v.depth - 1], Known')
    <3>1. v.depth > 0 => v.depth - 1 \in 0..MaxDepth
      BY <1>1, KanbanAssumption DEF Sound, Framed
    <3> QED
      BY <1>1, <3>1, DepthSound
  <2> QED
    BY <1>1, <1>2, <1>4, <2>1, <2>2, ShowSound DEF EscOutside, Show
<1>5. CASE EnterFile(s)
  <2>1. v.depth < MaxDepth => Sound([v EXCEPT !.depth = v.depth + 1], Known')
    <3>1. v.depth < MaxDepth => v.depth + 1 \in 0..MaxDepth
      BY <1>1, KanbanAssumption DEF Sound, Framed
    <3> QED
      BY <1>1, <3>1, DepthSound
  <2>2. Sound([v EXCEPT !.blob = TRUE], Known')
    <3>1. Framed([v EXCEPT !.blob = TRUE], Known') /\ Fits([v EXCEPT !.blob = TRUE])
      BY <1>1, <1>5 DEF EnterFile, Sound, Framed, Fits, IsView, Fields
    <3> QED
      BY <1>1, <3>1, ChangeSound DEF Sound, Framed, IsView, Fields
  <2> QED
    BY <1>1, <1>5, <2>1, <2>2, ShowSound DEF EnterFile, Show
<1>6. CASE Open(s)
  <2> DEFINE first == [Closed EXCEPT !.sub = "files"]
  <2> HIDE DEF Closed
  <2>1. Closed.mode = "list" /\ Closed.selected = NoTask
    BY DEF Closed
  <2>2. Framed(first, Known') /\ Fits(first) /\ first.items = Closed.items
        /\ first.tab = Closed.tab /\ first.sel = Closed.sel
    BY <1>2, <2>1 DEF Sound, Framed, Fits, IsView, Fields
  <2>3. Sound(first, Known')
    BY <1>2, <2>2, ChangeSound
  <2> HIDE DEF first
  <2>4. \A loaded \in Loads(first) : Sound(loaded, Known')
    BY <2>3, LoadsSound
  <2> QED
    BY <1>1, <1>6, <2>4, ShowSound DEF Open, ShowLoaded, Show, first
<1>7. CASE Quit(s)
  BY <1>1, <1>2, <1>7, ShowSound DEF Quit, Show
<1> QED
  BY <1>3, <1>4, <1>5, <1>6, <1>7 DEF RepoDetailUpdate

\* On the board: the open ticket is the one in the files, and the editor holds
\* its text.  Only the ticket's own texts are known, so they are what is opened.
LEMMA BoardSound ==
  ASSUME Inv, FilesSound', TicketsTypeOK', Known \subseteq Known',
         NEW s \in Sessions, KanbanUpdate(s)
  PROVE  ViewsSound'
<1> DEFINE v == view[s]
<1>1. Sound(v, Known')
  BY DEF Inv, ViewsSound, Sound, Framed
<1>2. ViewsSound
  BY DEF Inv
<1>3. CASE MoveCursor(s)
  <2>1. PICK p \in Reachable(v.sel, Rows(v.items, v.tab)) :
          view' = [view EXCEPT ![s] = [v EXCEPT !.sel = p]]
    BY <1>3 DEF MoveCursor, Show
  <2>2. Rows(v.items, v.tab) \in Nat /\ v.sel \in Nat
    BY <1>1, RowsType DEF Sound, Framed, FilesSound
  <2>3. p \in Nat /\ IF Rows(v.items, v.tab) = 0 THEN p = 0 ELSE p \in 1..Rows(v.items, v.tab)
    BY <2>2, ReachableRows
  <2>4. Framed([v EXCEPT !.sel = p], Known') /\ Fits([v EXCEPT !.sel = p])
    BY <1>1, <2>3 DEF Sound, Framed, Fits, IsView, Fields
  <2>5. OnARow([v EXCEPT !.sel = p])
    BY <1>1, <2>3 DEF Sound, Framed, OnARow, IsView, Fields
  <2> QED
    BY <1>2, <2>1, <2>4, <2>5, ShowSound DEF Sound
<1>4. CASE SetTab(s)
  <2>1. PICK step \in {1, Len(Tabs) - 1} :
          view' = [view EXCEPT ![s] =
                     select_first([v EXCEPT !.tab = ((@ - 1 + step) % Len(Tabs)) + 1])]
    BY <1>4 DEF SetTab, Show
  <2> DEFINE t == ((v.tab - 1 + step) % Len(Tabs)) + 1
  <2>2. Len(Tabs) = 10
    BY DEF Tabs, ALL_STATUSES
  <2>3. t \in 1..Len(Tabs)
    BY <1>1, <2>2 DEF Sound, Framed
  <2> HIDE DEF t
  <2>4. Framed([v EXCEPT !.tab = t], Known') /\ Fits([v EXCEPT !.tab = t])
    BY <1>1, <2>3 DEF Sound, Framed, Fits, IsView, Fields
  <2>5. Sound(select_first([v EXCEPT !.tab = t]), Known')
    BY <2>4, SelectSound DEF FilesSound
  <2> QED
    BY <1>2, <2>1, <2>5, ShowSound DEF t
<1>5. CASE OpenTicket(s)
  <2>1. PICK ticket : /\ \E id \in Known : ticket = [id |-> id, task |-> tasks[id]]
                      /\ view' = [view EXCEPT ![s] = [v EXCEPT !.selected = ticket,
                                                              !.mode = "detail"]]
    BY <1>5 DEF OpenTicket, Show
  <2>2. \A id \in Known : id \in Known' /\ tasks[id] \in Task /\ tasks[id].body = id /\ id # NoId
    BY TicketsAssumption DEF Inv, FilesSound, TicketsTypeOK, NoId
  <2>3. Sound([v EXCEPT !.selected = ticket, !.mode = "detail"], Known')
    <3>1. OwnText(ticket, Known')
      BY <2>1, <2>2 DEF OwnText
    <3> QED
      BY <1>1, <3>1, OpenedSound
  <2> QED
    BY <1>2, <2>1, <2>3, ShowSound
<1>6. CASE AskNew(s) \/ CancelNew(s)
  <2>1. v.sub = "kanban" /\ v.selected = NoTask
    BY <1>1, <1>6 DEF AskNew, CancelNew, In, Sound, Framed, Fits
  <2>2. \A mode \in {"new", "list"} : Sound([v EXCEPT !.mode = mode], Known')
    BY <1>1, <2>1, ModeSound
  <2> QED
    BY <1>2, <1>6, <2>2, ShowSound DEF AskNew, CancelNew, Show
<1>7. CASE LeaveDetail(s)
  <2> DEFINE w == [v EXCEPT !.mode = "list", !.selected = NoTask]
  <2>1. Framed(w, Known') /\ Fits(w) /\ w.items = v.items /\ w.tab = v.tab /\ w.sel = v.sel
    BY <1>1 DEF Sound, Framed, Fits, IsView, Fields
  <2> QED
    BY <1>1, <1>2, <1>7, <2>1, ChangeSound, ShowSound DEF LeaveDetail, Show
<1>8. CASE New(s)
  <2>1. v.selected = NoTask
    BY <1>1, <1>8 DEF New, In, Sound, Framed, Fits
  <2>2. Sound([v EXCEPT !.mode = "list"], Known')
    BY <1>1, <2>1, ModeSound
  <2> QED
    BY <1>2, <1>8, <2>2, LoadsSound, ShowSound DEF New, ShowLoaded, Show
<1>9. CASE Edit(s)
  <2>1. v.selected # NoTask /\ v.selected.task.body = v.selected.id /\ v.selected.task.body \in Ids
    BY <1>1, <1>9 DEF Edit, In, Sound, Framed, Fits, Task
  <2> DEFINE w == [v EXCEPT !.draft = v.selected.task.body, !.mode = "edit"]
  <2>2. Framed(w, Known') /\ w.items = v.items /\ w.tab = v.tab /\ w.sel = v.sel
    BY <1>1, <2>1 DEF Sound, Framed, IsView, Fields
  <2>3. Fits(w)
    BY <1>1, <2>1 DEF Sound, Framed, Fits, IsView, Fields
  <2> QED
    BY <1>1, <1>2, <1>9, <2>2, <2>3, ChangeSound, ShowSound DEF Edit, Show
<1>10. CASE CancelEdit(s)
  <2> DEFINE w == [v EXCEPT !.draft = NoId, !.mode = "detail"]
  <2>1. Framed(w, Known') /\ w.items = v.items /\ w.tab = v.tab /\ w.sel = v.sel
    BY <1>1 DEF Sound, Framed, IsView, Fields
  <2>2. Fits(w)
    BY <1>1, <1>10 DEF CancelEdit, In, Sound, Framed, Fits, IsView, Fields
  <2> QED
    BY <1>1, <1>2, <1>10, <2>1, <2>2, ChangeSound, ShowSound DEF CancelEdit, Show
<1>11. CASE AskStatus(s)
  <2>1. v.sub = "kanban" /\ v.selected # NoTask
    BY <1>1, <1>11 DEF AskStatus, In, Sound, Framed, Fits
  <2>2. Sound([v EXCEPT !.mode = "pick"], Known')
    BY <1>1, <2>1, ModeSound
  <2> QED
    BY <1>2, <1>11, <2>2, ShowSound DEF AskStatus, Show
<1>12. CASE LeavePick(s) \/ SaveFails(s)
  <2>1. v.mode \in {"edit", "saving", "pick"}
    BY <1>12 DEF LeavePick, SaveFails, In, WriteFails, Reread, Inv, SavesSound
  <2>2. v.selected # NoTask
    BY <1>1, <2>1 DEF Sound, Framed, Fits
  <2>3. Sound([v EXCEPT !.mode = "detail"], Known')
    BY <1>1, <2>2, ModeSound
  <2> QED
    BY <1>2, <1>12, <2>3, ShowSound DEF LeavePick, SaveFails, Show
<1>13. CASE Save(s)
  <2>1. v.sub = "kanban" /\ v.selected # NoTask /\ v.draft = v.selected.id
    BY <1>1, <1>13 DEF Save, In, Sound, Framed, Fits
  <2>2. Sound([v EXCEPT !.mode = "saving"], Known')
    BY <1>1, <2>1, ModeSound
  <2> QED
    BY <1>2, <1>13, <2>2, ShowSound DEF Save, Show
<1>14. CASE SaveWrites(s)
  BY <1>2, <1>14, StillSound DEF SaveWrites
<1>15. CASE Saved(s)
  <2> DEFINE id == v.selected.id
  <2>1. PICK ticket : ticket = [id |-> id, task |-> tasks[id]]
    OBVIOUS
  <2> DEFINE shown == [v EXCEPT !.selected = ticket, !.mode = "detail"]
  <2>2. v.selected # NoTask /\ Sound(v, Known)
    BY <1>1, <1>15 DEF Saved, Sound, Framed, Fits, Inv, ViewsSound
  <2>3. id \in Known /\ id # NoId
    BY <2>2, TicketsAssumption DEF Inv, Sound, Framed, TicketsTypeOK, NoId
  <2>4. id \in Known' /\ tasks[id] \in Task /\ tasks[id].body = id
    BY <2>3 DEF Inv, FilesSound, TicketsTypeOK
  <2>5. Sound(shown, Known')
    <3>1. OwnText(ticket, Known')
      BY <2>1, <2>3, <2>4 DEF OwnText
    <3> QED
      BY <1>1, <3>1, OpenedSound
  <2> HIDE DEF shown
  <2>6. \A loaded \in Loads(shown) : Sound(loaded, Known')
    BY <2>5, LoadsSound
  <2> QED
    BY <1>2, <1>15, <2>1, <2>6, ShowSound DEF Saved, ShowLoaded, Show, shown
<1>16. CASE PickStatus(s)
  <2> DEFINE id == v.selected.id
  <2>1. PICK ticket : ticket = [id |-> id, task |-> tasks'[id]]
    OBVIOUS
  <2> DEFINE shown == [v EXCEPT !.selected = ticket, !.mode = "detail"]
  <2>2. id \in Known /\ id # NoId
    BY <1>16, TicketsAssumption DEF PickStatus, Move, Inv, TicketsTypeOK, NoId
  <2>3. id \in Known' /\ tasks'[id] \in Task /\ tasks'[id].body = id
    BY <2>2 DEF FilesSound, TicketsTypeOK
  <2>4. Sound(shown, Known')
    <3>1. OwnText(ticket, Known')
      BY <2>1, <2>2, <2>3 DEF OwnText
    <3> QED
      BY <1>1, <3>1, OpenedSound
  <2> HIDE DEF shown
  <2>5. \A loaded \in Loads(shown) : Sound(loaded, Known')
    BY <2>4, LoadsSound
  <2> QED
    BY <1>2, <1>16, <2>1, <2>5, ShowSound DEF PickStatus, ShowLoaded, Show, shown
<1> QED
  BY <1>3, <1>4, <1>5, <1>6, <1>7, <1>8, <1>9, <1>10, <1>11, <1>12, <1>13, <1>14, <1>15, <1>16
  DEF KanbanUpdate

\* No key reaches a session that is in the middle of set_body.
LEMMA SavesInductive == Inv /\ [KanbanNext]_kanbanVars => SavesSound'
<1> SUFFICES ASSUME Inv, [KanbanNext]_kanbanVars,
                    NEW t \in Sessions, pc'[t] # "idle"
             PROVE  view'[t].mode = "saving"
  BY DEF SavesSound
<1> t \in Workers /\ pc \in [Workers -> {"idle", "write", "reread"}]
  BY KanbanAssumption DEF Inv, TicketsTypeOK
<1>1. view = [s \in Sessions |-> view[s]] /\ Sound(view[t], Known)
  BY DEF Inv, ViewsSound
<1>2. pc[t] # "idle" => view[t].mode = "saving" /\ view[t].sub = "kanban"
  BY <1>1 DEF Inv, SavesSound, Sound, Fits
<1>3. ASSUME NEW s \in Sessions, NEW v, Show(s, v), s # t, pc'[t] = pc[t]
      PROVE  view'[t].mode = "saving"
  BY <1>1, <1>2, <1>3 DEF Show
<1>4. ASSUME view' = view, pc'[t] = pc[t]
      PROVE  view'[t].mode = "saving"
  BY <1>2, <1>4
<1>5. ASSUME NEW s \in Sessions, KanbanUpdate(s)
      PROVE  view'[t].mode = "saving"
  <2> s \in Workers
    BY KanbanAssumption
  <2>1. CASE SaveWrites(s)
    BY <1>2, <2>1 DEF SaveWrites, WriteTask
  <2>2. CASE s = t /\ Save(s)
    <3>1. view'[t] = [view[t] EXCEPT !.mode = "saving"]
      BY <1>1, <2>2 DEF Save, Show
    <3> QED
      BY <1>1, <3>1 DEF Sound, IsView, Fields
  <2>3. CASE s = t /\ (Saved(s) \/ SaveFails(s))
    BY <1>2, <2>3 DEF Saved, SaveFails, In, Still, WriteFails, Reread, Leave, ticketVars,
                      editVars
  <2>4. CASE s = t /\ Still
    BY <1>2, <1>5, <2>1, <2>2, <2>3, <2>4
    DEF KanbanUpdate, Still, ticketVars, editVars, In, MoveCursor, SetTab, OpenTicket,
        AskNew, New, CancelNew, LeaveDetail, Edit, CancelEdit, AskStatus, PickStatus,
        LeavePick
  <2>5. CASE s = t /\ (New(s) \/ PickStatus(s))
    BY <1>2, <2>5
    DEF New, PickStatus, In, Create, Move, Still, ticketVars, editVars
  <2>6. CASE s # t
    <3>1. pc'[t] = pc[t]
      BY <1>5, <2>6
      DEF KanbanUpdate, Still, ticketVars, editVars, MoveCursor, SetTab, OpenTicket,
          AskNew, New, CancelNew, LeaveDetail, Edit, CancelEdit, AskStatus, PickStatus,
          LeavePick, Save, SaveWrites, Saved, SaveFails, Create, Move, ReadTask, WriteTask,
          WriteFails, Reread, Leave
    <3>2. view' = view \/ \E v : Show(s, v)
      BY <1>5
      DEF KanbanUpdate, MoveCursor, SetTab, OpenTicket, AskNew, New, CancelNew,
          LeaveDetail, Edit, CancelEdit, AskStatus, PickStatus, LeavePick, Save,
          SaveWrites, Saved, SaveFails, ShowLoaded
    <3> QED
      BY <1>3, <1>4, <2>6, <3>1, <3>2
  <2> QED
    BY <1>5, <2>1, <2>2, <2>3, <2>4, <2>5, <2>6
    DEF KanbanUpdate, MoveCursor, SetTab, OpenTicket, AskNew, CancelNew, LeaveDetail,
        Edit, CancelEdit, AskStatus, LeavePick
<1>6. ASSUME NEW s \in Sessions, RepoDetailUpdate(s) \/ Open(s) \/ Quit(s) \/ ChangeAccess(s)
      PROVE  view'[t].mode = "saving"
  <2>1. pc'[t] = pc[t]
    BY <1>6 DEF RepoDetailUpdate, SwitchSub, EscOutside, EnterFile, Open, Quit,
                ChangeAccess, Still, ticketVars, editVars
  <2>2. view' = view \/ \E v : Show(s, v)
    BY <1>6 DEF RepoDetailUpdate, SwitchSub, EscOutside, EnterFile, Open, Quit,
                ChangeAccess, ShowLoaded
  <2>3. CASE s = t
    BY <1>2, <1>4, <1>6, <2>1, <2>3
    DEF RepoDetailUpdate, SwitchSub, EscOutside, EnterFile, Open, Quit, ChangeAccess
  <2> QED
    BY <1>3, <1>4, <2>1, <2>2, <2>3
<1>7. ASSUME NEW w \in Workers \ Sessions, Issues(w), view' = view
      PROVE  view'[t].mode = "saving"
  <2>1. pc'[t] = pc[t]
    BY <1>7 DEF Issues, Create, Move, ReadTask, WriteTask, WriteFails, Reread, Leave,
                editVars
  <2> QED
    BY <1>4, <1>7, <2>1
<1>8. CASE UNCHANGED kanbanVars
  BY <1>4, <1>8 DEF kanbanVars, ticketVars, editVars
<1> QED
  BY <1>5, <1>6, <1>7, <1>8 DEF KanbanNext

\* The rights of a user who has them come and go, and only who has them gets into a
\* mode that writes.
LEMMA WritersInductive == Inv /\ [KanbanNext]_kanbanVars => WritersWrite'
<1> SUFFICES ASSUME Inv, [KanbanNext]_kanbanVars PROVE WritersWrite'
  OBVIOUS
<1> USE DEF WritersWrite, ReadersOnlyRead
<1>1. view = [s \in Sessions |-> view[s]] /\ \A s \in Sessions : Sound(view[s], Known)
  BY DEF Inv, ViewsSound
<1>2. ASSUME NEW s \in Sessions, NEW v, Show(s, v),
             write[s] = "never" => v.mode \in {"list", "detail"}
      PROVE  WritersWrite'
  BY <1>1, <1>2 DEF Show, Inv
<1>3. CASE view' = view /\ UNCHANGED write
  BY <1>3 DEF Inv
<1>4. ASSUME NEW s \in Sessions, ChangeAccess(s) PROVE WritersWrite'
  BY <1>4 DEF ChangeAccess, Inv
<1>5. ASSUME NEW s \in Sessions, NEW v, NEW loaded \in Loads(v), IsView(v)
      PROVE  loaded.mode = v.mode
  BY <1>5 DEF Loads, select_first, IsView, Fields
<1>6. ASSUME NEW s \in Sessions, RepoDetailUpdate(s) \/ Open(s) \/ Quit(s)
      PROVE  WritersWrite'
  <2>1. IsView(view[s]) /\ IsView(Closed) /\ Closed.mode = "list"
    BY <1>1 DEF Sound, Framed, IsView, Closed, Fields
  <2>2. CASE Open(s)
    <3>1. PICK loaded \in Loads([Closed EXCEPT !.sub = "files"]) : Show(s, loaded)
      BY <2>2 DEF Open, ShowLoaded
    <3>2. IsView([Closed EXCEPT !.sub = "files"]) /\ [Closed EXCEPT !.sub = "files"].mode = "list"
      BY DEF IsView, Closed, Fields
    <3> QED
      BY <1>2, <1>5, <3>1, <3>2
  <2>3. CASE RepoDetailUpdate(s) \/ Quit(s)
    <3>1. PICK v : Show(s, v) /\ (v.mode = view[s].mode \/ v.mode = "list")
      BY <2>1, <2>3
      DEF RepoDetailUpdate, SwitchSub, EscOutside, EnterFile, Quit, IsView, Fields
    <3> QED
      BY <1>2, <3>1 DEF Inv
  <2> QED
    BY <1>6, <2>2, <2>3
<1>7. ASSUME NEW s \in Sessions, KanbanUpdate(s) PROVE WritersWrite'
  <2>1. IsView(view[s])
    BY <1>1 DEF Sound, Framed
  <2>2. CASE view' = view /\ UNCHANGED write
    BY <1>3, <2>2
  <2>3. CASE New(s) \/ Saved(s) \/ PickStatus(s)
    <3>1. PICK v : /\ IsView(v) /\ v.mode \in {"list", "detail"}
                   /\ ShowLoaded(s, v)
      BY <2>1, <2>3 DEF New, Saved, PickStatus, IsView, Fields
    <3> QED
      BY <1>2, <1>5, <3>1 DEF ShowLoaded
  <2>4. CASE SetTab(s)
    <3>1. PICK t : Show(s, select_first([view[s] EXCEPT !.tab = t]))
      BY <2>4 DEF SetTab
    <3>2. select_first([view[s] EXCEPT !.tab = t]).mode = view[s].mode
      BY <2>1 DEF select_first, IsView, Fields
    <3> QED
      BY <1>2, <3>1, <3>2 DEF Inv
  <2>5. CASE MoveCursor(s) \/ OpenTicket(s) \/ AskNew(s) \/ CancelNew(s) \/ LeaveDetail(s)
             \/ Edit(s) \/ CancelEdit(s) \/ Save(s) \/ SaveFails(s) \/ AskStatus(s)
             \/ LeavePick(s)
    <3>1. PICK v : Show(s, v) /\ (v.mode = view[s].mode \/ v.mode \in {"list", "detail"}
                                   \/ write[s] = "yes" \/ view[s].mode = "edit")
      <4>1. CASE MoveCursor(s) \/ OpenTicket(s)
        <5>1. /\ \A p : [view[s] EXCEPT !.sel = p].mode = view[s].mode
              /\ \A ticket : [view[s] EXCEPT !.selected = ticket, !.mode = "detail"].mode = "detail"
          BY <2>1 DEF IsView, Fields
        <5> QED
          BY <4>1, <5>1 DEF MoveCursor, OpenTicket
      <4>2. CASE AskNew(s) \/ CancelNew(s) \/ LeaveDetail(s)
        <5>1. [view[s] EXCEPT !.mode = "list"].mode = "list"
          BY <2>1 DEF IsView, Fields
        <5>2. [view[s] EXCEPT !.mode = "list", !.selected = NoTask].mode = "list"
          BY <2>1 DEF IsView, Fields
        <5> QED
          BY <4>2, <5>1, <5>2 DEF AskNew, CancelNew, LeaveDetail, can_write
      <4>3. CASE Edit(s) \/ CancelEdit(s) \/ Save(s) \/ SaveFails(s)
        BY <2>1, <4>3 DEF Edit, CancelEdit, Save, SaveFails, In, can_write, IsView, Fields
      <4>4. CASE AskStatus(s) \/ LeavePick(s)
        BY <2>1, <4>4 DEF AskStatus, LeavePick, can_write, IsView, Fields
      <4> QED
        BY <2>5, <4>1, <4>2, <4>3, <4>4
    <3> QED
      BY <1>2, <3>1 DEF Inv
  <2> QED
    BY <1>7, <2>2, <2>3, <2>4, <2>5 DEF KanbanUpdate, SaveWrites
<1> QED
  BY <1>3, <1>4, <1>6, <1>7 DEF KanbanNext, kanbanVars

\* Files, views and saves stay sound in every behaviour of the board.
THEOREM KanbanInvariant == KanbanSpec => []Inv
<1>1. KanbanInit => Inv
  <2> SUFFICES ASSUME KanbanInit PROVE Inv
    OBVIOUS
  <2>1. TicketsTypeOK
    BY TicketsAssumption
    DEF KanbanInit, TicketsInit, TicketsTypeOK, Known, NoTask, NoId, Running
  <2>2. FilesSound
    <3>1. Known = {}
      BY DEF KanbanInit, TicketsInit, Known
    <3> QED
      BY <3>1, FS_EmptySet DEF KanbanInit, TicketsInit, FilesSound
  <2>3. ViewsSound
    BY ClosedSound DEF KanbanInit, ViewsSound
  <2>4. SavesSound
    BY KanbanAssumption DEF KanbanInit, TicketsInit, SavesSound
  <2>5. WritersWrite
    BY DEF KanbanInit, WritersWrite, ReadersOnlyRead, Closed
  <2> QED
    BY <2>1, <2>2, <2>3, <2>4, <2>5 DEF Inv
<1>2. Inv /\ [KanbanNext]_kanbanVars => Inv'
  <2> SUFFICES ASSUME Inv, [KanbanNext]_kanbanVars PROVE Inv'
    OBVIOUS
  <2>1. TicketsTypeOK' /\ FilesSound' /\ Known \subseteq Known'
    BY StepImplements, TicketsTypeInductive, FilesInductive DEF Inv
  <2>2. ViewsSound'
    <3>1. CASE view' = view
      BY <2>1, <3>1, StillSound DEF Inv
    <3>2. ASSUME NEW s \in Sessions, KanbanUpdate(s) \/ RepoDetailUpdate(s) \/ Open(s)
                                       \/ Quit(s)
          PROVE  ViewsSound'
      BY <2>1, <3>2, BoardSound, OutsideSound
    <3> QED
      BY <3>1, <3>2 DEF KanbanNext, ChangeAccess, kanbanVars
  <2> QED
    BY <2>1, <2>2, SavesInductive, WritersInductive DEF Inv
<1> QED
  BY <1>1, <1>2, PTL DEF KanbanSpec

\* Type correctness of every session's view, for any list and any tab.
THEOREM KanbanTypeCorrect == KanbanSpec => []KanbanTypeOK
<1>1. Inv => KanbanTypeOK
  BY DEF Inv, ViewsSound, Sound, Framed, WritersWrite, KanbanTypeOK
<1> QED
  BY <1>1, KanbanInvariant, PTL

\* However lists are loaded, tabs switched and tickets changed by others, the
\* cursor is on a row that is shown, or there is no row (detail.rs:489-515).
THEOREM CursorIsOnATicketHolds == KanbanSpec => []CursorIsOnATicket
<1>1. Inv => CursorIsOnATicket
  BY DEF Inv, ViewsSound, Sound, OnARow, CursorIsOnATicket
<1> QED
  BY <1>1, KanbanInvariant, PTL

\* However Tab, Esc and the modes of the board follow one another: a dialog is
\* open on the board in front only, a ticket is open exactly in the modes that
\* work on one, a file on the Files tab only (detail.rs:207-248, 516-521).
THEOREM DialogsAreInFrontHolds == KanbanSpec => []DialogsAreInFront
<1>1. Inv => DialogsAreInFront
  BY DEF Inv, ViewsSound, Sound, Fits, DialogsAreInFront
<1> QED
  BY <1>1, KanbanInvariant, PTL

\* Whoever never had write access gets into no mode that changes a ticket,
\* although the right is asked for at the door only (detail.rs:522, 580, 609, 622).
THEOREM ReadersOnlyReadHolds == KanbanSpec => []ReadersOnlyRead
<1>1. Inv => ReadersOnlyRead
  BY DEF Inv, WritersWrite
<1> QED
  BY <1>1, KanbanInvariant, PTL

\* For any number of sessions: a text never ends up in another ticket than the
\* one it was written for.
THEOREM TextStaysInItsTicketHolds == KanbanSpec => []TextStaysInItsTicket
<1>1. Inv => TextStaysInItsTicket
  BY DEF Inv, FilesSound, ViewsSound, Sound, Fits, TextStaysInItsTicket
<1> QED
  BY <1>1, KanbanInvariant, PTL

\* The board implements Tickets: whatever its sessions do, they change tickets
\* only by creating, moving and editing them as `issues` commands do.
THEOREM BoardImplementsTicketsHolds == KanbanSpec => BoardImplementsTickets
<1>1. KanbanInit => TicketsInit
  BY DEF KanbanInit
<1> QED
  BY <1>1, KanbanInvariant, StepImplements, PTL
  DEF KanbanSpec, TicketsSpec, BoardImplementsTickets

\* So an edit saved on the board leaves the ticket's status alone as well, unless
\* the status changed between set_body's read and its write.
COROLLARY BoardKeepsStatus == KanbanSpec => EditKeepsStatus
BY BoardImplementsTicketsHolds, EditKeepsStatusHolds, PTL DEF BoardImplementsTickets
=============================================================================
