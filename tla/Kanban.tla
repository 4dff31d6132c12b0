------------------------------- MODULE Kanban -------------------------------
(***************************************************************************)
(* The repository view of the TUI and its Kanban board (tui/detail.rs):    *)
(* sessions that look at one repository, each with the list it loaded, the *)
(* ticket it opened and the body it edits, beside `issues` commands that   *)
(* change the same tickets.  A session handles one key at a time; saving a *)
(* body is set_body's three steps of module Tickets.                       *)
(*                                                                         *)
(* Dispatchers change statuses as `issues move` does: see Tickets.          *)
(* Left out: scroll offsets, toasts, the characters of a title or a body,  *)
(* and the cursors of the Files and Commits lists.                         *)
(***************************************************************************)
EXTENDS Tickets, ListNav, Sequences, FiniteSets

CONSTANTS
    Sessions,    \* the workers that are TUI sessions
    CiTickets,   \* tickets with the agent and the label of CI
    MaxDepth     \* bound: how deep directories are nested

ASSUME KanbanAssumption ==
    /\ Sessions \subseteq Workers
    /\ CiTickets \subseteq Ids
    /\ MaxDepth \in Nat

VARIABLES
    view,    \* what every session shows, see Closed
    write    \* may its user write to the repository: "never" yet, "yes" or "lost"

kanbanVars == <<ticketVars, view, write>>

ALL_STATUSES == <<"backlog", "ready", "blocked", "running", "review", "done", "failed",
                  "cancelled">>

\* kanban_tabs
Tabs == <<"all">> \o ALL_STATUSES \o <<"ci">>

MatchesTab(tab, id, status) ==
    CASE tab = "all" -> TRUE
      [] tab = "ci" -> id \in CiTickets
      [] OTHER -> status = tab

\* visible_task_indices: the tickets of a list that are under tab number t.
Visible(items, t) == {id \in DOMAIN items : MatchesTab(Tabs[t], id, items[id])}

\* How many rows the board shows, and the row of ticket id among them.
Rows(items, t) == Cardinality(Visible(items, t))
RowOf(id, shown) == Cardinality({i \in shown : i <= id})

\* A session without a repository view, and RootModel's other panes in front.
Closed ==
    [sub |-> "closed", depth |-> 0, blob |-> FALSE, mode |-> "list", items |-> <<>>,
     tab |-> 1, sel |-> 0, selected |-> NoTask, draft |-> NoId]

KanbanTypeOK ==
    /\ TicketsTypeOK
    /\ write \in [Sessions -> {"never", "yes", "lost"}]
    /\ DOMAIN view = Sessions
    /\ \A s \in Sessions :
         /\ view[s].sub \in {"closed", "files", "commits", "kanban"}
         /\ view[s].depth \in 0..MaxDepth /\ view[s].blob \in BOOLEAN
         /\ view[s].mode \in {"list", "detail", "new", "edit", "saving", "pick"}
         /\ DOMAIN view[s].items \subseteq Known
         /\ \A id \in DOMAIN view[s].items : view[s].items[id] \in Statuses
         /\ view[s].tab \in 1..Len(Tabs)
         /\ view[s].selected \in [id : Known, task : Task] \cup {NoTask}
         /\ view[s].draft \in Ids \cup {NoId}

-----------------------------------------------------------------------------
Show(s, v) == view' = [view EXCEPT ![s] = v] /\ UNCHANGED write
Still == UNCHANGED ticketVars

\* select_first: the cursor stays where it is if the list still goes that far.
select_first(v) ==
    [v EXCEPT !.sel = fix_selection(v.sel, Rows(v.items, v.tab))]

\* Mutant: a fresh list keeps the cursor of the old one.
BugLoads(v) ==
    {[v EXCEPT !.items = [id \in DOMAIN tasks' |-> tasks'[id].status],
               !.sel = AtLeast(v.sel, 1)]}

\* load, at the end of a handler: the list as the files are now, or none.
Loads(v) ==
    {select_first([v EXCEPT !.items = [id \in DOMAIN tasks' |-> tasks'[id].status]])}
        \cup (IF IoErrors THEN {[v EXCEPT !.items = <<>>, !.sel = 0]} ELSE {})

ShowLoaded(s, v) == \E loaded \in Loads(v) : Show(s, loaded)

\* RepoDetail::new.
Open(s) ==
    /\ view[s].sub = "closed"
    /\ Still
    /\ ShowLoaded(s, [Closed EXCEPT !.sub = "files"])

\* Ctrl-C, or the connection is lost: no handler is at work then.
Quit(s) ==
    /\ view[s].sub # "closed" /\ view[s].mode # "saving"
    /\ Show(s, Closed)
    /\ Still

\* Mutant: the status dialog is no modal.
BugIsModal(v) == v.mode = "new"

is_modal(v) == v.mode \in {"new", "pick"}

next_sub(sub) ==
    CASE sub = "files" -> "commits" [] sub = "commits" -> "kanban" [] sub = "kanban" -> "files"
prev_sub(sub) ==
    CASE sub = "files" -> "kanban" [] sub = "commits" -> "files" [] sub = "kanban" -> "commits"

\* RepoDetail::update, Tab and Shift-Tab.
SwitchSub(s) ==
    /\ view[s].sub # "closed" /\ view[s].mode # "saving"
    /\ ~view[s].blob /\ ~(view[s].sub = "kanban" /\ is_modal(view[s]))
    /\ \E sub \in {next_sub(view[s].sub), prev_sub(view[s].sub)} :
         Show(s, [view[s] EXCEPT !.sub = sub])
    /\ Still

\* handle_esc, outside the board: close the file, else one directory up, else
\* back to the repositories and all of the view is dropped.
EscOutside(s) ==
    LET v == view[s] IN
    /\ v.sub # "closed" /\ ~(v.sub = "kanban" /\ v.mode # "list")
    /\ Show(s, IF v.blob THEN [v EXCEPT !.blob = FALSE]
               ELSE IF v.sub = "files" /\ v.depth > 0 THEN [v EXCEPT !.depth = @ - 1]
               ELSE Closed)
    /\ Still

\* update_files: Enter on a directory or on a file.
EnterFile(s) ==
    /\ view[s].sub = "files" /\ ~view[s].blob
    /\ \/ view[s].depth < MaxDepth /\ Show(s, [view[s] EXCEPT !.depth = @ + 1])
       \/ Show(s, [view[s] EXCEPT !.blob = TRUE])
    /\ Still

-----------------------------------------------------------------------------
\* The board has the keys, in one of these modes.
In(s, mode) == view[s].sub = "kanban" /\ view[s].mode = mode

MoveCursor(s) ==
    /\ In(s, "list")
    /\ \E p \in Reachable(view[s].sel, Rows(view[s].items, view[s].tab)) :
         Show(s, [view[s] EXCEPT !.sel = p])
    /\ Still

\* Mutant: the tabs do not start over after the last one.
BugSetTab(s) ==
    /\ In(s, "list")
    /\ \E step \in {1, -1} :
         Show(s, select_first([view[s] EXCEPT !.tab = @ + step]))
    /\ Still

\* set_tab, to the left or to the right, around the ends.
SetTab(s) ==
    /\ In(s, "list")
    /\ \E step \in {1, Len(Tabs) - 1} :
         Show(s, select_first([view[s] EXCEPT !.tab = ((@ - 1 + step) % Len(Tabs)) + 1]))
    /\ Still

\* Enter in the list reads the ticket anew; a ticket that is not found is not opened.
OpenTicket(s) ==
    /\ In(s, "list")
    /\ LET shown == Visible(view[s].items, view[s].tab) IN
       \E id \in shown \cap Known :
         /\ RowOf(id, shown) = view[s].sel
         /\ Show(s, [view[s] EXCEPT !.selected = [id |-> id, task |-> tasks[id]],
                                    !.mode = "detail"])
    /\ Still

\* can_write, asked where a mode is entered and not where it is left.
can_write(s) == write[s] = "yes"

AskNew(s) ==
    /\ In(s, "list") /\ can_write(s)
    /\ Show(s, [view[s] EXCEPT !.mode = "new"])
    /\ Still

\* Enter with a title; the list is loaded again whether it worked or not.
New(s) ==
    /\ In(s, "new")
    /\ \/ \E id \in Ids : Create(id, "backlog")
       \/ IoErrors /\ Still
    /\ ShowLoaded(s, [view[s] EXCEPT !.mode = "list"])

CancelNew(s) ==
    /\ In(s, "new")
    /\ Show(s, [view[s] EXCEPT !.mode = "list"])
    /\ Still

LeaveDetail(s) ==
    /\ In(s, "detail")
    /\ Show(s, [view[s] EXCEPT !.mode = "list", !.selected = NoTask])
    /\ Still

\* Mutant: the editor opens with what was in it before, if anything.
BugEdit(s) ==
    /\ In(s, "detail") /\ can_write(s)
    /\ Show(s, [view[s] EXCEPT !.draft = IF @ = NoId THEN view[s].selected.task.body ELSE @,
                               !.mode = "edit"])
    /\ Still

\* "e": the editor is filled from the ticket as it was opened.
Edit(s) ==
    /\ In(s, "detail") /\ can_write(s)
    /\ Show(s, [view[s] EXCEPT !.draft = view[s].selected.task.body, !.mode = "edit"])
    /\ Still

CancelEdit(s) ==
    /\ In(s, "edit")
    /\ Show(s, [view[s] EXCEPT !.draft = NoId, !.mode = "detail"])
    /\ Still

\* Mutant: the ticket as it was opened is written back with the new body.
BugSave(s) ==
    /\ In(s, "edit")
    /\ LET v == view[s] IN
       held' = [held EXCEPT ![s] = [id |-> v.selected.id,
                                    task |-> [v.selected.task EXCEPT !.body = v.draft]]]
    /\ raced' = [raced EXCEPT ![s] = FALSE]
    /\ pc' = [pc EXCEPT ![s] = "write"]
    /\ Show(s, [view[s] EXCEPT !.mode = "saving"])
    /\ UNCHANGED <<tasks, dispatchVars>>

\* Ctrl-S: set_body's read and its write ...
Save(s) ==
    /\ In(s, "edit")
    /\ ReadTask(s, view[s].selected.id, view[s].draft)
    /\ Show(s, [view[s] EXCEPT !.mode = "saving"])

SaveWrites(s) == WriteTask(s) /\ UNCHANGED <<view, write>>

\* ... and its second read, which is what the session shows from now on.
Saved(s) ==
    /\ view[s].mode = "saving" /\ Reread(s)
    /\ LET id == view[s].selected.id IN
       ShowLoaded(s, [view[s] EXCEPT !.selected = [id |-> id, task |-> tasks[id]],
                                     !.mode = "detail"])

\* The write fails, or a read does: the editor is left all the same.
SaveFails(s) ==
    /\ \/ In(s, "edit") /\ IoErrors /\ Still
       \/ WriteFails(s)
       \/ IoErrors /\ Reread(s)
    /\ Show(s, [view[s] EXCEPT !.mode = "detail"])

\* Mutant: the status dialog opens for everyone.
BugAskStatus(s) ==
    /\ In(s, "detail")
    /\ Show(s, [view[s] EXCEPT !.mode = "pick"])
    /\ Still

AskStatus(s) ==
    /\ In(s, "detail") /\ can_write(s)
    /\ Show(s, [view[s] EXCEPT !.mode = "pick"])
    /\ Still

PickStatus(s) ==
    /\ In(s, "pick")
    /\ LET id == view[s].selected.id IN
       \E status \in Statuses :
         /\ Move(id, status)
         /\ ShowLoaded(s, [view[s] EXCEPT !.selected = [id |-> id, task |-> tasks'[id]],
                                          !.mode = "detail"])

\* Esc in the dialog, or update_status fails.
LeavePick(s) ==
    /\ In(s, "pick")
    /\ Show(s, [view[s] EXCEPT !.mode = "detail"])
    /\ Still

\* The owner grants the user write access, or the repository is deleted.
ChangeAccess(s) ==
    /\ write' = [write EXCEPT ![s] = IF @ = "yes" THEN "lost" ELSE "yes"]
    /\ Still
    /\ UNCHANGED view

KanbanInit ==
    /\ TicketsInit
    /\ view = [s \in Sessions |-> Closed]
    /\ write = [s \in Sessions |-> "never"]

RepoDetailUpdate(s) ==
    \/ SwitchSub(s)
    \/ EscOutside(s)
    \/ EnterFile(s)

KanbanUpdate(s) ==
    \/ MoveCursor(s)
    \/ SetTab(s)
    \/ OpenTicket(s)
    \/ AskNew(s)
    \/ New(s)
    \/ CancelNew(s)
    \/ LeaveDetail(s)
    \/ Edit(s)
    \/ CancelEdit(s)
    \/ Save(s)
    \/ SaveWrites(s)
    \/ Saved(s)
    \/ SaveFails(s)
    \/ AskStatus(s)
    \/ PickStatus(s)
    \/ LeavePick(s)

KanbanNext ==
    \/ \E s \in Sessions : Open(s) \/ Quit(s) \/ ChangeAccess(s)
    \/ \E s \in Sessions : RepoDetailUpdate(s) \/ KanbanUpdate(s)
    \/ \E w \in Workers \ Sessions : Issues(w) /\ UNCHANGED <<view, write>>

KanbanSpec == KanbanInit /\ [][KanbanNext]_kanbanVars

-----------------------------------------------------------------------------
\* However lists are reloaded, tabs switched and tickets changed elsewhere, the
\* cursor is on a ticket that is shown, or there is none (detail.rs:489-515).
CursorIsOnATicket ==
    \A s \in Sessions :
        LET n == Rows(view[s].items, view[s].tab) IN
        IF n = 0 THEN view[s].sel = 0 ELSE view[s].sel \in 1..n

\* A text never ends up in another ticket than the one it was written for: the
\* editor keeps to the ticket it was opened on, whatever the list, the tabs and
\* other sessions do meanwhile (detail.rs:592-605, 671-699).
TextStaysInItsTicket ==
    /\ \A id \in Known : tasks[id].body = id
    /\ \A s \in Sessions : view[s].mode \in {"edit", "saving"} =>
          view[s].draft = view[s].selected.id

\* A dialog is only ever open on the board in front, a ticket is open exactly in
\* the modes that work on one, and a file only on the Files tab
\* (detail.rs:207-248, 516-521).
DialogsAreInFront ==
    \A s \in Sessions :
        /\ view[s].mode \in {"new", "pick"} => view[s].sub = "kanban"
        /\ view[s].mode \in {"detail", "edit", "saving", "pick"} <=> view[s].selected # NoTask
        /\ view[s].blob => view[s].sub = "files"

\* The board changes tickets only as module Tickets says: a session is one more
\* connection that creates, moves and edits, and every edit it saves is an edit
\* of the ticket in the text's own name (detail.rs:640-736, tickets.rs:37-90).
BoardImplementsTickets == TicketsSpec

\* A session whose user never had write access stays a reader: it gets into no
\* mode from which a ticket can be changed (detail.rs:522, 580, 609, 622).
ReadersOnlyRead ==
    \A s \in Sessions : write[s] = "never" => view[s].mode \in {"list", "detail"}
=============================================================================
