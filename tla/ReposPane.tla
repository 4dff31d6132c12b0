----------------------------- MODULE ReposPane -----------------------------
(***************************************************************************)
(* The repository pane of the TUI (repos.rs) and the root model around it  *)
(* (tui/mod.rs).  A session shows the listing it loaded last; its dialogs  *)
(* remember owner and name of what was selected, and what their "y" starts *)
(* is the request of RepoLifecycle, beside git commands, other sessions    *)
(* and the operator.  A session takes no key while its handler runs.       *)
(***************************************************************************)
EXTENDS RepoLifecycle, ListNav, FiniteSets

CONSTANTS
    Sessions,   \* the workers that are TUI sessions
    Place,      \* the place of each target in the order of owner and name
    Visitors    \* who opens the sessions: users, or NoUser

ASSUME PaneAssumption ==
    /\ Sessions \subseteq Workers
    /\ Visitors \subseteq User \cup {NoUser}
    /\ IsFiniteSet(Targets) /\ Place \in [Targets -> Nat]
    /\ \A t1, t2 \in Targets : Place[t1] = Place[t2] => t1 = t2

VARIABLES
    view,   \* of each session: RootModel with its ReposPane
    alone,  \* history: the worker whose request no other one has run beside
    cut     \* history: targets whose directory is unfinished since a git init, a
            \* symbolic-ref or a removal was cut short by an error or a crash

historyVars == <<alone, cut>>
paneVars == <<vars, view, historyVars>>

Closed == [mode |-> "closed"]

\* items: what is listed, and whether it is shown as public.  fresh is history: nobody
\* else has changed what the session would list since its last load.
View(u) == [mode |-> "load", user |-> u, active |-> "repos", detail |-> NoTarget,
            items |-> <<>>, sel |-> 0, pending |-> NoTarget, visibility |-> FALSE,
            fresh |-> FALSE]

\* How many lines a listing has, and the line of target t.
Lines(items) == Cardinality(DOMAIN items)
LineOf(t, items) == Cardinality({i \in DOMAIN items : Place[i] <= Place[t]})

PaneTypeOK ==
    /\ TypeOK
    /\ alone \subseteq Workers /\ cut \subseteq Targets
    /\ \A s \in Sessions : LET v == view[s] IN
         v # Closed =>
           /\ v.mode \in {"load", "list", "create", "confirm_delete", "confirm_toggle"}
           /\ v.user \in users \cup {NoUser} /\ v.active \in {"repos", "keys"}
           /\ {v.detail, v.pending} \subseteq Targets \cup {NoTarget}
           /\ DOMAIN v.items \subseteq Targets /\ \A t \in DOMAIN v.items : v.items[t] \in BOOLEAN
           /\ v.sel \in 0..Lines(v.items)
           /\ v.mode # "load" /\ Lines(v.items) # 0 => v.sel # 0

-----------------------------------------------------------------------------
\* The rows of the SELECT for a user.
ListingOf(u) ==
    LET rows == IF u = NoUser THEN list_public_repos ELSE list_repos_for_user(u.id)
    IN  [t \in {t \in Targets : RowOf(t) \cap rows # {}} |-> \E r \in RowOf(t) : r.public]

owns(v, t) == v.user # NoUser /\ v.user.username = t[1] /\ Privileged(v.user, t[1])

\* Out of its dialog; what the dialog was about is not read again.
Back(v) == [v EXCEPT !.mode = "list", !.pending = NoTarget, !.visibility = FALSE]

Show(s, v) == view' = [view EXCEPT ![s] = v]

\* A session that looks on while others take a step: has its listing changed?
SameListing == {u \in Visitors : ListingOf(u)' = ListingOf(u)}
Watched(s) ==
    IF view[s] = Closed THEN Closed
    ELSE [view[s] EXCEPT !.fresh = @ /\ view[s].user \in SameListing]

\* Session s shows v after a step of its own; the others watch.
Become(s, v) == view' = [r \in Sessions |-> IF r = s THEN v ELSE Watched(r)]
WatchAll == view' = [r \in Sessions |-> Watched(r)]

\* The session takes keys; they go to the repository view, or to a pane.
TakesKeys(s) == view[s] # Closed /\ view[s].mode # "load" /\ pc[s] = "idle"
OnPane(s) == TakesKeys(s) /\ view[s].detail = NoTarget
InMode(s, m) == OnPane(s) /\ view[s].active = "repos" /\ view[s].mode = m

\* What is under the cursor, if anything.
selected(v) == {t \in DOMAIN v.items : LineOf(t, v.items) = v.sel}

Turn(s, v) == Show(s, v) /\ UNCHANGED <<vars, historyVars>>

\* RootModel::new; load_initial is Load.
Open(s) ==
    /\ view[s] = Closed /\ pc[s] = "idle"
    /\ \E u \in Visitors \cap (users \cup {NoUser}) : Turn(s, View(u))

\* Ctrl-C in any mode, or the channel ends.
Close(s) == TakesKeys(s) /\ Turn(s, Closed)

\* Mutant: the cursor stays where it is.
BugLoaded(v, listing) ==
    [v EXCEPT !.mode = "list", !.items = listing, !.fresh = TRUE]

Loaded(v, listing) ==
    [v EXCEPT !.mode = "list", !.items = listing, !.fresh = TRUE,
              !.sel = fix_selection(v.sel, Lines(listing))]

LoadFailed(v) ==
    [v EXCEPT !.mode = "list", !.items = <<>>, !.fresh = FALSE, !.sel = 0]

\* load().
Loads(s) ==
    \/ Show(s, Loaded(view[s], ListingOf(view[s].user)))
    \/ Failures /\ Show(s, LoadFailed(view[s]))

Load(s) == view[s] # Closed /\ view[s].mode = "load" /\ Loads(s) /\ UNCHANGED <<vars, historyVars>>

\* RootModel::update: Tab goes to the other pane unless a dialog is open.
SwitchTab(s) ==
    /\ OnPane(s)
    /\ view[s].active = "repos" => view[s].mode = "list"
    /\ Turn(s, [view[s] EXCEPT !.active = IF @ = "repos" THEN "keys" ELSE "repos"])

Navigate(s) ==
    /\ InMode(s, "list")
    /\ \E p \in Reachable(view[s].sel, Lines(view[s].items)) :
         Turn(s, [view[s] EXCEPT !.sel = p])

\* Enter on a repository that can be read by now; a repository view closes.
OpenRepo(s) ==
    /\ InMode(s, "list")
    /\ \E t \in selected(view[s]) :
         /\ AllowedIn(users, repos, repo_perms, view[s].user, t) # None
         /\ Turn(s, [view[s] EXCEPT !.detail = t])

Pop(s) ==
    /\ TakesKeys(s) /\ view[s].detail # NoTarget
    /\ Turn(s, [view[s] EXCEPT !.detail = NoTarget])

-----------------------------------------------------------------------------
Begins(w) ==
    /\ alone' = IF \A v \in Workers : pc[v] = "idle" THEN {w} ELSE {}
    /\ UNCHANGED cut

\* A step of w may cut short what w was doing to the directory; a directory that is
\* made, or is gone, carries no traces of it.
Busy(w) == pc[w] \in {"initing", "head", "rm"}
Marks(ts) == cut' = {t \in cut \cup ts : disk'[t] \in {"broken", "nohead"}}
StepMarks(w) ==
    /\ Marks({at[v] : v \in {v \in {w} : Busy(v) /\ result'[v] \in {"error", "warned"}}})
    /\ UNCHANGED alone

AskCreate(s) ==
    /\ InMode(s, "list") /\ view[s].user # NoUser
    /\ Turn(s, [view[s] EXCEPT !.mode = "create"])

\* Enter with a valid name; what follows are steps of RepoLifecycle.
Create(s) ==
    /\ InMode(s, "create") /\ Begins(s)
    /\ LET u == view[s].user IN
       \E t \in Targets : t[1] = u.username /\ Request(s, "create", u, t)
    /\ Show(s, Back(view[s]))

\* The repository under the cursor, if the session may delete it and toggle it.
OwnSelected(s) == {t \in selected(view[s]) : owns(view[s], t)}

\* The dialogs remember the names, not the row.
DeleteAsked(v, t) == [v EXCEPT !.mode = "confirm_delete", !.pending = t]
ToggleAsked(v, t) ==
    [v EXCEPT !.mode = "confirm_toggle", !.pending = t, !.visibility = ~v.items[t]]

\* Mutant: whatever is listed can be deleted.
BugAskDelete(s) ==
    /\ InMode(s, "list")
    /\ \E t \in selected(view[s]) : Turn(s, DeleteAsked(view[s], t))

AskDelete(s) ==
    /\ InMode(s, "list")
    /\ \E t \in OwnSelected(s) : Turn(s, DeleteAsked(view[s], t))

AskToggle(s) ==
    /\ InMode(s, "list")
    /\ \E t \in OwnSelected(s) : Turn(s, ToggleAsked(view[s], t))

ConfirmDelete(s) ==
    /\ InMode(s, "confirm_delete") /\ Begins(s)
    /\ Request(s, "delete", view[s].user, view[s].pending)
    /\ Show(s, Back(view[s]))

\* The repository may be gone by now, or another one; set_public may fail.
ConfirmToggle(s) ==
    /\ InMode(s, "confirm_toggle")
    /\ LET t == view[s].pending IN
         \/ set_public(t[1], t[2], view[s].visibility)
         \/ (RowOf(t) = {} \/ Failures) /\ UNCHANGED storeVars
    /\ Become(s, [Back(view[s]) EXCEPT !.mode = "load"])
    /\ UNCHANGED <<diskVars, workerVars, historyVars>>

\* Esc, n, or an invalid name.
Cancel(s) ==
    /\ \E m \in {"create", "confirm_delete", "confirm_toggle"} : InMode(s, m)
    /\ Turn(s, Back(view[s]))

\* Mutant: after a failure the list is left as it is.
BugReturned(s) ==
    /\ view[s] # Closed /\ Reply(s)
    /\ IF result[s] = "error" THEN UNCHANGED view ELSE Loads(s)

\* The request is through, well or not: load().
Returned(s) == view[s] # Closed /\ Reply(s) /\ Loads(s)

-----------------------------------------------------------------------------
PaneInit == Init /\ view = [s \in Sessions |-> Closed] /\ alone = {} /\ cut = {}

KeyPress(s) ==
    \/ Close(s) \/ SwitchTab(s) \/ Navigate(s) \/ OpenRepo(s) \/ Pop(s)
    \/ AskCreate(s) \/ Create(s) \/ AskDelete(s) \/ ConfirmDelete(s)
    \/ AskToggle(s) \/ ConfirmToggle(s) \/ Cancel(s)

PaneNext ==
    \/ \E s \in Sessions :
         \/ Open(s) \/ Load(s) \/ KeyPress(s)
         \/ Returned(s) /\ UNCHANGED historyVars
         \/ pc[s] # "reply" /\ Step(s) /\ Become(s, view[s]) /\ StepMarks(s)
    \/ \E w \in Workers \ Sessions :
         \/ /\ Begins(w)
            /\ Arrive(w, Ops)
            /\ UNCHANGED view
         \/ Step(w) /\ WatchAll /\ StepMarks(w)
    \/ /\ Crash /\ view' = [s \in Sessions |-> Closed] /\ alone' = {}
       /\ Marks({at[w] : w \in {v \in Workers : Busy(v)}})
    \/ OtherChanges /\ WatchAll /\ UNCHANGED historyVars

PaneSpec == PaneInit /\ [][PaneNext]_paneVars

-----------------------------------------------------------------------------
\* Reading one's own writes: whatever a session did, and however that went, it
\* lists what the store holds until somebody else changes it
\* (the load() at the end of every path of repos.rs:161-256).
FreshListing ==
    \A s \in Sessions :
        TakesKeys(s) /\ view[s].fresh => view[s].items = ListingOf(view[s].user)

\* Whatever came before, requests that ran beside one another in any order included:
\* a push that runs by itself starts git receive-pack with a row and a whole
\* repository whose HEAD is master, unless the directory is one that an error or a
\* crash left unfinished, in which case path.exists() at git.rs:6 takes it for a
\* repository all the same (server.rs:154-155, git.rs:5-48, 64-70).
PushHasBothHalves ==
    \A w \in alone : pc[w] \in {"spawn", "serve"} /\ op[w] = "push" =>
        RowOf(at[w]) # {} /\ (disk[at[w]] = "ready" \/ at[w] \in cut)

\* The toast "deleted" of a deletion that runs by itself is the truth, on both
\* halves (repos.rs:216-224, git.rs:64-70).
DeletedIsGone ==
    \A w \in alone : result[w] = "deleted" =>
        RowOf(at[w]) = {} /\ disk[at[w]] = "absent"

\* A repository's row goes only at the hands of its owner, administrators
\* included, although an administrator's pane lists everybody's repositories
\* and listings grow old (repos.rs:92-95, 128-141, 210-234).
OnlyOwnersDelete ==
    [][\A t \in Targets : RowOf(t) # {} /\ RowOf(t)' = {} =>
         \E w \in Workers : at[w] = t /\ who[w] # NoUser /\ who[w].username = t[1]]_paneVars
=============================================================================
