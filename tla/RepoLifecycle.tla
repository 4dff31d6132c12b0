--------------------------- MODULE RepoLifecycle ---------------------------
(***************************************************************************)
(* How a repository comes and goes.  It has two halves that nothing ties   *)
(* together: the row in the store and the bare directory on disk.  Git     *)
(* commands (server.rs handle_git) make the directory and then the row;    *)
(* the TUI (repos.rs) makes the row and then the directory, and deletes in *)
(* that order.  Every connection runs its requests one after the other,    *)
(* different connections run at the same time, and the process may crash   *)
(* between any two steps.                                                  *)
(*                                                                         *)
(* The access decision is one step here; AccessCheck takes it apart.       *)
(***************************************************************************)
EXTENDS Auth

CONSTANTS
    Workers,     \* connections
    Targets,     \* the <<owner, name>> pairs requests are about
    Ops,         \* the kinds of request: a subset of AllOps
    Failures,    \* may SQLite, git init, symbolic-ref and remove_dir_all fail?
    Crashes      \* may the server process die?

AllOps == {"clone", "push", "create", "delete"}

ASSUME LifecycleAssumption ==
    /\ Targets \subseteq Usernames \X RepoNames
    /\ Ops \subseteq AllOps
    /\ Failures \in BOOLEAN /\ Crashes \in BOOLEAN

VARIABLES
    disk,    \* the directory of each target
    data,    \* the rows under which the directory's commits were pushed
    pc,      \* where each connection's handler is
    op, who, at,   \* its request: kind, user and target
    rid,     \* the row id ensure_repo returned to it (0: none)
    result   \* how its last request ended

workerVars == <<pc, op, who, at, rid, result>>
diskVars == <<disk, data>>
vars == <<storeVars, diskVars, workerVars>>

(***************************************************************************)
(* "absent"  no such path                                                  *)
(* "broken"  the path exists but git does not take it for a repository:    *)
(*           git init has begun, or remove_dir_all has                     *)
(* "nohead"  git init is through, HEAD is git's own default branch         *)
(* "ready"   HEAD is refs/heads/master                                     *)
(***************************************************************************)
NoTarget == <<>>

DiskStates == {"absent", "broken", "nohead", "ready"}
Usable == {"nohead", "ready"}

TypeOK ==
    /\ StoreTypeOK
    /\ disk \in [Targets -> DiskStates]
    /\ data \in [Targets -> SUBSET RepoIds]
    /\ pc \in [Workers -> {"idle", "access", "exists_rw", "exists_ro", "path", "init",
                           "initing", "head", "insert", "select", "spawn", "serve",
                           "drop_row", "drop_dir", "rm", "reply"}]
    /\ op \in [Workers -> AllOps \cup {"none"}]
    /\ who \in [Workers -> User \cup {NoUser}]
    /\ at \in [Workers -> Targets \cup {NoTarget}]
    /\ rid \in [Workers -> {0} \cup RepoIds]
    /\ result \in [Workers -> {"none", "served", "error", "created", "deleted", "warned"}]

-----------------------------------------------------------------------------
Goto(w, l) == pc' = [pc EXCEPT ![w] = l]
Same == UNCHANGED <<op, who, at>>

Continue(w, l) == Goto(w, l) /\ Same /\ UNCHANGED <<rid, result>>

\* The handler is through: res is what the user is about to be told.
Return(w, res) ==
    /\ Goto(w, "reply")
    /\ result' = [result EXCEPT ![w] = res]
    /\ UNCHANGED rid
    /\ Same

SetDisk(w, d) == disk' = [disk EXCEPT ![at[w]] = d]

RowOf(t) == get_repo(t[1], t[2])
OwnerIn(t) == user_by_username(t[1])
MayDo(w) == AllowedIn(users, repos, repo_perms, who[w], at[w])

\* A request arrives.
Request(w, o, u, t) ==
    /\ pc[w] = "idle"
    /\ op' = [op EXCEPT ![w] = o]
    /\ who' = [who EXCEPT ![w] = u]
    /\ at' = [at EXCEPT ![w] = t]
    /\ Goto(w, CASE o = "create" -> "insert"
                 [] o = "delete" -> "drop_row"
                 [] OTHER -> "access")
    /\ UNCHANGED <<storeVars, diskVars, rid, result>>

\* The TUI creates and deletes in the user's own namespace only (ReposPane
\* takes it apart); the deleted repository is the one that was selected when
\* the dialog opened and need not exist any more.
Start(w, o, u, t) ==
    /\ o \in {"create", "delete"} => u # NoUser /\ u.username = t[1]
    /\ Request(w, o, u, t)

\* The answer is sent (exit status, toast) and the request's locals are gone.
Reply(w) ==
    /\ pc[w] = "reply"
    /\ Goto(w, "idle")
    /\ op' = [op EXCEPT ![w] = "none"]
    /\ who' = [who EXCEPT ![w] = NoUser]
    /\ at' = [at EXCEPT ![w] = NoTarget]
    /\ rid' = [rid EXCEPT ![w] = 0]
    /\ result' = [result EXCEPT ![w] = "none"]
    /\ UNCHANGED <<storeVars, diskVars>>

\* Mutant: every signed-in user may push.
BugRefusedAnonymous(w) ==
    \/ MayDo(w) = None /\ (op[w] = "clone" \/ who[w] = NoUser)
    \/ op[w] = "push" /\ OwnerIn(at[w]) = {}

\* Mutant: an administrator's push is not asked whether the namespace exists.
BugRefused(w) ==
    \/ MayDo(w) = None
    \/ op[w] = "push" /\ MayDo(w) # ReadWrite

\* A clone needs some access; a push needs write access and a known namespace.
Refused(w) ==
    \/ MayDo(w) = None
    \/ op[w] = "push" /\ (MayDo(w) # ReadWrite \/ OwnerIn(at[w]) = {})

CheckAccess(w) ==
    /\ pc[w] = "access"
    /\ \/ /\ Refused(w) \/ Failures
          /\ Return(w, "error")
       \/ /\ ~Refused(w)
          /\ Continue(w, CASE op[w] = "push" -> "path"
                           [] op[w] # "push" /\ MayDo(w) = ReadWrite -> "exists_rw"
                           [] OTHER -> "exists_ro")
    /\ UNCHANGED <<storeVars, diskVars>>

\* A clone of a path that exists goes straight to git, row or no row.
CheckExists(w) ==
    /\ pc[w] \in {"exists_rw", "exists_ro"}
    /\ \/ disk[at[w]] # "absent" /\ Continue(w, "spawn")
       \/ /\ disk[at[w]] = "absent"
          /\ pc[w] = "exists_ro" \/ OwnerIn(at[w]) = {} \/ Failures
          /\ Return(w, "error")
       \/ /\ disk[at[w]] = "absent"
          /\ pc[w] = "exists_rw" /\ OwnerIn(at[w]) # {}
          /\ Continue(w, "path")
    /\ UNCHANGED <<storeVars, diskVars>>

-----------------------------------------------------------------------------
\* git::ensure_bare.  Git commands go on to ensure_repo; the TUI is done.
AfterBare(w) ==
    IF op[w] = "create" THEN Return(w, "created") ELSE Continue(w, "insert")

BarePath(w) ==
    /\ pc[w] = "path"
    /\ IF disk[at[w]] # "absent" THEN AfterBare(w) ELSE Continue(w, "init")
    /\ UNCHANGED <<storeVars, diskVars>>

\* git init --bare makes the directory, unless the parent cannot be made or git
\* cannot be run ...
InitStart(w) ==
    /\ pc[w] = "init"
    /\ \/ /\ SetDisk(w, IF disk[at[w]] = "absent" THEN "broken" ELSE disk[at[w]])
          /\ Continue(w, "initing")
       \/ Failures /\ UNCHANGED disk /\ Return(w, "error")
    /\ UNCHANGED <<storeVars, data>>

\* ... and fills it; on a repository that is there already it changes nothing.
InitEnd(w) ==
    /\ pc[w] = "initing"
    /\ \/ /\ disk[at[w]] # "absent"
          /\ SetDisk(w, IF disk[at[w]] = "broken" THEN "nohead" ELSE disk[at[w]])
          /\ Continue(w, "head")
       \/ /\ disk[at[w]] = "absent" \/ Failures
          /\ UNCHANGED disk
          /\ Return(w, "error")
    /\ UNCHANGED <<storeVars, data>>

\* Mutant: the default branch is left to git.
BugSetHead(w) ==
    /\ pc[w] = "head"
    /\ AfterBare(w)
    /\ UNCHANGED <<storeVars, diskVars>>

\* git symbolic-ref HEAD refs/heads/master.
SetHead(w) ==
    /\ pc[w] = "head"
    /\ \/ /\ disk[at[w]] \in Usable
          /\ SetDisk(w, "ready")
          /\ AfterBare(w)
       \/ /\ disk[at[w]] \notin Usable \/ Failures
          /\ UNCHANGED disk
          /\ Return(w, "error")
    /\ UNCHANGED <<storeVars, data>>

-----------------------------------------------------------------------------
\* Store::ensure_repo: the INSERT OR IGNORE, then, the mutex taken anew, the
\* SELECT, which finds nothing when the row was deleted in between.
InsertRow(w) ==
    /\ pc[w] = "insert"
    /\ \/ /\ \E o \in OwnerIn(at[w]) : insert_repo(o.id, at[w][2])
          /\ Continue(w, "select")
       \/ Failures /\ UNCHANGED storeVars /\ Return(w, "error")
    /\ UNCHANGED diskVars

SelectRow(w) ==
    /\ pc[w] = "select"
    /\ \/ \E o \in OwnerIn(at[w]) : \E r \in repo_by_owner_and_name(o.id, at[w][2]) :
            /\ rid' = [rid EXCEPT ![w] = r.id]
            /\ Goto(w, IF op[w] = "create" THEN "path" ELSE "spawn")
            /\ Same /\ UNCHANGED result
       \/ /\ RowOf(at[w]) = {} \/ Failures
          /\ Return(w, "error")
    /\ UNCHANGED <<storeVars, diskVars>>

-----------------------------------------------------------------------------
\* git upload-pack or receive-pack starts in the directory, or exits with 128.
Spawn(w) ==
    /\ pc[w] = "spawn"
    /\ \/ disk[at[w]] \in Usable /\ Continue(w, "serve")
       \/ disk[at[w]] \notin Usable /\ Return(w, "error")
    /\ UNCHANGED <<storeVars, diskVars>>

\* It ends; a push has updated refs, unless the directory is gone by then.
Served(w) ==
    /\ pc[w] = "serve"
    /\ data' = [data EXCEPT ![at[w]] =
         IF op[w] = "push" /\ disk[at[w]] \in Usable THEN @ \cup {rid[w]} ELSE @]
    /\ Return(w, IF disk[at[w]] \in Usable THEN "served" ELSE "error")
    /\ UNCHANGED <<storeVars, disk>>

-----------------------------------------------------------------------------
\* ReposPane::update_confirm_delete: the row first, then git::delete.
DropRow(w) ==
    /\ pc[w] = "drop_row"
    /\ \/ delete_repo(at[w][1], at[w][2]) /\ Continue(w, "drop_dir")
       \/ /\ RowOf(at[w]) = {} \/ Failures
          /\ Return(w, "error") /\ UNCHANGED storeVars
    /\ UNCHANGED diskVars

DropDir(w) ==
    /\ pc[w] = "drop_dir"
    /\ \/ /\ disk[at[w]] = "absent"
          /\ Return(w, "deleted")
          /\ UNCHANGED diskVars
       \/ /\ disk[at[w]] # "absent"
          /\ SetDisk(w, "broken")
          /\ data' = [data EXCEPT ![at[w]] = {}]
          /\ Continue(w, "rm")
       \/ /\ disk[at[w]] # "absent" /\ Failures
          /\ Return(w, "warned")
          /\ UNCHANGED diskVars
    /\ UNCHANGED storeVars

\* Mutant: the error of remove_dir_all is not looked at.
BugRemoved(w, ok) == "deleted"

\* What the toast says.
Removed(w, ok) == IF ok THEN "deleted" ELSE "warned"

\* remove_dir_all ends; it fails when something is put back behind it.
RmEnd(w) ==
    /\ pc[w] = "rm"
    /\ \/ /\ SetDisk(w, "absent")
          /\ data' = [data EXCEPT ![at[w]] = {}]
          /\ Return(w, Removed(w, TRUE))
       \/ /\ Failures \/ disk[at[w]] \in Usable
          /\ UNCHANGED diskVars
          /\ Return(w, Removed(w, FALSE))
    /\ UNCHANGED storeVars

-----------------------------------------------------------------------------
\* The process dies; a git init it had started may still run to its end.
Crash ==
    /\ Crashes
    /\ \E w \in Workers : pc[w] # "idle"
    /\ \E done \in SUBSET {at[w] : w \in {v \in Workers : pc[v] = "initing"}} :
         disk' = [t \in Targets |->
                    IF t \in done /\ disk[t] = "broken" THEN "nohead" ELSE disk[t]]
    /\ pc' = [w \in Workers |-> "idle"]
    /\ op' = [w \in Workers |-> "none"]
    /\ who' = [w \in Workers |-> NoUser]
    /\ at' = [w \in Workers |-> NoTarget]
    /\ rid' = [w \in Workers |-> 0]
    /\ result' = [w \in Workers |-> "none"]
    /\ UNCHANGED <<storeVars, data>>

\* Someone who is neither administrator nor owner is granted write access, or
\* the visibility changes.
OtherChanges ==
    /\ \/ \E u \in users, r \in repos :
            ~u.is_admin /\ u.id # r.owner_id /\ grant_write(u.id, r.id)
       \/ \E t \in Targets, p \in BOOLEAN : set_public(t[1], t[2], p)
    /\ UNCHANGED <<diskVars, workerVars>>

Init ==
    /\ StoreInit
    /\ disk = [t \in Targets |-> "absent"]
    /\ data = [t \in Targets |-> {}]
    /\ pc = [w \in Workers |-> "idle"]
    /\ op = [w \in Workers |-> "none"]
    /\ who = [w \in Workers |-> NoUser]
    /\ at = [w \in Workers |-> NoTarget]
    /\ rid = [w \in Workers |-> 0]
    /\ result = [w \in Workers |-> "none"]

\* One step of a request that is under way: a git command or a creation, ...
Serve(w) ==
    \/ CheckAccess(w)
    \/ CheckExists(w)
    \/ BarePath(w)
    \/ InitStart(w)
    \/ InitEnd(w)
    \/ SetHead(w)
    \/ InsertRow(w)
    \/ SelectRow(w)
    \/ Spawn(w)
    \/ Served(w)
    \/ Reply(w)

\* ... or a deletion.
Remove(w) == DropRow(w) \/ DropDir(w) \/ RmEnd(w)

Step(w) == Serve(w) \/ Remove(w)

Arrive(w, ops) ==
    \E o \in ops, u \in users \cup {NoUser}, t \in Targets : Start(w, o, u, t)

Next ==
    \/ \E w \in Workers : Arrive(w, Ops) \/ Step(w)
    \/ Crash
    \/ OtherChanges

Spec == Init /\ [][Next]_vars

\* The behaviours in which nobody deletes and the process does not die.
CalmNext ==
    \/ \E w \in Workers : Arrive(w, Ops \ {"delete"}) \/ Serve(w)
    \/ OtherChanges

CalmSpec == Init /\ [][CalmNext]_vars

\* A handler that has begun goes on: the tokio task runs and git ends.
FairSpec == CalmSpec /\ \A w \in Workers : WF_vars(Serve(w))

-----------------------------------------------------------------------------
Quiet(t) == \A w \in Workers : pc[w] # "idle" => at[w] # t

\* While nothing is deleted and nothing fails, a repository no request is
\* busy with is whole: its row is there exactly when its directory is, and the
\* directory is a repository whose HEAD is master -- although git commands
\* make the directory first, the TUI makes the row first and both skip what is
\* there already (server.rs:99-156, repos.rs:176-189, git.rs:5-48).
WholeWhenQuiet ==
    \A t \in Targets : Quiet(t) =>
        \/ disk[t] = "absent" /\ RowOf(t) = {}
        \/ disk[t] = "ready" /\ RowOf(t) # {}

\* A repository's row comes into being only at the hands of its owner or of an
\* administrator: collaborators with a grant, and readers, never create one
\* (auth.rs:37-59 with server.rs:99-156; while nothing is deleted).
OnlyOwnersCreate ==
    [][\A t \in Targets : RowOf(t) = {} /\ RowOf(t)' # {} =>
         \E w \in Workers : at[w] = t /\ Privileged(who[w], t[1])]_vars

\* No directory appears under a name that is nobody's namespace, whoever asks
\* (the "unknown namespace" lookups of server.rs:109-129 and 143-153).
NamespacesAreUsers ==
    \A t \in Targets : disk[t] # "absent" => OwnerIn(t) # {}

\* An owner's or administrator's push to a known namespace ends up with a row
\* and a usable directory, whatever requests run beside it (ROADMAP.md:37).
PushCreates ==
    \A w \in Workers, t \in Targets :
        (pc[w] = "access" /\ op[w] = "push" /\ at[w] = t
            /\ Privileged(who[w], t[1]) /\ OwnerIn(t) # {})
        ~> (RowOf(t) # {} /\ disk[t] = "ready")

\* What ROADMAP.md:37 says of a push by an owner or administrator: it creates
\* the repository, so git never starts in a directory that is none.
PushFindsRepository ==
    \A w \in Workers : pc[w] = "spawn" /\ op[w] = "push" => disk[at[w]] \in Usable

\* What the delete dialog says, "Removes the bare repo on disk. Cannot be
\* undone." (repos.rs:305): a repository never holds the commits of a deleted one.
DeletedStaysDeleted ==
    \A t \in Targets : \A r \in RowOf(t) : data[t] \subseteq {r.id}
=============================================================================
