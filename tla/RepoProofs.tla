----------------------------- MODULE RepoProofs ------------------------------
(***************************************************************************)
(* For any number of connections, users and repositories: no directory     *)
(* appears outside a user's namespace, whatever fails or crashes; and      *)
(* while nobody deletes and nothing fails, a repository that no request is *)
(* busy with has both its halves or none, and only its owner or an         *)
(* administrator brings it into being.                                     *)
(*                                                                         *)
(* And for any number of sessions: the repository pane implements          *)
(* RepoLifecycle: whatever its sessions do, with listings and dialogs of   *)
(* any age, they start the requests that RepoLifecycle allows and no       *)
(* others.  So what is proved there holds of the pane; only its owner ever *)
(* deletes a repository; a session lists what the store holds after        *)
(* whatever it did itself; and a request that runs by itself finds, or     *)
(* leaves, both halves as it says.                                         *)
(***************************************************************************)
EXTENDS ReposPane, StoreProofs, FiniteSetTheorems

Points == {"idle", "access", "exists_rw", "exists_ro", "path", "init", "initing", "head",
           "insert", "select", "spawn", "serve", "drop_row", "drop_dir", "rm", "reply"}
Results == {"none", "served", "error", "created", "deleted", "warned"}

\* Where a request is about to make a directory or a row.
Making == {"path", "init", "initing", "head", "insert", "select"}

\* What the earlier steps of a request have seen to.
RequestSound(w) ==
    /\ pc[w] # "idle" => at[w] \in Targets /\ op[w] \in AllOps
    /\ pc[w] \in Making => OwnerIn(at[w]) # {}
    /\ pc[w] \in {"exists_rw", "exists_ro"} => op[w] = "clone"
    /\ pc[w] \in {"spawn", "serve"} /\ op[w] = "push" => rid[w] \in RepoIds
    /\ pc[w] = "access" => op[w] \in {"clone", "push"}
    /\ pc[w] = "drop_row" => who[w] # NoUser /\ who[w].username = at[w][1]

Inv ==
    /\ StoreInv /\ TypeOK /\ NamespacesAreUsers
    /\ \A w \in Workers : RequestSound(w)

-----------------------------------------------------------------------------
\* A handler's step moves its own connection on and leaves the others.
MovesTo(w, l) ==
    /\ pc' = [pc EXCEPT ![w] = l]
    /\ UNCHANGED <<op, who, at>>
    /\ rid' \in [Workers -> {0} \cup RepoIds]
    /\ \A v \in Workers \ {w} : rid'[v] = rid[v]
    /\ result' \in [Workers -> Results]

LEMMA Moved ==
  ASSUME Inv, NEW w \in Workers, NEW l \in Points, MovesTo(w, l), pc[w] # "idle",
         StoreInv', users' = users,
         disk' \in [Targets -> DiskStates], data' \in [Targets -> SUBSET RepoIds],
         \A t \in Targets : disk'[t] = disk[t] \/ (t = at[w] /\ OwnerIn(t) # {}),
         l \in Making => OwnerIn(at[w]) # {},
         l \in {"spawn", "serve"} /\ op[w] = "push" => rid'[w] \in RepoIds,
         l \in {"exists_rw", "exists_ro"} => op[w] = "clone",
         l \notin {"access", "drop_row"}
  PROVE  Inv'
<1>1. TypeOK'
  BY DEF Inv, TypeOK, StoreInv, MovesTo, Points, Results
<1>2. NamespacesAreUsers'
  BY DEF Inv, NamespacesAreUsers, OwnerIn, user_by_username
<1>3. ASSUME NEW v \in Workers PROVE RequestSound(v)'
  BY DEF Inv, TypeOK, MovesTo, RequestSound, OwnerIn, user_by_username
<1> QED
  BY <1>1, <1>2, <1>3 DEF Inv

\* Continue and Return, with a disk that changes as Moved asks for.
LEMMA WentOn ==
  ASSUME Inv, NEW w \in Workers, NEW l \in Points,
         Continue(w, l) \/ (l = "reply" /\ \E r \in Results : Return(w, r))
  PROVE  MovesTo(w, l) /\ UNCHANGED rid
BY DEF Continue, Return, Goto, Same, MovesTo, Inv, TypeOK, Results

\* Most steps touch neither the store nor the disk.
LEMMA OnlyMoved ==
  ASSUME Inv, NEW w \in Workers, NEW l \in Points, pc[w] # "idle",
         UNCHANGED <<storeVars, diskVars>>,
         Continue(w, l) \/ (l = "reply" /\ \E r \in Results : Return(w, r)),
         l \in Making => OwnerIn(at[w]) # {},
         l \in {"spawn", "serve"} /\ op[w] = "push" => rid[w] \in RepoIds,
         l \in {"exists_rw", "exists_ro"} => op[w] = "clone",
         l \notin {"access", "drop_row"}
  PROVE  Inv'
<1>1. StoreInv' /\ users' = users
  BY StoreNextInv DEF Inv, storeVars, userTable
<1>2. disk' = disk /\ data' = data
  BY DEF diskVars
<1>3. MovesTo(w, l) /\ rid' = rid
  BY WentOn
<1> QED
  BY <1>1, <1>2, <1>3, Moved DEF Inv, TypeOK

\* Steps that change the directory of their own target leave the store alone.
LEMMA MovedOnDisk ==
  ASSUME Inv, NEW w \in Workers, NEW l \in Points, pc[w] # "idle",
         UNCHANGED storeVars, NEW d \in DiskStates, SetDisk(w, d),
         data' \in [Targets -> SUBSET RepoIds],
         d = disk[at[w]] \/ OwnerIn(at[w]) # {},
         Continue(w, l) \/ (l = "reply" /\ \E r \in Results : Return(w, r)),
         l \in Making => OwnerIn(at[w]) # {},
         l \notin {"spawn", "serve", "exists_rw", "exists_ro", "access", "drop_row"}
  PROVE  Inv'
<1>1. StoreInv' /\ users' = users
  BY StoreNextInv DEF Inv, storeVars, userTable
<1>2. at[w] \in Targets
  BY DEF Inv, RequestSound
<1>3. /\ disk' \in [Targets -> DiskStates]
      /\ \A t \in Targets : disk'[t] = disk[t] \/ (t = at[w] /\ OwnerIn(t) # {})
  BY <1>2 DEF SetDisk, Inv, TypeOK
<1>4. MovesTo(w, l)
  BY WentOn
<1> QED
  BY <1>1, <1>3, <1>4, Moved

-----------------------------------------------------------------------------
LEMMA StartInv ==
  ASSUME Inv, NEW w \in Workers, NEW o \in AllOps, NEW u \in users \cup {NoUser},
         NEW t \in Targets, Start(w, o, u, t)
  PROVE  Inv'
<1> DEFINE l == CASE o = "create" -> "insert" [] o = "delete" -> "drop_row" [] OTHER -> "access"
<1>1. StoreInv' /\ users' = users /\ disk' = disk
  BY StoreNextInv DEF Inv, Start, Request, storeVars, userTable, diskVars
<1>2. /\ pc' = [pc EXCEPT ![w] = l] /\ l \in Points
      /\ op' = [op EXCEPT ![w] = o] /\ who' = [who EXCEPT ![w] = u]
      /\ at' = [at EXCEPT ![w] = t]
      /\ UNCHANGED <<rid, result, data>>
  BY DEF Start, Request, Goto, Points, diskVars
<1>3. u \in User \cup {NoUser}
  BY DEF Inv, TypeOK, StoreTypeOK
<1>4. TypeOK'
  BY <1>1, <1>2, <1>3 DEF Inv, TypeOK, StoreInv, Points, AllOps
<1>5. NamespacesAreUsers'
  BY <1>1 DEF Inv, NamespacesAreUsers, OwnerIn, user_by_username
<1>6. RequestSound(w)'
  <2>1. o = "create" => OwnerIn(t) # {}
    BY DEF Start, OwnerIn, user_by_username
  <2>2. /\ l = "insert" => o = "create"
        /\ l = "drop_row" => o = "delete"
        /\ l = "access" => o \in {"clone", "push"}
        /\ l \in {"insert", "drop_row", "access"}
    BY DEF AllOps
  <2>3. o = "delete" => u # NoUser /\ u.username = t[1]
    BY DEF Start
  <2>4. pc'[w] = l /\ op'[w] = o /\ who'[w] = u /\ at'[w] = t
    BY <1>2 DEF Inv, TypeOK
  <2> HIDE DEF l
  <2> QED
    BY <1>1, <2>1, <2>2, <2>3, <2>4 DEF RequestSound, Making, OwnerIn, user_by_username
<1>7. ASSUME NEW v \in Workers \ {w} PROVE RequestSound(v)'
  BY <1>1, <1>2 DEF Inv, TypeOK, RequestSound, OwnerIn, user_by_username
<1> QED
  BY <1>1, <1>4, <1>5, <1>6, <1>7 DEF Inv

LEMMA ReplyInv ==
  ASSUME Inv, NEW w \in Workers, Reply(w)
  PROVE  Inv'
<1>1. StoreInv' /\ users' = users /\ disk' = disk /\ data' = data
  BY StoreNextInv DEF Inv, Reply, storeVars, userTable, diskVars
<1>2. TypeOK'
  BY <1>1 DEF Inv, TypeOK, StoreInv, Reply, Goto
<1>3. ASSUME NEW v \in Workers PROVE RequestSound(v)'
  BY <1>1 DEF Inv, TypeOK, RequestSound, Reply, Goto, Making, OwnerIn, user_by_username
<1> QED
  BY <1>1, <1>2, <1>3 DEF Inv, NamespacesAreUsers, OwnerIn, user_by_username

\* The access decisions: whoever goes on has a known namespace.
LEMMA CheckInv ==
  ASSUME Inv, NEW w \in Workers, CheckAccess(w) \/ CheckExists(w)
  PROVE  Inv'
<1> USE DEF Points, Results, Making
<1>1. CASE CheckAccess(w)
  <2>1. UNCHANGED <<storeVars, diskVars>> /\ pc[w] # "idle"
    BY <1>1 DEF CheckAccess
  <2>2. CASE Return(w, "error")
    BY <2>1, <2>2, OnlyMoved
  <2>3. CASE ~Refused(w) /\ op[w] = "push" /\ Continue(w, "path")
    BY <2>1, <2>3, OnlyMoved DEF Refused
  <2>4. CASE op[w] # "push" /\ (Continue(w, "exists_rw") \/ Continue(w, "exists_ro"))
    <3>1. op[w] = "clone"
      BY <1>1, <2>4 DEF CheckAccess, Inv, RequestSound
    <3> QED
      BY <2>1, <2>4, <3>1, OnlyMoved
  <2>6. CASE ~Refused(w) /\ op[w] = "push" /\ ~Return(w, "error")
    <3>1. Continue(w, "path")
      BY <1>1, <2>6 DEF CheckAccess, Continue, Goto
    <3> QED
      BY <2>3, <2>6, <3>1
  <2>7. CASE ~Refused(w) /\ op[w] # "push" /\ MayDo(w) = ReadWrite /\ ~Return(w, "error")
    <3>1. Continue(w, "exists_rw")
      BY <1>1, <2>7 DEF CheckAccess, Continue, Goto
    <3> QED
      BY <2>4, <2>7, <3>1
  <2>8. CASE ~Refused(w) /\ op[w] # "push" /\ MayDo(w) # ReadWrite /\ ~Return(w, "error")
    <3>1. Continue(w, "exists_ro")
      BY <1>1, <2>8 DEF CheckAccess, Continue, Goto
    <3> QED
      BY <2>4, <2>8, <3>1
  <2> QED
    BY <1>1, <2>2, <2>6, <2>7, <2>8 DEF CheckAccess
<1>2. CASE CheckExists(w)
  <2>1. UNCHANGED <<storeVars, diskVars>> /\ pc[w] # "idle"
    BY <1>2 DEF CheckExists
  <2>2. CASE Return(w, "error")
    BY <2>1, <2>2, OnlyMoved
  <2>3. CASE OwnerIn(at[w]) # {} /\ Continue(w, "path")
    BY <2>1, <2>3, OnlyMoved
  <2>4. CASE Continue(w, "spawn")
    <3>1. op[w] = "clone"
      BY <1>2 DEF CheckExists, Inv, RequestSound
    <3> QED
      BY <2>1, <2>4, <3>1, OnlyMoved
  <2> QED
    BY <1>2, <2>2, <2>3, <2>4 DEF CheckExists
<1> QED
  BY <1>1, <1>2

\* ensure_bare: it has a known namespace, and makes nothing outside it.
LEMMA BareInv ==
  ASSUME Inv, NEW w \in Workers, BarePath(w) \/ InitStart(w) \/ InitEnd(w) \/ SetHead(w)
  PROVE  Inv'
<1> USE DEF Points, Results, Making
<1>1. pc[w] \in Making
  BY DEF BarePath, InitStart, InitEnd, SetHead
<1>2. /\ at[w] \in Targets /\ OwnerIn(at[w]) # {}
      /\ disk[at[w]] \in DiskStates /\ data \in [Targets -> SUBSET RepoIds]
  BY <1>1 DEF Inv, RequestSound, TypeOK
<1>3. CASE UNCHANGED disk
  <2>1. UNCHANGED <<storeVars, diskVars>>
    BY <1>3 DEF BarePath, InitStart, InitEnd, SetHead, diskVars
  <2>2. PICK l \in {"reply", "init", "initing", "head", "insert"} :
          Continue(w, l) \/ (l = "reply" /\ \E r \in Results : Return(w, r))
    BY DEF BarePath, InitStart, InitEnd, SetHead, AfterBare
  <2> QED
    BY <1>1, <1>2, <2>1, <2>2, OnlyMoved
<1>4. ASSUME NEW d \in DiskStates, SetDisk(w, d), UNCHANGED <<storeVars, data>>
      PROVE  Inv'
  <2>1. PICK l \in {"reply", "init", "initing", "head", "insert"} :
          Continue(w, l) \/ (l = "reply" /\ \E r \in Results : Return(w, r))
    BY DEF BarePath, InitStart, InitEnd, SetHead, AfterBare
  <2> QED
    BY <1>1, <1>2, <1>4, <2>1, MovedOnDisk
<1>5. UNCHANGED disk \/ \E d \in DiskStates : SetDisk(w, d) /\ UNCHANGED <<storeVars, data>>
  BY <1>2 DEF BarePath, InitStart, InitEnd, SetHead, DiskStates, diskVars
<1> QED
  BY <1>3, <1>4, <1>5

\* ensure_repo.
LEMMA RowInv ==
  ASSUME Inv, NEW w \in Workers, InsertRow(w) \/ SelectRow(w)
  PROVE  Inv'
<1> USE DEF Points, Results, Making
<1>1. pc[w] \in {"insert", "select"} /\ UNCHANGED diskVars
  BY DEF InsertRow, SelectRow
<1>2. at[w] \in Targets /\ OwnerIn(at[w]) # {} /\ disk' = disk /\ data' = data
  BY <1>1 DEF Inv, RequestSound, diskVars
<1>3. CASE InsertRow(w)
  <2>0. CASE UNCHANGED storeVars /\ Return(w, "error")
    BY <1>1, <2>0, OnlyMoved
  <2> SUFFICES ASSUME ~(UNCHANGED storeVars /\ Return(w, "error")) PROVE Inv'
    BY <2>0
  <2>1. PICK o \in OwnerIn(at[w]) : insert_repo(o.id, at[w][2])
    BY <1>3 DEF InsertRow
  <2>2. o.id \in UserIds /\ at[w][2] \in RepoNames
    BY <1>2, LifecycleAssumption DEF OwnerIn, user_by_username, Inv, TypeOK, StoreTypeOK, User
  <2>3. StoreInv' /\ users' = users
    BY <2>1, <2>2, InsertRepoInv DEF Inv, insert_repo, storeVars, userTable
  <2>4. MovesTo(w, "select")
    BY <1>3, WentOn DEF InsertRow
  <2> QED
    BY <1>1, <1>2, <2>3, <2>4, Moved DEF Inv, TypeOK
<1>4. CASE SelectRow(w)
  <2>1. UNCHANGED <<storeVars, diskVars>>
    BY <1>4 DEF SelectRow
  <2>2. CASE Return(w, "error")
    BY <1>1, <2>1, <2>2, OnlyMoved
  <2>3. ASSUME NEW r \in repos, NEW l \in {"path", "spawn"},
               rid' = [rid EXCEPT ![w] = r.id], Goto(w, l), Same, UNCHANGED result
        PROVE  Inv'
    <3>1. r.id \in RepoIds
      BY DEF Inv, TypeOK, StoreTypeOK, Repo
    <3>2. MovesTo(w, l) /\ rid'[w] \in RepoIds
      BY <2>3, <3>1 DEF MovesTo, Goto, Same, Inv, TypeOK
    <3>3. StoreInv' /\ users' = users
      BY <2>1, StoreNextInv DEF Inv, storeVars, userTable
    <3> QED
      BY <1>1, <1>2, <3>2, <3>3, Moved DEF Inv, TypeOK
  <2> QED
    BY <1>4, <2>2, <2>3 DEF SelectRow, repo_by_owner_and_name
<1> QED
  BY <1>3, <1>4

\* git itself.
LEMMA GitInv ==
  ASSUME Inv, NEW w \in Workers, Spawn(w) \/ Served(w)
  PROVE  Inv'
<1> USE DEF Points, Results, Making
<1>1. CASE Spawn(w)
  <2>1. UNCHANGED <<storeVars, diskVars>> /\ pc[w] = "spawn"
    BY <1>1 DEF Spawn
  <2>2. op[w] = "push" => rid[w] \in RepoIds
    BY <2>1 DEF Inv, RequestSound
  <2>3. Continue(w, "serve") \/ Return(w, "error")
    BY <1>1 DEF Spawn
  <2> QED
    BY <2>1, <2>2, <2>3, OnlyMoved
<1>2. CASE Served(w)
  <2>1. pc[w] = "serve" /\ at[w] \in Targets /\ UNCHANGED <<storeVars, disk>>
    BY <1>2 DEF Served, Inv, RequestSound
  <2>2. op[w] = "push" => rid[w] \in RepoIds
    BY <2>1 DEF Inv, RequestSound
  <2>3. data' \in [Targets -> SUBSET RepoIds]
    BY <1>2, <2>1, <2>2 DEF Served, Inv, TypeOK
  <2>4. MovesTo(w, "reply")
    <3>1. Return(w, "served") \/ Return(w, "error")
      BY <1>2 DEF Served
    <3> QED
      BY <3>1, WentOn
  <2>5. StoreInv' /\ users' = users
    BY <2>1, StoreNextInv DEF Inv, storeVars, userTable
  <2> QED
    BY <2>1, <2>3, <2>4, <2>5, Moved DEF Inv, TypeOK
<1> QED
  BY <1>1, <1>2

\* Deletions.
LEMMA RemoveInv ==
  ASSUME Inv, NEW w \in Workers, Remove(w)
  PROVE  Inv'
<1> USE DEF Points, Results, Making
<1>1. pc[w] \in {"drop_row", "drop_dir", "rm"} /\ at[w] \in Targets
  BY DEF Remove, DropRow, DropDir, RmEnd, Inv, RequestSound
<1>2. disk[at[w]] # "absent" => OwnerIn(at[w]) # {}
  BY <1>1 DEF Inv, NamespacesAreUsers
<1>3. CASE DropRow(w)
  <2>1. StoreInv' /\ users' = users
    BY <1>3, DeleteRepoInv, StoreNextInv
    DEF DropRow, delete_repo, Inv, storeVars, userTable
  <2>2. disk' = disk /\ data' = data
    BY <1>3 DEF DropRow, diskVars
  <2>3. MovesTo(w, "drop_dir") \/ MovesTo(w, "reply")
    BY <1>3, WentOn DEF DropRow
  <2> QED
    BY <1>1, <2>1, <2>2, <2>3, Moved DEF Inv, TypeOK
<1>4. CASE DropDir(w) \/ RmEnd(w)
  <2>1. PICK l \in {"reply", "rm"} :
          Continue(w, l) \/ (l = "reply" /\ \E r \in Results : Return(w, r))
    BY <1>4 DEF DropDir, RmEnd, Removed
  <2>2. UNCHANGED storeVars
    BY <1>4 DEF DropDir, RmEnd
  <2>3. CASE UNCHANGED diskVars
    BY <1>1, <2>1, <2>2, <2>3, OnlyMoved
  <2>4. CASE ~UNCHANGED diskVars
    <3>1. PICK d \in {"broken", "absent"} :
            SetDisk(w, d) /\ data' = [data EXCEPT ![at[w]] = {}]
      BY <1>4, <2>4 DEF DropDir, RmEnd
    <3>2. data' \in [Targets -> SUBSET RepoIds]
      BY <3>1 DEF Inv, TypeOK
    <3>3. StoreInv' /\ users' = users
      BY <2>2, StoreNextInv DEF Inv, storeVars, userTable
    <3>4. disk' = [disk EXCEPT ![at[w]] = d]
      BY <3>1 DEF SetDisk
    <3>5. MovesTo(w, l)
      BY <2>1, WentOn
    <3>6. disk[at[w]] = "absent" => d = "absent"
      <4>1. disk'[at[w]] = d
        BY <1>1, <3>4 DEF Inv, TypeOK
      <4>2. CASE DropDir(w)
        BY <2>4, <4>2 DEF DropDir
      <4>3. CASE RmEnd(w)
        <5>1. SetDisk(w, "absent")
          BY <2>4, <4>3 DEF RmEnd
        <5> QED
          BY <1>1, <4>1, <5>1 DEF SetDisk, Inv, TypeOK
      <4> QED
        BY <1>4, <4>2, <4>3
    <3>7. /\ disk' \in [Targets -> DiskStates]
          /\ \A t \in Targets : disk'[t] = disk[t] \/ (t = at[w] /\ OwnerIn(t) # {})
      BY <1>1, <1>2, <3>4, <3>6 DEF Inv, TypeOK, DiskStates
    <3> QED
      BY <1>1, <3>2, <3>3, <3>5, <3>7, Moved
  <2> QED
    BY <2>3, <2>4
<1> QED
  BY <1>3, <1>4 DEF Remove

-----------------------------------------------------------------------------
LEMMA CrashInv ==
  ASSUME Inv, Crash
  PROVE  Inv'
<1>1. StoreInv' /\ users' = users /\ data' = data
  BY StoreNextInv DEF Inv, Crash, storeVars, userTable
<1>2. PICK done \in SUBSET Targets :
        disk' = [t \in Targets |->
                   IF t \in done /\ disk[t] = "broken" THEN "nohead" ELSE disk[t]]
  <2>1. \A w \in Workers : pc[w] = "initing" => at[w] \in Targets
    BY DEF Inv, RequestSound
  <2> QED
    BY <2>1 DEF Crash
<1>3. TypeOK'
  BY <1>1, <1>2 DEF Inv, TypeOK, StoreInv, Crash, DiskStates
<1>4. NamespacesAreUsers'
  BY <1>1, <1>2 DEF Inv, NamespacesAreUsers, OwnerIn, user_by_username
<1>5. \A w \in Workers : RequestSound(w)'
  BY DEF Crash, RequestSound, Making
<1> QED
  BY <1>1, <1>3, <1>4, <1>5 DEF Inv

LEMMA OthersInv ==
  ASSUME Inv, OtherChanges
  PROVE  Inv'
<1>1. StoreInv' /\ users' = users
  <2>1. ASSUME NEW u \in users, NEW r \in repos, grant_write(u.id, r.id)
        PROVE  StoreInv' /\ users' = users
    <3>1. u.id \in UserIds /\ r.id \in RepoIds
      BY DEF Inv, TypeOK, StoreTypeOK, User, Repo
    <3> QED
      BY <2>1, <3>1, GrantWriteInv DEF Inv, grant_write, userTable
  <2>2. ASSUME NEW t \in Targets, NEW p \in BOOLEAN, set_public(t[1], t[2], p)
        PROVE  StoreInv' /\ users' = users
    <3>1. t[1] \in Usernames /\ t[2] \in RepoNames
      BY LifecycleAssumption
    <3> QED
      BY <2>2, <3>1, SetPublicInv DEF Inv, set_public, userTable
  <2> QED
    BY <2>1, <2>2 DEF OtherChanges
<1>2. UNCHANGED <<disk, data, pc, op, who, at, rid, result>>
  BY DEF OtherChanges, diskVars, workerVars
<1> QED
  BY <1>1, <1>2 DEF Inv, TypeOK, StoreInv, NamespacesAreUsers, RequestSound, OwnerIn,
     user_by_username

\* The invariant is inductive.
LEMMA InvInit == Init => Inv
<1> SUFFICES ASSUME Init PROVE Inv
  OBVIOUS
<1>1. TypeOK
  BY InitInv DEF Init, TypeOK, StoreInv, DiskStates
<1> QED
  BY <1>1, InitInv DEF Init, Inv, NamespacesAreUsers, RequestSound, Making

LEMMA InvNext == Inv /\ [Next]_vars => Inv'
<1> SUFFICES ASSUME Inv, [Next]_vars PROVE Inv'
  OBVIOUS
<1>1. ASSUME NEW w \in Workers, Arrive(w, Ops) PROVE Inv'
  <2>1. PICK o \in AllOps, u \in users \cup {NoUser}, t \in Targets : Start(w, o, u, t)
    BY <1>1, LifecycleAssumption DEF Arrive
  <2> QED
    BY <2>1, StartInv
<1>2. ASSUME NEW w \in Workers, Step(w) PROVE Inv'
  BY <1>2, CheckInv, BareInv, RowInv, GitInv, RemoveInv, ReplyInv DEF Step, Serve
<1>3. CASE UNCHANGED vars
  <2>1. StoreInv' /\ users' = users
    BY <1>3, StoreNextInv DEF Inv, vars, storeVars, userTable
  <2> QED
    BY <1>3, <2>1
    DEF Inv, TypeOK, StoreInv, NamespacesAreUsers, RequestSound, OwnerIn,
        user_by_username, vars, diskVars, workerVars
<1> QED
  BY <1>1, <1>2, <1>3, CrashInv, OthersInv DEF Next

THEOREM LifecycleInvariant == Spec => []Inv
BY InvInit, InvNext, PTL DEF Spec

\* Type correctness of the lifecycle, faults included.
THEOREM LifecycleTypeCorrect == Spec => []TypeOK
<1>1. Inv => TypeOK
  BY DEF Inv
<1> QED
  BY <1>1, LifecycleInvariant, PTL

\* For any number of connections, with deletions, failures and crashes: no
\* directory appears under a name that is no user's (server.rs:109-153).
THEOREM NamespacesAreUsersHolds == Spec => []NamespacesAreUsers
<1>1. Inv => NamespacesAreUsers
  BY DEF Inv
<1> QED
  BY <1>1, LifecycleInvariant, PTL

-----------------------------------------------------------------------------
(***************************************************************************)
(* While nobody deletes and nothing fails, directories and rows only come. *)
(* A half that is there without the other, or a directory git has not      *)
(* finished, always has a request that is about to complete it.            *)
(***************************************************************************)
HasRow(t) == RowOf(t) # {}

RequestCalm(w) ==
    /\ pc[w] \notin {"drop_row", "drop_dir", "rm"}
    /\ pc[w] \in {"path", "init", "initing", "head", "select"} /\ op[w] = "create"
         => HasRow(at[w])
    /\ pc[w] = "select" => HasRow(at[w])
    /\ pc[w] = "initing" => disk[at[w]] # "absent"
    /\ pc[w] = "head" => disk[at[w]] \in Usable
    /\ pc[w] = "insert" /\ op[w] # "create" => disk[at[w]] # "absent"
    /\ pc[w] \in Making \cup {"exists_rw"} => Privileged(who[w], at[w][1]) \/ HasRow(at[w])

\* Somebody is at it.
MakesDirectory(w, t) == at[w] = t /\ pc[w] \in {"initing", "head"}
WillInsert(w, t) == at[w] = t /\ op[w] # "create" /\ pc[w] \in {"initing", "head", "insert"}
WillInit(w, t) == at[w] = t /\ op[w] = "create" /\ pc[w] \in {"select", "path", "init"}

TargetCalm(t) ==
    /\ disk[t] \in {"broken", "nohead"} => \E w \in Workers : MakesDirectory(w, t)
    /\ disk[t] # "absent" /\ ~HasRow(t) => \E w \in Workers : WillInsert(w, t)
    /\ disk[t] = "absent" /\ HasRow(t) => \E w \in Workers : WillInit(w, t)

CalmInv == (\A w \in Workers : RequestCalm(w)) /\ (\A t \in Targets : TargetCalm(t))

\* A calm step is one of the lifecycle.
LEMMA CalmIsStep == CalmNext => Next
BY DEF CalmNext, Next, Arrive, Step

\* Rows stay, and come by InsertRow only, each for its own target.
LEMMA RowsGrow ==
  ASSUME Inv, CalmNext, NEW t \in Targets
  PROVE  /\ HasRow(t) => HasRow(t)'
         /\ ~HasRow(t) /\ HasRow(t)' => \E w \in Workers : InsertRow(w) /\ at[w] = t
<1> USE DEF HasRow, RowOf, get_repo, GetRepoIn
<1>1. CASE UNCHANGED storeVars
  BY <1>1 DEF storeVars, userTable, repoTable
<1>2. ASSUME NEW w \in Workers, InsertRow(w)
      PROVE  /\ HasRow(t) => HasRow(t)'
             /\ ~HasRow(t) /\ HasRow(t)' => at[w] = t
  <2>0. CASE UNCHANGED storeVars
    BY <1>1, <2>0 DEF storeVars, userTable, repoTable
  <2> SUFFICES ASSUME ~UNCHANGED storeVars
               PROVE  /\ HasRow(t) => HasRow(t)'
                      /\ ~HasRow(t) /\ HasRow(t)' => at[w] = t
    BY <2>0 DEF storeVars, userTable, repoTable
  <2>1. PICK o \in OwnerIn(at[w]) : insert_repo(o.id, at[w][2])
    BY <1>2 DEF InsertRow
  <2>2. CASE repos' = repos /\ users' = users
    BY <2>2
  <2>3. CASE ~(repos' = repos /\ users' = users)
    <3> DEFINE new == [id |-> NextRepoId, owner_id |-> o.id, name |-> at[w][2],
                       public |-> FALSE]
    <3>1. repos' = repos \cup {new} /\ users' = users
      BY <2>1, <2>3 DEF insert_repo, storeVars, userTable, repoTable
    <3>2. new.owner_id = o.id /\ new.name = at[w][2]
      OBVIOUS
    <3> HIDE DEF new
    <3>3. o \in users /\ o.username = at[w][1]
      BY DEF OwnerIn, user_by_username
    <3>4. \A u \in users : u.id = o.id => u = o
      BY <3>3 DEF Inv, StoreInv, StoreIntegrity, UsersSound
    <3>5. ~HasRow(t) /\ HasRow(t)' => at[w][1] = t[1] /\ at[w][2] = t[2]
      BY <3>1, <3>2, <3>3, <3>4
    <3>6. at[w] \in Usernames \X RepoNames /\ t \in Usernames \X RepoNames
      BY <1>2, LifecycleAssumption DEF InsertRow, Inv, RequestSound
    <3>7. HasRow(t) => HasRow(t)'
      BY <3>1
    <3> QED
      BY <3>5, <3>6, <3>7
  <2> QED
    BY <2>2, <2>3
<1>3. CASE OtherChanges
  <2>1. ASSUME NEW o, NEW n, NEW p, set_public(o, n, p)
        PROVE  HasRow(t) <=> HasRow(t)'
    <3> DEFINE Flip(r) == IF r \in get_repo(o, n) THEN [r EXCEPT !.public = p] ELSE r
    <3>1. repos' = {Flip(r) : r \in repos} /\ users' = users
      BY <2>1 DEF set_public, userTable
    <3>2. \A r \in repos : Flip(r).owner_id = r.owner_id /\ Flip(r).name = r.name
      BY DEF Inv, TypeOK, StoreTypeOK, Repo
    <3> HIDE DEF Flip
    <3> QED
      BY <3>1, <3>2
  <2>2. CASE repos' = repos /\ users' = users
    BY <2>2
  <2> QED
    BY <1>3, <2>1, <2>2 DEF OtherChanges, grant_write, userTable
<1>4. ASSUME NEW w \in Workers, Arrive(w, Ops \ {"delete"}) \/ (Serve(w) /\ ~InsertRow(w))
      PROVE  UNCHANGED storeVars
  BY <1>4 DEF Arrive, Start, Request, Serve, CheckAccess, CheckExists, BarePath, InitStart,
     InitEnd, SetHead, SelectRow, Spawn, Served, Reply
<1> QED
  BY <1>1, <1>2, <1>3, <1>4 DEF CalmNext

\* The order in which a directory comes; a calm step never goes back.
Rises(d, e) ==
    \/ d = e
    \/ d = "absent" /\ e = "broken"
    \/ d = "broken" /\ e = "nohead"
    \/ d \in Usable /\ e = "ready"

\* The requests of others, and the other targets, stay as they are.
LEMMA CalmElsewhere ==
  ASSUME Inv, CalmInv, CalmNext, NEW w \in Workers,
         \A v \in Workers \ {w} : /\ pc'[v] = pc[v] /\ op'[v] = op[v]
                                  /\ who'[v] = who[v] /\ at'[v] = at[v],
         \A t \in Targets : Rises(disk[t], disk'[t]),
         \A t \in Targets : t # at[w] => disk'[t] = disk[t],
         \A t \in Targets : ~HasRow(t) /\ HasRow(t)' => t = at[w]
  PROVE  /\ \A v \in Workers \ {w} : RequestCalm(v)'
         /\ \A t \in Targets : t # at[w] => TargetCalm(t)'
<1>1. ASSUME NEW v \in Workers \ {w} PROVE RequestCalm(v)'
  <2>1. RequestCalm(v) /\ RequestSound(v)
    BY DEF CalmInv, Inv
  <2>2. pc[v] # "idle" => /\ at[v] \in Targets
                          /\ HasRow(at[v]) => HasRow(at[v])'
                          /\ Rises(disk[at[v]], disk'[at[v]])
    BY <2>1, RowsGrow DEF RequestSound
  <2> QED
    BY <2>1, <2>2 DEF RequestCalm, Rises, Usable, Making, HasRow
<1>2. ASSUME NEW t \in Targets, t # at[w] PROVE TargetCalm(t)'
  <2>1. disk'[t] = disk[t] /\ (HasRow(t)' <=> HasRow(t))
    BY <1>2, RowsGrow
  <2>2. ASSUME NEW v \in Workers PROVE /\ MakesDirectory(v, t) => MakesDirectory(v, t)'
                                       /\ WillInsert(v, t) => WillInsert(v, t)'
                                       /\ WillInit(v, t) => WillInit(v, t)'
    BY <1>2 DEF MakesDirectory, WillInsert, WillInit
  <2> QED
    BY <2>1, <2>2 DEF CalmInv, TargetCalm
<1> QED
  BY <1>1, <1>2

\* Each handler keeps its own request and its target calm.
Calm(w) == RequestCalm(w)' /\ (at[w] \in Targets => TargetCalm(at[w])')

\* What a step of w that does not end its request must show.
LEMMA CalmHere ==
  ASSUME Inv, CalmInv, NEW w \in Workers, Inv', NEW t \in Targets, at[w] = t,
         UNCHANGED <<op, who, at>>,
         \A v \in Workers \ {w} : pc'[v] = pc[v],
         Rises(disk[t], disk'[t]), HasRow(t) => HasRow(t)',
         disk[t] # disk'[t] /\ disk'[t] # "ready" => pc'[w] \in {"initing", "head"},
         pc[w] \in {"initing", "head"} =>
           \/ pc'[w] \in {"initing", "head"}
           \/ disk'[t] = "ready" /\ (HasRow(t)' \/ (op[w] # "create" /\ pc'[w] = "insert")),
         pc[w] = "insert" => HasRow(t)',
         pc[w] \in {"select", "path", "init"} /\ op[w] = "create" =>
           disk'[t] # "absent" \/ pc'[w] \in {"select", "path", "init"},
         disk[t] = "absent" /\ ~HasRow(t) /\ HasRow(t)' => WillInit(w, t)',
         disk[t] = "absent" /\ disk'[t] # "absent" /\ ~HasRow(t)' => op[w] # "create",
         RequestCalm(w)'
  PROVE  Calm(w)
<1>1. ASSUME NEW v \in Workers \ {w}
      PROVE  /\ MakesDirectory(v, t) => MakesDirectory(v, t)'
             /\ WillInsert(v, t) => WillInsert(v, t)'
             /\ WillInit(v, t) => WillInit(v, t)'
  BY DEF MakesDirectory, WillInsert, WillInit
<1>2. disk'[t] \in {"broken", "nohead"} => \E v \in Workers : MakesDirectory(v, t)'
  <2> SUFFICES ASSUME disk'[t] \in {"broken", "nohead"}
               PROVE  \E v \in Workers : MakesDirectory(v, t)'
    OBVIOUS
  <2>1. CASE disk[t] # disk'[t]
    BY <2>1 DEF MakesDirectory
  <2>2. CASE disk[t] = disk'[t]
    <3>1. PICK v \in Workers : MakesDirectory(v, t)
      BY <2>2 DEF CalmInv, TargetCalm
    <3> QED
      BY <1>1, <3>1 DEF MakesDirectory
  <2> QED
    BY <2>1, <2>2
<1>3. disk'[t] # "absent" /\ ~HasRow(t)' => \E v \in Workers : WillInsert(v, t)'
  <2> SUFFICES ASSUME disk'[t] # "absent", ~HasRow(t)'
               PROVE  \E v \in Workers : WillInsert(v, t)'
    OBVIOUS
  <2>1. CASE disk[t] = "absent"
    BY <2>1 DEF WillInsert, Rises, Usable
  <2>2. CASE disk[t] # "absent"
    <3>1. PICK v \in Workers : WillInsert(v, t)
      BY <2>2 DEF CalmInv, TargetCalm
    <3> QED
      BY <1>1, <3>1 DEF WillInsert
  <2> QED
    BY <2>1, <2>2
<1>4. disk'[t] = "absent" /\ HasRow(t)' => \E v \in Workers : WillInit(v, t)'
  <2> SUFFICES ASSUME disk'[t] = "absent", HasRow(t)'
               PROVE  \E v \in Workers : WillInit(v, t)'
    OBVIOUS
  <2>1. disk[t] = "absent"
    BY DEF Rises
  <2>2. CASE HasRow(t)
    <3>1. PICK v \in Workers : WillInit(v, t)
      BY <2>1, <2>2 DEF CalmInv, TargetCalm
    <3> QED
      BY <1>1, <3>1 DEF WillInit
  <2> QED
    BY <2>1, <2>2
<1>5. TargetCalm(t)'
  BY <1>2, <1>3, <1>4 DEF TargetCalm
<1> QED
  BY <1>5 DEF Calm

\* The handlers that leave the directory and the rows alone and make nothing.
Passes(w, l) ==
    /\ pc' = [pc EXCEPT ![w] = l]
    /\ UNCHANGED <<op, who, at, disk, users, repos>>

LEMMA PassesCalm ==
  ASSUME Inv, Inv', CalmInv, NEW w \in Workers, NEW l \in Points, Passes(w, l),
         pc[w] \notin {"idle", "initing", "head", "insert"},
         pc[w] \in {"select", "path", "init"} /\ op[w] = "create" =>
           disk[at[w]] # "absent" \/ l \in {"select", "path", "init"},
         RequestCalm(w)'
  PROVE  Calm(w)
<1>1. at[w] \in Targets
  BY DEF Inv, RequestSound
<1>2. disk'[at[w]] = disk[at[w]] /\ pc'[w] = l /\ \A v \in Workers \ {w} : pc'[v] = pc[v]
  BY DEF Passes, Inv, TypeOK
<1>3. \A t \in Targets : HasRow(t)' <=> HasRow(t)
  BY DEF Passes, HasRow, RowOf, get_repo, GetRepoIn
<1>4. UNCHANGED <<op, who, at>>
  BY DEF Passes
<1> QED
  BY <1>1, <1>2, <1>3, <1>4, CalmHere DEF Rises

LEMMA AnswerCalm ==
  ASSUME Inv, Inv', CalmInv, NEW w \in Workers,
         CheckAccess(w) \/ CheckExists(w) \/ Spawn(w) \/ Served(w)
  PROVE  Calm(w)
<1>1. /\ pc[w] \in {"access", "exists_rw", "exists_ro", "spawn", "serve"}
      /\ at[w] \in Targets /\ UNCHANGED <<disk, users, repos>>
  BY DEF CheckAccess, CheckExists, Spawn, Served, Inv, RequestSound, storeVars, userTable,
     repoTable, diskVars
<1>2. PICK l \in {"reply", "path", "exists_rw", "exists_ro", "spawn", "serve"} : Passes(w, l)
  BY <1>1 DEF CheckAccess, CheckExists, Spawn, Served, Continue, Return, Goto, Same, Passes
<1>3. pc'[w] = l /\ UNCHANGED <<op, who, at>>
  BY <1>2 DEF Passes, Inv, TypeOK
<1>4. l \in {"path", "exists_rw"} => Privileged(who[w], at[w][1]) \/ HasRow(at[w])
  <2>1. MayDo(w) = ReadWrite => Privileged(who[w], at[w][1]) \/ HasRow(at[w])
    BY DEF MayDo, AllowedIn, None, ReadOnly, ReadWrite, HasRow, RowOf, get_repo
  <2>2. CASE CheckAccess(w)
    BY <1>3, <2>1, <2>2 DEF CheckAccess, Refused, Continue, Return, Goto, Inv, TypeOK
  <2>3. CASE ~CheckAccess(w)
    <3>1. l \in {"path", "exists_rw"} => pc[w] = "exists_rw"
      BY <1>3, <2>3 DEF CheckExists, Spawn, Served, Continue, Return, Goto, Inv, TypeOK
    <3> QED
      BY <3>1 DEF CalmInv, RequestCalm
  <2> QED
    BY <2>2, <2>3
<1>5. l = "path" => op[w] # "create"
  <2>1. pc[w] \in {"spawn", "serve"} => l # "path"
    BY <1>3 DEF CheckAccess, CheckExists, Spawn, Served, Continue, Return, Goto, Inv, TypeOK
  <2> QED
    BY <1>1, <2>1 DEF Inv, RequestSound
<1>6. RequestCalm(w)'
  BY <1>1, <1>3, <1>4, <1>5 DEF RequestCalm, Making, HasRow, RowOf, get_repo, GetRepoIn
<1> QED
  BY <1>1, <1>2, <1>6, PassesCalm DEF Points

LEMMA BareCalm ==
  ASSUME Inv, Inv', CalmInv, ~Failures, NEW w \in Workers,
         BarePath(w) \/ InitStart(w) \/ InitEnd(w) \/ SetHead(w)
  PROVE  /\ Calm(w)
         /\ \A t \in Targets : Rises(disk[t], disk'[t]) /\ (t # at[w] => disk'[t] = disk[t])
         /\ UNCHANGED <<users, repos, op, who, at>>
<1> DEFINE t == at[w]
<1>1. /\ pc[w] \in {"path", "init", "initing", "head"} /\ t \in Targets
      /\ UNCHANGED <<users, repos, op, who, at>>
  BY DEF BarePath, InitStart, InitEnd, SetHead, AfterBare, Continue, Return, Same, Inv,
     RequestSound, Making, storeVars, userTable, repoTable
<1>2. \A r \in Targets : HasRow(r)' <=> HasRow(r)
  BY <1>1 DEF HasRow, RowOf, get_repo, GetRepoIn
<1>3. RequestCalm(w) /\ disk[t] \in DiskStates
  BY <1>1 DEF CalmInv, Inv, TypeOK
<1>4. PICK l \in Points : pc' = [pc EXCEPT ![w] = l]
  BY DEF BarePath, InitStart, InitEnd, SetHead, AfterBare, Continue, Return, Goto, Points
<1>5. pc'[w] = l /\ \A v \in Workers \ {w} : pc'[v] = pc[v]
  BY <1>4 DEF Inv, TypeOK
<1>6. /\ \A r \in Targets : r # t => disk'[r] = disk[r]
      /\ \/ pc[w] = "path" /\ disk'[t] = disk[t]
            /\ IF disk[t] = "absent" THEN l = "init"
               ELSE l = IF op[w] = "create" THEN "reply" ELSE "insert"
         \/ pc[w] = "init" /\ l = "initing"
            /\ disk'[t] = (IF disk[t] = "absent" THEN "broken" ELSE disk[t])
         \/ pc[w] = "initing" /\ l = "head"
            /\ disk'[t] = (IF disk[t] = "broken" THEN "nohead" ELSE disk[t])
         \/ pc[w] = "head" /\ disk'[t] = "ready"
            /\ l = IF op[w] = "create" THEN "reply" ELSE "insert"
  <2>1. CASE BarePath(w)
    BY <1>1, <1>3, <1>5, <2>1
    DEF BarePath, AfterBare, Continue, Return, Goto, diskVars, Inv, TypeOK
  <2>2. CASE InitStart(w)
    BY <1>1, <1>3, <1>5, <2>2 DEF InitStart, Continue, Goto, SetDisk, Inv, TypeOK
  <2>3. CASE InitEnd(w)
    BY <1>1, <1>3, <1>5, <2>3
    DEF InitEnd, RequestCalm, Continue, Goto, SetDisk, Inv, TypeOK
  <2>4. CASE SetHead(w)
    BY <1>1, <1>3, <1>5, <2>4
    DEF SetHead, AfterBare, RequestCalm, Continue, Return, Goto, SetDisk, Inv, TypeOK
  <2> QED
    BY <2>1, <2>2, <2>3, <2>4
<1>7. \A r \in Targets : Rises(disk[r], disk'[r])
  BY <1>3, <1>6 DEF Rises, Usable, DiskStates, RequestCalm
<1>8. RequestCalm(w)'
  <2>1. at'[w] = t /\ who'[w] = who[w] /\ op'[w] = op[w] /\ (HasRow(t)' <=> HasRow(t))
    BY <1>1, <1>2
  <2>2. Privileged(who[w], t[1]) \/ HasRow(t)
    BY <1>1, <1>3 DEF RequestCalm, Making
  <2>3. HasRow(at[w])' <=> HasRow(t)
    BY <1>1 DEF HasRow, RowOf, get_repo, GetRepoIn
  <2> QED
    BY <1>1, <1>3, <1>5, <1>6, <2>1, <2>2, <2>3
    DEF RequestCalm, Making, Usable, DiskStates
<1>9. Calm(w)
  <2>1. pc[w] \in {"initing", "head"} =>
           \/ pc'[w] \in {"initing", "head"}
           \/ disk'[t] = "ready" /\ (HasRow(t) \/ (op[w] # "create" /\ pc'[w] = "insert"))
    BY <1>1, <1>3, <1>5, <1>6 DEF RequestCalm
  <2>2. op[w] = "create" => HasRow(t)
    BY <1>1, <1>3 DEF RequestCalm
  <2>3. disk[t] # disk'[t] /\ disk'[t] # "ready" => pc'[w] \in {"initing", "head"}
    BY <1>5, <1>6
  <2>4. pc[w] \in {"path", "init"} /\ op[w] = "create" =>
           disk'[t] # "absent" \/ pc'[w] \in {"path", "init"}
    BY <1>5, <1>6
  <2> QED
    BY <1>1, <1>2, <1>5, <1>7, <1>8, <2>1, <2>2, <2>3, <2>4, CalmHere
<1> QED
  BY <1>1, <1>6, <1>7, <1>9

LEMMA RowCalm ==
  ASSUME ~Failures, Inv, Inv', CalmInv, CalmNext, NEW w \in Workers,
         InsertRow(w) \/ SelectRow(w)
  PROVE  Calm(w)
<1> DEFINE t == at[w]
<1>1. /\ pc[w] \in {"insert", "select"} /\ t \in Targets
      /\ UNCHANGED <<disk, op, who, at>>
  BY DEF InsertRow, SelectRow, Continue, Return, Same, diskVars, Inv, RequestSound
<1>2. RequestCalm(w)
  BY DEF CalmInv
<1>3. CASE InsertRow(w)
  <2>1. pc[w] = "insert" /\ pc'[w] = "select" /\ \A v \in Workers \ {w} : pc'[v] = pc[v]
    BY <1>3 DEF InsertRow, Continue, Goto, Inv, TypeOK
  <2>2. HasRow(t)'
    <3>1. PICK o \in OwnerIn(t) : insert_repo(o.id, t[2])
      BY <1>3 DEF InsertRow
    <3>2. o \in users' /\ o.username = t[1]
      BY <3>1 DEF OwnerIn, user_by_username, insert_repo, userTable, storeVars
    <3>3. \E r \in repos' : r.owner_id = o.id /\ r.name = t[2]
      <4> DEFINE new == [id |-> NextRepoId, owner_id |-> o.id, name |-> t[2],
                         public |-> FALSE]
      <4>1. new.owner_id = o.id /\ new.name = t[2]
        OBVIOUS
      <4>2. new \in repos' \/ repo_by_owner_and_name(o.id, t[2]) \cap repos' # {}
        BY <3>1 DEF insert_repo, repo_by_owner_and_name, storeVars, repoTable
      <4> HIDE DEF new
      <4> QED
        BY <4>1, <4>2 DEF repo_by_owner_and_name
    <3> QED
      BY <1>1, <3>2, <3>3 DEF HasRow, RowOf, get_repo, GetRepoIn
  <2>3. HasRow(at[w])' <=> HasRow(t)'
    BY <1>1
  <2>4. RequestCalm(w)'
    BY <1>1, <2>1, <2>2, <2>3 DEF RequestCalm
  <2>5. disk[t] = "absent" => op[w] = "create"
    BY <1>2, <2>1 DEF RequestCalm
  <2>6. disk[t] = "absent" => WillInit(w, t)'
    BY <1>1, <2>1, <2>5 DEF WillInit
  <2> QED
    BY <1>1, <2>1, <2>2, <2>4, <2>6, CalmHere DEF Rises
<1>4. CASE SelectRow(w)
  <2>1. pc[w] = "select" /\ HasRow(t) /\ UNCHANGED <<users, repos>>
    BY <1>2, <1>4 DEF SelectRow, RequestCalm, storeVars, userTable, repoTable
  <2>2. PICK l \in {"path", "spawn"} : pc' = [pc EXCEPT ![w] = l]
                                        /\ (op[w] = "create" => l = "path")
    BY <1>4, <2>1 DEF SelectRow, Goto, HasRow
  <2>3. pc'[w] = l
    BY <2>2 DEF Inv, TypeOK
  <2>4. HasRow(at[w])'
    BY <1>1, <2>1 DEF HasRow, RowOf, get_repo, GetRepoIn
  <2>5. RequestCalm(w)'
    BY <2>3, <2>4 DEF RequestCalm
  <2>6. Passes(w, l)
    BY <1>1, <2>1, <2>2 DEF Passes
  <2> QED
    BY <2>1, <2>2, <2>5, <2>6, PassesCalm DEF Points
<1> QED
  BY <1>3, <1>4

\* A request that begins or ends is about to make nothing.
LEMMA IdleCalm ==
  ASSUME Inv, CalmInv, NEW w \in Workers, Arrive(w, Ops \ {"delete"}) \/ Reply(w)
  PROVE  CalmInv'
<1> DEFINE Idles ==
      /\ UNCHANGED <<disk, users, repos>>
      /\ pc[w] \in {"idle", "reply"} /\ pc'[w] \in {"idle", "access", "insert"}
      /\ pc'[w] = "insert" => op'[w] = "create" /\ Privileged(who'[w], at'[w][1])
      /\ \A v \in Workers \ {w} : /\ pc'[v] = pc[v] /\ op'[v] = op[v]
                                  /\ who'[v] = who[v] /\ at'[v] = at[v]
<1>1. Idles
  <2>1. CASE Reply(w)
    BY <2>1 DEF Reply, Goto, Inv, TypeOK, storeVars, userTable, repoTable, diskVars
  <2>2. ASSUME NEW o \in Ops \ {"delete"}, NEW u \in users \cup {NoUser}, NEW t \in Targets,
               Start(w, o, u, t)
        PROVE  Idles
    <3>1. /\ pc[w] = "idle" /\ UNCHANGED <<disk, users, repos>>
          /\ pc' = [pc EXCEPT ![w] = IF o = "create" THEN "insert" ELSE "access"]
          /\ op' = [op EXCEPT ![w] = o] /\ who' = [who EXCEPT ![w] = u]
          /\ at' = [at EXCEPT ![w] = t]
      BY <2>2 DEF Start, Request, Goto, storeVars, userTable, repoTable, diskVars
    <3>2. o = "create" => u # NoUser /\ u.username = t[1]
      BY <2>2 DEF Start
    <3> QED
      BY <3>1, <3>2 DEF Inv, TypeOK, Privileged
  <2> QED
    BY <2>1, <2>2 DEF Arrive
<1>2. \A t \in Targets : HasRow(t)' <=> HasRow(t)
  BY <1>1 DEF HasRow, RowOf, get_repo, GetRepoIn
<1>3. RequestCalm(w)'
  BY <1>1 DEF RequestCalm, Making
<1>4. ASSUME NEW v \in Workers \ {w} PROVE RequestCalm(v)'
  <2>1. HasRow(at[v])' <=> HasRow(at[v])
    BY <1>1 DEF HasRow, RowOf, get_repo, GetRepoIn
  <2> QED
    BY <1>1, <2>1 DEF CalmInv, RequestCalm
<1>5. ASSUME NEW t \in Targets PROVE TargetCalm(t)'
  <2>1. ASSUME NEW v \in Workers
        PROVE  /\ MakesDirectory(v, t) => MakesDirectory(v, t)'
               /\ WillInsert(v, t) => WillInsert(v, t)'
               /\ WillInit(v, t) => WillInit(v, t)'
    BY <1>1 DEF MakesDirectory, WillInsert, WillInit
  <2> QED
    BY <1>1, <1>2, <2>1 DEF CalmInv, TargetCalm
<1> QED
  BY <1>3, <1>4, <1>5 DEF CalmInv

\* Nothing of this depends on grants or visibility.
LEMMA OthersCalm ==
  ASSUME Inv, CalmInv, CalmNext, OtherChanges
  PROVE  CalmInv'
<1>1. UNCHANGED <<disk, pc, op, who, at>>
  BY DEF OtherChanges, diskVars, workerVars
<1>2. ASSUME NEW t \in Targets PROVE HasRow(t)' <=> HasRow(t)
  <2>1. ASSUME NEW w \in Workers, InsertRow(w) PROVE FALSE
    BY <1>1, <2>1 DEF InsertRow, Continue, Return, Goto, Inv, TypeOK
  <2> QED
    BY <2>1, RowsGrow
<1>3. ASSUME NEW w \in Workers PROVE RequestCalm(w)'
  <2>1. pc[w] # "idle" => at[w] \in Targets
    BY DEF Inv, RequestSound
  <2>2. pc[w] # "idle" => (HasRow(at[w])' <=> HasRow(at[w]))
    BY <1>1, <1>2, <2>1
  <2> QED
    BY <1>1, <2>2 DEF CalmInv, RequestCalm, Making
<1>4. ASSUME NEW t \in Targets PROVE TargetCalm(t)'
  BY <1>1, <1>2 DEF CalmInv, TargetCalm, MakesDirectory, WillInsert, WillInit
<1> QED
  BY <1>3, <1>4 DEF CalmInv

LEMMA ServeCalm ==
  ASSUME Inv, Inv', CalmInv, CalmNext, ~Failures, NEW w \in Workers, Serve(w), ~Reply(w)
  PROVE  CalmInv'
<1>1. /\ Calm(w) /\ pc[w] # "idle" /\ UNCHANGED <<op, who, at>>
      /\ \A v \in Workers \ {w} : pc'[v] = pc[v]
      /\ \A t \in Targets : Rises(disk[t], disk'[t]) /\ (t # at[w] => disk'[t] = disk[t])
  <2>1. CASE BarePath(w) \/ InitStart(w) \/ InitEnd(w) \/ SetHead(w)
    <3>1. pc[w] # "idle" /\ \A v \in Workers \ {w} : pc'[v] = pc[v]
      BY <2>1 DEF BarePath, InitStart, InitEnd, SetHead, AfterBare, Continue, Return, Goto,
         Inv, TypeOK
    <3> QED
      BY <2>1, <3>1, BareCalm
  <2>2. CASE InsertRow(w) \/ SelectRow(w)
    <3>1. /\ pc[w] # "idle" /\ UNCHANGED <<op, who, at, disk>>
          /\ \A v \in Workers \ {w} : pc'[v] = pc[v]
      BY <2>2 DEF InsertRow, SelectRow, Continue, Return, Goto, Same, diskVars, Inv, TypeOK
    <3> QED
      BY <2>2, <3>1, RowCalm DEF Rises
  <2>3. CASE CheckAccess(w) \/ CheckExists(w) \/ Spawn(w) \/ Served(w)
    <3>1. /\ pc[w] # "idle" /\ UNCHANGED <<op, who, at, disk>>
          /\ \A v \in Workers \ {w} : pc'[v] = pc[v]
      BY <2>3 DEF CheckAccess, CheckExists, Spawn, Served, Continue, Return, Goto, Same,
         diskVars, Inv, TypeOK
    <3> QED
      BY <2>3, <3>1, AnswerCalm DEF Rises
  <2> QED
    BY <2>1, <2>2, <2>3 DEF Serve
<1>2. ASSUME NEW t \in Targets, ~HasRow(t), HasRow(t)' PROVE t = at[w]
  <2>1. PICK v \in Workers : InsertRow(v) /\ at[v] = t
    BY <1>2, RowsGrow
  <2>2. pc[v] = "insert" /\ pc'[v] = "select"
    BY <2>1 DEF InsertRow, Continue, Goto, Inv, TypeOK
  <2> QED
    BY <1>1, <2>1, <2>2
<1>3. at[w] \in Targets
  BY <1>1 DEF Inv, RequestSound
<1> QED
  BY <1>1, <1>2, <1>3, CalmElsewhere DEF CalmInv, Calm

\* While nobody deletes and nothing fails, for any number of connections.
THEOREM CalmInvariant == ~Failures /\ CalmSpec => [](Inv /\ CalmInv)
<1> SUFFICES ASSUME ~Failures PROVE CalmSpec => [](Inv /\ CalmInv)
  OBVIOUS
<1>1. Init => Inv /\ CalmInv
  <2> SUFFICES ASSUME Init PROVE CalmInv
    BY InvInit
  <2>1. \A t \in Targets : ~HasRow(t)
    BY DEF Init, StoreInit, HasRow, RowOf, get_repo, GetRepoIn
  <2> QED
    BY <2>1 DEF Init, CalmInv, RequestCalm, TargetCalm, Making
<1>2. Inv /\ CalmInv /\ [CalmNext]_vars => Inv' /\ CalmInv'
  <2> SUFFICES ASSUME Inv, CalmInv, [CalmNext]_vars PROVE Inv' /\ CalmInv'
    OBVIOUS
  <2>1. Inv'
    BY CalmIsStep, InvNext
  <2>2. CASE UNCHANGED vars
    <3>1. UNCHANGED <<disk, pc, op, who, at, users, repos>>
      BY <2>2 DEF vars, diskVars, workerVars, storeVars, userTable, repoTable
    <3>2. \A t : HasRow(t)' <=> HasRow(t)
      BY <3>1 DEF HasRow, RowOf, get_repo, GetRepoIn
    <3>3. ASSUME NEW w \in Workers PROVE RequestCalm(w)'
      BY <3>1, <3>2 DEF CalmInv, RequestCalm, Making
    <3>4. ASSUME NEW t \in Targets PROVE TargetCalm(t)'
      BY <3>1, <3>2 DEF CalmInv, TargetCalm, MakesDirectory, WillInsert, WillInit
    <3> QED
      BY <2>1, <3>3, <3>4 DEF CalmInv
  <2>3. CASE CalmNext
    <3>1. ASSUME NEW w \in Workers, Arrive(w, Ops \ {"delete"}) \/ Reply(w) PROVE CalmInv'
      BY <3>1, IdleCalm
    <3>2. ASSUME NEW w \in Workers, Serve(w), ~Reply(w) PROVE CalmInv'
      BY <2>1, <2>3, <3>2, ServeCalm
    <3> QED
      BY <2>1, <2>3, <3>1, <3>2, OthersCalm DEF CalmNext
  <2> QED
    BY <2>2, <2>3
<1> QED
  BY <1>1, <1>2, PTL DEF CalmSpec

\* A repository that no request is busy with is whole, or is not there at all
\* (server.rs:99-156, repos.rs:176-189, git.rs:5-48).
THEOREM WholeWhenQuietHolds == ~Failures /\ CalmSpec => []WholeWhenQuiet
<1>1. Inv /\ CalmInv => WholeWhenQuiet
  <2> SUFFICES ASSUME Inv, CalmInv, NEW t \in Targets, Quiet(t)
               PROVE  \/ disk[t] = "absent" /\ RowOf(t) = {}
                      \/ disk[t] = "ready" /\ RowOf(t) # {}
    BY DEF WholeWhenQuiet
  <2>1. \A w \in Workers : ~MakesDirectory(w, t) /\ ~WillInsert(w, t) /\ ~WillInit(w, t)
    BY DEF Quiet, MakesDirectory, WillInsert, WillInit
  <2>2. disk[t] \in {"absent", "ready"} /\ (disk[t] = "absent" <=> ~HasRow(t))
    BY <2>1 DEF CalmInv, TargetCalm, Inv, TypeOK, DiskStates
  <2> QED
    BY <2>2 DEF HasRow
<1> QED
  BY <1>1, CalmInvariant, PTL

\* A row comes into being at the hands of its owner or an administrator only
\* (auth.rs:37-59 with server.rs:99-156).
THEOREM OnlyOwnersCreateHolds == ~Failures /\ CalmSpec => OnlyOwnersCreate
<1>1. Inv /\ CalmInv /\ [CalmNext]_vars =>
        [\A t \in Targets : RowOf(t) = {} /\ RowOf(t)' # {} =>
           \E w \in Workers : at[w] = t /\ Privileged(who[w], t[1])]_vars
  <2> SUFFICES ASSUME Inv, CalmInv, CalmNext, NEW t \in Targets, ~HasRow(t), HasRow(t)'
               PROVE  \E w \in Workers : at[w] = t /\ Privileged(who[w], t[1])
    BY DEF HasRow, vars
  <2>1. PICK w \in Workers : InsertRow(w) /\ at[w] = t
    BY RowsGrow
  <2>2. pc[w] = "insert"
    BY <2>1 DEF InsertRow
  <2> QED
    BY <2>1, <2>2 DEF CalmInv, RequestCalm, Making
<1> QED
  BY <1>1, CalmInvariant, PTL DEF CalmSpec, OnlyOwnersCreate
-----------------------------------------------------------------------------
\* The pane in front of the requests.
Fields == {"mode", "user", "active", "detail", "items", "sel", "pending", "visibility", "fresh"}

\* A cursor on a line of the listing, if there is one; before the first load
\* there is none yet.
OnALine(v) ==
    /\ DOMAIN v.items \subseteq Targets /\ \A t \in DOMAIN v.items : v.items[t] \in BOOLEAN
    /\ v.sel \in 0..Lines(v.items)
    /\ v.mode # "load" /\ Lines(v.items) # 0 => v.sel # 0

\* A session belongs to a user of the store or to nobody; a dialog is about a
\* target, and the one that deletes about a target of the session's own user.
Framed(v) ==
    /\ v = [f \in Fields |-> v[f]]
    /\ v.mode \in {"load", "list", "create", "confirm_delete", "confirm_toggle"}
    /\ v.active \in {"repos", "keys"}
    /\ v.detail \in Targets \cup {NoTarget} /\ v.pending \in Targets \cup {NoTarget}
    /\ v.user \in users \cup {NoUser}
    /\ v.mode = "create" => v.user # NoUser
    /\ v.mode \in {"confirm_delete", "confirm_toggle"} => v.pending \in Targets
    /\ v.mode = "confirm_delete" => v.user # NoUser /\ v.user.username = v.pending[1]
    /\ v.mode = "confirm_toggle" => v.visibility \in BOOLEAN

Sound(v) == v = Closed \/ (Framed(v) /\ OnALine(v))

PaneInv ==
    /\ view = [s \in Sessions |-> view[s]]
    /\ \A s \in Sessions : Sound(view[s])

-----------------------------------------------------------------------------
\* No request adds, removes or renames a user.
LEMMA UsersStay == [Next]_vars => users' = users
<1> SUFFICES ASSUME [Next]_vars PROVE users' = users
  OBVIOUS
<1> USE DEF storeVars, userTable
<1>1. ASSUME NEW w \in Workers, Arrive(w, Ops) PROVE users' = users
  BY <1>1 DEF Arrive, Start, Request
<1>2. ASSUME NEW w \in Workers, Step(w) PROVE users' = users
  BY <1>2
  DEF Step, Serve, Remove, CheckAccess, CheckExists, BarePath, InitStart, InitEnd, SetHead,
      InsertRow, insert_repo, SelectRow, Spawn, Served, Reply, DropRow, delete_repo, DropDir,
      RmEnd
<1>3. CASE Crash \/ OtherChanges
  BY <1>3 DEF Crash, OtherChanges, grant_write, set_public
<1> QED
  BY <1>1, <1>2, <1>3 DEF Next, vars

\* What a session becomes while others act: only its history changes.
LEMMA WatchedSound ==
  ASSUME NEW s \in Sessions, Sound(view[s]), users' = users, NEW v, v = Watched(s)
  PROVE  Sound(v)'
<1>1. CASE view[s] = Closed
  BY <1>1 DEF Sound, Watched
<1>2. CASE view[s] # Closed
  <2>1. Framed(view[s]) /\ OnALine(view[s])
    BY <1>2 DEF Sound
  <2>2. Framed(v)'
    BY <1>2, <2>1 DEF Watched, Framed, Fields
  <2>3. OnALine(v)
    BY <1>2, <2>1 DEF Watched, Framed, OnALine, Fields
  <2> QED
    BY <2>2, <2>3 DEF Sound, OnALine
<1> QED
  BY <1>1, <1>2

\* A step of one session's own, and one at which all look on.
LEMMA ShowSound ==
  ASSUME PaneInv, users' = users, NEW s \in Sessions, NEW v, Sound(v),
         Show(s, v) \/ Become(s, v)
  PROVE  PaneInv'
<1>1. Sound(v)'
  BY DEF Sound, Framed, OnALine
<1>2. ASSUME NEW r \in Sessions \ {s} PROVE Sound(view[r])'
  <2>1. view'[r] = view[r] \/ view'[r] = Watched(r)
    BY DEF Show, Become, PaneInv
  <2>2. Sound(view[r])
    BY DEF PaneInv
  <2>3. CASE view'[r] = view[r]
    BY <2>2, <2>3 DEF Sound, Framed, OnALine
  <2>4. CASE view'[r] = Watched(r)
    BY <2>2, <2>4, WatchedSound
  <2> QED
    BY <2>1, <2>3, <2>4
<1>3. view'[s] = v /\ view' = [r \in Sessions |-> view'[r]]
  BY DEF Show, Become, PaneInv
<1> QED
  BY <1>1, <1>2, <1>3 DEF PaneInv

LEMMA WatchSound ==
  ASSUME PaneInv, users' = users, WatchAll
  PROVE  PaneInv'
<1>1. ASSUME NEW r \in Sessions PROVE Sound(view[r])'
  <2>1. view'[r] = Watched(r) /\ Sound(view[r])
    BY DEF WatchAll, PaneInv
  <2> QED
    BY <2>1, WatchedSound
<1> QED
  BY <1>1 DEF PaneInv, WatchAll

LEMMA StillSound ==
  ASSUME PaneInv, users' = users, view' = view
  PROVE  PaneInv'
BY DEF PaneInv, Sound, Framed, OnALine

\* Views that differ in what is in front of the listing only.
LEMMA SameLines ==
  ASSUME NEW v, NEW w, OnALine(v), v.mode # "load", w.items = v.items, w.sel = v.sel
  PROVE  OnALine(w)
BY DEF OnALine

LEMMA BackSound ==
  ASSUME NEW v, Sound(v), v # Closed, v.mode # "load"
  PROVE  /\ Sound(Back(v)) /\ Back(v) # Closed
         /\ Sound([Back(v) EXCEPT !.mode = "load"])
<1> DEFINE w == [Back(v) EXCEPT !.mode = "load"]
<1>1. Framed(v) /\ OnALine(v)
  BY DEF Sound
<1>2. Framed(Back(v)) /\ Back(v).items = v.items /\ Back(v).sel = v.sel /\ Back(v).mode = "list"
  BY <1>1 DEF Back, Framed, Fields
<1>3. Framed(w) /\ w.items = v.items /\ w.sel = v.sel
  BY <1>1 DEF Back, Framed, Fields
<1>4. Back(v) # Closed
  BY <1>2 DEF Closed
<1> QED
  BY <1>1, <1>2, <1>3, <1>4, SameLines DEF Sound

\* A listing is one of targets, and has a number of lines.
LEMMA ListingTyped ==
  ASSUME NEW u
  PROVE  DOMAIN ListingOf(u) \subseteq Targets
         /\ \A t \in DOMAIN ListingOf(u) : ListingOf(u)[t] \in BOOLEAN
BY DEF ListingOf

LEMMA LinesType ==
  ASSUME NEW items, DOMAIN items \subseteq Targets
  PROVE  Lines(items) \in Nat
<1>1. IsFiniteSet(DOMAIN items)
  BY PaneAssumption, FS_Subset
<1> QED
  BY <1>1, FS_CardinalityType DEF Lines

LEMMA LoadedSound ==
  ASSUME NEW v, Sound(v), v # Closed, NEW u
  PROVE  Sound(Loaded(v, ListingOf(u))) /\ Sound(LoadFailed(v))
<1> DEFINE listing == ListingOf(u)
           n == Lines(listing)
           sel == fix_selection(v.sel, n)
<1>1. Framed(v) /\ OnALine(v)
  BY DEF Sound
<1>2. DOMAIN listing \subseteq Targets /\ \A t \in DOMAIN listing : listing[t] \in BOOLEAN
  BY ListingTyped
<1> HIDE DEF listing
<1>3. n \in Nat /\ Lines(v.items) \in Nat
  BY <1>1, <1>2, LinesType DEF OnALine
<1>4. sel \in 0..n /\ (n # 0 => sel # 0)
  BY <1>1, <1>3 DEF OnALine, fix_selection, AtMost, AtLeast
<1> HIDE DEF sel
<1>5. Sound([v EXCEPT !.mode = "list", !.items = listing, !.fresh = TRUE, !.sel = sel])
  <2> DEFINE w == [v EXCEPT !.mode = "list", !.items = listing, !.fresh = TRUE, !.sel = sel]
  <2>1. Framed(w) /\ w.items = listing /\ w.sel = sel
    BY <1>1 DEF Framed, Fields
  <2>2. OnALine(w)
    BY <1>2, <1>4, <2>1 DEF OnALine
  <2> QED
    BY <2>1, <2>2 DEF Sound
<1>6. Sound(LoadFailed(v))
  <2>1. /\ Framed(LoadFailed(v)) /\ LoadFailed(v).items = <<>> /\ LoadFailed(v).sel = 0
    BY <1>1 DEF LoadFailed, Framed, Fields
  <2>2. DOMAIN <<>> = {} /\ Lines(<<>>) = 0
    BY FS_EmptySet DEF Lines
  <2>3. OnALine(LoadFailed(v))
    BY <2>1, <2>2 DEF OnALine
  <2> QED
    BY <2>1, <2>3 DEF Sound
<1> QED
  BY <1>5, <1>6 DEF Loaded, sel, listing

LEMMA LoadsSound ==
  ASSUME PaneInv, users' = users, NEW s \in Sessions, view[s] # Closed, Loads(s)
  PROVE  PaneInv'
<1>1. Sound(view[s])
  BY DEF PaneInv
<1> QED
  BY <1>1, LoadedSound, ShowSound DEF Loads

-----------------------------------------------------------------------------
\* Keys that change the session's view and nothing else.
LEMMA TurnSound ==
  ASSUME PaneInv, NEW s \in Sessions,
         \/ Open(s) \/ Close(s) \/ SwitchTab(s) \/ Navigate(s) \/ OpenRepo(s) \/ Pop(s)
         \/ AskCreate(s) \/ AskDelete(s) \/ AskToggle(s) \/ Cancel(s)
  PROVE  UNCHANGED vars /\ PaneInv'
<1>1. UNCHANGED vars
  <2>1. \A v : Turn(s, v) => UNCHANGED vars
    BY DEF Turn
  <2>2. CASE Open(s) \/ Close(s) \/ SwitchTab(s) \/ Navigate(s)
    BY <2>1, <2>2 DEF Open, Close, SwitchTab, Navigate
  <2>3. CASE OpenRepo(s) \/ Pop(s) \/ AskCreate(s) \/ Cancel(s)
    BY <2>1, <2>3 DEF OpenRepo, Pop, AskCreate, Cancel
  <2>4. CASE AskDelete(s) \/ AskToggle(s)
    BY <2>1, <2>4 DEF AskDelete, AskToggle, OwnSelected
  <2> QED
    BY <2>2, <2>3, <2>4
<1>2. users' = users
  BY <1>1 DEF vars, storeVars, userTable
<1> SUFFICES PaneInv'
  BY <1>1
<1>3. Sound(view[s])
  BY DEF PaneInv
<1>4. \A v : Turn(s, v) /\ Sound(v) => PaneInv'
  BY <1>2, ShowSound DEF Turn
<1>5. CASE Open(s)
  <2>1. ASSUME NEW u \in users \cup {NoUser} PROVE Sound(View(u))
    <3>1. Framed(View(u)) /\ View(u).items = <<>> /\ View(u).sel = 0 /\ View(u).mode = "load"
      BY DEF Framed, View, Fields
    <3>2. DOMAIN <<>> = {} /\ Lines(<<>>) = 0
      BY FS_EmptySet DEF Lines
    <3>3. OnALine(View(u))
      BY <3>1, <3>2 DEF OnALine
    <3> QED
      BY <3>1, <3>3 DEF Sound
  <2> QED
    BY <1>4, <1>5, <2>1 DEF Open
<1>6. CASE Close(s)
  BY <1>4, <1>6 DEF Close, Sound
<1> DEFINE v == view[s]
<1>7. CASE SwitchTab(s)
  <2> DEFINE w == [v EXCEPT !.active = IF @ = "repos" THEN "keys" ELSE "repos"]
  <2>1. Framed(v) /\ OnALine(v) /\ v.mode # "load"
    BY <1>3, <1>7 DEF SwitchTab, OnPane, TakesKeys, Sound
  <2>2. Framed(w) /\ w.items = v.items /\ w.sel = v.sel
    BY <2>1 DEF Framed, Fields
  <2>3. Sound(w)
    BY <2>1, <2>2, SameLines DEF Sound
  <2> QED
    BY <1>4, <1>7, <2>3 DEF SwitchTab
<1>8. CASE Navigate(s)
  <2>1. Framed(v) /\ OnALine(v) /\ v.mode # "load"
    BY <1>3, <1>8 DEF Navigate, InMode, OnPane, TakesKeys, Sound
  <2>2. PICK p \in Reachable(v.sel, Lines(v.items)) : Turn(s, [v EXCEPT !.sel = p])
    BY <1>8 DEF Navigate
  <2>3. p \in 0..Lines(v.items) /\ (Lines(v.items) # 0 => p # 0)
    <3>1. Lines(v.items) \in Nat /\ v.sel \in Nat
      BY <2>1, LinesType DEF OnALine
    <3> QED
      BY <2>2, <3>1 DEF Reachable, Moves, fix_selection, AtMost, AtLeast
  <2> DEFINE w == [v EXCEPT !.sel = p]
  <2>4. Framed(w) /\ w.items = v.items /\ w.sel = p
    BY <2>1 DEF Framed, Fields
  <2>5. OnALine(w)
    BY <2>1, <2>3, <2>4 DEF OnALine
  <2> QED
    BY <1>4, <2>2, <2>4, <2>5 DEF Sound
<1>9. CASE OpenRepo(s) \/ Pop(s)
  <2>1. Framed(v) /\ OnALine(v) /\ v.mode # "load"
    BY <1>3, <1>9 DEF OpenRepo, Pop, InMode, OnPane, TakesKeys, Sound
  <2>2. PICK t \in Targets \cup {NoTarget} : Turn(s, [v EXCEPT !.detail = t])
    BY <1>9, <2>1 DEF OpenRepo, Pop, selected, OnALine
  <2> DEFINE w == [v EXCEPT !.detail = t]
  <2>3. Framed(w) /\ w.items = v.items /\ w.sel = v.sel
    BY <2>1 DEF Framed, Fields
  <2>4. Sound(w)
    BY <2>1, <2>3, SameLines DEF Sound
  <2> QED
    BY <1>4, <2>2, <2>4
<1>10. CASE AskCreate(s)
  <2>1. Framed(v) /\ OnALine(v) /\ v.mode # "load" /\ v.user # NoUser
    BY <1>3, <1>10 DEF AskCreate, InMode, OnPane, TakesKeys, Sound
  <2> DEFINE w == [v EXCEPT !.mode = "create"]
  <2>2. Framed(w) /\ w.items = v.items /\ w.sel = v.sel
    BY <2>1 DEF Framed, Fields
  <2>3. Sound(w)
    BY <2>1, <2>2, SameLines DEF Sound
  <2> QED
    BY <1>4, <1>10, <2>3 DEF AskCreate
<1>11. CASE AskDelete(s)
  <2>1. Framed(v) /\ OnALine(v) /\ v.mode # "load"
    BY <1>3, <1>11 DEF AskDelete, InMode, OnPane, TakesKeys, Sound
  <2>2. PICK t \in Targets : owns(v, t) /\ Turn(s, DeleteAsked(v, t))
    BY <1>11, <2>1 DEF AskDelete, OwnSelected, selected, OnALine
  <2>3. /\ Framed(DeleteAsked(v, t)) /\ DeleteAsked(v, t).items = v.items
        /\ DeleteAsked(v, t).sel = v.sel
    BY <2>1, <2>2 DEF DeleteAsked, owns, Framed, Fields
  <2>4. Sound(DeleteAsked(v, t))
    BY <2>1, <2>3, SameLines DEF Sound
  <2> QED
    BY <1>4, <2>2, <2>4
<1>12. CASE AskToggle(s)
  <2>1. Framed(v) /\ OnALine(v) /\ v.mode # "load"
    BY <1>3, <1>12 DEF AskToggle, InMode, OnPane, TakesKeys, Sound
  <2>2. PICK t \in Targets : (~v.items[t]) \in BOOLEAN /\ Turn(s, ToggleAsked(v, t))
    BY <1>12, <2>1 DEF AskToggle, OwnSelected, selected, OnALine
  <2>3. /\ Framed(ToggleAsked(v, t)) /\ ToggleAsked(v, t).items = v.items
        /\ ToggleAsked(v, t).sel = v.sel
    BY <2>1, <2>2 DEF ToggleAsked, Framed, Fields
  <2>4. Sound(ToggleAsked(v, t))
    BY <2>1, <2>3, SameLines DEF Sound
  <2> QED
    BY <1>4, <2>2, <2>4
<1>13. CASE Cancel(s)
  <2>1. Sound(Back(view[s]))
    BY <1>3, <1>13, BackSound DEF Cancel, InMode, OnPane, TakesKeys
  <2> QED
    BY <1>4, <1>13, <2>1 DEF Cancel
<1> QED
  BY <1>5, <1>6, <1>7, <1>8, <1>9, <1>10, <1>11, <1>12, <1>13

\* The dialogs' "y" and Enter: each is a request of RepoLifecycle.
LEMMA RequestSoundly ==
  ASSUME PaneInv, {"create", "delete"} \subseteq Ops, NEW s \in Sessions,
         Create(s) \/ ConfirmDelete(s) \/ ConfirmToggle(s)
  PROVE  [Next]_vars /\ PaneInv'
<1>1. Sound(view[s]) /\ view[s] # Closed /\ view[s].mode # "load" /\ s \in Workers
  BY PaneAssumption
  DEF PaneInv, Create, ConfirmDelete, ConfirmToggle, InMode, OnPane, TakesKeys
<1>2. /\ Sound(Back(view[s]))
      /\ Sound([Back(view[s]) EXCEPT !.mode = "load"])
  BY <1>1, BackSound
<1>3. CASE Create(s)
  <2>1. view[s].user \in users /\ view[s].user # NoUser
    BY <1>1, <1>3 DEF Create, InMode, Sound, Framed
  <2>2. PICK t \in Targets : t[1] = view[s].user.username /\ Request(s, "create", view[s].user, t)
    BY <1>3 DEF Create
  <2>3. Start(s, "create", view[s].user, t)
    BY <2>1, <2>2 DEF Start
  <2>4. Next
    BY <1>1, <2>1, <2>3 DEF Next, Arrive
  <2> QED
    BY <1>2, <1>3, <2>4, UsersStay, ShowSound DEF Create
<1>4. CASE ConfirmDelete(s)
  <2>1. /\ view[s].user \in users /\ view[s].user # NoUser
        /\ view[s].pending \in Targets /\ view[s].user.username = view[s].pending[1]
    BY <1>1, <1>4 DEF ConfirmDelete, InMode, Sound, Framed
  <2>2. Start(s, "delete", view[s].user, view[s].pending)
    BY <1>4, <2>1 DEF ConfirmDelete, Start
  <2>3. Next
    BY <1>1, <2>1, <2>2 DEF Next, Arrive
  <2> QED
    BY <1>2, <1>4, <2>3, UsersStay, ShowSound DEF ConfirmDelete
<1>5. CASE ConfirmToggle(s)
  <2>1. view[s].pending \in Targets /\ view[s].visibility \in BOOLEAN
    BY <1>1, <1>5 DEF ConfirmToggle, InMode, Sound, Framed
  <2>2. UNCHANGED vars \/ OtherChanges
    BY <1>5, <2>1 DEF ConfirmToggle, OtherChanges, vars
  <2>3. [Next]_vars
    BY <2>2 DEF Next
  <2> QED
    BY <1>2, <1>5, <2>3, UsersStay, ShowSound DEF ConfirmToggle
<1> QED
  BY <1>3, <1>4, <1>5

\* Every step of the pane is one of RepoLifecycle, or leaves the repositories alone.
LEMMA StepImplements ==
  {"create", "delete"} \subseteq Ops /\ PaneInv /\ [PaneNext]_paneVars
    => [Next]_vars /\ PaneInv'
<1> SUFFICES ASSUME {"create", "delete"} \subseteq Ops, PaneInv, [PaneNext]_paneVars
             PROVE  [Next]_vars /\ PaneInv'
  OBVIOUS
<1>1. ASSUME NEW s \in Sessions, KeyPress(s) \/ Open(s) PROVE [Next]_vars /\ PaneInv'
  BY <1>1, TurnSound, RequestSoundly DEF KeyPress
<1>2. ASSUME NEW s \in Sessions, Load(s) PROVE [Next]_vars /\ PaneInv'
  <2>1. UNCHANGED vars /\ view[s] # Closed /\ Loads(s)
    BY <1>2 DEF Load
  <2> QED
    BY <2>1, LoadsSound DEF vars, storeVars, userTable
<1>3. ASSUME NEW s \in Sessions, Returned(s) PROVE [Next]_vars /\ PaneInv'
  <2>1. Next
    BY <1>3, PaneAssumption DEF Returned, Next, Step, Serve
  <2> QED
    BY <1>3, <2>1, UsersStay, LoadsSound DEF Returned
<1>4. ASSUME NEW s \in Sessions, Step(s), Become(s, view[s]) PROVE [Next]_vars /\ PaneInv'
  <2>1. Next
    BY <1>4, PaneAssumption DEF Next
  <2>2. Sound(view[s])
    BY DEF PaneInv
  <2> QED
    BY <1>4, <2>1, <2>2, UsersStay, ShowSound
<1>5. ASSUME NEW w \in Workers, (Arrive(w, Ops) /\ UNCHANGED view) \/ (Step(w) /\ WatchAll)
      PROVE  [Next]_vars /\ PaneInv'
  <2>1. Next
    BY <1>5 DEF Next
  <2> QED
    BY <1>5, <2>1, UsersStay, StillSound, WatchSound
<1>6. CASE Crash /\ view' = [s \in Sessions |-> Closed]
  <2>1. Next
    BY <1>6 DEF Next
  <2>2. PaneInv'
    BY <1>6 DEF PaneInv, Sound
  <2> QED
    BY <2>1, <2>2
<1>7. CASE OtherChanges /\ WatchAll
  <2>1. Next
    BY <1>7 DEF Next
  <2> QED
    BY <1>7, <2>1, UsersStay, WatchSound
<1>8. CASE UNCHANGED paneVars
  <2>1. UNCHANGED vars /\ view' = view
    BY <1>8 DEF paneVars
  <2> QED
    BY <2>1, StillSound DEF vars, storeVars, userTable
<1> QED
  BY <1>1, <1>2, <1>3, <1>4, <1>5, <1>6, <1>7, <1>8 DEF PaneNext

-----------------------------------------------------------------------------
LEMMA PaneInvInit == PaneInit => Init /\ PaneInv
BY DEF PaneInit, PaneInv, Sound

\* The pane implements RepoLifecycle, with any number of sessions beside any
\* number of git commands (repos.rs:92-256).
THEOREM PaneImplementsLifecycle == {"create", "delete"} \subseteq Ops /\ PaneSpec => Spec
<1> SUFFICES ASSUME {"create", "delete"} \subseteq Ops PROVE PaneSpec => Spec
  OBVIOUS
<1>1. PaneInv /\ [PaneNext]_paneVars => [Next]_vars /\ PaneInv'
  BY StepImplements
<1> QED
  BY <1>1, PaneInvInit, PTL DEF PaneSpec, Spec

\* So no session, whatever it asks for, brings a directory into being outside
\* a user's namespace.
COROLLARY PaneKeepsNamespaces ==
  {"create", "delete"} \subseteq Ops /\ PaneSpec => []NamespacesAreUsers
BY PaneImplementsLifecycle, NamespacesAreUsersHolds, PTL

\* A row goes by DropRow only, and each DropRow is for its own target.
LEMMA RowGoes ==
  ASSUME Inv, [Next]_vars, NEW t \in Targets, RowOf(t) # {}, RowOf(t)' = {}
  PROVE  \E w \in Workers : DropRow(w) /\ at[w] = t
<1> USE DEF RowOf, get_repo, GetRepoIn
<1>1. CASE UNCHANGED storeVars
  BY <1>1 DEF storeVars, userTable, repoTable
<1>2. ASSUME NEW w \in Workers, InsertRow(w) PROVE FALSE
  <2>1. repos \subseteq repos' /\ users' = users
    BY <1>2 DEF InsertRow, insert_repo, storeVars, userTable, repoTable
  <2> QED
    BY <2>1
<1>3. CASE OtherChanges
  <2>1. ASSUME NEW o, NEW n, NEW p, set_public(o, n, p) PROVE FALSE
    <3> DEFINE Flip(r) == IF r \in get_repo(o, n) THEN [r EXCEPT !.public = p] ELSE r
    <3>1. repos' = {Flip(r) : r \in repos} /\ users' = users
      BY <2>1 DEF set_public, userTable
    <3>2. \A r \in repos : Flip(r).owner_id = r.owner_id /\ Flip(r).name = r.name
      BY DEF Inv, TypeOK, StoreTypeOK, Repo
    <3> HIDE DEF Flip
    <3>3. PICK r \in repos : r.name = t[2] /\ \E u \in users : u.id = r.owner_id /\ u.username = t[1]
      OBVIOUS
    <3>4. PICK f \in repos' : f.name = t[2] /\ f.owner_id = r.owner_id
      BY <3>1, <3>2, <3>3
    <3>5. f \in RowOf(t)'
      BY <3>1, <3>3, <3>4
    <3> QED
      BY <3>5
  <2>2. ASSUME NEW u, NEW r, grant_write(u, r) PROVE FALSE
    BY <2>2 DEF grant_write, userTable
  <2> QED
    BY <1>3, <2>1, <2>2 DEF OtherChanges
<1>4. ASSUME NEW w \in Workers, DropRow(w) PROVE at[w] = t
  <2>1. delete_repo(at[w][1], at[w][2])
    BY <1>4 DEF DropRow, storeVars, userTable, repoTable
  <2>2. PICK gone \in get_repo(at[w][1], at[w][2]) :
          repos' = {r \in repos : r.id # gone.id} /\ users' = users
    BY <2>1 DEF delete_repo, userTable
  <2>3. PICK r \in repos : r \in RowOf(t)
    OBVIOUS
  <2>4. r = gone
    BY <2>2, <2>3 DEF Inv, StoreInv, StoreIntegrity, ReposSound
  <2>5. at[w][1] = t[1] /\ at[w][2] = t[2]
    BY <2>2, <2>3, <2>4 DEF Inv, StoreInv, StoreIntegrity, UsersSound
  <2>6. at[w] \in Usernames \X RepoNames /\ t \in Usernames \X RepoNames
    BY <1>4, LifecycleAssumption DEF DropRow, Inv, RequestSound
  <2> QED
    BY <2>5, <2>6
<1>5. ASSUME NEW w \in Workers, Arrive(w, Ops) PROVE UNCHANGED storeVars
  BY <1>5 DEF Arrive, Start, Request
<1>6. ASSUME NEW w \in Workers, Step(w), ~InsertRow(w), ~DropRow(w) PROVE UNCHANGED storeVars
  BY <1>6 DEF Step, Serve, Remove, CheckAccess, CheckExists, BarePath, InitStart, InitEnd,
     SetHead, SelectRow, Spawn, Served, Reply, DropDir, RmEnd
<1>7. CASE Crash \/ UNCHANGED vars
  BY <1>1, <1>7 DEF Crash, vars
<1> QED
  BY <1>1, <1>2, <1>3, <1>4, <1>5, <1>6, <1>7 DEF Next

\* A repository's row goes only at the hands of its owner, for any number of
\* sessions and listings of any age (repos.rs:92-95, 128-141, 210-234).
THEOREM OnlyOwnersDeleteHolds ==
  {"create", "delete"} \subseteq Ops /\ PaneSpec => OnlyOwnersDelete
<1> SUFFICES ASSUME {"create", "delete"} \subseteq Ops PROVE PaneSpec => OnlyOwnersDelete
  OBVIOUS
<1>1. PaneInv /\ [PaneNext]_paneVars => [Next]_vars /\ PaneInv'
  BY StepImplements
<1>2. Inv /\ [Next]_vars =>
        \A t \in Targets : RowOf(t) # {} /\ RowOf(t)' = {} =>
          \E w \in Workers : at[w] = t /\ who[w] # NoUser /\ who[w].username = t[1]
  <2> SUFFICES ASSUME Inv, [Next]_vars, NEW t \in Targets, RowOf(t) # {}, RowOf(t)' = {}
               PROVE  \E w \in Workers : at[w] = t /\ who[w] # NoUser
                                           /\ who[w].username = t[1]
    OBVIOUS
  <2>1. PICK w \in Workers : DropRow(w) /\ at[w] = t
    BY RowGoes
  <2>2. pc[w] = "drop_row"
    BY <2>1 DEF DropRow
  <2> QED
    BY <2>1, <2>2 DEF Inv, RequestSound
<1> QED
  BY <1>1, <1>2, PaneInvInit, InvInit, InvNext, PTL DEF PaneSpec, OnlyOwnersDelete

-----------------------------------------------------------------------------
\* A step of a request moves its own connection only, and ends with the reply.
LEMMA StepMoves ==
  ASSUME Inv, NEW w \in Workers, Step(w)
  PROVE  /\ pc[w] # "idle" /\ (pc[w] # "reply" => pc'[w] # "idle")
         /\ \A v \in Workers \ {w} : pc'[v] = pc[v]
<1> USE DEF Inv, TypeOK, Goto, Continue, Return
<1>1. CASE CheckAccess(w)
  BY <1>1 DEF CheckAccess
<1>2. CASE CheckExists(w)
  BY <1>2 DEF CheckExists
<1>3. CASE BarePath(w) \/ InitStart(w) \/ InitEnd(w) \/ SetHead(w)
  BY <1>3 DEF BarePath, AfterBare, InitStart, InitEnd, SetHead
<1>4. CASE InsertRow(w) \/ SelectRow(w)
  BY <1>4 DEF InsertRow, SelectRow
<1>5. CASE Spawn(w) \/ Served(w) \/ Reply(w)
  BY <1>5 DEF Spawn, Served, Reply
<1>6. CASE DropRow(w) \/ DropDir(w) \/ RmEnd(w)
  BY <1>6 DEF DropRow, DropDir, RmEnd
<1> QED
  BY <1>1, <1>2, <1>3, <1>4, <1>5, <1>6 DEF Step, Serve, Remove

LEMMA RequestMoves ==
  ASSUME Inv, NEW w \in Workers, NEW o, NEW u, NEW t, Request(w, o, u, t)
  PROVE  /\ pc[w] = "idle" /\ pc'[w] \in {"insert", "drop_row", "access"}
         /\ \A v \in Workers \ {w} : pc'[v] = pc[v]
         /\ UNCHANGED <<storeVars, diskVars, result>>
         /\ op'[w] = o /\ at'[w] = t
BY DEF Request, Goto, Inv, TypeOK

-----------------------------------------------------------------------------
\* Freshness of one session's listing.
Fresh(r) == TakesKeys(r) /\ view[r].fresh => view[r].items = ListingOf(view[r].user)

\* What a user is listed depends on the store alone.
LEMMA ListingStays ==
  ASSUME UNCHANGED storeVars, NEW u
  PROVE  ListingOf(u)' = ListingOf(u)
BY DEF ListingOf, list_public_repos, list_repos_for_user, RowOf, get_repo, GetRepoIn,
       storeVars, userTable, repoTable

\* Nothing changes for a session, in its view or in the store ...
LEMMA FreshStays ==
  ASSUME NEW r \in Sessions, Fresh(r), UNCHANGED storeVars,
         pc'[r] = pc[r] \/ pc'[r] # "idle",
         \/ view'[r] = view[r]
         \/ view[r].mode # "load" /\ view'[r].items = view[r].items /\ view'[r].user = view[r].user
               /\ view'[r].fresh = view[r].fresh /\ view[r] # Closed
  PROVE  Fresh(r)'
BY ListingStays DEF Fresh, TakesKeys

\* ... it looks on while others take a step ...
LEMMA FreshWatched ==
  ASSUME NEW r \in Sessions, Sound(view[r]), Fresh(r), pc'[r] = pc[r], view'[r] = Watched(r)
  PROVE  Fresh(r)'
<1>1. CASE view[r] = Closed
  BY <1>1 DEF Fresh, TakesKeys, Watched
<1>2. CASE view[r] # Closed
  <2> SUFFICES ASSUME view'[r].mode # "load", pc'[r] = "idle", view'[r].fresh
               PROVE  (view[r].items = ListingOf(view[r].user))'
    BY DEF Fresh, TakesKeys
  <2>1. /\ view'[r].mode = view[r].mode /\ view'[r].items = view[r].items
        /\ view'[r].user = view[r].user
        /\ view[r].fresh /\ view[r].user \in SameListing
    BY <1>2 DEF Watched, Sound, Framed, Fields
  <2>2. view[r].items = ListingOf(view[r].user)
    BY <1>2, <2>1 DEF Fresh, TakesKeys
  <2>3. PICK u : u = view[r].user /\ ListingOf(u)' = ListingOf(u)
    BY <2>1 DEF SameListing
  <2> QED
    BY <2>1, <2>2, <2>3
<1> QED
  BY <1>1, <1>2

\* ... or it loads its listing.
LEMMA FreshLoaded ==
  ASSUME PaneInv, NEW s \in Sessions, view[s] # Closed, UNCHANGED storeVars, Loads(s)
  PROVE  Fresh(s)'
<1>1. Framed(view[s])
  BY DEF PaneInv, Sound
<1>2. PICK u : u = view[s].user
  OBVIOUS
<1>3. ListingOf(u)' = ListingOf(u)
  BY ListingStays
<1>4. CASE view'[s] = Loaded(view[s], ListingOf(u))
  <2>1. view'[s].items = ListingOf(u) /\ view'[s].user = u
    BY <1>1, <1>2, <1>4 DEF Loaded, Framed, Fields
  <2> QED
    BY <1>3, <2>1 DEF Fresh
<1>5. CASE view'[s] = LoadFailed(view[s])
  BY <1>1, <1>5 DEF Fresh, LoadFailed, Framed, Fields
<1> QED
  BY <1>2, <1>4, <1>5 DEF Loads, Show, PaneInv

\* Keys that start no request leave what is listed, and its history, alone; or
\* the session is gone, or about to load.
LEMMA TurnKeeps ==
  ASSUME PaneInv, NEW s \in Sessions,
         \/ Open(s) \/ Close(s) \/ SwitchTab(s) \/ Navigate(s) \/ OpenRepo(s) \/ Pop(s)
         \/ AskCreate(s) \/ AskDelete(s) \/ AskToggle(s) \/ Cancel(s)
  PROVE  /\ UNCHANGED <<vars, historyVars>> /\ \A r \in Sessions \ {s} : view'[r] = view[r]
         /\ \/ view'[s] = Closed
            \/ view'[s].mode = "load"
            \/ /\ view[s] # Closed /\ view[s].mode # "load"
               /\ view'[s].items = view[s].items /\ view'[s].user = view[s].user
               /\ view'[s].fresh = view[s].fresh
<1> DEFINE v == view[s]
           Keeps(w) == /\ v # Closed /\ v.mode # "load"
                       /\ w.items = v.items /\ w.user = v.user /\ w.fresh = v.fresh
<1>1. Sound(v)
  BY DEF PaneInv
<1>2. SUFFICES \E w : Turn(s, w) /\ (w = Closed \/ w.mode = "load" \/ Keeps(w))
  BY DEF Turn, Show, PaneInv
<1>3. CASE Open(s)
  BY <1>3 DEF Open, View
<1>4. CASE Close(s)
  BY <1>4 DEF Close
<1>5. ASSUME v # Closed, v.mode # "load"
      PROVE  /\ \A x : Keeps([v EXCEPT !.active = x]) /\ Keeps([v EXCEPT !.sel = x])
                       /\ Keeps([v EXCEPT !.detail = x]) /\ Keeps([v EXCEPT !.mode = x])
             /\ \A t : Keeps(DeleteAsked(v, t)) /\ Keeps(ToggleAsked(v, t))
             /\ Keeps(Back(v))
  BY <1>1, <1>5 DEF Sound, Framed, Fields, DeleteAsked, ToggleAsked, Back
<1>6. CASE SwitchTab(s)
  <2>1. Keeps([v EXCEPT !.active = IF @ = "repos" THEN "keys" ELSE "repos"])
    BY <1>1, <1>6 DEF SwitchTab, OnPane, TakesKeys, Sound, Framed, Fields
  <2> QED
    BY <1>6, <2>1 DEF SwitchTab
<1> HIDE DEF Keeps
<1>7. CASE Navigate(s) \/ OpenRepo(s) \/ Pop(s)
  BY <1>5, <1>7 DEF Navigate, OpenRepo, Pop, InMode, OnPane, TakesKeys
<1>8. CASE AskCreate(s) \/ Cancel(s)
  BY <1>5, <1>8 DEF AskCreate, Cancel, InMode, OnPane, TakesKeys
<1>9. CASE AskDelete(s) \/ AskToggle(s)
  BY <1>5, <1>9 DEF AskDelete, AskToggle, InMode, OnPane, TakesKeys
<1> QED
  BY <1>3, <1>4, <1>6, <1>7, <1>8, <1>9

LEMMA FreshInductive ==
  Inv /\ PaneInv /\ FreshListing /\ [PaneNext]_paneVars => FreshListing'
<1> SUFFICES ASSUME Inv, PaneInv, FreshListing, [PaneNext]_paneVars, NEW r \in Sessions
             PROVE  Fresh(r)'
  BY DEF FreshListing, Fresh
<1>1. Fresh(r) /\ Sound(view[r]) /\ r \in Workers
  BY PaneAssumption DEF FreshListing, Fresh, PaneInv
<1>2. ASSUME NEW s \in Sessions, Become(s, view'[s]), r # s, pc'[r] = pc[r] PROVE Fresh(r)'
  BY <1>1, <1>2, FreshWatched DEF Become
<1>3. ASSUME view'[r] = view[r], UNCHANGED storeVars, pc'[r] = pc[r] PROVE Fresh(r)'
  BY <1>1, <1>3, FreshStays
<1>4. ASSUME pc'[r] # "idle" PROVE Fresh(r)'
  BY <1>4 DEF Fresh, TakesKeys
<1>5. ASSUME NEW s \in Sessions,
             \/ Open(s) \/ Close(s) \/ SwitchTab(s) \/ Navigate(s) \/ OpenRepo(s) \/ Pop(s)
             \/ AskCreate(s) \/ AskDelete(s) \/ AskToggle(s) \/ Cancel(s)
      PROVE  Fresh(r)'
  <2>1. UNCHANGED storeVars /\ pc' = pc
    BY <1>5, TurnKeeps DEF vars, workerVars
  <2>2. CASE r # s
    BY <1>3, <1>5, <2>1, <2>2, TurnKeeps
  <2>3. CASE r = s /\ (view'[s] = Closed \/ view'[s].mode = "load")
    BY <2>3 DEF Fresh, TakesKeys
  <2>4. CASE r = s /\ view[s] # Closed /\ view[s].mode # "load" /\ view'[s].items = view[s].items
             /\ view'[s].user = view[s].user /\ view'[s].fresh = view[s].fresh
    BY <1>1, <2>1, <2>4, FreshStays
  <2> QED
    BY <1>5, <2>2, <2>3, <2>4, TurnKeeps
<1>6. ASSUME NEW s \in Sessions, NEW v, Show(s, v), NEW o, NEW t, Request(s, o, view[s].user, t)
      PROVE  Fresh(r)'
  <2>1. /\ UNCHANGED storeVars /\ pc'[s] # "idle" /\ \A w \in Workers \ {s} : pc'[w] = pc[w]
    BY <1>6, RequestMoves, PaneAssumption
  <2>2. r # s => view'[r] = view[r]
    BY <1>6 DEF Show, PaneInv
  <2> QED
    BY <1>1, <1>3, <1>4, <2>1, <2>2
<1>7. ASSUME NEW s \in Sessions, Create(s) \/ ConfirmDelete(s) PROVE Fresh(r)'
  BY <1>6, <1>7 DEF Create, ConfirmDelete
<1>8. ASSUME NEW s \in Sessions, ConfirmToggle(s) PROVE Fresh(r)'
  <2>1. pc' = pc
    BY <1>8 DEF ConfirmToggle, workerVars
  <2>2. view'[s].mode = "load" /\ Become(s, view'[s])
    <3>1. Framed(view[s])
      BY <1>8 DEF ConfirmToggle, InMode, OnPane, TakesKeys, PaneInv, Sound
    <3>2. [Back(view[s]) EXCEPT !.mode = "load"].mode = "load"
      BY <3>1 DEF Back, Framed, Fields
    <3> QED
      BY <1>8, <3>2 DEF ConfirmToggle, Become
  <2>3. CASE r = s
    BY <2>2, <2>3 DEF Fresh, TakesKeys
  <2> QED
    BY <1>2, <2>1, <2>2, <2>3
<1>9. ASSUME NEW s \in Sessions, Load(s) \/ Returned(s) PROVE Fresh(r)'
  <2>1. view[s] # Closed /\ UNCHANGED storeVars /\ Loads(s)
        /\ \A w \in Workers \ {s} : pc'[w] = pc[w]
    BY <1>9 DEF Load, Returned, Reply, Goto, vars, workerVars, Inv, TypeOK
  <2>2. CASE r = s
    BY <2>1, <2>2, FreshLoaded
  <2>3. CASE r # s
    <3>1. view'[r] = view[r]
      BY <2>1, <2>3 DEF Loads, Show, PaneInv
    <3> QED
      BY <1>1, <1>3, <2>1, <2>3, <3>1
  <2> QED
    BY <2>2, <2>3
<1>10. ASSUME NEW s \in Sessions, pc[s] # "reply", Step(s), Become(s, view[s]) PROVE Fresh(r)'
  <2>1. pc'[s] # "idle" /\ \A v \in Workers \ {s} : pc'[v] = pc[v]
    BY <1>10, StepMoves, PaneAssumption
  <2>2. Become(s, view'[s])
    BY <1>10 DEF Become
  <2> QED
    BY <1>1, <1>2, <1>4, <2>1, <2>2
<1>11. ASSUME NEW w \in Workers \ Sessions, Arrive(w, Ops), UNCHANGED view PROVE Fresh(r)'
  <2>1. PICK o, u, t : Request(w, o, u, t)
    BY <1>11 DEF Arrive, Start
  <2>2. UNCHANGED storeVars /\ pc'[r] = pc[r]
    BY <1>1, <2>1, RequestMoves
  <2> QED
    BY <1>3, <1>11, <2>2
<1>12. ASSUME NEW w \in Workers \ Sessions, Step(w), WatchAll PROVE Fresh(r)'
  BY <1>1, <1>12, StepMoves, FreshWatched DEF WatchAll
<1>13. CASE Crash /\ view' = [s \in Sessions |-> Closed]
  BY <1>13 DEF Fresh, TakesKeys
<1>14. CASE OtherChanges /\ WatchAll
  BY <1>1, <1>14, FreshWatched DEF OtherChanges, workerVars, WatchAll
<1>15. CASE UNCHANGED paneVars
  BY <1>3, <1>15 DEF paneVars, vars, workerVars
<1> QED
  BY <1>5, <1>7, <1>8, <1>9, <1>10, <1>11, <1>12, <1>13, <1>14, <1>15 DEF PaneNext, KeyPress

\* Whatever its sessions did before, with listings of any age (repos.rs:161-256).
THEOREM FreshListingHolds ==
  {"create", "delete"} \subseteq Ops /\ PaneSpec => []FreshListing
<1> SUFFICES ASSUME {"create", "delete"} \subseteq Ops PROVE PaneSpec => []FreshListing
  OBVIOUS
<1>1. PaneInit => FreshListing
  BY DEF PaneInit, FreshListing, TakesKeys
<1>2. PaneInv /\ [PaneNext]_paneVars => [Next]_vars /\ PaneInv'
  BY StepImplements
<1> QED
  BY <1>1, <1>2, PaneInvInit, InvInit, InvNext, FreshInductive, PTL DEF PaneSpec

-----------------------------------------------------------------------------
\* A push that runs by itself has made its directory before the row, and the
\* row before git starts; a deletion has dropped the row before the directory.
Alone(w) ==
    /\ \A v \in Workers \ {w} : pc[v] = "idle"
    /\ op[w] = "push" /\ pc[w] \in {"initing", "head", "insert", "select", "spawn", "serve"}
         => disk[at[w]] # "absent"
    /\ op[w] = "push" /\ pc[w] \in {"spawn", "serve"} => RowOf(at[w]) # {}
    /\ pc[w] \in {"drop_dir", "rm"} => RowOf(at[w]) = {}
    /\ result[w] = "deleted" => RowOf(at[w]) = {} /\ disk[at[w]] = "absent"

AloneInv ==
    /\ alone \subseteq Workers
    /\ \A w \in Workers : result[w] # "none" => pc[w] = "reply"
    /\ \A w \in alone : Alone(w)

\* A row comes by InsertRow only, and each InsertRow is for its own target.
LEMMA RowStaysAway ==
  ASSUME Inv, [Next]_vars, \A w \in Workers : ~InsertRow(w),
         NEW t \in Targets, RowOf(t) = {}
  PROVE  RowOf(t)' = {}
<1> USE DEF RowOf, get_repo, GetRepoIn
<1>1. CASE UNCHANGED storeVars
  BY <1>1 DEF storeVars, userTable, repoTable
<1>2. CASE OtherChanges
  <2>1. ASSUME NEW o, NEW n, NEW p, set_public(o, n, p) PROVE RowOf(t)' = {}
    <3> DEFINE Flip(r) == IF r \in get_repo(o, n) THEN [r EXCEPT !.public = p] ELSE r
    <3>1. repos' = {Flip(r) : r \in repos} /\ users' = users
      BY <2>1 DEF set_public, userTable
    <3>2. \A r \in repos : Flip(r).owner_id = r.owner_id /\ Flip(r).name = r.name
      BY DEF Inv, TypeOK, StoreTypeOK, Repo
    <3> HIDE DEF Flip
    <3> QED
      BY <3>1, <3>2
  <2>2. ASSUME NEW u, NEW r, grant_write(u, r) PROVE RowOf(t)' = {}
    BY <2>2 DEF grant_write, userTable
  <2> QED
    BY <1>2, <2>1, <2>2 DEF OtherChanges
<1>3. ASSUME NEW w \in Workers, DropRow(w) PROVE RowOf(t)' = {}
  <2>1. CASE UNCHANGED storeVars
    BY <1>1, <2>1
  <2>2. CASE delete_repo(at[w][1], at[w][2])
    <3>1. repos' \subseteq repos /\ users' = users
      BY <2>2 DEF delete_repo, userTable
    <3> QED
      BY <3>1
  <2> QED
    BY <1>3, <2>1, <2>2 DEF DropRow
<1>4. ASSUME NEW w \in Workers, Arrive(w, Ops) PROVE UNCHANGED storeVars
  BY <1>4 DEF Arrive, Start, Request
<1>5. ASSUME NEW w \in Workers, Step(w), ~DropRow(w) PROVE UNCHANGED storeVars
  BY <1>5 DEF Step, Serve, Remove, CheckAccess, CheckExists, BarePath, InitStart, InitEnd,
     SetHead, SelectRow, Spawn, Served, Reply, DropDir, RmEnd
<1>6. CASE Crash \/ UNCHANGED vars
  BY <1>1, <1>6 DEF Crash, vars
<1> QED
  BY <1>1, <1>2, <1>3, <1>4, <1>5, <1>6 DEF Next

\* The row that delete_repo takes is the only one of its owner and name.
LEMMA RowGone ==
  ASSUME Inv, NEW w \in Workers, delete_repo(at[w][1], at[w][2]), NEW t, t = at[w]
  PROVE  RowOf(t)' = {}
<1> USE DEF RowOf, get_repo, GetRepoIn
<1>1. PICK gone \in RowOf(t) : repos' = {r \in repos : r.id # gone.id} /\ users' = users
  BY DEF delete_repo, userTable
<1>2. \A r \in RowOf(t) : r = gone
  BY <1>1 DEF Inv, StoreInv, StoreIntegrity, ReposSound, UsersSound
<1> QED
  BY <1>1, <1>2

\* Someone whose request is somewhere with nothing else of it changed.
LEMMA AloneStays ==
  ASSUME NEW w \in Workers, Alone(w), \A v \in Workers : pc'[v] = pc[v],
         op'[w] = op[w], at'[w] = at[w], result'[w] = result[w], disk' = disk,
         RowOf(at[w])' = {} <=> RowOf(at[w]) = {}
  PROVE  Alone(w)'
BY DEF Alone

\* A handler goes on to l: what must have been seen to there; ...
LEMMA AloneContinues ==
  ASSUME Inv, NEW w \in Workers, Alone(w), result[w] = "none", NEW l \in Points,
         pc' = [pc EXCEPT ![w] = l], UNCHANGED <<op, at, result>>, NEW t, t = at[w],
         op[w] = "push" /\ l \in {"initing", "head", "insert", "select", "spawn", "serve"}
           => disk'[t] # "absent",
         op[w] = "push" /\ l \in {"spawn", "serve"} => RowOf(t)' # {},
         l \in {"drop_dir", "rm"} => RowOf(t)' = {}
  PROVE  Alone(w)'
BY DEF Alone, Inv, TypeOK

\* ... and when it returns, only a deletion's success is a claim.
LEMMA AloneReturns ==
  ASSUME Inv, NEW w \in Workers, Alone(w), NEW r, Return(w, r), NEW t, t = at[w],
         r = "deleted" => RowOf(t)' = {} /\ disk'[t] = "absent"
  PROVE  Alone(w)'
BY DEF Return, Goto, Same, Alone, Inv, TypeOK

LEMMA AloneStep ==
  ASSUME Inv, NEW w \in Workers, Alone(w), result[w] # "none" => pc[w] = "reply", Step(w)
  PROVE  Alone(w)'
<1>1. pc[w] # "idle" => at[w] \in Targets
  BY DEF Inv, RequestSound
<1>2. PICK k : k = at[w]
  OBVIOUS
<1>3. UNCHANGED storeVars => RowOf(k)' = RowOf(k)
  BY DEF RowOf, get_repo, GetRepoIn, storeVars, userTable, repoTable
<1>4. ASSUME NEW l \in Points, Continue(w, l), pc[w] # "reply",
             op[w] = "push" /\ l \in {"initing", "head", "insert", "select", "spawn", "serve"}
               => disk'[k] # "absent",
             op[w] = "push" /\ l \in {"spawn", "serve"} => RowOf(k)' # {},
             l \in {"drop_dir", "rm"} => RowOf(k)' = {}
      PROVE  Alone(w)'
  BY <1>2, <1>4, AloneContinues DEF Continue, Goto, Same
<1>5. ASSUME NEW r, Return(w, r), r # "deleted" PROVE Alone(w)'
  BY <1>2, <1>5, AloneReturns
<1> USE DEF Points
<1>6. CASE CheckAccess(w)
  BY <1>4, <1>5, <1>6 DEF CheckAccess
<1>7. CASE CheckExists(w)
  <2>1. op[w] = "clone"
    BY <1>7 DEF CheckExists, Inv, RequestSound
  <2> QED
    BY <1>4, <1>5, <1>7, <2>1 DEF CheckExists
<1>8. CASE BarePath(w)
  <2>1. disk' = disk
    BY <1>8 DEF BarePath, diskVars
  <2> QED
    BY <1>2, <1>4, <1>5, <1>8, <2>1 DEF BarePath, AfterBare
<1>9. CASE InitStart(w) \/ InitEnd(w) \/ SetHead(w)
  <2>1. k \in Targets
    BY <1>1, <1>2, <1>9 DEF InitStart, InitEnd, SetHead
  <2>2. \A d : SetDisk(w, d) => disk'[k] = d
    BY <1>2, <2>1 DEF SetDisk, Inv, TypeOK
  <2>3. CASE InitStart(w)
    BY <1>2, <1>4, <1>5, <2>2, <2>3 DEF InitStart
  <2>4. CASE InitEnd(w)
    BY <1>2, <1>4, <1>5, <2>2, <2>4 DEF InitEnd
  <2>5. CASE SetHead(w)
    BY <1>2, <1>4, <1>5, <2>2, <2>5 DEF SetHead, AfterBare, Usable
  <2> QED
    BY <1>9, <2>3, <2>4, <2>5
<1>10. CASE InsertRow(w)
  <2>1. disk' = disk /\ pc[w] = "insert" /\ (Continue(w, "select") \/ Return(w, "error"))
    BY <1>10 DEF InsertRow, diskVars
  <2>2. op[w] = "push" => disk[k] # "absent"
    BY <1>2, <2>1 DEF Alone
  <2> QED
    BY <1>4, <1>5, <2>1, <2>2
<1>11. CASE SelectRow(w)
  <2>1. pc[w] = "select" /\ disk' = disk /\ UNCHANGED storeVars
    BY <1>11 DEF SelectRow, diskVars
  <2>2. CASE Return(w, "error")
    BY <1>5, <2>2
  <2>3. ASSUME NEW o \in OwnerIn(k), NEW r \in repo_by_owner_and_name(o.id, k[2]),
               pc' = [pc EXCEPT ![w] = IF op[w] = "create" THEN "path" ELSE "spawn"],
               Same, UNCHANGED result
        PROVE  Alone(w)'
    <3>1. r \in RowOf(k)
      BY <2>3 DEF OwnerIn, user_by_username, repo_by_owner_and_name, RowOf, get_repo, GetRepoIn
    <3>2. op[w] = "push" => disk[k] # "absent"
      BY <1>2, <2>1 DEF Alone
    <3>3. PICK l \in Points : l = IF op[w] = "create" THEN "path" ELSE "spawn"
      OBVIOUS
    <3>4. result[w] = "none" /\ RowOf(k)' # {} /\ disk'[k] = disk[k] /\ UNCHANGED <<op, at, result>>
      BY <1>3, <2>1, <2>3, <3>1 DEF Same
    <3> QED
      BY <1>2, <2>3, <3>2, <3>3, <3>4, AloneContinues
  <2> QED
    BY <1>2, <1>11, <2>2, <2>3 DEF SelectRow, Goto
<1>12. CASE Spawn(w) \/ Served(w)
  <2>1. disk' = disk /\ UNCHANGED storeVars
    BY <1>12 DEF Spawn, Served, diskVars
  <2>2. CASE Spawn(w)
    <3>1. op[w] = "push" => disk[k] # "absent" /\ RowOf(k) # {}
      BY <1>2, <2>2 DEF Alone, Spawn
    <3> QED
      BY <1>3, <1>4, <1>5, <2>1, <2>2, <3>1 DEF Spawn
  <2>3. CASE Served(w)
    BY <1>5, <2>3 DEF Served
  <2> QED
    BY <1>12, <2>2, <2>3
<1>13. CASE Reply(w)
  BY <1>13 DEF Reply, Goto, Alone, Inv, TypeOK
<1>14. CASE DropRow(w)
  <2>1. delete_repo(at[w][1], at[w][2]) => RowOf(k)' = {}
    BY <1>2, RowGone
  <2> QED
    BY <1>4, <1>5, <1>14, <2>1 DEF DropRow
<1>15. CASE DropDir(w) \/ RmEnd(w)
  <2>1. k \in Targets /\ RowOf(k) = {} /\ UNCHANGED storeVars
    BY <1>1, <1>2, <1>15 DEF DropDir, RmEnd, Alone
  <2>2. RowOf(k)' = {}
    BY <1>3, <2>1
  <2>3. CASE DropDir(w)
    <3>1. disk[k] = "absent" /\ diskVars' = diskVars => disk'[k] = "absent"
      BY DEF diskVars
    <3> QED
      BY <1>2, <1>4, <1>5, <2>2, <2>3, <3>1, AloneReturns DEF DropDir
  <2>4. CASE RmEnd(w)
    <3>1. SetDisk(w, "absent") => disk'[k] = "absent"
      BY <1>2, <2>1 DEF SetDisk, Inv, TypeOK
    <3> QED
      BY <1>2, <1>5, <2>2, <2>4, <3>1, AloneReturns DEF RmEnd, Removed
  <2> QED
    BY <1>15, <2>3, <2>4
<1> QED
  BY <1>6, <1>7, <1>8, <1>9, <1>10, <1>11, <1>12, <1>13, <1>14, <1>15 DEF Step, Serve, Remove

\* Only a request that is through has a result.
LEMMA ResultsWait ==
  ASSUME Inv, [Next]_vars, NEW v \in Workers, result[v] # "none" => pc[v] = "reply"
  PROVE  result'[v] # "none" => pc'[v] = "reply"
<1> USE DEF Inv, TypeOK, Goto, Continue, Return
<1>1. ASSUME NEW w \in Workers, Arrive(w, Ops) PROVE result'[v] # "none" => pc'[v] = "reply"
  BY <1>1 DEF Arrive, Start, Request
<1>2. ASSUME NEW w \in Workers, Step(w) PROVE result'[v] # "none" => pc'[v] = "reply"
  <2>1. CASE CheckAccess(w) \/ CheckExists(w)
    BY <2>1 DEF CheckAccess, CheckExists
  <2>2. CASE BarePath(w) \/ InitStart(w) \/ InitEnd(w) \/ SetHead(w)
    BY <2>2 DEF BarePath, AfterBare, InitStart, InitEnd, SetHead
  <2>3. CASE InsertRow(w) \/ SelectRow(w)
    BY <2>3 DEF InsertRow, SelectRow
  <2>4. CASE Spawn(w) \/ Served(w) \/ Reply(w)
    BY <2>4 DEF Spawn, Served, Reply
  <2>5. CASE DropRow(w) \/ DropDir(w) \/ RmEnd(w)
    BY <2>5 DEF DropRow, DropDir, RmEnd
  <2> QED
    BY <1>2, <2>1, <2>2, <2>3, <2>4, <2>5 DEF Step, Serve, Remove
<1>3. CASE Crash \/ OtherChanges \/ UNCHANGED vars
  BY <1>3 DEF Crash, OtherChanges, workerVars, vars
<1> QED
  BY <1>1, <1>2, <1>3 DEF Next

\* A request that begins while all others are idle is alone, and has seen to
\* nothing yet.
LEMMA AloneBegins ==
  ASSUME Inv, AloneInv, NEW w \in Workers, Begins(w),
         NEW o \in AllOps, NEW u, NEW t, Request(w, o, u, t), NEW v \in alone'
  PROVE  Alone(v)' /\ v \in Workers
<1>1. v = w /\ \A x \in Workers : pc[x] = "idle"
  BY DEF Begins
<1>2. result[w] = "none"
  BY <1>1 DEF AloneInv
<1>3. /\ pc' = [pc EXCEPT ![w] = CASE o = "create" -> "insert" [] o = "delete" -> "drop_row"
                                   [] OTHER -> "access"]
      /\ op' = [op EXCEPT ![w] = o] /\ result' = result
  BY DEF Request, Goto
<1>4. pc'[w] \in {"access", "insert", "drop_row"} /\ (o = "push" => pc'[w] = "access")
      /\ op'[w] = o /\ result'[w] = "none" /\ \A x \in Workers \ {w} : pc'[x] = "idle"
  BY <1>1, <1>2, <1>3 DEF Inv, TypeOK, AllOps
<1> QED
  BY <1>1, <1>4 DEF Alone

LEMMA AloneInductive ==
  {"create", "delete"} \subseteq Ops /\ Inv /\ PaneInv /\ AloneInv /\ [PaneNext]_paneVars
    => AloneInv'
<1> SUFFICES ASSUME {"create", "delete"} \subseteq Ops, Inv, PaneInv, AloneInv,
                    [PaneNext]_paneVars
             PROVE  AloneInv'
  OBVIOUS
<1>1. [Next]_vars
  BY StepImplements
<1>2. \A w \in Workers : result'[w] # "none" => pc'[w] = "reply"
  BY <1>1, ResultsWait DEF AloneInv
<1> SUFFICES alone' \subseteq Workers /\ \A w \in alone' : Alone(w)'
  BY <1>2 DEF AloneInv
<1>3. ASSUME NEW w \in Workers, Begins(w), NEW o \in AllOps, NEW u, NEW t, Request(w, o, u, t)
      PROVE  alone' \subseteq Workers /\ \A v \in alone' : Alone(v)'
  BY <1>3, AloneBegins
<1>4. ASSUME NEW w \in Workers, Step(w), alone' = alone
      PROVE  alone' \subseteq Workers /\ \A v \in alone' : Alone(v)'
  <2>1. ASSUME NEW v \in alone PROVE v = w
    BY <1>4, StepMoves DEF AloneInv, Alone
  <2> QED
    BY <1>4, <2>1, AloneStep DEF AloneInv
<1>5. ASSUME UNCHANGED <<diskVars, workerVars, historyVars>>
      PROVE  alone' \subseteq Workers /\ \A v \in alone' : Alone(v)'
  <2> SUFFICES ASSUME NEW v \in alone PROVE Alone(v)'
    BY <1>5 DEF AloneInv, historyVars
  <2>1. /\ \A w \in Workers : pc'[w] = pc[w]
        /\ UNCHANGED <<op, at, result, disk>>
    BY <1>5 DEF diskVars, workerVars
  <2>2. \A t \in Targets : RowOf(t)' = {} <=> RowOf(t) = {}
    <3>1. \A w \in Workers : ~DropRow(w) /\ ~InsertRow(w)
      BY <2>1 DEF DropRow, InsertRow, Continue, Return, Goto, Inv, TypeOK
    <3> QED
      BY <1>1, <3>1, RowGoes, RowStaysAway
  <2>3. v \in Workers /\ Alone(v)
    BY DEF AloneInv
  <2>4. CASE at[v] \in Targets
    <3>1. PICK t \in Targets : t = at[v]
      BY <2>4
    <3>2. RowOf(at[v])' = {} <=> RowOf(at[v]) = {}
      BY <2>1, <2>2, <3>1 DEF RowOf
    <3> QED
      BY <2>1, <2>3, <3>2, AloneStays
  <2>5. CASE at[v] \notin Targets
    <3>1. pc[v] = "idle" /\ result[v] = "none"
      BY <2>3, <2>5 DEF Inv, RequestSound, AloneInv
    <3> QED
      BY <2>1, <2>3, <3>1 DEF Alone
  <2> QED
    BY <2>4, <2>5
<1>6. ASSUME NEW s \in Sessions,
             \/ Open(s) \/ Close(s) \/ SwitchTab(s) \/ Navigate(s) \/ OpenRepo(s) \/ Pop(s)
             \/ AskCreate(s) \/ AskDelete(s) \/ AskToggle(s) \/ Cancel(s)
             \/ Load(s) \/ ConfirmToggle(s)
      PROVE  UNCHANGED <<diskVars, workerVars, historyVars>>
  BY <1>6, TurnKeeps DEF vars, Load, ConfirmToggle
<1>7. ASSUME NEW s \in Sessions, KeyPress(s) \/ Open(s) \/ Load(s)
      PROVE  alone' \subseteq Workers /\ \A v \in alone' : Alone(v)'
  <2>1. CASE Create(s) \/ ConfirmDelete(s)
    BY <1>3, <2>1, PaneAssumption DEF Create, ConfirmDelete, AllOps
  <2> QED
    BY <1>5, <1>6, <1>7, <2>1 DEF KeyPress
<1>8. ASSUME NEW s \in Sessions, Returned(s) \/ Step(s), UNCHANGED alone
      PROVE  alone' \subseteq Workers /\ \A v \in alone' : Alone(v)'
  BY <1>4, <1>8, PaneAssumption DEF Returned, Step, Serve
<1>9. ASSUME NEW w \in Workers, (Begins(w) /\ Arrive(w, Ops)) \/ (Step(w) /\ UNCHANGED alone)
      PROVE  alone' \subseteq Workers /\ \A v \in alone' : Alone(v)'
  <2>1. CASE Begins(w) /\ Arrive(w, Ops)
    <3>1. PICK o \in Ops, u \in users \cup {NoUser}, t \in Targets : Request(w, o, u, t)
      BY <2>1 DEF Arrive, Start
    <3> QED
      BY <1>3, <2>1, <3>1, LifecycleAssumption
  <2> QED
    BY <1>4, <1>9, <2>1
<1>10. CASE alone' = {}
  BY <1>10
<1>11. CASE (OtherChanges /\ UNCHANGED historyVars) \/ UNCHANGED paneVars
  BY <1>5, <1>11 DEF OtherChanges, paneVars, vars
<1>12. /\ \A w : StepMarks(w) => UNCHANGED alone
       /\ UNCHANGED historyVars => UNCHANGED alone
  BY DEF StepMarks, historyVars
<1> QED
  BY <1>7, <1>8, <1>9, <1>10, <1>11, <1>12, Zenon DEF PaneNext

-----------------------------------------------------------------------------
\* An unfinished directory has somebody who will finish it, or is marked.
Finishing(w, t) ==
    /\ at[w] = t
    /\ \/ disk[t] = "broken" /\ pc[w] \in {"initing", "rm"}
       \/ disk[t] = "nohead" /\ pc[w] = "head"

Finished(t) ==
    disk[t] \in {"broken", "nohead"} => t \in cut \/ \E w \in Workers : Finishing(w, t)

TracesInv == cut \subseteq Targets /\ \A t \in Targets : Finished(t)

\* A step of w: a directory that has become unfinished is in w's hands; one that stays
\* unfinished is in the same hands, or w has let go of it with an error.
LEMMA TracesStep ==
  ASSUME Inv, TracesInv, NEW w \in Workers, Step(w), StepMarks(w)
  PROVE  TracesInv'
<1>1. pc[w] # "idle" /\ at[w] \in Targets /\ \A v \in Workers \ {w} : pc'[v] = pc[v]
  BY StepMoves DEF Inv, RequestSound
<1>2. /\ \A v \in Workers \ {w} : at'[v] = at[v]
      /\ \A t \in Targets \ {at[w]} : disk'[t] = disk[t]
  <2>1. CASE Reply(w)
    BY <2>1 DEF Reply, Inv, TypeOK, diskVars
  <2>2. CASE ~Reply(w)
    BY <2>2 DEF Step, Serve, Remove, CheckAccess, CheckExists, BarePath, AfterBare, InitStart,
       InitEnd, SetHead, InsertRow, SelectRow, Spawn, Served, DropRow, DropDir, RmEnd, Continue,
       Return, Same, SetDisk, diskVars, Inv, TypeOK
  <2> QED
    BY <2>1, <2>2
<1> DEFINE Left == {at[v] : v \in {v \in {w} : Busy(v) /\ result'[v] \in {"error", "warned"}}}
<1>3. cut' = {t \in cut \cup Left : disk'[t] \in {"broken", "nohead"}}
  BY DEF StepMarks, Marks
<1>4. cut' \subseteq Targets
  BY <1>1, <1>3 DEF TracesInv
<1>5. ASSUME NEW t \in Targets, t # at[w] PROVE Finished(t)'
  <2>1. ASSUME NEW v \in Workers, Finishing(v, t) PROVE Finishing(v, t)'
    BY <1>1, <1>2, <1>5, <2>1 DEF Finishing
  <2> QED
    BY <1>2, <1>3, <1>5, <2>1 DEF TracesInv, Finished
<1>6. PICK t \in Targets : t = at[w]
  BY <1>1
<1>7. Finished(t)'
  <2>1. \A d : SetDisk(w, d) => disk'[t] = d
    BY <1>6 DEF SetDisk, Inv, TypeOK
  <2>2. CASE disk'[t] # disk[t] /\ disk'[t] \in {"broken", "nohead"}
    <3>1. \/ disk'[t] = "broken" /\ pc'[w] \in {"initing", "rm"}
          \/ disk'[t] = "nohead" /\ pc'[w] = "head"
      <4>1. CASE InitStart(w) \/ InitEnd(w) \/ SetHead(w)
        BY <1>6, <2>1, <2>2, <4>1 DEF InitStart, InitEnd, SetHead, Continue, Goto, Inv, TypeOK
      <4>2. CASE DropDir(w) \/ RmEnd(w)
        BY <1>6, <2>1, <2>2, <4>2 DEF DropDir, RmEnd, diskVars, Continue, Goto, Inv, TypeOK
      <4>3. CASE ~(InitStart(w) \/ InitEnd(w) \/ SetHead(w) \/ DropDir(w) \/ RmEnd(w))
        BY <2>2, <4>3 DEF Step, Serve, Remove, CheckAccess, CheckExists, BarePath, InsertRow,
           SelectRow, Spawn, Served, Reply, DropRow, diskVars
      <4> QED
        BY <4>1, <4>2, <4>3
    <3>2. at'[w] = t
      BY <1>6, <2>2 DEF Step, Serve, Remove, CheckAccess, CheckExists, BarePath, AfterBare,
         InitStart, InitEnd, SetHead, InsertRow, SelectRow, Spawn, Served, Reply, DropRow,
         DropDir, RmEnd, Continue, Return, Same, diskVars
    <3> QED
      BY <3>1, <3>2 DEF Finished, Finishing
  <2>3. CASE disk'[t] = disk[t] /\ disk[t] \in {"broken", "nohead"}
    <3>1. CASE t \in cut
      BY <1>3, <2>3, <3>1 DEF Finished
    <3>2. ASSUME NEW v \in Workers, Finishing(v, t), v # w PROVE Finished(t)'
      <4>1. Finishing(v, t)'
        BY <1>1, <1>2, <2>3, <3>2 DEF Finishing
      <4> QED
        BY <4>1 DEF Finished
    <3>3. CASE Finishing(w, t)
      <4>1. Busy(w) /\ (InitEnd(w) \/ SetHead(w) \/ RmEnd(w))
        BY <3>3 DEF Finishing, Busy, Step, Serve, Remove, CheckAccess, CheckExists, BarePath,
           InitStart, InsertRow, SelectRow, Spawn, Served, Reply, DropRow, DropDir
      <4>2. result'[w] \in {"error", "warned"}
        <5>1. \A x : Return(w, x) => result'[w] = x
          BY DEF Return, Inv, TypeOK
        <5>2. CASE InitEnd(w)
          BY <1>6, <2>1, <2>3, <3>3, <5>1, <5>2 DEF InitEnd, Finishing
        <5>3. CASE SetHead(w)
          BY <1>6, <2>1, <2>3, <3>3, <5>1, <5>3 DEF SetHead, Finishing
        <5>4. CASE RmEnd(w)
          BY <1>6, <2>1, <2>3, <3>3, <5>1, <5>4 DEF RmEnd, Removed, Finishing
        <5> QED
          BY <4>1, <5>2, <5>3, <5>4
      <4>3. t \in cut'
        BY <1>3, <1>6, <2>3, <4>1, <4>2
      <4> QED
        BY <4>3 DEF Finished
    <3> QED
      BY <2>3, <3>1, <3>2, <3>3 DEF TracesInv, Finished
  <2> QED
    BY <2>2, <2>3 DEF Finished
<1> QED
  BY <1>4, <1>5, <1>6, <1>7 DEF TracesInv

\* A crash takes every directory out of everybody's hands, and marks it.
LEMMA TracesCrash ==
  ASSUME Inv, TracesInv, Crash, Marks({at[w] : w \in {v \in Workers : Busy(v)}})
  PROVE  TracesInv'
<1>1. \A t \in Targets : disk'[t] \in {"broken", "nohead"} => disk[t] \in {"broken", "nohead"}
  BY DEF Crash
<1>2. \A w \in Workers : Busy(w) => at[w] \in Targets
  BY DEF Busy, Inv, RequestSound
<1>3. \A t, w : Finishing(w, t) => Busy(w) /\ at[w] = t
  BY DEF Finishing, Busy
<1> QED
  BY <1>1, <1>2, <1>3 DEF Marks, TracesInv, Finished

\* Nothing happens to directories and those who make them; a request may begin.
LEMMA TracesStay ==
  ASSUME TracesInv, UNCHANGED <<disk, cut>>,
         \A v \in Workers : (pc'[v] = pc[v] /\ at'[v] = at[v]) \/ pc[v] \in {"idle", "reply"}
  PROVE  TracesInv'
<1>1. ASSUME NEW t \in Targets, NEW v \in Workers, Finishing(v, t) PROVE Finishing(v, t)'
  BY <1>1 DEF Finishing
<1> QED
  BY <1>1 DEF TracesInv, Finished

LEMMA TracesInductive ==
  {"create", "delete"} \subseteq Ops /\ Inv /\ PaneInv /\ TracesInv /\ [PaneNext]_paneVars
    => TracesInv'
<1> SUFFICES ASSUME {"create", "delete"} \subseteq Ops, Inv, PaneInv, TracesInv,
                    [PaneNext]_paneVars
             PROVE  TracesInv'
  OBVIOUS
<1>1. ASSUME NEW w \in Workers, Begins(w), NEW o, NEW u, NEW t, Request(w, o, u, t)
      PROVE  TracesInv'
  <2>1. UNCHANGED <<disk, cut>>
    BY <1>1 DEF Begins, Request, diskVars
  <2>2. pc[w] = "idle" /\ \A v \in Workers \ {w} : pc'[v] = pc[v] /\ at'[v] = at[v]
    BY <1>1, RequestMoves DEF Request, Inv, TypeOK
  <2> QED
    BY <2>1, <2>2, TracesStay
<1>2. ASSUME NEW s \in Sessions, Returned(s), UNCHANGED historyVars PROVE TracesInv'
  <2>1. Reply(s) /\ s \in Workers
    BY <1>2, PaneAssumption DEF Returned
  <2>2. UNCHANGED <<disk, cut>>
    BY <1>2, <2>1 DEF Reply, diskVars, historyVars
  <2>3. pc[s] = "reply" /\ \A v \in Workers \ {s} : pc'[v] = pc[v] /\ at'[v] = at[v]
    BY <2>1 DEF Reply, Goto, Inv, TypeOK
  <2> QED
    BY <2>2, <2>3, TracesStay
<1>3. ASSUME UNCHANGED <<diskVars, workerVars, historyVars>> PROVE TracesInv'
  BY <1>3, TracesStay DEF diskVars, workerVars, historyVars
<1>4. ASSUME NEW s \in Sessions,
             \/ Open(s) \/ Close(s) \/ SwitchTab(s) \/ Navigate(s) \/ OpenRepo(s) \/ Pop(s)
             \/ AskCreate(s) \/ AskDelete(s) \/ AskToggle(s) \/ Cancel(s)
             \/ Load(s) \/ ConfirmToggle(s)
      PROVE  UNCHANGED <<diskVars, workerVars, historyVars>>
  BY <1>4, TurnKeeps DEF vars, Load, ConfirmToggle
<1>5. ASSUME NEW s \in Sessions, KeyPress(s) \/ Open(s) \/ Load(s) PROVE TracesInv'
  <2>1. CASE Create(s) \/ ConfirmDelete(s)
    BY <1>1, <2>1, PaneAssumption DEF Create, ConfirmDelete
  <2> QED
    BY <1>3, <1>4, <1>5, <2>1 DEF KeyPress
<1>6. ASSUME NEW w \in Workers, Begins(w), Arrive(w, Ops) PROVE TracesInv'
  BY <1>1, <1>6 DEF Arrive, Start
<1>7. ASSUME NEW w \in Workers, Step(w), StepMarks(w) PROVE TracesInv'
  BY <1>7, TracesStep
<1>8. CASE Crash /\ Marks({at[w] : w \in {v \in Workers : Busy(v)}})
  BY <1>8, TracesCrash
<1>9. CASE (OtherChanges /\ UNCHANGED historyVars) \/ UNCHANGED paneVars
  BY <1>3, <1>9 DEF OtherChanges, paneVars, vars
<1> QED
  BY <1>2, <1>5, <1>6, <1>7, <1>8, <1>9, PaneAssumption, Zenon DEF PaneNext

\* All that the theorems below rest on.
LEMMA PaneInvariant ==
  {"create", "delete"} \subseteq Ops /\ PaneSpec => [](Inv /\ PaneInv /\ AloneInv /\ TracesInv)
<1> SUFFICES ASSUME {"create", "delete"} \subseteq Ops
             PROVE  PaneSpec => [](Inv /\ PaneInv /\ AloneInv /\ TracesInv)
  OBVIOUS
<1>1. PaneInit => AloneInv /\ TracesInv
  BY DEF PaneInit, Init, AloneInv, TracesInv, Finished
<1>2. PaneInv /\ [PaneNext]_paneVars => [Next]_vars /\ PaneInv'
  BY StepImplements
<1>3. Inv /\ PaneInv /\ AloneInv /\ [PaneNext]_paneVars => AloneInv'
  BY AloneInductive
<1>4. Inv /\ PaneInv /\ TracesInv /\ [PaneNext]_paneVars => TracesInv'
  BY TracesInductive
<1> QED
  BY <1>1, <1>2, <1>3, <1>4, PaneInvInit, InvInit, InvNext, PTL DEF PaneSpec

\* Every session shows a listing of targets with the cursor on a line of it, and
\* belongs to a user of the store or to nobody (repos.rs, tui/mod.rs).
THEOREM PaneTypeCorrect == {"create", "delete"} \subseteq Ops /\ PaneSpec => []PaneTypeOK
<1>1. Inv /\ PaneInv /\ AloneInv /\ TracesInv => PaneTypeOK
  <2> SUFFICES ASSUME Inv, PaneInv, AloneInv, TracesInv PROVE PaneTypeOK
    OBVIOUS
  <2>1. \A s \in Sessions : view[s] = Closed \/ (Framed(view[s]) /\ OnALine(view[s]))
    BY DEF PaneInv, Sound
  <2> QED
    BY <2>1 DEF PaneTypeOK, Inv, AloneInv, TracesInv, Framed, OnALine
<1> QED
  BY <1>1, PaneInvariant, PTL

\* git receive-pack finds a row and a whole repository, whatever requests ran beside one
\* another before it, unless an error or a crash cut short what was being done to the
\* directory (server.rs:154-155, git.rs:5-48, 64-70).
THEOREM PushHasBothHalvesHolds ==
  {"create", "delete"} \subseteq Ops /\ PaneSpec => []PushHasBothHalves
<1>1. Inv /\ AloneInv /\ TracesInv => PushHasBothHalves
  <2> SUFFICES ASSUME Inv, AloneInv, TracesInv,
                      NEW w \in alone, pc[w] \in {"spawn", "serve"}, op[w] = "push"
               PROVE  RowOf(at[w]) # {} /\ (disk[at[w]] = "ready" \/ at[w] \in cut)
    BY DEF PushHasBothHalves
  <2>1. w \in Workers /\ Alone(w) /\ at[w] \in Targets
    BY DEF AloneInv, Inv, RequestSound
  <2>2. RowOf(at[w]) # {} /\ disk[at[w]] \in {"broken", "nohead", "ready"}
    BY <2>1 DEF Alone, Inv, TypeOK, DiskStates
  <2>3. \A v \in Workers : ~Finishing(v, at[w])
    BY <2>1 DEF Alone, Finishing
  <2> QED
    BY <2>1, <2>2, <2>3 DEF TracesInv, Finished
<1> QED
  BY <1>1, PaneInvariant, PTL

\* "deleted" is said of what is gone from store and disk (repos.rs:216-224).
THEOREM DeletedIsGoneHolds ==
  {"create", "delete"} \subseteq Ops /\ PaneSpec => []DeletedIsGone
<1>1. AloneInv => DeletedIsGone
  BY DEF AloneInv, Alone, DeletedIsGone
<1> QED
  BY <1>1, PaneInvariant, PTL
=============================================================================
