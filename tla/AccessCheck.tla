---------------------------- MODULE AccessCheck ----------------------------
(***************************************************************************)
(* The access checks of src/src/auth.rs, run by connections while other    *)
(* connections, the operator's command line and the TUI change the store.  *)
(*                                                                         *)
(* A check that neither an administrator nor the owner makes is two store  *)
(* calls, get_repo and has_write_access, and the mutex is free in between: *)
(* the repository can be made public or private, deleted, and created anew *)
(* under the same name before the second call.  A call that fails (SQLite  *)
(* busy for 5 s because a second kohiro process writes) counts as "no".    *)
(***************************************************************************)
EXTENDS Auth

CONSTANTS
    Conns,          \* connections that make checks
    Targets,        \* the <<owner, name>> pairs they ask about
    NoRepo,         \* Option::None: get_repo found no row
    StoreErrors     \* may a store call fail?

ASSUME AccessAssumption ==
    /\ Targets \subseteq Usernames \X RepoNames
    /\ NoRepo \notin Repo
    /\ StoreErrors \in BOOLEAN

Kinds == {"git_access", "can_read", "can_write"}

VARIABLES
    pc,      \* "idle", "get_repo", "perm" or "done"
    user,    \* the user the check is made for, or NoUser (anonymous)
    kind,    \* which of the three functions runs
    target,  \* the repository it was asked about
    row,     \* what get_repo returned
    level,   \* the answer
    seen,    \* history: the accesses the store allowed since the check began
    erred    \* history: did a store call of this check fail?

checkVars == <<pc, user, kind, target, row, level, seen, erred>>
vars == <<storeVars, checkVars>>

-----------------------------------------------------------------------------
\* What each function says of an access: a level, "may read", "may write".
Answer(k, a) ==
    CASE k = "git_access" -> a
      [] k = "can_read"   -> IF a = None THEN None ELSE ReadOnly
      [] k = "can_write"  -> IF a = ReadWrite THEN ReadWrite ELSE None

Running(c) == pc[c] \in {"get_repo", "perm"}

\* The history of a check: every access allowed at some instant of it.
Observe ==
    seen' = [c \in Conns |->
        LET now == AllowedIn(users', repos', repo_perms', user'[c], target'[c]) IN
        IF pc'[c] = "idle" THEN {}
        ELSE IF pc[c] = "idle" THEN {now}
        ELSE IF Running(c) THEN seen[c] \cup {now}
        ELSE seen[c]]

-----------------------------------------------------------------------------
\* Conn::current_user: the connection's key names a user, or the connection is
\* anonymous; a failing lookup is anonymous too.  A command looks the user up
\* and then asks; a TUI keeps the user it found and asks again and again.
current_user(c, fp) ==
    /\ pc[c] = "idle"
    /\ \/ \E u \in user_by_fingerprint(fp) : user' = [user EXCEPT ![c] = u]
       \/ /\ user_by_fingerprint(fp) = {} \/ StoreErrors
          /\ user' = [user EXCEPT ![c] = NoUser]
    /\ UNCHANGED <<storeVars, pc, kind, target, row, level, erred>>
    /\ Observe

\* The checks that read nothing: administrator, owner, and an anonymous write.
StartsDone(u, k, t) == Privileged(u, t[1]) \/ (u = NoUser /\ k = "can_write")

Begin(c, k, t) ==
    /\ pc[c] = "idle"
    /\ kind' = [kind EXCEPT ![c] = k]
    /\ target' = [target EXCEPT ![c] = t]
    /\ erred' = [erred EXCEPT ![c] = FALSE]
    /\ row' = [row EXCEPT ![c] = NoRepo]
    /\ IF StartsDone(user[c], k, t)
       THEN /\ pc' = [pc EXCEPT ![c] = "done"]
            /\ level' = [level EXCEPT ![c] =
                 IF user[c] = NoUser THEN None ELSE Answer(k, ReadWrite)]
       ELSE /\ pc' = [pc EXCEPT ![c] = "get_repo"]
            /\ level' = [level EXCEPT ![c] = None]
    /\ UNCHANGED <<storeVars, user>>
    /\ Observe

\* The first read.  No row, or an error, ends the check with "no"; for an
\* anonymous caller the row's visibility is the answer.
ReadRepo(c) ==
    /\ pc[c] = "get_repo"
    /\ \E r \in get_repo(target[c][1], target[c][2]) :
         /\ row' = [row EXCEPT ![c] = r]
         /\ IF user[c] = NoUser
            THEN /\ pc' = [pc EXCEPT ![c] = "done"]
                 /\ level' = [level EXCEPT ![c] = IF r.public THEN ReadOnly ELSE None]
            ELSE /\ pc' = [pc EXCEPT ![c] = "perm"]
                 /\ UNCHANGED level
    /\ UNCHANGED <<storeVars, user, kind, target, erred>>
    /\ Observe

ReadNoRepo(c) ==
    /\ pc[c] = "get_repo"
    /\ \/ /\ get_repo(target[c][1], target[c][2]) = {}
          /\ UNCHANGED erred
       \/ /\ StoreErrors
          /\ erred' = [erred EXCEPT ![c] = TRUE]
    /\ pc' = [pc EXCEPT ![c] = "done"]
    /\ level' = [level EXCEPT ![c] = None]
    /\ UNCHANGED <<storeVars, user, kind, target, row>>
    /\ Observe

\* Mutant: the two ids are passed in the wrong order.
BugGranted(c) == has_write_access(row[c].id, user[c].id)

\* The second read: is there a grant on the row that was read before?
Granted(c) == has_write_access(user[c].id, row[c].id)

ReadPerm(c) ==
    /\ pc[c] = "perm"
    /\ \E ok \in (IF StoreErrors THEN BOOLEAN ELSE {TRUE}) :
         /\ level' = [level EXCEPT ![c] = Answer(kind[c],
              IF ok /\ Granted(c) THEN ReadWrite
              ELSE IF row[c].public THEN ReadOnly ELSE None)]
         /\ erred' = [erred EXCEPT ![c] = ~ok]
    /\ pc' = [pc EXCEPT ![c] = "done"]
    /\ UNCHANGED <<storeVars, user, kind, target, row>>
    /\ Observe

\* The caller acts on the answer and the check's locals go out of scope.
Finish(c) ==
    /\ pc[c] = "done"
    /\ pc' = [pc EXCEPT ![c] = "idle"]
    /\ row' = [row EXCEPT ![c] = NoRepo]
    /\ level' = [level EXCEPT ![c] = None]
    /\ erred' = [erred EXCEPT ![c] = FALSE]
    /\ UNCHANGED <<storeVars, user, kind, target>>
    /\ Observe

\* The rest of the system: one store update by another connection, by the
\* operator's --set-public / --set-private process, or by whoever grants.
StoreStep ==
    /\ \/ \E u \in users, n \in RepoNames :
            <<u.username, n>> \in Targets /\ insert_repo(u.id, n)
       \/ \E u \in UserIds, r \in RepoIds : grant_write(u, r)
       \/ \E t \in Targets, p \in BOOLEAN : set_public(t[1], t[2], p)
       \/ \E t \in Targets : delete_repo(t[1], t[2])
    /\ UNCHANGED <<pc, user, kind, target, row, level, erred>>
    /\ Observe

\* An idle connection has the target and kind of its previous check.
Init ==
    /\ StoreInit
    /\ pc = [c \in Conns |-> "idle"]
    /\ user = [c \in Conns |-> NoUser]
    /\ \E k \in Kinds : kind = [c \in Conns |-> k]
    /\ \E t \in Targets : target = [c \in Conns |-> t]
    /\ row = [c \in Conns |-> NoRepo]
    /\ level = [c \in Conns |-> None]
    /\ seen = [c \in Conns |-> {}]
    /\ erred = [c \in Conns |-> FALSE]

Next ==
    \/ \E c \in Conns :
         \/ \E f \in Fingerprints : current_user(c, f)
         \/ \E k \in Kinds, t \in Targets : Begin(c, k, t)
         \/ ReadRepo(c)
         \/ ReadNoRepo(c)
         \/ ReadPerm(c)
         \/ Finish(c)
    \/ StoreStep

Spec == Init /\ [][Next]_vars

-----------------------------------------------------------------------------
CheckTypeOK ==
    /\ pc \in [Conns -> {"idle", "get_repo", "perm", "done"}]
    /\ user \in [Conns -> User \cup {NoUser}]
    /\ kind \in [Conns -> Kinds]
    /\ target \in [Conns -> Targets]
    /\ row \in [Conns -> Repo \cup {NoRepo}]
    /\ level \in [Conns -> Access]
    /\ seen \in [Conns -> SUBSET Access]
    /\ erred \in [Conns -> BOOLEAN]

TypeOK == StoreTypeOK /\ CheckTypeOK

\* The answer of git_access, can_read or can_write never exceeds what the
\* rules allowed at SOME instant while the check ran, although it is put
\* together from two reads of a store that changes in between (auth.rs:37-86).
\* In particular a grant on one incarnation of a repository never opens the
\* next one of the same name.
AccessNeverExceeds ==
    \A c \in Conns : pc[c] = "done" =>
        \E a \in seen[c] : level[c] <= Answer(kind[c], a)

\* And when no store call failed, a check never answers less than the rules
\* allowed at every instant of it: a "no" was true at some moment.
RefusalWasTrue ==
    \A c \in Conns : pc[c] = "done" /\ ~erred[c] =>
        \E a \in seen[c] : Answer(kind[c], a) <= level[c]

\* What the TUI and "repo list" show (store.rs list_repos_for_user and
\* list_public_repos, one SQL query each) is exactly what the access rules of
\* auth.rs let the user read: no repository is listed that opening refuses,
\* and none is readable but hidden.
ListingMatchesCanRead ==
    /\ \A u \in users : \A r \in repos : \A o \in users : o.id = r.owner_id =>
         (r \in list_repos_for_user(u.id)
            <=> AllowedIn(users, repos, repo_perms, u, <<o.username, r.name>>) # None)
    /\ \A r \in repos : \A o \in users : o.id = r.owner_id =>
         (r \in list_public_repos
            <=> AllowedIn(users, repos, repo_perms, NoUser, <<o.username, r.name>>) # None)
=============================================================================
