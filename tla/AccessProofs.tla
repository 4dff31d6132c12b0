--------------------------- MODULE AccessProofs ---------------------------
(***************************************************************************)
(* The answer of an access check lies within what the rules allowed while  *)
(* it ran, for every number of users, repositories and connections.        *)
(*                                                                         *)
(* The inductive invariant says what a check between its two reads knows:  *)
(* a row with the id it holds is still the repository it asked about       *)
(* (AUTOINCREMENT never hands an id out twice); a public row was public at *)
(* some instant; and either the rules once allowed no more than the row    *)
(* says or the grant the second read looks for is still there, because     *)
(* grants go only with their repository, which then allows nothing.        *)
(***************************************************************************)
EXTENDS AccessCheck, StoreProofs

Allowed(c) == AllowedIn(users, repos, repo_perms, user[c], target[c])

\* What the row alone says, once there is no grant.
RowSays(c) == IF row[c].public THEN ReadOnly ELSE None

\* The row is, or was, the repository asked about.
RowSound(c) ==
    /\ row[c] \in Repo
    /\ row[c].id <= repo_seq
    /\ row[c].name = target[c][2]
    /\ \E u \in users : u.id = row[c].owner_id /\ u.username = target[c][1]
    /\ \A r \in repos : r.id = row[c].id =>
         r.owner_id = row[c].owner_id /\ r.name = row[c].name

RunInv(c) == Running(c) =>
    /\ ~Privileged(user[c], target[c][1])
    /\ user[c] = NoUser => kind[c] # "can_write"
    /\ Allowed(c) \in seen[c]

PermInv(c) == pc[c] = "perm" =>
    /\ user[c] # NoUser
    /\ RowSound(c)
    /\ \E a \in seen[c] : RowSays(c) <= a
    /\ Granted(c) \/ \E a \in seen[c] : a <= RowSays(c)

DoneInv(c) == pc[c] = "done" =>
    /\ \E a \in seen[c] : level[c] <= Answer(kind[c], a)
    /\ ~erred[c] => \E a \in seen[c] : Answer(kind[c], a) <= level[c]

CheckInv == \A c \in Conns : RunInv(c) /\ PermInv(c) /\ DoneInv(c)

Inv == StoreInv /\ CheckTypeOK /\ CheckInv

-----------------------------------------------------------------------------
\* Accesses are ordered numbers and the three questions respect the order.
LEMMA AnswerMonotone ==
  ASSUME NEW k \in Kinds, NEW a \in Access, NEW b \in Access, a <= b
  PROVE  Answer(k, a) <= Answer(k, b)
  BY DEF Answer, Access, None, ReadOnly, ReadWrite, Kinds

LEMMA AnswerType ==
  ASSUME NEW k \in Kinds, NEW a \in Access
  PROVE  Answer(k, a) \in Access /\ Answer(k, None) = None
  BY DEF Answer, Access, None, ReadOnly, ReadWrite, Kinds

LEMMA AllowedType ==
  \A us, rs, ps, u, t : AllowedIn(us, rs, ps, u, t) \in Access
  BY DEF AllowedIn, Access, None, ReadOnly, ReadWrite

\* Someone without privileges who holds no grant gets what the row says, and
\* nothing when there is no row; a grant on the row gives write access.
LEMMA AllowedCases ==
  ASSUME NEW us, NEW rs, NEW ps, NEW u, NEW t, ~Privileged(u, t[1])
  PROVE  /\ GetRepoIn(rs, us, t[1], t[2]) = {} => AllowedIn(us, rs, ps, u, t) = None
         /\ (\E r \in GetRepoIn(rs, us, t[1], t[2]) : r.public)
               => AllowedIn(us, rs, ps, u, t) # None
         /\ u # NoUser /\ (\E r \in GetRepoIn(rs, us, t[1], t[2]) : WriteGrantIn(ps, u.id, r.id))
               => AllowedIn(us, rs, ps, u, t) = ReadWrite
         /\ u = NoUser \/ ~(\E r \in GetRepoIn(rs, us, t[1], t[2]) : WriteGrantIn(ps, u.id, r.id))
               => AllowedIn(us, rs, ps, u, t) =
                    (IF \E r \in GetRepoIn(rs, us, t[1], t[2]) : r.public
                     THEN ReadOnly ELSE None)
  BY DEF AllowedIn, None, ReadOnly, ReadWrite

\* A lookup by owner and name finds at most one row.
LEMMA GetRepoUnique ==
  ASSUME StoreInv, NEW o, NEW n, NEW r \in get_repo(o, n), NEW s \in get_repo(o, n)
  PROVE  r = s
  BY DEF get_repo, GetRepoIn, StoreInv, StoreIntegrity, ReposSound, UsersSound

\* While a check waits between its reads, another actor's store update leaves
\* the row it holds sound: a new row has a new id, no row is renamed.
LEMMA RowKept ==
  ASSUME StoreInv, StoreStep, CheckTypeOK, NEW c \in Conns, RowSound(c)
  PROVE  RowSound(c)'
<1>1. UNCHANGED <<row, target>>
  BY DEF StoreStep
<1>2. ASSUME NEW o, NEW n, insert_repo(o, n) PROVE RowSound(c)'
  <2>1. CASE UNCHANGED storeVars
    BY <1>1, <2>1 DEF RowSound, storeVars, userTable, repoTable
  <2>2. CASE /\ repos' = repos \cup {[id |-> NextRepoId, owner_id |-> o,
                                      name |-> n, public |-> FALSE]}
             /\ repo_seq' = NextRepoId
             /\ UNCHANGED <<repo_perms, userTable, keyTable>>
    <3>1. row[c].id \in Int /\ repo_seq \in Int
      BY StoreAssumption DEF RowSound, Repo, RepoIds, StoreInv, StoreTypeOK
    <3>2. row[c].id # NextRepoId /\ row[c].id <= repo_seq'
      BY <2>2, <3>1 DEF RowSound, NextRepoId
    <3>. QED
      BY <1>1, <2>2, <3>2 DEF RowSound, userTable
  <2>. QED
    BY <1>2, <2>1, <2>2 DEF insert_repo
<1>3. ASSUME NEW u, NEW r, grant_write(u, r) PROVE RowSound(c)'
  BY <1>1, <1>3 DEF grant_write, RowSound, userTable
<1>4. ASSUME NEW o, NEW n, NEW p, set_public(o, n, p) PROVE RowSound(c)'
  <2> DEFINE Flip(r) == IF r \in get_repo(o, n) THEN [r EXCEPT !.public = p] ELSE r
  <2>1. repos' = {Flip(r) : r \in repos} /\ UNCHANGED <<users, repo_seq>>
    BY <1>4 DEF set_public, userTable
  <2>2. \A r \in repos : Flip(r).id = r.id /\ Flip(r).owner_id = r.owner_id
                         /\ Flip(r).name = r.name
    BY DEF StoreInv, StoreTypeOK, Repo
  <2> HIDE DEF Flip
  <2>. QED
    BY <1>1, <2>1, <2>2 DEF RowSound
<1>5. ASSUME NEW o, NEW n, delete_repo(o, n) PROVE RowSound(c)'
  BY <1>1, <1>5 DEF delete_repo, RowSound, userTable
<1>. QED
  BY <1>2, <1>3, <1>4, <1>5 DEF StoreStep

\* A grant on the held row disappears only with the repository itself.
LEMMA GrantKept ==
  ASSUME StoreInv, StoreStep, CheckTypeOK, NEW c \in Conns, RowSound(c), Granted(c),
         ~Granted(c)'
  PROVE  get_repo(target[c][1], target[c][2])' = {}
<1>1. UNCHANGED <<row, target, user>>
  BY DEF StoreStep
<1>2. ASSUME NEW o, NEW n, insert_repo(o, n) PROVE FALSE
  BY <1>1, <1>2 DEF insert_repo, Granted, has_write_access, WriteGrantIn, storeVars, repoTable
<1>3. ASSUME NEW u, NEW r, grant_write(u, r) PROVE FALSE
  <2>1. PICK p \in repo_perms : p.repo_id = row[c].id /\ p.user_id = user[c].id /\ p.write
    BY DEF Granted, has_write_access, WriteGrantIn
  <2>2. CASE p.repo_id = r /\ p.user_id = u
    <3> DEFINE new == [repo_id |-> r, user_id |-> u, write |-> TRUE]
    <3>1. new \in repo_perms'
      BY <1>3 DEF grant_write
    <3>2. new.repo_id = row[c].id /\ new.user_id = user[c].id /\ new.write
      BY <2>1, <2>2
    <3>. QED
      BY <1>1, <3>1, <3>2 DEF Granted, has_write_access, WriteGrantIn
  <2>3. CASE ~(p.repo_id = r /\ p.user_id = u)
    <3>1. p \in repo_perms'
      BY <1>3, <2>3 DEF grant_write
    <3>. QED
      BY <1>1, <2>1, <3>1 DEF Granted, has_write_access, WriteGrantIn
  <2>. QED
    BY <2>2, <2>3
<1>4. ASSUME NEW o, NEW n, NEW p, set_public(o, n, p) PROVE FALSE
  BY <1>1, <1>4 DEF set_public, Granted, has_write_access, WriteGrantIn
<1>5. ASSUME NEW o, NEW n, delete_repo(o, n)
      PROVE get_repo(target[c][1], target[c][2])' = {}
  <2>1. PICK gone \in get_repo(o, n) :
          /\ repo_perms' = {p \in repo_perms : p.repo_id # gone.id}
          /\ repos' = {r \in repos : r.id # gone.id}
    BY <1>5 DEF delete_repo
  <2>2. gone.id = row[c].id
    BY <1>1, <2>1 DEF Granted, has_write_access, WriteGrantIn
  <2>3. users' = users
    BY <1>5 DEF delete_repo, userTable
  <2>4. gone \in repos
    BY DEF get_repo, GetRepoIn
  <2>5. gone.owner_id = row[c].owner_id /\ gone.name = row[c].name
    BY <2>2, <2>4 DEF RowSound
  <2>6. \A s \in repos' : s.name = target[c][2] =>
          ~\E u \in users : u.id = s.owner_id /\ u.username = target[c][1]
    BY <2>1, <2>4, <2>5 DEF RowSound, StoreInv, StoreIntegrity, ReposSound, UsersSound
  <2>. QED
    BY <1>1, <2>3, <2>6 DEF get_repo, GetRepoIn
<1>. QED
  BY <1>2, <1>3, <1>4, <1>5 DEF StoreStep

-----------------------------------------------------------------------------
\* A step of one connection moves only that connection's history, and every
\* running check records what the rules allow after the step.
LEMMA ObserveStep ==
  ASSUME CheckTypeOK, Observe, NEW c \in Conns
  PROVE  /\ seen' \in [Conns -> SUBSET Access]
         /\ pc'[c] # "idle" /\ (pc[c] = "idle" \/ Running(c)) => Allowed(c)' \in seen'[c]
         /\ pc'[c] # "idle" /\ pc[c] # "idle" => seen[c] \subseteq seen'[c]
         /\ pc'[c] # "idle" /\ pc[c] = "done" => seen'[c] = seen[c]
<1> DEFINE Now(d) == AllowedIn(users', repos', repo_perms', user'[d], target'[d])
<1> DEFINE Seen(d) == IF pc'[d] = "idle" THEN {}
                      ELSE IF pc[d] = "idle" THEN {Now(d)}
                      ELSE IF Running(d) THEN seen[d] \cup {Now(d)}
                      ELSE seen[d]
<1>1. seen' = [d \in Conns |-> Seen(d)]
  BY DEF Observe
<1>2. \A d \in Conns : Now(d) \in Access
  BY AllowedType
<1>3. \A d \in Conns : Seen(d) \in SUBSET Access
  BY <1>2 DEF CheckTypeOK
<1>4. seen' \in [Conns -> SUBSET Access] /\ seen'[c] = Seen(c)
  <2> HIDE DEF Seen
  <2>. QED
    BY <1>1, <1>3
<1>5. Allowed(c)' = Now(c)
  BY DEF Allowed
<1>. QED
  BY <1>4, <1>5 DEF Running

\* current_user only runs between checks.
LEMMA CurrentUserInv ==
  ASSUME Inv, NEW c \in Conns, NEW f \in Fingerprints, current_user(c, f)
  PROVE  CheckTypeOK' /\ CheckInv'
<1>1. UNCHANGED <<users, repos, repo_perms, repo_seq, pc, kind, target, row, level, erred>>
  BY DEF current_user, storeVars, userTable, repoTable
<1>2. /\ user' \in [Conns -> User \cup {NoUser}]
      /\ \A d \in Conns : d # c => user'[d] = user[d]
      /\ pc[c] = "idle"
  <2>1. \A u \in user_by_fingerprint(f) : u \in User
    BY DEF user_by_fingerprint, Inv, StoreInv, StoreTypeOK
  <2>. QED
    BY <2>1 DEF current_user, Inv, CheckTypeOK
<1>3. CheckTypeOK'
  BY <1>1, <1>2, ObserveStep DEF current_user, Inv, CheckTypeOK
<1>4. ASSUME NEW d \in Conns PROVE (RunInv(d) /\ PermInv(d) /\ DoneInv(d))'
  <2>1. CASE d = c
    BY <1>1, <1>2, <2>1 DEF RunInv, PermInv, DoneInv, Running
  <2>2. CASE d # c
    BY <1>1, <1>2, <2>2, ObserveStep
    DEF current_user, Inv, CheckInv, RunInv, PermInv, DoneInv, Running, RowSound,
        RowSays, Granted, has_write_access
  <2>. QED
    BY <2>1, <2>2
<1>. QED
  BY <1>3, <1>4 DEF CheckInv

\* A step of connection c leaves the other connections' checks as they are.
LEMMA OthersKept ==
  ASSUME Inv, NEW c \in Conns, Observe, NEW d \in Conns, d # c,
         UNCHANGED storeVars,
         user' = user, pc'[d] = pc[d], kind'[d] = kind[d],
         target'[d] = target[d], row'[d] = row[d], level'[d] = level[d],
         erred'[d] = erred[d]
  PROVE  (RunInv(d) /\ PermInv(d) /\ DoneInv(d))'
<1>1. UNCHANGED <<users, repos, repo_perms, repo_seq>>
  BY DEF storeVars, userTable, repoTable
<1>2. /\ pc[d] # "idle" => seen[d] \subseteq seen'[d]
      /\ pc[d] = "done" => seen'[d] = seen[d]
      /\ Running(d) => Allowed(d)' \in seen'[d]
  BY ObserveStep DEF Inv, Running
<1>3. RunInv(d)'
  BY <1>2 DEF Inv, CheckInv, RunInv, Running
<1>4. PermInv(d)'
  <2>1. RowSound(d) => RowSound(d)'
    BY <1>1 DEF RowSound
  <2>2. RowSays(d)' = RowSays(d) /\ (Granted(d) => Granted(d)')
    BY <1>1 DEF RowSays, Granted, has_write_access
  <2>. QED
    BY <1>2, <2>1, <2>2 DEF Inv, CheckInv, PermInv
<1>5. DoneInv(d)'
  BY <1>2 DEF Inv, CheckInv, DoneInv
<1>. QED
  BY <1>3, <1>4, <1>5

\* The checks that read nothing answer for the state they begin in.
LEMMA BeginInv ==
  ASSUME Inv, NEW c \in Conns, NEW k \in Kinds, NEW t \in Targets, Begin(c, k, t)
  PROVE  CheckTypeOK' /\ CheckInv'
<1>1. UNCHANGED storeVars /\ user' = user /\ pc[c] = "idle" /\ Observe
  BY DEF Begin
<1>2. /\ kind' = [kind EXCEPT ![c] = k] /\ target' = [target EXCEPT ![c] = t]
      /\ erred' = [erred EXCEPT ![c] = FALSE] /\ row' = [row EXCEPT ![c] = NoRepo]
  BY DEF Begin
<1>3. kind'[c] = k /\ target'[c] = t /\ erred'[c] = FALSE
  BY <1>2 DEF Inv, CheckTypeOK
<1>4. ReadWrite \in Access /\ None \in Access
  BY DEF Access
<1>5. CheckTypeOK'
  <2>1. seen' \in [Conns -> SUBSET Access]
    BY <1>1, ObserveStep DEF Inv
  <2>2. pc' \in [Conns -> {"idle", "get_repo", "perm", "done"}]
        /\ level' \in [Conns -> Access]
    BY <1>4, AnswerType DEF Begin, Inv, CheckTypeOK
  <2>. QED
    BY <1>1, <1>2, <2>1, <2>2 DEF Inv, CheckTypeOK
<1>6. RunInv(c)' /\ PermInv(c)' /\ DoneInv(c)'
  <2>1. CASE StartsDone(user[c], k, t)
    <3>1. pc'[c] = "done" /\ level'[c] =
            (IF user[c] = NoUser THEN None ELSE Answer(k, ReadWrite))
      BY <2>1 DEF Begin, Inv, CheckTypeOK
    <3>2. Allowed(c)' \in seen'[c] /\ Allowed(c)' \in Access
      BY <1>1, <3>1, ObserveStep, AllowedType DEF Inv, Allowed
    <3>3. CASE user[c] # NoUser
      <4>1. Allowed(c)' = ReadWrite
        BY <1>1, <1>3, <2>1, <3>3 DEF StartsDone, Allowed, AllowedIn, Privileged
      <4>2. level'[c] = Answer(kind'[c], Allowed(c)') /\ level'[c] <= level'[c]
        BY <1>3, <1>4, <3>1, <3>3, <4>1, AnswerType DEF Access, None, ReadOnly, ReadWrite
      <4>. QED
        BY <3>1, <3>2, <4>2 DEF RunInv, PermInv, DoneInv, Running
    <3>4. CASE user[c] = NoUser
      <4>1. k = "can_write" /\ level'[c] = None
        BY <2>1, <3>1, <3>4 DEF StartsDone, Privileged
      <4>2. Allowed(c)' # ReadWrite
        BY <1>1, <3>4 DEF Allowed, AllowedIn, Privileged, None, ReadOnly, ReadWrite
      <4>3. Answer(kind'[c], Allowed(c)') = None
        BY <1>3, <4>1, <4>2 DEF Answer
      <4>. QED
        BY <3>1, <3>2, <4>1, <4>3 DEF RunInv, PermInv, DoneInv, Running, None
    <3>. QED
      BY <3>3, <3>4
  <2>2. CASE ~StartsDone(user[c], k, t)
    <3>1. pc'[c] = "get_repo"
      BY <2>2 DEF Begin, Inv, CheckTypeOK
    <3>2. Allowed(c)' \in seen'[c]
      BY <1>1, <3>1, ObserveStep DEF Inv
    <3>. QED
      BY <1>1, <1>3, <2>2, <3>1, <3>2
      DEF RunInv, PermInv, DoneInv, Running, StartsDone, Privileged
  <2>. QED
    BY <2>1, <2>2
<1>7. ASSUME NEW d \in Conns, d # c PROVE (RunInv(d) /\ PermInv(d) /\ DoneInv(d))'
  <2>1. pc'[d] = pc[d] /\ level'[d] = level[d] /\ kind'[d] = kind[d]
        /\ target'[d] = target[d] /\ row'[d] = row[d] /\ erred'[d] = erred[d]
    BY <1>7 DEF Begin, Inv, CheckTypeOK
  <2>. QED
    BY <1>1, <1>7, <2>1, OthersKept
<1>. QED
  BY <1>5, <1>6, <1>7 DEF CheckInv

\* What the first read finds is allowed at the moment of the read.
LEMMA ReadRepoInv ==
  ASSUME Inv, NEW c \in Conns, ReadRepo(c)
  PROVE  CheckTypeOK' /\ CheckInv'
<1>1. UNCHANGED storeVars /\ Observe /\ UNCHANGED <<user, kind, target, erred>>
      /\ pc[c] = "get_repo"
  BY DEF ReadRepo
<1>2. UNCHANGED <<users, repos, repo_perms, repo_seq>>
  BY <1>1 DEF storeVars, userTable, repoTable
<1>3. PICK r \in get_repo(target[c][1], target[c][2]) :
         /\ row' = [row EXCEPT ![c] = r]
         /\ IF user[c] = NoUser
            THEN /\ pc' = [pc EXCEPT ![c] = "done"]
                 /\ level' = [level EXCEPT ![c] = IF r.public THEN ReadOnly ELSE None]
            ELSE /\ pc' = [pc EXCEPT ![c] = "perm"]
                 /\ UNCHANGED level
  BY DEF ReadRepo
<1>4. r \in repos /\ r \in Repo
  BY DEF get_repo, GetRepoIn, Inv, StoreInv, StoreTypeOK
<1>5. CheckTypeOK'
  <2>1. seen' \in [Conns -> SUBSET Access]
    BY <1>1, ObserveStep DEF Inv
  <2>2. row' \in [Conns -> Repo \cup {NoRepo}]
    BY <1>3, <1>4 DEF Inv, CheckTypeOK
  <2>3. pc' \in [Conns -> {"idle", "get_repo", "perm", "done"}] /\ level' \in [Conns -> Access]
    BY <1>3 DEF Inv, CheckTypeOK, Access
  <2>. QED
    BY <1>1, <2>1, <2>2, <2>3 DEF Inv, CheckTypeOK
<1>6. pc'[c] \in {"perm", "done"} /\ row'[c] = r
  BY <1>3 DEF Inv, CheckTypeOK
<1>7. ~Privileged(user[c], target[c][1]) /\ (user[c] = NoUser => kind[c] # "can_write")
  BY <1>1 DEF Inv, CheckInv, RunInv, Running
<1>8. Allowed(c)' \in seen'[c] /\ Allowed(c)' \in Access /\ Allowed(c)' = Allowed(c)
  BY <1>1, <1>2, <1>6, ObserveStep, AllowedType DEF Inv, Allowed, Running
<1> DEFINE says == IF r.public THEN ReadOnly ELSE None
<1>9. /\ r.public => Allowed(c) # None
      /\ user[c] = NoUser => Allowed(c) = says
      /\ user[c] # NoUser /\ has_write_access(user[c].id, r.id) => Allowed(c) = ReadWrite
      /\ user[c] # NoUser /\ ~has_write_access(user[c].id, r.id) => Allowed(c) = says
  <2>1. \A s \in GetRepoIn(repos, users, target[c][1], target[c][2]) : s = r
    BY <1>3, GetRepoUnique DEF Inv, get_repo
  <2>. QED
    BY <1>3, <1>7, <2>1, AllowedCases DEF Allowed, get_repo, has_write_access
<1>10. (RunInv(c) /\ PermInv(c) /\ DoneInv(c))'
  <2>1. CASE user[c] = NoUser
    <3>1. pc'[c] = "done" /\ level'[c] = says
      BY <1>3, <2>1 DEF Inv, CheckTypeOK
    <3>2. Answer(kind[c], Allowed(c)) = says /\ says <= says
      BY <1>7, <1>9, <2>1 DEF Answer, Inv, CheckTypeOK, Kinds, None, ReadOnly
    <3>. QED
      BY <1>1, <1>8, <3>1, <3>2 DEF RunInv, PermInv, DoneInv, Running
  <2>2. CASE user[c] # NoUser
    <3>1. pc'[c] = "perm"
      BY <1>3, <2>2 DEF Inv, CheckTypeOK
    <3>2. RowSound(c)'
      <4>1. \A s \in repos : s.id = r.id => s = r
        BY <1>4 DEF Inv, StoreInv, StoreIntegrity, ReposSound
      <4>. QED
        BY <1>1, <1>2, <1>3, <1>4, <1>6, <4>1
        DEF RowSound, get_repo, GetRepoIn, Inv, StoreInv, StoreIntegrity, ReposSound
    <3>3. RowSays(c)' = says
      BY <1>6 DEF RowSays
    <3>4. says <= Allowed(c)
      BY <1>8, <1>9 DEF Access, None, ReadOnly, ReadWrite
    <3>5. Granted(c)' \/ Allowed(c) <= says
      <4>1. Granted(c)' = has_write_access(user[c].id, r.id)
        BY <1>1, <1>2, <1>6 DEF Granted, has_write_access
      <4>. QED
        BY <1>9, <2>2, <4>1 DEF None, ReadOnly, ReadWrite
    <3>. QED
      BY <1>1, <1>7, <1>8, <2>2, <3>1, <3>2, <3>3, <3>4, <3>5
      DEF RunInv, PermInv, DoneInv, Running
  <2>. QED
    BY <2>1, <2>2
<1>11. ASSUME NEW d \in Conns, d # c PROVE (RunInv(d) /\ PermInv(d) /\ DoneInv(d))'
  <2>1. pc'[d] = pc[d] /\ level'[d] = level[d] /\ row'[d] = row[d]
    BY <1>3, <1>11 DEF Inv, CheckTypeOK
  <2>. QED
    BY <1>1, <1>11, <2>1, OthersKept
<1>. QED
  BY <1>5, <1>10, <1>11 DEF CheckInv

\* No row, or an error, answers "no".
LEMMA ReadNoRepoInv ==
  ASSUME Inv, NEW c \in Conns, ReadNoRepo(c)
  PROVE  CheckTypeOK' /\ CheckInv'
<1>1. /\ UNCHANGED storeVars /\ Observe /\ UNCHANGED <<user, kind, target, row>>
      /\ pc[c] = "get_repo"
      /\ pc' = [pc EXCEPT ![c] = "done"] /\ level' = [level EXCEPT ![c] = None]
      /\ \/ get_repo(target[c][1], target[c][2]) = {} /\ UNCHANGED erred
         \/ erred' = [erred EXCEPT ![c] = TRUE]
  BY DEF ReadNoRepo
<1>2. UNCHANGED <<users, repos, repo_perms, repo_seq>>
  BY <1>1 DEF storeVars, userTable, repoTable
<1>3. CheckTypeOK'
  <2>1. seen' \in [Conns -> SUBSET Access]
    BY <1>1, ObserveStep DEF Inv
  <2>. QED
    BY <1>1, <2>1 DEF Inv, CheckTypeOK, Access
<1>4. pc'[c] = "done" /\ level'[c] = None
  BY <1>1 DEF Inv, CheckTypeOK
<1>5. Allowed(c)' \in seen'[c] /\ Allowed(c)' \in Access /\ Allowed(c)' = Allowed(c)
  BY <1>1, <1>2, <1>4, ObserveStep, AllowedType DEF Inv, Allowed, Running
<1>6. None <= Answer(kind[c], Allowed(c))
  BY <1>5, AnswerType DEF Inv, CheckTypeOK, Access, None, ReadOnly, ReadWrite
<1>7. ~erred'[c] => Answer(kind[c], Allowed(c)) <= None
  <2>1. CASE get_repo(target[c][1], target[c][2]) = {}
    <3>1. Allowed(c) = None
      BY <1>1, <2>1, AllowedCases DEF Inv, CheckInv, RunInv, Running, Allowed, get_repo
    <3>. QED
      BY <3>1, AnswerType DEF Inv, CheckTypeOK, Access, None
  <2>2. CASE erred' = [erred EXCEPT ![c] = TRUE]
    BY <2>2 DEF Inv, CheckTypeOK
  <2>. QED
    BY <1>1, <2>1, <2>2
<1>8. (RunInv(c) /\ PermInv(c) /\ DoneInv(c))'
  BY <1>1, <1>4, <1>5, <1>6, <1>7 DEF RunInv, PermInv, DoneInv, Running
<1>9. ASSUME NEW d \in Conns, d # c PROVE (RunInv(d) /\ PermInv(d) /\ DoneInv(d))'
  <2>1. pc'[d] = pc[d] /\ level'[d] = level[d] /\ erred'[d] = erred[d]
    BY <1>1, <1>9 DEF Inv, CheckTypeOK
  <2>. QED
    BY <1>1, <1>9, <2>1, OthersKept
<1>. QED
  BY <1>3, <1>8, <1>9 DEF CheckInv

\* A grant found by the second read is a grant on the repository asked about;
\* when none is found, the rules once allowed no more than the row says.
LEMMA ReadPermInv ==
  ASSUME Inv, NEW c \in Conns, ReadPerm(c)
  PROVE  CheckTypeOK' /\ CheckInv'
<1>1. UNCHANGED storeVars /\ Observe /\ UNCHANGED <<user, kind, target, row>>
      /\ pc[c] = "perm" /\ pc' = [pc EXCEPT ![c] = "done"]
  BY DEF ReadPerm
<1>2. UNCHANGED <<users, repos, repo_perms, repo_seq>>
  BY <1>1 DEF storeVars, userTable, repoTable
<1>3. PICK ok \in BOOLEAN :
        /\ level' = [level EXCEPT ![c] = Answer(kind[c],
             IF ok /\ Granted(c) THEN ReadWrite
             ELSE IF row[c].public THEN ReadOnly ELSE None)]
        /\ erred' = [erred EXCEPT ![c] = ~ok]
  BY DEF ReadPerm
<1> DEFINE found == IF ok /\ Granted(c) THEN ReadWrite ELSE RowSays(c)
<1>4. kind[c] \in Kinds /\ found \in Access /\ RowSays(c) \in Access
  BY DEF Inv, CheckTypeOK, Access, RowSays
<1>5. pc'[c] = "done" /\ level'[c] = Answer(kind[c], found) /\ erred'[c] = ~ok
  BY <1>1, <1>3 DEF Inv, CheckTypeOK, RowSays
<1>6. CheckTypeOK'
  <2>1. seen' \in [Conns -> SUBSET Access]
    BY <1>1, ObserveStep DEF Inv
  <2>2. Answer(kind[c], found) \in Access
    BY <1>4, AnswerType
  <2>3. level' \in [Conns -> Access]
    BY <1>3, <2>2 DEF Inv, CheckTypeOK, RowSays
  <2>. QED
    BY <1>1, <1>3, <2>1, <2>3 DEF Inv, CheckTypeOK
<1>7. PermInv(c) /\ RunInv(c)
  BY DEF Inv, CheckInv
<1>8. /\ user[c] # NoUser /\ RowSound(c)
      /\ \E a \in seen[c] : RowSays(c) <= a
      /\ Granted(c) \/ \E a \in seen[c] : a <= RowSays(c)
      /\ ~Privileged(user[c], target[c][1]) /\ Allowed(c) \in seen[c]
  BY <1>1, <1>7 DEF PermInv, RunInv, Running
<1>9. seen[c] \subseteq seen'[c] /\ seen[c] \subseteq Access
  BY <1>1, <1>5, ObserveStep DEF Inv, CheckTypeOK
<1>10. Granted(c) => Allowed(c) = ReadWrite
  <2> SUFFICES ASSUME Granted(c) PROVE Allowed(c) = ReadWrite
    OBVIOUS
  <2>1. PICK r \in repos : r.id = row[c].id
    BY DEF Granted, has_write_access, WriteGrantIn, Inv, StoreInv, StoreIntegrity,
       PermsSound
  <2>2. r \in GetRepoIn(repos, users, target[c][1], target[c][2])
    BY <1>8, <2>1 DEF RowSound, GetRepoIn
  <2>3. WriteGrantIn(repo_perms, user[c].id, r.id)
    BY <2>1 DEF Granted, has_write_access
  <2>. QED
    BY <1>8, <2>2, <2>3, AllowedCases DEF Allowed
<1>11. \E a \in seen[c] : found <= a
  <2>1. CASE ok /\ Granted(c)
    <3>1. Allowed(c) \in seen[c] /\ found <= Allowed(c)
      BY <1>8, <1>10, <2>1 DEF ReadWrite
    <3>. QED
      BY <3>1
  <2>2. CASE ~(ok /\ Granted(c))
    BY <1>8, <2>2
  <2>. QED
    BY <2>1, <2>2
<1>12. ok => \E a \in seen[c] : a <= found
  <2>1. CASE Granted(c)
    <3>1. ok => Allowed(c) \in seen[c] /\ Allowed(c) <= found
      BY <1>8, <1>10, <2>1 DEF ReadWrite
    <3>. QED
      BY <3>1
  <2>2. CASE ~Granted(c)
    BY <1>8, <2>2
  <2>. QED
    BY <2>1, <2>2
<1> HIDE DEF found
<1>13. DoneInv(c)'
  <2>1. PICK a \in seen[c] : found <= a
    BY <1>11
  <2>2. level'[c] <= Answer(kind[c], a)
    BY <1>4, <1>5, <1>9, <2>1, AnswerMonotone
  <2>3. ok => \E b \in seen[c] : Answer(kind[c], b) <= level'[c]
    BY <1>4, <1>5, <1>9, <1>12, AnswerMonotone
  <2>. QED
    BY <1>1, <1>5, <1>9, <2>2, <2>3 DEF DoneInv
<1>14. RunInv(c)' /\ PermInv(c)'
  BY <1>5 DEF RunInv, PermInv, Running
<1>15. ASSUME NEW d \in Conns, d # c PROVE (RunInv(d) /\ PermInv(d) /\ DoneInv(d))'
  <2>1. pc'[d] = pc[d] /\ level'[d] = level[d] /\ erred'[d] = erred[d]
    BY <1>1, <1>3, <1>15 DEF Inv, CheckTypeOK
  <2>. QED
    BY <1>1, <1>15, <2>1, OthersKept
<1>. QED
  BY <1>6, <1>13, <1>14, <1>15 DEF CheckInv

\* Acting on the answer ends the check.
LEMMA FinishInv ==
  ASSUME Inv, NEW c \in Conns, Finish(c)
  PROVE  CheckTypeOK' /\ CheckInv'
<1>1. UNCHANGED storeVars /\ Observe /\ UNCHANGED <<user, kind, target>>
  BY DEF Finish
<1>2. CheckTypeOK'
  <2>1. seen' \in [Conns -> SUBSET Access]
    BY <1>1, ObserveStep DEF Inv
  <2>. QED
    BY <1>1, <2>1 DEF Finish, Inv, CheckTypeOK, Access
<1>3. (RunInv(c) /\ PermInv(c) /\ DoneInv(c))'
  BY DEF Finish, Inv, CheckTypeOK, RunInv, PermInv, DoneInv, Running
<1>4. ASSUME NEW d \in Conns, d # c PROVE (RunInv(d) /\ PermInv(d) /\ DoneInv(d))'
  <2>1. pc'[d] = pc[d] /\ level'[d] = level[d] /\ erred'[d] = erred[d] /\ row'[d] = row[d]
    BY <1>4 DEF Finish, Inv, CheckTypeOK
  <2>. QED
    BY <1>1, <1>4, <2>1, OthersKept
<1>. QED
  BY <1>2, <1>3, <1>4 DEF CheckInv

\* A store update is one of the store's own steps.
LEMMA StoreStepIsNext ==
  ASSUME StoreInv, StoreStep
  PROVE  StoreNext
<1>1. \A t \in Targets : t[1] \in Usernames /\ t[2] \in RepoNames
  BY AccessAssumption
<1>2. \A u \in users : u.id \in UserIds
  BY DEF StoreInv, StoreTypeOK, User
<1>. QED
  BY <1>1, <1>2 DEF StoreStep, StoreNext

\* Another actor's update keeps every running check in its bounds.
LEMMA StoreStepInv ==
  ASSUME Inv, StoreStep
  PROVE  CheckTypeOK' /\ CheckInv'
<1>1. Observe /\ UNCHANGED <<pc, user, kind, target, row, level, erred>>
  BY DEF StoreStep
<1>2. CheckTypeOK'
  <2>1. \A c \in Conns : seen' \in [Conns -> SUBSET Access]
    BY <1>1, ObserveStep DEF Inv
  <2>2. seen' \in [Conns -> SUBSET Access]
    BY <1>1, <2>1 DEF Observe
  <2>. QED
    BY <1>1, <2>2 DEF Inv, CheckTypeOK
<1>3. ASSUME NEW c \in Conns PROVE (RunInv(c) /\ PermInv(c) /\ DoneInv(c))'
  <2>1. RunInv(c)'
    BY <1>1, ObserveStep DEF Inv, CheckInv, RunInv, Running
  <2>2. PermInv(c)'
    <3> SUFFICES ASSUME pc[c] = "perm" PROVE PermInv(c)'
      BY <1>1 DEF PermInv
    <3>1. /\ user[c] # NoUser /\ RowSound(c)
          /\ \E a \in seen[c] : RowSays(c) <= a
          /\ Granted(c) \/ \E a \in seen[c] : a <= RowSays(c)
          /\ ~Privileged(user[c], target[c][1])
      BY DEF Inv, CheckInv, PermInv, RunInv, Running
    <3>2. RowSound(c)'
      BY <3>1, RowKept DEF Inv
    <3>3. seen[c] \subseteq seen'[c] /\ Allowed(c)' \in seen'[c]
      BY <1>1, ObserveStep DEF Inv, Running
    <3>4. RowSays(c)' = RowSays(c)
      BY <1>1 DEF RowSays
    <3>5. Granted(c)' \/ \E a \in seen'[c] : a <= RowSays(c)
      <4>1. CASE Granted(c) /\ ~Granted(c)'
        <5>1. get_repo(target[c][1], target[c][2])' = {}
          BY <3>1, <4>1, GrantKept DEF Inv
        <5>2. GetRepoIn(repos', users', target[c][1], target[c][2]) = {}
          BY <1>1, <5>1 DEF get_repo
        <5>3. AllowedIn(users', repos', repo_perms', user[c], target[c]) = None
          BY <3>1, <5>2, AllowedCases
        <5>4. Allowed(c)' = None
          BY <1>1, <5>3 DEF Allowed
        <5>5. None <= RowSays(c)
          BY DEF RowSays, None, ReadOnly
        <5>. QED
          BY <3>3, <5>4, <5>5
      <4>2. CASE ~Granted(c)
        BY <3>1, <3>3, <4>2
      <4>. QED
        BY <4>1, <4>2
    <3>. QED
      BY <1>1, <3>1, <3>2, <3>3, <3>4, <3>5 DEF PermInv
  <2>3. DoneInv(c)'
    BY <1>1, ObserveStep DEF Inv, CheckInv, DoneInv
  <2>. QED
    BY <2>1, <2>2, <2>3
<1>. QED
  BY <1>2, <1>3 DEF CheckInv

-----------------------------------------------------------------------------
LEMMA CheckInit == Init => Inv
<1> SUFFICES ASSUME Init PROVE Inv
  OBVIOUS
<1>1. StoreInv
  BY InitInv DEF Init
<1>2. CheckTypeOK
  BY DEF Init, CheckTypeOK, Access
<1>3. CheckInv
  BY DEF Init, CheckInv, RunInv, PermInv, DoneInv, Running
<1>. QED
  BY <1>1, <1>2, <1>3 DEF Inv

\* A stuttering step changes nothing the invariant speaks of.
LEMMA CheckStutter == Inv /\ UNCHANGED vars => CheckTypeOK' /\ CheckInv'
<1> SUFFICES ASSUME Inv, UNCHANGED vars PROVE CheckTypeOK' /\ CheckInv'
  OBVIOUS
<1>1. UNCHANGED <<users, repos, repo_perms, repo_seq,
                  pc, user, kind, target, row, level, seen, erred>>
  BY DEF vars, storeVars, userTable, repoTable, checkVars
<1>2. CheckTypeOK'
  BY <1>1 DEF Inv, CheckTypeOK
<1>3. CheckInv'
  BY <1>1 DEF Inv, CheckInv, RunInv, PermInv, DoneInv, Running, Allowed, RowSound,
     RowSays, Granted, has_write_access
<1>. QED
  BY <1>2, <1>3

LEMMA CheckNext == Inv /\ [Next]_vars => Inv'
<1> SUFFICES ASSUME Inv, [Next]_vars PROVE Inv'
  OBVIOUS
<1>1. StoreInv'
  <2>1. [StoreNext]_storeVars
    BY StoreStepIsNext
    DEF Inv, Next, vars, current_user, Begin, ReadRepo, ReadNoRepo, ReadPerm, Finish
  <2>. QED
    BY <2>1, StoreNextInv DEF Inv
<1>2. CheckTypeOK' /\ CheckInv'
  <2>1. ASSUME NEW c \in Conns, NEW f \in Fingerprints, current_user(c, f)
        PROVE CheckTypeOK' /\ CheckInv'
    BY <2>1, CurrentUserInv
  <2>2. ASSUME NEW c \in Conns, NEW k \in Kinds, NEW t \in Targets, Begin(c, k, t)
        PROVE CheckTypeOK' /\ CheckInv'
    BY <2>2, BeginInv
  <2>3. ASSUME NEW c \in Conns, ReadRepo(c) PROVE CheckTypeOK' /\ CheckInv'
    BY <2>3, ReadRepoInv
  <2>4. ASSUME NEW c \in Conns, ReadNoRepo(c) PROVE CheckTypeOK' /\ CheckInv'
    BY <2>4, ReadNoRepoInv
  <2>5. ASSUME NEW c \in Conns, ReadPerm(c) PROVE CheckTypeOK' /\ CheckInv'
    BY <2>5, ReadPermInv
  <2>6. ASSUME NEW c \in Conns, Finish(c) PROVE CheckTypeOK' /\ CheckInv'
    BY <2>6, FinishInv
  <2>7. CASE StoreStep
    BY <2>7, StoreStepInv
  <2>8. CASE UNCHANGED vars
    BY <2>8, CheckStutter
  <2>. QED
    BY <2>1, <2>2, <2>3, <2>4, <2>5, <2>6, <2>7, <2>8 DEF Next
<1>. QED
  BY <1>1, <1>2 DEF Inv

\* The tables and the locals of every check keep their types.
THEOREM TypeCorrect == Spec => []TypeOK
<1>1. Inv => TypeOK
  BY DEF Inv, StoreInv, TypeOK
<1>. QED
  BY <1>1, CheckInit, CheckNext, PTL DEF Spec

\* No check answers more than the rules allowed at some instant while it ran,
\* whatever the other actors do to the store between its reads (auth.rs:37-86).
THEOREM AccessNeverExceedsHolds == Spec => []AccessNeverExceeds
<1>1. Inv => AccessNeverExceeds
  BY DEF Inv, CheckInv, DoneInv, AccessNeverExceeds
<1>. QED
  BY <1>1, CheckInit, CheckNext, PTL DEF Spec

\* And unless the store failed, no check answers less than the rules allowed at
\* every instant while it ran (auth.rs:37-86).
THEOREM RefusalWasTrueHolds == Spec => []RefusalWasTrue
<1>1. Inv => RefusalWasTrue
  BY DEF Inv, CheckInv, DoneInv, RefusalWasTrue
<1>. QED
  BY <1>1, CheckInit, CheckNext, PTL DEF Spec

\* In a sound store the SQL listing and the access rules agree.
LEMMA ListingAgrees == StoreInv => ListingMatchesCanRead
<1> SUFFICES ASSUME StoreInv, NEW r \in repos, NEW o \in users, o.id = r.owner_id
             PROVE  /\ \A u \in users :
                         r \in list_repos_for_user(u.id)
                           <=> AllowedIn(users, repos, repo_perms, u, <<o.username, r.name>>) # None
                    /\ r \in list_public_repos
                         <=> AllowedIn(users, repos, repo_perms, NoUser, <<o.username, r.name>>) # None
  BY DEF ListingMatchesCanRead
<1> DEFINE found == GetRepoIn(repos, users, o.username, r.name)
<1>1. found = {r}
  <2>1. r \in found
    BY DEF GetRepoIn
  <2>2. \A s \in found : s = r
    BY DEF GetRepoIn, StoreInv, StoreIntegrity, ReposSound, UsersSound
  <2>. QED
    BY <2>1, <2>2
<1> DEFINE t == <<o.username, r.name>>
<1>2. t[1] = o.username /\ t[2] = r.name
  OBVIOUS
<1>3. ASSUME NEW u \in users
      PROVE  r \in list_repos_for_user(u.id)
               <=> AllowedIn(users, repos, repo_perms, u, t) # None
  <2>1. u # NoUser
    BY AuthAssumption DEF StoreInv, StoreTypeOK
  <2>2. u.username = o.username <=> r.owner_id = u.id
    BY DEF StoreInv, StoreIntegrity, UsersSound
  <2>3. u.is_admin <=> \E v \in users : v.id = u.id /\ v.is_admin
    BY DEF StoreInv, StoreIntegrity, UsersSound
  <2>4. WriteGrantIn(repo_perms, u.id, r.id)
          <=> \E p \in repo_perms : p.repo_id = r.id /\ p.user_id = u.id
    BY DEF WriteGrantIn, StoreInv, StoreIntegrity, PermsSound
  <2>5. r \in list_repos_for_user(u.id) <=>
          \/ r.public \/ r.owner_id = u.id \/ WriteGrantIn(repo_perms, u.id, r.id)
          \/ u.is_admin
    BY <2>3, <2>4 DEF list_repos_for_user
  <2>6. AllowedIn(users, repos, repo_perms, u, t) # None <=>
          \/ r.public \/ u.username = o.username \/ WriteGrantIn(repo_perms, u.id, r.id)
          \/ u.is_admin
    <3>1. GetRepoIn(repos, users, t[1], t[2]) = {r}
      BY <1>1, <1>2
    <3>. QED
      BY <1>2, <2>1, <3>1 DEF AllowedIn, Privileged, None, ReadOnly, ReadWrite
  <2>. QED
    BY <2>2, <2>5, <2>6
<1>4. r \in list_public_repos <=> AllowedIn(users, repos, repo_perms, NoUser, t) # None
  <2>1. GetRepoIn(repos, users, t[1], t[2]) = {r}
    BY <1>1, <1>2
  <2>. QED
    BY <2>1 DEF AllowedIn, Privileged, list_public_repos, None, ReadOnly
<1>. QED
  BY <1>3, <1>4

\* Nothing is listed that opening refuses and nothing readable is hidden
\* (store.rs:272-311 against auth.rs:61-73).
THEOREM ListingHolds == Spec => []ListingMatchesCanRead
<1>1. Inv => ListingMatchesCanRead
  BY ListingAgrees DEF Inv
<1>. QED
  BY <1>1, CheckInit, CheckNext, PTL DEF Spec
=============================================================================
