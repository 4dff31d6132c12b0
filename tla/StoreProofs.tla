---------------------------- MODULE StoreProofs ----------------------------
(***************************************************************************)
(* Every update of the store keeps the tables typed and their constraints  *)
(* intact, for every number of users, keys and repositories.  One lemma    *)
(* per update; AccessProofs and the other proof modules cite them.         *)
(***************************************************************************)
EXTENDS Store, TLAPS

StoreInv == StoreTypeOK /\ StoreIntegrity

\* The initial tables are typed and sound.
LEMMA InitInv == StoreInit => StoreInv
  BY StoreAssumption
  DEF StoreInit, StoreInv, StoreTypeOK, StoreIntegrity, ReposSound, PermsSound,
      RepoIds, KeyIds, UserIds

\* add_user keeps the tables sound: the new name and the new id are fresh.
LEMMA AddUserInv ==
  ASSUME StoreInv, NEW n \in Usernames, NEW a \in BOOLEAN, add_user(n, a)
  PROVE  StoreInv'
<1> DEFINE new == [id |-> user_seq + 1, username |-> n, is_admin |-> a]
<1>1. new \in User /\ user_seq + 1 \in 0..MaxUserId
  BY StoreAssumption DEF add_user, StoreInv, StoreTypeOK, User, UserIds
<1>2. StoreTypeOK'
  BY <1>1 DEF add_user, StoreInv, StoreTypeOK, keyTable, repoTable
<1>3. UsersSound(users, user_seq)'
  <2>1. \A u \in users : u.id # user_seq + 1 /\ u.username # n
    BY StoreAssumption DEF add_user, StoreInv, StoreTypeOK, StoreIntegrity,
       UsersSound, User, UserIds, user_by_username
  <2>2. \A u \in users' : u.id <= user_seq'
    BY <1>1, StoreAssumption DEF add_user, StoreInv, StoreTypeOK, StoreIntegrity,
       UsersSound, User, UserIds
  <2>. QED
    BY <2>1, <2>2 DEF add_user, StoreInv, StoreIntegrity, UsersSound
<1>4. KeysSound(ssh_keys, users, key_seq)' /\ ReposSound' /\ PermsSound'
  BY DEF add_user, StoreInv, StoreIntegrity, KeysSound, ReposSound, PermsSound,
     keyTable, repoTable
<1>. QED
  BY <1>2, <1>3, <1>4 DEF StoreInv, StoreIntegrity

\* Inserting a key keeps them sound when its fingerprint is not registered.
LEMMA InsertKeyInv ==
  ASSUME StoreInv, NEW u \in UserIds, NEW f \in Fingerprints, InsertKey(u, f),
         \A k \in ssh_keys : k.fingerprint # f
  PROVE  StoreInv'
<1> DEFINE new == [id |-> NextKeyId, user_id |-> u, fingerprint |-> f]
<1>1. new \in Key /\ NextKeyId \in 0..MaxKeyId
  BY StoreAssumption DEF InsertKey, StoreInv, StoreTypeOK, Key, KeyIds, NextKeyId
<1>2. StoreTypeOK'
  BY <1>1 DEF InsertKey, StoreInv, StoreTypeOK, userTable, repoTable
<1>3. KeysSound(ssh_keys, users, key_seq)'
  <2>1. \A k \in ssh_keys : k.id # NextKeyId
    BY StoreAssumption DEF StoreInv, StoreTypeOK, StoreIntegrity, KeysSound,
       Key, KeyIds, NextKeyId
  <2>2. \A k \in ssh_keys' : k.id <= key_seq'
    BY <1>1, StoreAssumption DEF InsertKey, StoreInv, StoreTypeOK, StoreIntegrity,
       KeysSound, Key, KeyIds, NextKeyId
  <2>. QED
    BY <2>1, <2>2 DEF InsertKey, StoreInv, StoreIntegrity, KeysSound, userTable
<1>4. UsersSound(users, user_seq)' /\ ReposSound' /\ PermsSound'
  BY DEF InsertKey, StoreInv, StoreIntegrity, UsersSound, ReposSound, PermsSound,
     userTable, repoTable
<1>. QED
  BY <1>2, <1>3, <1>4 DEF StoreInv, StoreIntegrity

\* Removing a key keeps them sound.
LEMMA RemoveKeyInv ==
  ASSUME StoreInv, NEW u, NEW k, remove_key(u, k)
  PROVE  StoreInv'
  BY DEF remove_key, StoreInv, StoreTypeOK, StoreIntegrity, UsersSound, KeysSound,
     ReposSound, PermsSound, userTable, repoTable

\* ensure_repo's INSERT OR IGNORE keeps them sound: one row for a name, new id.
LEMMA InsertRepoInv ==
  ASSUME StoreInv, NEW o \in UserIds, NEW n \in RepoNames, insert_repo(o, n)
  PROVE  StoreInv'
<1>1. CASE UNCHANGED storeVars
  BY <1>1 DEF StoreInv, StoreTypeOK, StoreIntegrity, UsersSound, KeysSound,
     ReposSound, PermsSound, storeVars, userTable, keyTable, repoTable
<1>2. CASE /\ repo_by_owner_and_name(o, n) = {}
           /\ NextRepoId <= MaxRepoId
           /\ \E u \in users : u.id = o
           /\ repos' = repos \cup {[id |-> NextRepoId, owner_id |-> o,
                                    name |-> n, public |-> FALSE]}
           /\ repo_seq' = NextRepoId
           /\ UNCHANGED <<repo_perms, userTable, keyTable>>
  <2> DEFINE new == [id |-> NextRepoId, owner_id |-> o, name |-> n, public |-> FALSE]
  <2>1. new \in Repo /\ NextRepoId \in 0..MaxRepoId
    BY <1>2, StoreAssumption DEF StoreInv, StoreTypeOK, Repo, RepoIds, NextRepoId
  <2>2. StoreTypeOK'
    BY <1>2, <2>1 DEF StoreInv, StoreTypeOK, userTable, keyTable
  <2>3. ReposSound'
    <3>1. \A r \in repos : r.id # NextRepoId /\ ~(r.owner_id = o /\ r.name = n)
      BY <1>2, StoreAssumption DEF StoreInv, StoreTypeOK, StoreIntegrity, ReposSound,
         Repo, RepoIds, NextRepoId, repo_by_owner_and_name
    <3>2. \A r \in repos' : r.id <= repo_seq'
      BY <1>2, <2>1, StoreAssumption DEF StoreInv, StoreTypeOK, StoreIntegrity,
         ReposSound, Repo, RepoIds, NextRepoId
    <3>3. /\ new.id = NextRepoId /\ new.owner_id = o /\ new.name = n
          /\ repos' = repos \cup {new} /\ users' = users
      BY <1>2 DEF userTable
    <3>4. \A r \in repos' : \E u \in users' : u.id = r.owner_id
      <4> HIDE DEF new
      <4>. QED
        BY <1>2, <3>3 DEF StoreInv, StoreIntegrity, ReposSound
    <3>5. \A r, s \in repos' :
            r.id = s.id \/ (r.owner_id = s.owner_id /\ r.name = s.name) => r = s
      <4> HIDE DEF new
      <4>. QED
        BY <3>1, <3>3 DEF StoreInv, StoreIntegrity, ReposSound
    <3>. QED
      BY <3>2, <3>4, <3>5 DEF ReposSound
  <2>4. UsersSound(users, user_seq)' /\ KeysSound(ssh_keys, users, key_seq)' /\ PermsSound'
    BY <1>2 DEF StoreInv, StoreIntegrity, UsersSound, KeysSound, PermsSound,
       userTable, keyTable
  <2>. QED
    BY <2>2, <2>3, <2>4 DEF StoreInv, StoreIntegrity
<1>. QED
  BY <1>1, <1>2 DEF insert_repo

\* grant_write keeps them sound: one grant for a pair, on rows that exist.
LEMMA GrantWriteInv ==
  ASSUME StoreInv, NEW u \in UserIds, NEW r \in RepoIds, grant_write(u, r)
  PROVE  StoreInv'
<1> DEFINE new == [repo_id |-> r, user_id |-> u, write |-> TRUE]
<1>1. new \in Perm /\ new.repo_id = r /\ new.user_id = u /\ new.write
  BY DEF Perm
<1>2. repo_perms' = {p \in repo_perms : ~(p.repo_id = r /\ p.user_id = u)} \cup {new}
  BY DEF grant_write
<1>3. UNCHANGED <<users, user_seq, ssh_keys, key_seq, repos, repo_seq>>
  BY DEF grant_write, userTable, keyTable
<1> HIDE DEF new
<1>4. StoreTypeOK'
  BY <1>1, <1>2, <1>3 DEF StoreInv, StoreTypeOK
<1>5. PermsSound'
  BY <1>1, <1>2, <1>3 DEF grant_write, StoreInv, StoreIntegrity, PermsSound
<1>6. UsersSound(users, user_seq)' /\ KeysSound(ssh_keys, users, key_seq)' /\ ReposSound'
  BY <1>3 DEF StoreInv, StoreIntegrity, UsersSound, KeysSound, ReposSound
<1>. QED
  BY <1>4, <1>5, <1>6 DEF StoreInv, StoreIntegrity

\* set_public keeps them sound: it touches nothing but the flag.
LEMMA SetPublicInv ==
  ASSUME StoreInv, NEW o \in Usernames, NEW n \in RepoNames, NEW p \in BOOLEAN,
         set_public(o, n, p)
  PROVE  StoreInv'
<1> DEFINE Flip(r) == IF r \in get_repo(o, n) THEN [r EXCEPT !.public = p] ELSE r
<1>1. repos' = {Flip(r) : r \in repos}
  BY DEF set_public
<1>2. \A r \in repos : /\ Flip(r) \in Repo /\ Flip(r).id = r.id
                       /\ Flip(r).owner_id = r.owner_id /\ Flip(r).name = r.name
  BY DEF StoreInv, StoreTypeOK, Repo
<1>3. StoreTypeOK'
  BY <1>1, <1>2 DEF set_public, StoreInv, StoreTypeOK, userTable, keyTable
<1>4. ReposSound'
  <2> HIDE DEF Flip
  <2>1. \A s \in repos' : \E r \in repos : s = Flip(r)
    BY <1>1
  <2>2. repo_seq' = repo_seq /\ users' = users
    BY DEF set_public, userTable
  <2>. QED
    BY <1>2, <2>1, <2>2 DEF StoreInv, StoreIntegrity, ReposSound
<1>5. PermsSound'
  <2> HIDE DEF Flip
  <2>. QED
    BY <1>1, <1>2 DEF set_public, StoreInv, StoreIntegrity, PermsSound, userTable
<1>6. UsersSound(users, user_seq)' /\ KeysSound(ssh_keys, users, key_seq)'
  BY DEF set_public, StoreInv, StoreIntegrity, UsersSound, KeysSound, userTable, keyTable
<1>. QED
  BY <1>3, <1>4, <1>5, <1>6 DEF StoreInv, StoreIntegrity

\* delete_repo keeps them sound: the grants go with the row they refer to.
LEMMA DeleteRepoInv ==
  ASSUME StoreInv, NEW o, NEW n, delete_repo(o, n)
  PROVE  StoreInv'
  BY DEF delete_repo, StoreInv, StoreTypeOK, StoreIntegrity, UsersSound, KeysSound,
     ReposSound, PermsSound, userTable, keyTable

\* Every update of the store preserves the invariant.
LEMMA StoreNextInv == StoreInv /\ [StoreNext]_storeVars => StoreInv'
<1> SUFFICES ASSUME StoreInv, [StoreNext]_storeVars PROVE StoreInv'
  OBVIOUS
<1>1. ASSUME NEW n \in Usernames, NEW a \in BOOLEAN, add_user(n, a) PROVE StoreInv'
  BY <1>1, AddUserInv
<1>2. ASSUME NEW u \in UserIds, NEW f \in Fingerprints, add_key(u, f) PROVE StoreInv'
  BY <1>2, InsertKeyInv DEF add_key
<1>3. ASSUME NEW u \in UserIds, NEW f \in Fingerprints, add_key_strict(u, f)
      PROVE StoreInv'
  BY <1>3, InsertKeyInv DEF add_key_strict, KeyClaim
<1>4. ASSUME NEW u \in UserIds, NEW k \in KeyIds, remove_key(u, k) PROVE StoreInv'
  BY <1>4, RemoveKeyInv
<1>5. ASSUME NEW u \in UserIds, NEW n \in RepoNames, insert_repo(u, n) PROVE StoreInv'
  BY <1>5, InsertRepoInv
<1>6. ASSUME NEW u \in UserIds, NEW r \in RepoIds, grant_write(u, r) PROVE StoreInv'
  BY <1>6, GrantWriteInv
<1>7. ASSUME NEW o \in Usernames, NEW n \in RepoNames, NEW p \in BOOLEAN,
             set_public(o, n, p)
      PROVE StoreInv'
  BY <1>7, SetPublicInv
<1>8. ASSUME NEW o \in Usernames, NEW n \in RepoNames, delete_repo(o, n)
      PROVE StoreInv'
  BY <1>8, DeleteRepoInv
<1>9. CASE UNCHANGED storeVars
  BY <1>9 DEF StoreInv, StoreTypeOK, StoreIntegrity, UsersSound, KeysSound,
     ReposSound, PermsSound, storeVars, userTable, keyTable, repoTable
<1>. QED
  BY <1>1, <1>2, <1>3, <1>4, <1>5, <1>6, <1>7, <1>8, <1>9 DEF StoreNext

\* The tables always hold rows of their schema (store.rs, all methods).
THEOREM StoreTypeCorrect == StoreSpec => []StoreTypeOK
<1>1. StoreInv => StoreTypeOK
  BY DEF StoreInv
<1>. QED
  BY <1>1, InitInv, StoreNextInv, PTL DEF StoreSpec

\* No sequence of store calls breaks uniqueness, the references between the
\* tables or the freshness of the next row id (store.rs:69-100 and updates).
THEOREM StoreIntegrityHolds == StoreSpec => []StoreIntegrity
<1>1. StoreInv => StoreIntegrity
  BY DEF StoreInv
<1>. QED
  BY <1>1, InitInv, StoreNextInv, PTL DEF StoreSpec
=============================================================================
