------------------------------- MODULE Store -------------------------------
(***************************************************************************)
(* The SQLite store of kohiro (src/src/store.rs).  Every method takes the  *)
(* one connection mutex, so each is one atomic action here; ensure_repo,   *)
(* which drops the mutex between its INSERT and its SELECT, is two.        *)
(*                                                                         *)
(* A table is a set of rows and a query is the set of rows it returns.     *)
(* The AUTOINCREMENT counters (sqlite_sequence) are kept, for the program  *)
(* remembers row ids across calls.  A key's comment is display text and is *)
(* left out.  SQLite's own part -- UNIQUE, PRIMARY KEY and, because of     *)
(* PRAGMA foreign_keys, REFERENCES -- appears as the guards under which a  *)
(* statement succeeds; a statement that fails changes nothing.             *)
(***************************************************************************)
EXTENDS Integers

CONSTANTS
    Usernames, Fingerprints, RepoNames,
    Users0, Keys0,          \* the rows an earlier run of the server left
    UserSeq0, KeySeq0,      \* and the counters it left
    MaxUserId, MaxKeyId, MaxRepoId   \* bounds on the three counters

UserIds == 1..MaxUserId
KeyIds  == 1..MaxKeyId
RepoIds == 1..MaxRepoId

User == [id : UserIds, username : Usernames, is_admin : BOOLEAN]
Key  == [id : KeyIds, user_id : UserIds, fingerprint : Fingerprints]
Repo == [id : RepoIds, owner_id : UserIds, name : RepoNames, public : BOOLEAN]
Perm == [repo_id : RepoIds, user_id : UserIds, write : BOOLEAN]

VARIABLES users, ssh_keys, repos, repo_perms, user_seq, key_seq, repo_seq

userTable == <<users, user_seq>>
keyTable  == <<ssh_keys, key_seq>>
repoTable == <<repos, repo_seq, repo_perms>>
storeVars == <<userTable, keyTable, repoTable>>

\* The constraints of the schema, over given tables.
UsersSound(us, seq) ==
    /\ \A u \in us : u.id <= seq
    /\ \A u, v \in us : u.id = v.id \/ u.username = v.username => u = v

KeysSound(ks, us, seq) ==
    /\ \A k \in ks : k.id <= seq /\ \E u \in us : u.id = k.user_id
    /\ \A k, l \in ks : k.id = l.id \/ k.fingerprint = l.fingerprint => k = l

ASSUME StoreAssumption ==
    /\ MaxUserId \in Nat /\ MaxKeyId \in Nat /\ MaxRepoId \in Nat
    /\ UserSeq0 \in 0..MaxUserId /\ KeySeq0 \in 0..MaxKeyId
    /\ Users0 \subseteq User /\ Keys0 \subseteq Key
    /\ UsersSound(Users0, UserSeq0)
    /\ KeysSound(Keys0, Users0, KeySeq0)

StoreInit ==
    /\ users = Users0 /\ user_seq = UserSeq0
    /\ ssh_keys = Keys0 /\ key_seq = KeySeq0
    /\ repos = {} /\ repo_seq = 0 /\ repo_perms = {}

-----------------------------------------------------------------------------
\* Queries.

user_by_username(username) == {u \in users : u.username = username}

user_by_fingerprint(fp) ==
    {u \in users : \E k \in ssh_keys : k.user_id = u.id /\ k.fingerprint = fp}

GetRepoIn(rs, us, owner, name) ==
    {r \in rs : r.name = name
                /\ \E u \in us : u.id = r.owner_id /\ u.username = owner}

get_repo(owner, name) == GetRepoIn(repos, users, owner, name)

repo_by_owner_and_name(owner_id, name) ==
    {r \in repos : r.owner_id = owner_id /\ r.name = name}

WriteGrantIn(ps, user_id, repo_id) ==
    \E p \in ps : p.repo_id = repo_id /\ p.user_id = user_id /\ p.write

has_write_access(user_id, repo_id) == WriteGrantIn(repo_perms, user_id, repo_id)

\* The EXISTS clause looks for a row of repo_perms, not for its write flag.
list_repos_for_user(user_id) ==
    {r \in repos : \/ r.public
                   \/ r.owner_id = user_id
                   \/ \E p \in repo_perms : p.repo_id = r.id /\ p.user_id = user_id
                   \/ \E u \in users : u.id = user_id /\ u.is_admin}

list_public_repos == {r \in repos : r.public}

list_keys_for_user(user_id) == {k \in ssh_keys : k.user_id = user_id}

-----------------------------------------------------------------------------
\* Updates.  Each is enabled only when its statement succeeds and changes rows.

add_user(username, is_admin) ==
    /\ user_seq < MaxUserId                         \* bound
    /\ user_by_username(username) = {}              \* UNIQUE(username)
    /\ users' = users \cup
         {[id |-> user_seq + 1, username |-> username, is_admin |-> is_admin]}
    /\ user_seq' = user_seq + 1
    /\ UNCHANGED <<keyTable, repoTable>>

\* Mutant: plain INTEGER PRIMARY KEY: one more than the largest id in the table.
BugNextKeyId ==
    IF ssh_keys = {} THEN 1
    ELSE 1 + (CHOOSE m \in KeyIds :
                (\E k \in ssh_keys : k.id = m) /\ \A k \in ssh_keys : k.id <= m)

\* AUTOINCREMENT: the id of the next row of ssh_keys.  (An insert SQLite ignores
\* may use a number up as well; only the order of the ids matters here.)
NextKeyId == key_seq + 1

InsertKey(user_id, fp) ==
    /\ NextKeyId <= MaxKeyId                        \* bound
    /\ \E u \in users : u.id = user_id              \* REFERENCES users(id)
    /\ ssh_keys' = ssh_keys \cup
         {[id |-> NextKeyId, user_id |-> user_id, fingerprint |-> fp]}
    /\ key_seq' = NextKeyId
    /\ UNCHANGED <<userTable, repoTable>>

\* INSERT OR IGNORE: a fingerprint that is already registered stays as it is.
add_key(user_id, fp) ==
    /\ \A k \in ssh_keys : k.fingerprint # fp
    /\ InsertKey(user_id, fp)

\* What add_key_strict answers: "new" when the row is inserted.
KeyClaim(user_id, fp) ==
    IF \A k \in ssh_keys : k.fingerprint # fp THEN "new"
    ELSE IF \E k \in ssh_keys : k.fingerprint = fp /\ k.user_id = user_id
         THEN "mine" ELSE "claimed"

\* Mutant: INSERT OR REPLACE, whoever has the fingerprint.
BugAddKeyReplaces(user_id, fp) ==
    /\ NextKeyId <= MaxKeyId
    /\ ssh_keys' = {k \in ssh_keys : k.fingerprint # fp} \cup
         {[id |-> NextKeyId, user_id |-> user_id, fingerprint |-> fp]}
    /\ key_seq' = NextKeyId
    /\ UNCHANGED <<userTable, repoTable>>

add_key_strict(user_id, fp) ==
    /\ KeyClaim(user_id, fp) = "new"
    /\ InsertKey(user_id, fp)

key_count_is_one(user_id) ==
    /\ list_keys_for_user(user_id) # {}
    /\ \A k, l \in list_keys_for_user(user_id) : k = l

remove_key(user_id, key_id) ==
    /\ \E k \in ssh_keys : k.id = key_id /\ k.user_id = user_id   \* else NotFound
    /\ ssh_keys' = {k \in ssh_keys : ~(k.id = key_id /\ k.user_id = user_id)}
    /\ UNCHANGED <<key_seq, userTable, repoTable>>

\* Mutant: plain INTEGER PRIMARY KEY, which hands a deleted row's id out again.
BugNextRepoId == IF repos = {} THEN 1 ELSE repo_seq + 1

\* Mutant: the first id is taken before the counter moves.
BugRepoIdFromZero == repo_seq

\* AUTOINCREMENT: the id of the next row of repos.
NextRepoId == repo_seq + 1

\* The INSERT OR IGNORE of ensure_repo; new repositories are private.
insert_repo(owner_id, name) ==
    \/ /\ repo_by_owner_and_name(owner_id, name) = {}
       /\ NextRepoId <= MaxRepoId                   \* bound
       /\ \E u \in users : u.id = owner_id          \* REFERENCES users(id)
       /\ repos' = repos \cup {[id |-> NextRepoId, owner_id |-> owner_id,
                                name |-> name, public |-> FALSE]}
       /\ repo_seq' = NextRepoId
       /\ UNCHANGED <<repo_perms, userTable, keyTable>>
    \/ /\ repo_by_owner_and_name(owner_id, name) # {}
       /\ UNCHANGED storeVars

\* Mutant: the grant is stored without its write flag.
BugGrantRead(user_id, repo_id) ==
    /\ \E u \in users : u.id = user_id
    /\ \E r \in repos : r.id = repo_id
    /\ repo_perms' = repo_perms
         \cup {[repo_id |-> repo_id, user_id |-> user_id, write |-> FALSE]}
    /\ UNCHANGED <<repos, repo_seq, userTable, keyTable>>

\* Mutant: PRAGMA foreign_keys is left off.
BugGrantNoForeignKey(user_id, repo_id) ==
    /\ repo_perms' =
         {p \in repo_perms : ~(p.repo_id = repo_id /\ p.user_id = user_id)}
         \cup {[repo_id |-> repo_id, user_id |-> user_id, write |-> TRUE]}
    /\ UNCHANGED <<repos, repo_seq, userTable, keyTable>>

grant_write(user_id, repo_id) ==
    /\ \E u \in users : u.id = user_id              \* REFERENCES users(id)
    /\ \E r \in repos : r.id = repo_id              \* REFERENCES repos(id)
    /\ repo_perms' =
         {p \in repo_perms : ~(p.repo_id = repo_id /\ p.user_id = user_id)}
         \cup {[repo_id |-> repo_id, user_id |-> user_id, write |-> TRUE]}
    /\ UNCHANGED <<repos, repo_seq, userTable, keyTable>>

set_public(owner, name, public) ==
    /\ get_repo(owner, name) # {}                   \* else NotFound
    /\ repos' = {IF r \in get_repo(owner, name)
                 THEN [r EXCEPT !.public = public] ELSE r : r \in repos}
    /\ UNCHANGED <<repo_seq, repo_perms, userTable, keyTable>>

\* Mutant: the grants stay (with foreign_keys off SQLite lets the row go).
BugDeleteKeepsGrants(owner, name) ==
    /\ get_repo(owner, name) # {}
    /\ repos' = repos \ get_repo(owner, name)
    /\ UNCHANGED <<repo_seq, repo_perms, userTable, keyTable>>

\* One transaction: the grants go first, then the row.
delete_repo(owner, name) ==
    /\ get_repo(owner, name) # {}                   \* else NotFound
    /\ \E gone \in get_repo(owner, name) :
         /\ repo_perms' = {p \in repo_perms : p.repo_id # gone.id}
         /\ repos' = {r \in repos : r.id # gone.id}
    /\ UNCHANGED <<repo_seq, userTable, keyTable>>

-----------------------------------------------------------------------------
StoreNext ==
    \/ \E n \in Usernames, a \in BOOLEAN : add_user(n, a)
    \/ \E u \in UserIds, f \in Fingerprints : add_key(u, f)
    \/ \E u \in UserIds, f \in Fingerprints : add_key_strict(u, f)
    \/ \E u \in UserIds, k \in KeyIds : remove_key(u, k)
    \/ \E u \in UserIds, n \in RepoNames : insert_repo(u, n)
    \/ \E u \in UserIds, r \in RepoIds : grant_write(u, r)
    \/ \E o \in Usernames, n \in RepoNames, p \in BOOLEAN : set_public(o, n, p)
    \/ \E o \in Usernames, n \in RepoNames : delete_repo(o, n)

StoreSpec == StoreInit /\ [][StoreNext]_storeVars

-----------------------------------------------------------------------------
\* Every table holds rows of its schema and every counter is in its bound.
StoreTypeOK ==
    /\ users \subseteq User /\ user_seq \in 0..MaxUserId
    /\ ssh_keys \subseteq Key /\ key_seq \in 0..MaxKeyId
    /\ repos \subseteq Repo /\ repo_seq \in 0..MaxRepoId
    /\ repo_perms \subseteq Perm

ReposSound ==
    /\ \A r \in repos : r.id <= repo_seq /\ \E u \in users : u.id = r.owner_id
    /\ \A r, s \in repos :
         r.id = s.id \/ (r.owner_id = s.owner_id /\ r.name = s.name) => r = s

PermsSound ==
    /\ \A p \in repo_perms : /\ p.write
                             /\ \E r \in repos : r.id = p.repo_id
                             /\ \E u \in users : u.id = p.user_id
    /\ \A p, q \in repo_perms :
         p.repo_id = q.repo_id /\ p.user_id = q.user_id => p = q

\* No sequence of calls leaves a fingerprint that names two users, two rows
\* for one owner/name, a row whose id is yet to be handed out, or a grant on
\* a repository that is gone: what every lookup of auth.rs relies on when it
\* takes the first row SQLite returns (store.rs, the schema and all updates).
StoreIntegrity ==
    /\ UsersSound(users, user_seq)
    /\ KeysSound(ssh_keys, users, key_seq)
    /\ ReposSound
    /\ PermsSound
=============================================================================
