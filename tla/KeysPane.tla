------------------------------ MODULE KeysPane ------------------------------
(***************************************************************************)
(* The SSH-keys pane of the TUI (src/src/tui/keys.rs) in several sessions  *)
(* at once.  A session shows a snapshot of its user's keys; between the    *)
(* snapshot and the "y" of a dialog other sessions add and remove keys,    *)
(* and the handler of that "y" is itself three store calls -- key_count,   *)
(* remove_key, list_keys_for_user -- with the mutex free in between.       *)
(***************************************************************************)
EXTENDS Store, Sequences, FiniteSets, ListNav

CONSTANTS
    Sessions,
    SessionUser,    \* whose session it is: the id of the user Tui::start found
    StoreErrors     \* may a store call fail?

ASSUME KeysAssumption ==
    /\ SessionUser \in [Sessions -> UserIds]
    /\ StoreErrors \in BOOLEAN

VARIABLES
    mode,     \* KeysMode, "closed", or the point a handler has reached:
              \* "counted" (before remove_key) and "load" (before load())
    items,    \* the snapshot, in id order
    sel,      \* ListState: the selected position, 0 for none
    pending   \* pending_delete

paneVars == <<mode, items, sel, pending>>
vars == <<storeVars, paneVars>>

KeysTypeOK ==
    /\ mode \in [Sessions -> {"closed", "list", "add", "confirm", "counted", "load"}]
    /\ \A s \in Sessions :
         /\ items[s] \in Seq(Key)
         /\ sel[s] \in 0..Len(items[s])
         /\ mode[s] # "load" /\ items[s] # <<>> => sel[s] # 0
    /\ pending \in [Sessions -> {0} \cup KeyIds]

-----------------------------------------------------------------------------
Set(f, s, v) == [f EXCEPT ![s] = v]
Uid(s) == SessionUser[s]

\* The one sequence of the keys in the order of their ids (ORDER BY id).
Listings(keys) ==
    {q \in [1..Cardinality(keys) -> keys] :
       \A i, j \in DOMAIN q : i < j => q[i].id < q[j].id}

\* The pane is built and loaded; its user was found through one of their keys.
Open(s) ==
    /\ mode[s] = "closed"
    /\ list_keys_for_user(Uid(s)) # {}
    /\ mode' = Set(mode, s, "load")
    /\ UNCHANGED <<storeVars, items, sel, pending>>

\* The connection goes away between two key presses.
Close(s) ==
    /\ mode[s] \in {"list", "add", "confirm"}
    /\ mode' = Set(mode, s, "closed")
    /\ items' = Set(items, s, <<>>)
    /\ sel' = Set(sel, s, 0)
    /\ pending' = Set(pending, s, 0)
    /\ UNCHANGED storeVars

\* load(): every handler that touched the store ends with it.
Load(s) ==
    /\ mode[s] = "load"
    /\ mode' = Set(mode, s, "list")
    /\ pending' = Set(pending, s, 0)
    /\ \/ \E keys \in Listings(list_keys_for_user(Uid(s))) :
          /\ items' = Set(items, s, keys)
          /\ sel' = Set(sel, s, fix_selection(sel[s], Len(keys)))
       \/ /\ StoreErrors
          /\ items' = Set(items, s, <<>>)
          /\ sel' = Set(sel, s, 0)
    /\ UNCHANGED storeVars

Navigate(s) ==
    /\ mode[s] = "list"
    /\ \E p \in Reachable(sel[s], Len(items[s])) : sel' = Set(sel, s, p)
    /\ UNCHANGED <<storeVars, mode, items, pending>>

-----------------------------------------------------------------------------
\* "a", and then Enter with a key, or with something that does not parse or
\* that the store fails to take.
AskAdd(s) ==
    /\ mode[s] = "list"
    /\ mode' = Set(mode, s, "add")
    /\ UNCHANGED <<storeVars, items, sel, pending>>

Add(s, fp) ==
    /\ mode[s] = "add"
    /\ \/ add_key_strict(Uid(s), fp)
       \/ KeyClaim(Uid(s), fp) # "new" /\ UNCHANGED storeVars
    /\ mode' = Set(mode, s, "load")
    /\ UNCHANGED <<items, sel, pending>>

NotAdded(s) ==
    /\ mode[s] = "add"
    /\ mode' = Set(mode, s, "load")
    /\ UNCHANGED <<storeVars, items, sel, pending>>

\* Esc, or "n".  pending_delete is not read again before the next "d".
Cancel(s) ==
    /\ mode[s] \in {"add", "confirm"}
    /\ mode' = Set(mode, s, "list")
    /\ pending' = Set(pending, s, 0)
    /\ UNCHANGED <<storeVars, items, sel>>

\* The key under the cursor; the dialog shows it too.
selected(s) == items[s][sel[s]]

\* "d": the key under the cursor is to go.
AskDelete(s) ==
    /\ mode[s] = "list" /\ sel[s] # 0
    /\ pending' = Set(pending, s, selected(s).id)
    /\ mode' = Set(mode, s, "confirm")
    /\ UNCHANGED <<storeVars, items, sel>>

\* Mutant: "n < 1" for "n <= 1".
BugLastKey(s) == list_keys_for_user(Uid(s)) = {}

\* key_count <= 1.
LastKey(s) == list_keys_for_user(Uid(s)) = {} \/ key_count_is_one(Uid(s))

\* "y": count the keys first ...
CountKeys(s) ==
    /\ mode[s] = "confirm"
    /\ \/ ~LastKey(s) /\ mode' = Set(mode, s, "counted")
       \/ (LastKey(s) \/ StoreErrors) /\ mode' = Set(mode, s, "load")
    /\ UNCHANGED <<storeVars, items, sel, pending>>

\* ... and then remove, which fails when another session already has.
RemoveKey(s) ==
    /\ mode[s] = "counted"
    /\ \/ remove_key(Uid(s), pending[s])
       \/ /\ StoreErrors \/ \A k \in list_keys_for_user(Uid(s)) : k.id # pending[s]
          /\ UNCHANGED storeVars
    /\ mode' = Set(mode, s, "load")
    /\ UNCHANGED <<items, sel, pending>>

\* The operator adds a key (--admin-key, Store::bootstrap of a user that is
\* there already); a key someone has stays theirs.
OperatorAdds(u, fp) == add_key(u, fp) /\ UNCHANGED paneVars

Init ==
    /\ StoreInit
    /\ mode = [s \in Sessions |-> "closed"]
    /\ items = [s \in Sessions |-> <<>>]
    /\ sel = [s \in Sessions |-> 0]
    /\ pending = [s \in Sessions |-> 0]

Next ==
    \/ \E s \in Sessions :
         \/ Open(s)
         \/ Close(s)
         \/ Load(s)
         \/ Navigate(s)
         \/ AskAdd(s)
         \/ \E fp \in Fingerprints : Add(s, fp)
         \/ NotAdded(s)
         \/ Cancel(s)
         \/ AskDelete(s)
         \/ CountKeys(s)
         \/ RemoveKey(s)
    \/ \E u \in UserIds, fp \in Fingerprints : OperatorAdds(u, fp)

Spec == Init /\ [][Next]_vars

-----------------------------------------------------------------------------
TypeOK == StoreTypeOK /\ KeysTypeOK

\* A key is only ever removed by the session whose dialog shows that very key,
\* with the fingerprint the user said "y" to, although the row was read long
\* before and other sessions removed and added keys since (keys.rs:93-171).
RemovedIsConfirmed ==
    [][\A k \in ssh_keys \ ssh_keys' :
         \E s \in Sessions : mode[s] = "counted" /\ selected(s) = k]_vars

\* A key never passes from one user to another without having been removed,
\* whoever pastes it (add_key_strict and INSERT OR IGNORE).
KeysStayWithTheirUser ==
    [][\A k \in ssh_keys : \A l \in ssh_keys' :
         k.fingerprint = l.fingerprint => k = l]_vars

Alone(u) == \A s, t \in Sessions : Uid(s) = u /\ Uid(t) = u => s = t

\* A user with one session can never remove their last key.
LastKeyKeptAlone ==
    [][\A u \in UserIds : Alone(u) /\ list_keys_for_user(u) # {}
         => list_keys_for_user(u)' # {}]_vars

\* What store.rs:46 says of every removal: "cannot remove the last key".
LastKeyKept ==
    [][\A u \in UserIds : list_keys_for_user(u) # {}
         => list_keys_for_user(u)' # {}]_vars
=============================================================================
