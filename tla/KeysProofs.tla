----------------------------- MODULE KeysProofs -----------------------------
(***************************************************************************)
(* For any number of sessions, users and keys: what a "y" in the keys pane *)
(* removes is the key its dialog shows, no key changes hands, and a user   *)
(* with one session keeps a key.                                           *)
(*                                                                         *)
(* A listing may be arbitrarily old.  What makes it safe is that ids are   *)
(* never given out again: a row of the listing and a row of the table with *)
(* the same id are the same row.                                           *)
(***************************************************************************)
EXTENDS KeysPane, StoreProofs, FiniteSetTheorems, SequenceTheorems

Modes == {"closed", "list", "add", "confirm", "counted", "load"}

PaneTyped ==
    /\ mode \in [Sessions -> Modes]
    /\ items \in [Sessions -> Seq(Key)]
    /\ sel \in [Sessions -> Nat]
    /\ pending \in [Sessions -> {0} \cup KeyIds]

\* A cursor that is in its list; only an empty list has none.
CursorIn(s) ==
    /\ sel[s] \in 0..Len(items[s])
    /\ mode[s] # "load" /\ items[s] # <<>> => sel[s] # 0

\* A row that is, or once was, in the table.
Known(k, keys, seq) == k.id <= seq /\ \A l \in keys : l.id = k.id => l = k

ListedKnown(s) == \A i \in 1..Len(items[s]) : Known(items[s][i], ssh_keys, key_seq)

\* The dialog is about the key under the cursor.
DialogShows(s) ==
    mode[s] \in {"confirm", "counted"} => sel[s] # 0 /\ pending[s] = selected(s).id

\* Between the count and the removal a lone session's user still has two keys.
CountHolds(s) == mode[s] = "counted" /\ Alone(Uid(s)) => ~LastKey(s)

PaneSound ==
    \A s \in Sessions : CursorIn(s) /\ ListedKnown(s) /\ DialogShows(s) /\ CountHolds(s)

Inv == StoreInv /\ PaneTyped /\ PaneSound

-----------------------------------------------------------------------------
\* The cursor that load() leaves is in the new list.
LEMMA FixedCursor ==
  ASSUME NEW old \in Nat, NEW n \in Nat
  PROVE  fix_selection(old, n) \in 0..n /\ (n # 0 => fix_selection(old, n) # 0)
BY DEF fix_selection, AtMost, AtLeast

\* Navigation keeps the cursor in the list.
LEMMA MovedCursor ==
  ASSUME NEW old \in Nat, NEW n \in Nat, NEW p \in Reachable(old, n)
  PROVE  p \in 0..n /\ (n # 0 => p # 0)
<1> DEFINE cur == fix_selection(old, n)
<1>1. cur \in 0..n /\ (n # 0 => cur # 0)
  BY FixedCursor
<1>2. CASE n = 0
  BY <1>2 DEF Reachable
<1>3. CASE n # 0
  <2> HIDE DEF cur
  <2>1. p \in Moves(cur, n)
    BY <1>3 DEF Reachable, cur
  <2> QED
    BY <1>1, <1>3, <2>1 DEF Moves, AtMost, AtLeast
<1> QED
  BY <1>2, <1>3

\* There are finitely many keys, since their ids are bounded and differ.
LEMMA KeysFinite ==
  ASSUME StoreInv, NEW keys \in SUBSET ssh_keys
  PROVE  IsFiniteSet(keys)
<1> DEFINE f == [k \in keys |-> k.id]
<1>1. f \in Injection(keys, KeyIds)
  BY DEF StoreInv, StoreTypeOK, StoreIntegrity, KeysSound, Key, Injection, IsInjective
<1>2. IsFiniteSet(KeyIds)
  BY FS_Interval, StoreAssumption DEF KeyIds
<1> QED
  BY <1>1, <1>2, FS_Injection

\* A listing is a sequence of the keys it lists.
LEMMA ListingIsSeq ==
  ASSUME StoreInv, NEW keys \in SUBSET ssh_keys, NEW q \in Listings(keys)
  PROVE  q \in Seq(Key) /\ \A i \in 1..Len(q) : q[i] \in ssh_keys
<1>1. Cardinality(keys) \in Nat
  BY KeysFinite, FS_CardinalityType
<1>2. q \in [1..Cardinality(keys) -> keys]
  BY DEF Listings
<1>3. keys \subseteq Key
  BY DEF StoreInv, StoreTypeOK
<1>4. q \in Seq(Key) /\ Len(q) = Cardinality(keys)
  BY <1>1, <1>2, <1>3
<1> QED
  BY <1>2, <1>4

\* A row in the table is known, since ids differ.
LEMMA RowsKnown == StoreInv => \A k \in ssh_keys : Known(k, ssh_keys, key_seq)
BY DEF StoreInv, StoreIntegrity, KeysSound, Known

-----------------------------------------------------------------------------
\* What a step may do to the table: one fresh row comes, or one row goes.
Inserted(u, fp) ==
    /\ \A k \in ssh_keys : k.fingerprint # fp
    /\ InsertKey(u, fp)

KeysStep ==
    \/ UNCHANGED storeVars
    \/ \E u \in UserIds, fp \in Fingerprints : Inserted(u, fp)
    \/ \E s \in Sessions : RemoveKey(s) /\ remove_key(Uid(s), pending[s])

LEMMA StepOnKeys == Next => KeysStep
<1> SUFFICES ASSUME Next PROVE KeysStep
  OBVIOUS
<1> USE DEF KeysStep
<1>1. ASSUME NEW s \in Sessions, NEW fp \in Fingerprints, Add(s, fp) PROVE KeysStep
  BY <1>1, KeysAssumption DEF Add, add_key_strict, KeyClaim, Inserted, Uid
<1>2. ASSUME NEW s \in Sessions, RemoveKey(s) PROVE KeysStep
  BY <1>2 DEF RemoveKey
<1>3. ASSUME NEW u \in UserIds, NEW fp \in Fingerprints, OperatorAdds(u, fp) PROVE KeysStep
  BY <1>3 DEF OperatorAdds, add_key, Inserted
<1> QED
  BY <1>1, <1>2, <1>3
  DEF Next, Open, Close, Load, Navigate, AskAdd, NotAdded, Cancel, AskDelete, CountKeys

\* The store's invariant is kept, the counter grows, and what was known stays so.
LEMMA StoreStays ==
  ASSUME StoreInv, KeysStep
  PROVE  /\ StoreInv'
         /\ \A k \in Key : Known(k, ssh_keys, key_seq) => Known(k, ssh_keys, key_seq)'
<1>1. CASE UNCHANGED storeVars
  <2>1. [StoreNext]_storeVars
    BY <1>1
  <2> QED
    BY <1>1, <2>1, StoreNextInv DEF Known, storeVars, keyTable
<1>2. ASSUME NEW u \in UserIds, NEW fp \in Fingerprints, Inserted(u, fp)
      PROVE  /\ StoreInv'
             /\ \A k \in Key : Known(k, ssh_keys, key_seq) => Known(k, ssh_keys, key_seq)'
  <2>1. StoreInv'
    BY <1>2, InsertKeyInv DEF Inserted
  <2>2. ASSUME NEW k \in Key, Known(k, ssh_keys, key_seq)
        PROVE  Known(k, ssh_keys, key_seq)'
    <3>1. k.id \in Int /\ key_seq \in Int
      BY DEF Key, KeyIds, StoreInv, StoreTypeOK
    <3>2. k.id # NextKeyId /\ k.id <= key_seq'
      BY <1>2, <2>2, <3>1 DEF Inserted, InsertKey, NextKeyId, Known
    <3> QED
      BY <1>2, <2>2, <3>2 DEF Inserted, InsertKey, Known
  <2> QED
    BY <2>1, <2>2
<1>3. ASSUME NEW s \in Sessions, remove_key(Uid(s), pending[s])
      PROVE  /\ StoreInv'
             /\ \A k \in Key : Known(k, ssh_keys, key_seq) => Known(k, ssh_keys, key_seq)'
  BY <1>3, RemoveKeyInv DEF remove_key, Known
<1> QED
  BY <1>1, <1>2, <1>3 DEF KeysStep

\* A lone session's two keys are out of reach of every other session.
LEMMA CountStays ==
  ASSUME Inv, KeysStep, NEW t \in Sessions, Alone(Uid(t)), ~LastKey(t), mode[t] = "counted",
         ~RemoveKey(t)
  PROVE  ~LastKey(t)'
<1>1. \A k \in ssh_keys : k.user_id = Uid(t) => k \in ssh_keys'
  <2>1. ASSUME NEW s \in Sessions, RemoveKey(s), remove_key(Uid(s), pending[s])
        PROVE  \A k \in ssh_keys : k.user_id = Uid(t) => k \in ssh_keys'
    <3>1. Uid(s) # Uid(t)
      BY <2>1 DEF Alone
    <3> QED
      BY <2>1, <3>1 DEF remove_key
  <2> QED
    BY <2>1 DEF KeysStep, Inserted, InsertKey, storeVars, keyTable
<1> QED
  BY <1>1 DEF LastKey, key_count_is_one, list_keys_for_user

-----------------------------------------------------------------------------
\* What a session's own part of the invariant says.
Sound(s) == CursorIn(s) /\ ListedKnown(s) /\ DialogShows(s) /\ CountHolds(s)

\* A session that a step leaves as it is stays sound.
LEMMA StillSound ==
  ASSUME Inv, KeysStep, NEW t \in Sessions, ~RemoveKey(t),
         mode'[t] = mode[t], items'[t] = items[t], sel'[t] = sel[t],
         pending'[t] = pending[t]
  PROVE  Sound(t)'
<1>1. CursorIn(t)' /\ DialogShows(t)'
  BY DEF Inv, PaneSound, CursorIn, DialogShows, selected
<1>2. ListedKnown(t)'
  <2>1. \A i \in 1..Len(items[t]) : items[t][i] \in Key
    BY DEF Inv, PaneTyped
  <2> QED
    BY <2>1, StoreStays DEF Inv, PaneSound, ListedKnown, Known
<1>3. CountHolds(t)'
  <2> SUFFICES ASSUME mode[t] = "counted", Alone(Uid(t)) PROVE ~LastKey(t)'
    BY DEF CountHolds, Alone, Uid
  <2>1. ~LastKey(t)
    BY DEF Inv, PaneSound, CountHolds
  <2> QED
    BY <2>1, CountStays
<1> QED
  BY <1>1, <1>2, <1>3 DEF Sound

\* What a handler that leaves the list as it is must show of its session.
LEMMA SameListSound ==
  ASSUME Inv, KeysStep, NEW s \in Sessions, items'[s] = items[s],
         CursorIn(s)', DialogShows(s)', mode'[s] # "counted"
  PROVE  Sound(s)'
<1>1. \A i \in 1..Len(items[s]) : items[s][i] \in Key
  BY DEF Inv, PaneTyped
<1>2. ListedKnown(s)'
  BY <1>1, StoreStays DEF Inv, PaneSound, ListedKnown, Known
<1> QED
  BY <1>2 DEF Sound, CountHolds

\* Every handler keeps its own session typed and sound, and leaves the others.
Own(s) ==
    /\ PaneTyped'
    /\ Sound(s)'
    /\ \A t \in Sessions \ {s} : /\ mode'[t] = mode[t] /\ items'[t] = items[t]
                                 /\ sel'[t] = sel[t] /\ pending'[t] = pending[t]

LEMMA LoadSound ==
  ASSUME Inv, NEW s \in Sessions, Load(s)
  PROVE  Own(s)
<1>1. UNCHANGED storeVars /\ mode'[s] = "list"
  BY DEF Load, Set, Inv, PaneTyped
<1>2. CASE items' = Set(items, s, <<>>) /\ sel' = Set(sel, s, 0)
  <2>1. PaneTyped'
    BY <1>2 DEF Load, Set, Inv, PaneTyped, Modes
  <2>2. Sound(s)'
    BY <1>1, <1>2 DEF Sound, CursorIn, ListedKnown, DialogShows, CountHolds, Set, Inv, PaneTyped
  <2> QED
    BY <1>2, <2>1, <2>2 DEF Own, Load, Set, Inv, PaneTyped
<1>3. ASSUME NEW keys \in Listings(list_keys_for_user(Uid(s))),
             items' = Set(items, s, keys),
             sel' = Set(sel, s, fix_selection(sel[s], Len(keys)))
      PROVE  Own(s)
  <2>1. keys \in Seq(Key) /\ \A i \in 1..Len(keys) : keys[i] \in ssh_keys
    <3>1. list_keys_for_user(Uid(s)) \in SUBSET ssh_keys
      BY DEF list_keys_for_user
    <3> QED
      BY <3>1, ListingIsSeq DEF Inv
  <2>2. /\ fix_selection(sel[s], Len(keys)) \in 0..Len(keys)
        /\ Len(keys) # 0 => fix_selection(sel[s], Len(keys)) # 0
    BY <2>1, FixedCursor DEF Inv, PaneTyped
  <2>3. items'[s] = keys /\ sel'[s] = fix_selection(sel[s], Len(keys))
    BY <1>3 DEF Set, Inv, PaneTyped
  <2>4. PaneTyped'
    BY <1>3, <2>1, <2>2 DEF Load, Set, Inv, PaneTyped, Modes
  <2>5. CursorIn(s)'
    BY <2>1, <2>2, <2>3 DEF CursorIn
  <2>6. ListedKnown(s)'
    BY <1>1, <2>1, <2>3, RowsKnown DEF ListedKnown, Known, Inv, storeVars, keyTable
  <2>7. DialogShows(s)' /\ CountHolds(s)'
    BY <1>1 DEF DialogShows, CountHolds
  <2> QED
    BY <1>3, <2>4, <2>5, <2>6, <2>7 DEF Own, Sound, Load, Set, Inv, PaneTyped
<1> QED
  BY <1>2, <1>3 DEF Load

\* The handlers that do not fill the list, but for the count.
LEMMA HandlerSound ==
  ASSUME Inv, KeysStep, NEW s \in Sessions,
         \/ Open(s) \/ Close(s) \/ Navigate(s) \/ AskAdd(s)
         \/ \E fp \in Fingerprints : Add(s, fp)
         \/ NotAdded(s) \/ Cancel(s) \/ AskDelete(s) \/ RemoveKey(s)
  PROVE  Own(s)
<1> USE DEF Set, Inv, PaneTyped, Modes
<1>1. CASE Open(s) \/ AskAdd(s) \/ NotAdded(s) \/ RemoveKey(s)
             \/ \E fp \in Fingerprints : Add(s, fp)
  <2>1. /\ mode'[s] \in {"load", "add"} /\ items' = items /\ sel' = sel
        /\ mode' = [mode EXCEPT ![s] = mode'[s]] /\ pending' = pending
        /\ mode'[s] = "add" => mode[s] = "list"
    BY <1>1 DEF Open, AskAdd, NotAdded, RemoveKey, Add
  <2>2. CursorIn(s)' /\ DialogShows(s)'
    BY <2>1 DEF PaneSound, CursorIn, DialogShows
  <2> QED
    BY <2>1, <2>2, SameListSound DEF Own
<1>2. CASE Cancel(s)
  <2>1. CursorIn(s)' /\ DialogShows(s)'
    BY <1>2 DEF Cancel, PaneSound, CursorIn, DialogShows
  <2> QED
    BY <1>2, <2>1, SameListSound DEF Own, Cancel
<1>3. CASE Navigate(s)
  <2>1. PICK p \in Reachable(sel[s], Len(items[s])) : sel' = [sel EXCEPT ![s] = p]
    BY <1>3 DEF Navigate
  <2>2. Len(items[s]) \in Nat /\ (items[s] # <<>> => Len(items[s]) # 0)
    BY EmptySeq
  <2>3. p \in 0..Len(items[s]) /\ (Len(items[s]) # 0 => p # 0)
    BY <2>2, MovedCursor
  <2>4. CursorIn(s)' /\ DialogShows(s)'
    BY <1>3, <2>1, <2>2, <2>3 DEF Navigate, CursorIn, DialogShows
  <2> QED
    BY <1>3, <2>1, <2>3, <2>4, SameListSound DEF Own, Navigate
<1>4. CASE AskDelete(s)
  <2>1. sel[s] \in 1..Len(items[s])
    BY <1>4 DEF AskDelete, PaneSound, CursorIn
  <2>2. selected(s) \in Key /\ selected(s).id \in KeyIds
    <3>1. items[s] \in Seq(Key)
      OBVIOUS
    <3>2. items[s][sel[s]] \in Key
      BY <2>1, <3>1
    <3> QED
      BY <3>2 DEF selected, Key
  <2>3. CursorIn(s)' /\ DialogShows(s)'
    BY <1>4, <2>1 DEF AskDelete, PaneSound, CursorIn, DialogShows, selected
  <2> QED
    <3>1. PaneTyped'
      BY <1>4, <2>2 DEF AskDelete
    <3>2. mode'[s] = "confirm" /\ items' = items
      BY <1>4 DEF AskDelete
    <3>3. Sound(s)'
      BY <2>3, <3>2, SameListSound
    <3> QED
      BY <1>4, <3>1, <3>3 DEF Own, AskDelete
<1>5. CASE Close(s)
  <2>1. PaneTyped'
    BY <1>5 DEF Close
  <2>2. Sound(s)'
    BY <1>5 DEF Close, Sound, CursorIn, ListedKnown, DialogShows, CountHolds
  <2> QED
    BY <1>5, <2>1, <2>2 DEF Own, Close
<1> QED
  BY <1>1, <1>2, <1>3, <1>4, <1>5

\* The count: only with a second key does the handler go on to the removal.
LEMMA CountSound ==
  ASSUME Inv, KeysStep, NEW s \in Sessions, CountKeys(s)
  PROVE  Own(s)
<1> USE DEF Set, Inv, PaneTyped, Modes
<1>1. UNCHANGED <<storeVars, items, sel, pending>> /\ mode[s] = "confirm"
  BY DEF CountKeys
<1>2. mode'[s] = "load" \/ (mode'[s] = "counted" /\ ~LastKey(s))
  BY DEF CountKeys
<1>3. CursorIn(s)' /\ DialogShows(s)'
  BY <1>1, <1>2 DEF PaneSound, CursorIn, DialogShows, selected
<1>4. ListedKnown(s)'
  BY <1>1 DEF PaneSound, ListedKnown, Known, storeVars, keyTable
<1>5. CountHolds(s)'
  BY <1>1, <1>2 DEF CountHolds, LastKey, key_count_is_one, list_keys_for_user, Uid,
     storeVars, keyTable
<1>6. mode' = [mode EXCEPT ![s] = mode'[s]]
  BY DEF CountKeys
<1> QED
  BY <1>1, <1>2, <1>3, <1>4, <1>5, <1>6 DEF Own, Sound

-----------------------------------------------------------------------------
\* The invariant holds of every reachable state.
THEOREM KeysInvariant == Spec => []Inv
<1>1. Init => Inv
  <2> SUFFICES ASSUME Init PROVE Inv
    OBVIOUS
  <2>1. PaneTyped
    BY DEF Init, PaneTyped, Modes
  <2>2. PaneSound
    BY DEF Init, PaneSound, CursorIn, ListedKnown, DialogShows, CountHolds
  <2> QED
    BY <2>1, <2>2, InitInv DEF Inv, Init
<1>2. Inv /\ [Next]_vars => Inv'
  <2> SUFFICES ASSUME Inv, [Next]_vars PROVE Inv'
    OBVIOUS
  <2>1. KeysStep
    BY StepOnKeys DEF KeysStep, vars
  <2>2. StoreInv'
    BY <2>1, StoreStays DEF Inv
  <2>3. ASSUME NEW s \in Sessions, Own(s) PROVE Inv'
    <3>1. ASSUME NEW t \in Sessions \ {s} PROVE Sound(t)'
      <4>1. CASE RemoveKey(t)
        BY <2>3, <4>1 DEF RemoveKey, Own, Set, Inv, PaneTyped
      <4>2. CASE ~RemoveKey(t)
        BY <2>1, <2>3, <4>2, StillSound DEF Own
      <4> QED
        BY <4>1, <4>2
    <3> QED
      BY <2>2, <2>3, <3>1 DEF Own, Inv, PaneSound, Sound
  <2>4. CASE UNCHANGED paneVars
    <3>1. ASSUME NEW t \in Sessions PROVE ~RemoveKey(t)
      BY <2>4 DEF RemoveKey, paneVars, Set, Inv, PaneTyped
    <3>2. \A t \in Sessions : Sound(t)'
      BY <2>1, <2>4, <3>1, StillSound DEF paneVars
    <3> QED
      BY <2>2, <2>4, <3>2 DEF Inv, PaneTyped, PaneSound, Sound, paneVars
  <2> QED
    BY <2>1, <2>3, <2>4, LoadSound, HandlerSound, CountSound
    DEF Next, OperatorAdds, vars
<1> QED
  BY <1>1, <1>2, PTL DEF Spec

\* Type correctness of the store and of every session's pane.
THEOREM KeysTypeCorrect == Spec => []TypeOK
<1>1. Inv => TypeOK
  BY DEF Inv, StoreInv, PaneTyped, PaneSound, CursorIn, TypeOK, KeysTypeOK, Modes
<1> QED
  BY <1>1, KeysInvariant, PTL

\* For any number of sessions, a key only goes at the hands of a session whose
\* dialog shows that very key (keys.rs:93-171).
THEOREM RemovedIsConfirmedHolds == Spec => RemovedIsConfirmed
<1>1. Inv /\ [Next]_vars =>
        [\A k \in ssh_keys \ ssh_keys' :
           \E s \in Sessions : mode[s] = "counted" /\ selected(s) = k]_vars
  <2> SUFFICES ASSUME Inv, Next, NEW k \in ssh_keys \ ssh_keys'
               PROVE  \E s \in Sessions : mode[s] = "counted" /\ selected(s) = k
    BY DEF vars
  <2>1. PICK s \in Sessions : RemoveKey(s) /\ remove_key(Uid(s), pending[s])
    BY StepOnKeys DEF KeysStep, Inserted, InsertKey, storeVars, keyTable
  <2>2. mode[s] = "counted" /\ k.id = pending[s]
    BY <2>1 DEF RemoveKey, remove_key
  <2>3. sel[s] \in 1..Len(items[s]) /\ pending[s] = items[s][sel[s]].id
    BY <2>2 DEF Inv, PaneSound, CursorIn, DialogShows, selected
  <2>4. Known(items[s][sel[s]], ssh_keys, key_seq)
    BY <2>3 DEF Inv, PaneSound, ListedKnown
  <2> QED
    BY <2>2, <2>3, <2>4 DEF Known, selected
<1> QED
  BY <1>1, KeysInvariant, PTL DEF Spec, RemovedIsConfirmed

\* For any number of sessions, no key passes from one user to another
\* (store.rs, add_key_strict and INSERT OR IGNORE).
THEOREM KeysStayHolds == Spec => KeysStayWithTheirUser
<1>1. Inv /\ [Next]_vars =>
        [\A k \in ssh_keys : \A l \in ssh_keys' :
           k.fingerprint = l.fingerprint => k = l]_vars
  <2> SUFFICES ASSUME Inv, Next, NEW k \in ssh_keys, NEW l \in ssh_keys',
                      k.fingerprint = l.fingerprint
               PROVE  k = l
    BY DEF vars
  <2>1. \A j \in ssh_keys : j.fingerprint = k.fingerprint => j = k
    BY DEF Inv, StoreInv, StoreIntegrity, KeysSound
  <2>2. l \in ssh_keys
    <3>1. ASSUME NEW u \in UserIds, NEW fp \in Fingerprints, Inserted(u, fp)
          PROVE  l \in ssh_keys
      BY <3>1 DEF Inserted, InsertKey
    <3> QED
      BY <3>1, StepOnKeys DEF KeysStep, remove_key, storeVars, keyTable
  <2> QED
    BY <2>1, <2>2
<1> QED
  BY <1>1, KeysInvariant, PTL DEF Spec, KeysStayWithTheirUser

\* A user with a single session keeps a key, whatever the other users do.
THEOREM LastKeyKeptAloneHolds == Spec => LastKeyKeptAlone
<1>1. Inv /\ [Next]_vars =>
        [\A u \in UserIds : Alone(u) /\ list_keys_for_user(u) # {}
           => list_keys_for_user(u)' # {}]_vars
  <2> SUFFICES ASSUME Inv, Next, NEW u \in UserIds, Alone(u), list_keys_for_user(u) # {}
               PROVE  list_keys_for_user(u)' # {}
    BY DEF vars
  <2>1. ASSUME NEW s \in Sessions, RemoveKey(s), remove_key(Uid(s), pending[s])
        PROVE  list_keys_for_user(u)' # {}
    <3>1. CASE Uid(s) # u
      BY <2>1, <3>1 DEF remove_key, list_keys_for_user
    <3>2. CASE Uid(s) = u
      <4>1. ~LastKey(s)
        BY <2>1, <3>2 DEF RemoveKey, Inv, PaneSound, CountHolds
      <4>2. PICK k \in ssh_keys, l \in ssh_keys : k.user_id = u /\ l.user_id = u /\ k # l
        BY <3>2, <4>1 DEF LastKey, key_count_is_one, list_keys_for_user
      <4>3. k.id # l.id
        BY <4>2 DEF Inv, StoreInv, StoreIntegrity, KeysSound
      <4> QED
        BY <2>1, <3>2, <4>2, <4>3 DEF remove_key, list_keys_for_user
    <3> QED
      BY <3>1, <3>2
  <2> QED
    BY <2>1, StepOnKeys
    DEF KeysStep, Inserted, InsertKey, list_keys_for_user, storeVars, keyTable
<1> QED
  BY <1>1, KeysInvariant, PTL DEF Spec, LastKeyKeptAlone
=============================================================================
