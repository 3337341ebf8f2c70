-------------------------- MODULE StoreDataProofs --------------------------
(***************************************************************************)
(* Lemmas about the operations on the store: each of them maps stores to   *)
(* stores, changes the fields that it should and no others, and keeps the  *)
(* counts, pattern lists and owners in agreement with the sessions' lists. *)
(***************************************************************************)
EXTENDS StoreData, FiniteSetTheorems, TLAPS

\* A number of patterns is a natural number.
LEMMA PatternCount ==
  ASSUME NEW S, S \subseteq Patterns
  PROVE  Cardinality(S) \in Nat
BY StoreAssumption, FS_Subset, FS_CardinalityType

\* Less never leaves the natural numbers, whatever is taken away.
LEMMA LessType ==
  ASSUME NEW n \in Nat, NEW m \in Nat
  PROVE  Less(n, m) \in Nat
BY DEF Less

\* The fields of a store.
LEMMA StoreFields ==
  ASSUME NEW c \in Store
  PROVE  /\ c.storeData \in [Keys -> Entry]
         /\ c.patternData \in [Patterns -> PatternInfo]
         /\ c.changedKeys \subseteq Keys
         /\ c.deferredRemovals \subseteq Keys
         /\ c.removedSessionKeys \subseteq Sessions \X Keys
BY DEF Store

\* The store that the server starts with is one.
LEMMA EmptyStoreType == EmptyStore \in Store
BY DEF EmptyStore, Store, Entry, NoEntry, PatternInfo, NoPattern

\* withoutSession returns a pattern entry.
LEMMA WithoutSessionType ==
  ASSUME NEW i \in PatternInfo, NEW s
  PROVE  withoutSession(i, s) \in PatternInfo
BY DEF withoutSession, PatternInfo, NoPattern

\* patternInfo returns a pattern entry.
LEMMA PatternInfoType ==
  ASSUME NEW c \in Store, NEW p \in Patterns
  PROVE  patternInfo(c, p) \in PatternInfo
BY StoreFields DEF patternInfo, PatternInfo, identifyKeys

\* Replacing the watcher count of one session in an entry.
LEMMA EntryRefsType ==
  ASSUME NEW e \in Entry, NEW s \in Sessions, NEW n \in Nat
  PROVE  [e EXCEPT !.refs[s] = n] \in Entry
BY DEF Entry

\* Replacing all watcher counts of an entry.
LEMMA EntryAllRefsType ==
  ASSUME NEW e \in Entry, NEW rf \in [Sessions -> Nat]
  PROVE  [e EXCEPT !.refs = rf] \in Entry
BY DEF Entry

\* Replacing the value and the owner of an entry.
LEMMA EntryValueType ==
  ASSUME NEW e \in Entry, NEW v \in Data \cup {NoData},
         NEW o \in Sessions \cup {NoSession}
  PROVE  [e EXCEPT !.data = v, !.session = o] \in Entry
BY DEF Entry

\* Replacing one entry of the store.
LEMMA StoreEntryType ==
  ASSUME NEW c \in Store, NEW k \in Keys, NEW e \in Entry,
         NEW ch \in SUBSET Keys, NEW rm \in SUBSET (Sessions \X Keys)
  PROVE  [c EXCEPT !.storeData[k] = e, !.changedKeys = ch,
                   !.removedSessionKeys = rm] \in Store
BY DEF Store

\* Forgetting deferred removals.
LEMMA StoreDeferredType ==
  ASSUME NEW c \in Store, NEW ks
  PROVE  [c EXCEPT !.deferredRemovals = @ \ ks] \in Store
BY DEF Store

\* removeWatches maps stores to stores.
LEMMA RemoveWatchesType ==
  ASSUME NEW c \in Store, NEW s \in Sessions, NEW ks, NEW ps \in SUBSET Patterns
  PROVE  removeWatches(c, s, ks, ps) \in Store
<1> DEFINE pd == [p \in Patterns |-> IF p \in ps
                                     THEN withoutSession(c.patternData[p], s)
                                     ELSE c.patternData[p]]
           n(k) == (IF k \in ks THEN 1 ELSE 0)
                   + Cardinality({p \in ps : k \in c.patternData[p].keys})
           sd == [k \in Keys |-> [c.storeData[k] EXCEPT !.refs[s] = Less(@, n(k))]]
<1>1. pd \in [Patterns -> PatternInfo]
  BY StoreFields, WithoutSessionType
<1>2. ASSUME NEW k \in Keys
      PROVE  [c.storeData[k] EXCEPT !.refs[s] = Less(@, n(k))] \in Entry
  <2>1. Cardinality({p \in ps : k \in c.patternData[p].keys}) \in Nat
    BY PatternCount
  <2>2. n(k) \in Nat
    BY <2>1
  <2>3. c.storeData[k] \in Entry /\ c.storeData[k].refs[s] \in Nat
    BY StoreFields DEF Entry
  <2>4. Less(c.storeData[k].refs[s], n(k)) \in Nat
    BY <2>2, <2>3, LessType
  <2> QED
    BY <2>3, <2>4, EntryRefsType
<1>3. sd \in [Keys -> Entry]
  BY <1>2
<1>4. removeWatches(c, s, ks, ps) = [c EXCEPT !.patternData = pd, !.storeData = sd]
  BY DEF removeWatches
<1> QED
  BY <1>1, <1>3, <1>4 DEF Store

\* addWatches maps stores to stores.
LEMMA AddWatchesType ==
  ASSUME NEW c \in Store, NEW s \in Sessions, NEW ks, NEW ps \in SUBSET Patterns
  PROVE  addWatches(c, s, ks, ps) \in Store
<1> DEFINE pd == [p \in Patterns |->
                    IF p \in ps
                    THEN [patternInfo(c, p) EXCEPT !.sessions = @ \cup {s}]
                    ELSE c.patternData[p]]
           m(k) == IF k \in ks THEN 1 ELSE 0
           n(k) == Cardinality({p \in ps : k \in patternInfo(c, p).keys})
           sd == [k \in Keys |-> [c.storeData[k] EXCEPT !.refs[s] = @ + m(k) + n(k)]]
<1>1. pd \in [Patterns -> PatternInfo]
  BY StoreFields, PatternInfoType DEF PatternInfo
<1>2. ASSUME NEW k \in Keys
      PROVE  [c.storeData[k] EXCEPT !.refs[s] = @ + m(k) + n(k)] \in Entry
  <2>1. n(k) \in Nat
    BY PatternCount
  <2>2. c.storeData[k] \in Entry /\ c.storeData[k].refs[s] \in Nat
    BY StoreFields DEF Entry
  <2>3. c.storeData[k].refs[s] + m(k) + n(k) \in Nat
    BY <2>1, <2>2
  <2> QED
    BY <2>2, <2>3, EntryRefsType
<1>3. sd \in [Keys -> Entry]
  BY <1>2
<1>4. addWatches(c, s, ks, ps) = [c EXCEPT !.patternData = pd, !.storeData = sd]
  BY DEF addWatches
<1> QED
  BY <1>1, <1>3, <1>4 DEF Store

\* patternAddKey maps stores to stores.
LEMMA PatternAddKeyType ==
  ASSUME NEW c \in Store, NEW k \in Keys
  PROVE  patternAddKey(c, k) \in Store
<1> DEFINE hit == {p \in Patterns : Registered(c, p) /\ <<p, k>> \in Matches}
           pd == [p \in Patterns |->
                    IF p \in hit
                    THEN [c.patternData[p] EXCEPT !.keys = @ \cup {k}]
                    ELSE c.patternData[p]]
           n(s) == Cardinality({p \in hit : s \in c.patternData[p].sessions})
           rf == [s \in Sessions |-> c.storeData[k].refs[s] + n(s)]
           ne == [c.storeData[k] EXCEPT !.refs = rf]
           sd == [c.storeData EXCEPT ![k] = ne]
<1>1. pd \in [Patterns -> PatternInfo]
  BY StoreFields DEF PatternInfo
<1>2. \A s \in Sessions : n(s) \in Nat
  BY PatternCount
<1>3. rf \in [Sessions -> Nat]
  BY <1>2, StoreFields DEF Entry
<1>4. ne \in Entry
  <2>1. c.storeData[k] \in Entry
    BY StoreFields
  <2> HIDE DEF rf
  <2> QED
    BY <1>3, <2>1, EntryAllRefsType
<1>5. sd \in [Keys -> Entry]
  <2> HIDE DEF ne
  <2> QED
    BY <1>4, StoreFields
<1>6. patternAddKey(c, k) = [c EXCEPT !.patternData = pd, !.storeData = sd]
  BY StoreFields DEF patternAddKey, Store
<1> HIDE DEF pd, sd
<1> QED
  BY <1>1, <1>5, <1>6 DEF Store

\* patternRemoveKeys maps stores to stores.
LEMMA PatternRemoveKeysType ==
  ASSUME NEW c \in Store, NEW ks
  PROVE  patternRemoveKeys(c, ks) \in Store
<1> DEFINE pd == [p \in Patterns |-> [c.patternData[p] EXCEPT !.keys = @ \ ks]]
           n(k, s) == Cardinality({p \in Patterns :
                                     /\ k \in c.patternData[p].keys
                                     /\ s \in c.patternData[p].sessions})
           rf(k) == [s \in Sessions |-> Less(c.storeData[k].refs[s], n(k, s))]
           sd == [k \in Keys |-> IF k \in ks
                                 THEN [c.storeData[k] EXCEPT !.refs = rf(k)]
                                 ELSE c.storeData[k]]
<1>1. pd \in [Patterns -> PatternInfo]
  BY StoreFields DEF PatternInfo
<1>2. ASSUME NEW k \in Keys
      PROVE  [c.storeData[k] EXCEPT !.refs = rf(k)] \in Entry
  <2>1. \A s \in Sessions : n(k, s) \in Nat
    BY PatternCount
  <2>2. \A s \in Sessions : c.storeData[k].refs[s] \in Nat
    BY StoreFields DEF Entry
  <2>3. rf(k) \in [Sessions -> Nat]
    BY <2>1, <2>2, LessType
  <2>4. c.storeData[k] \in Entry
    BY StoreFields
  <2> HIDE DEF rf
  <2> QED
    BY <2>3, <2>4, EntryAllRefsType
<1>3. sd \in [Keys -> Entry]
  BY <1>2, StoreFields
<1>4. patternRemoveKeys(c, ks) = [c EXCEPT !.patternData = pd, !.storeData = sd]
  BY DEF patternRemoveKeys
<1> QED
  BY <1>1, <1>3, <1>4 DEF Store

\* Setting a value maps stores to stores.
LEMMA SetValueType ==
  ASSUME NEW c \in Store, NEW s \in Sessions, NEW k \in Keys, NEW v \in Data,
         NEW sk \in BOOLEAN
  PROVE  setValue(c, s, k, v, sk) \in Store
<1> DEFINE e == c.storeData[k]
           newEntry == ~Defined(c, k)
           foreign == ~sk /\ ~newEntry /\ e.session \notin {NoSession, s}
           owner == IF foreign THEN NoSession
                    ELSE IF sk /\ newEntry THEN s ELSE e.session
           d == [c EXCEPT
                  !.storeData[k] = [e EXCEPT !.data = v, !.session = owner],
                  !.changedKeys = @ \cup {k},
                  !.removedSessionKeys =
                     IF foreign THEN @ \cup {<<e.session, k>>} ELSE @]
           ch == c.changedKeys \cup {k}
           rm == IF foreign THEN c.removedSessionKeys \cup {<<e.session, k>>}
                            ELSE c.removedSessionKeys
           ne == [e EXCEPT !.data = v, !.session = owner]
<1>1. e \in Entry
  BY StoreFields
<1>2. owner \in Sessions \cup {NoSession}
  BY <1>1 DEF Entry
<1>3. ne \in Entry
  <2> HIDE DEF e, owner
  <2> QED
    BY <1>1, <1>2, EntryValueType
<1>4. rm \in SUBSET (Sessions \X Keys)
  <2>1. e.session \in Sessions \cup {NoSession}
    BY <1>1 DEF Entry
  <2> QED
    BY <2>1, StoreFields
<1>5. ch \in SUBSET Keys
  BY StoreFields
<1>6. d \in Store
  <2>1. d = [c EXCEPT !.storeData[k] = ne, !.changedKeys = ch, !.removedSessionKeys = rm]
    OBVIOUS
  <2> HIDE DEF d, ne, ch, rm
  <2> QED
    BY <1>3, <1>4, <1>5, <2>1, StoreEntryType
<1>7. setValue(c, s, k, v, sk) \in
        {c, d, patternAddKey(d, k), [d EXCEPT !.deferredRemovals = @ \ {k}]}
  BY DEF setValue
<1> HIDE DEF d
<1>8. patternAddKey(d, k) \in Store
  BY <1>6, PatternAddKeyType
<1>9. [d EXCEPT !.deferredRemovals = @ \ {k}] \in Store
  BY <1>6, StoreDeferredType
<1> QED
  BY <1>6, <1>7, <1>8, <1>9

\* Removing values maps stores to stores.
LEMMA RemoveValuesType ==
  ASSUME NEW c \in Store, NEW ks \in SUBSET Keys
  PROVE  removeValues(c, ks) \in Store
<1> DEFINE gone == {k \in ks : Defined(c, k)}
           pairs == {<<c.storeData[k].session, k>> :
                       k \in {j \in gone : c.storeData[j].session # NoSession}}
           sd == [k \in Keys |->
                    IF k \in gone
                    THEN [c.storeData[k] EXCEPT !.data = NoData, !.session = NoSession]
                    ELSE c.storeData[k]]
<1>1. pairs \subseteq Sessions \X Keys
  BY StoreFields DEF Entry
<1>2. sd \in [Keys -> Entry]
  <2>1. \A k \in Keys : c.storeData[k] \in Entry
    BY StoreFields
  <2>2. \A k \in Keys :
          [c.storeData[k] EXCEPT !.data = NoData, !.session = NoSession] \in Entry
    BY <2>1, EntryValueType
  <2> QED
    BY <2>1, <2>2
<1>3. removeValues(c, ks) =
        [c EXCEPT !.changedKeys = @ \cup gone,
                  !.deferredRemovals = @ \cup gone,
                  !.removedSessionKeys = @ \cup pairs,
                  !.storeData = sd]
  BY DEF removeValues
<1> QED
  BY <1>1, <1>2, <1>3, StoreFields DEF Store

\* Flagging a value maps stores to stores.
LEMMA NotifyValueType ==
  ASSUME NEW c \in Store, NEW s \in Sessions, NEW k \in Keys, NEW sk \in BOOLEAN
  PROVE  notifyValue(c, s, k, sk) \in Store
<1>1. CASE Defined(c, k)
  <2>1. c.storeData[k].data \in Data
    BY <1>1, StoreFields DEF Defined, Entry
  <2> QED
    BY <1>1, <2>1, SetValueType DEF notifyValue
<1>2. CASE ~Defined(c, k)
  <2>1. (CHOOSE v \in Data : TRUE) \in Data
    BY StoreAssumption
  <2>2. setValue(c, s, k, CHOOSE v \in Data : TRUE, sk) \in Store
    BY <2>1, SetValueType
  <2> QED
    BY <1>2, <2>2, RemoveValuesType DEF notifyValue
<1> QED
  BY <1>1, <1>2

\* The commit leaves a store in which nothing is pending.
LEMMA CommittedType ==
  ASSUME NEW c \in Store
  PROVE  /\ committed(c) \in Store
         /\ committed(c).changedKeys = {}
         /\ committed(c).deferredRemovals = {}
         /\ committed(c).removedSessionKeys = {}
<1>1. patternRemoveKeys(c, c.deferredRemovals) \in Store
  BY PatternRemoveKeysType
<1> QED
  BY <1>1 DEF committed, Store

\* A session is only told about keys.
LEMMA NotifiedType ==
  ASSUME NEW c \in Store, NEW s
  PROVE  notified(c, s) \subseteq Keys
BY StoreFields DEF notified

\* A change of the watches touches no value and no list of the transaction.
LEMMA WatchesFrame ==
  ASSUME NEW c \in Store, NEW s, NEW ks, NEW ps
  PROVE  /\ addWatches(c, s, ks, ps).changedKeys = c.changedKeys
         /\ addWatches(c, s, ks, ps).deferredRemovals = c.deferredRemovals
         /\ addWatches(c, s, ks, ps).removedSessionKeys = c.removedSessionKeys
         /\ removeWatches(c, s, ks, ps).changedKeys = c.changedKeys
         /\ removeWatches(c, s, ks, ps).deferredRemovals = c.deferredRemovals
         /\ removeWatches(c, s, ks, ps).removedSessionKeys = c.removedSessionKeys
BY DEF addWatches, removeWatches, Store

-----------------------------------------------------------------------------
(* What the operations change, field by field. *)

\* Starting to watch.
LEMMA AddWatchesFields ==
  ASSUME NEW c \in Store, NEW s \in Sessions, NEW ks, NEW ps \in SUBSET Patterns
  PROVE  /\ \A p \in Patterns \ ps :
              addWatches(c, s, ks, ps).patternData[p] = c.patternData[p]
         /\ \A p \in ps :
              addWatches(c, s, ks, ps).patternData[p] =
                [patternInfo(c, p) EXCEPT !.sessions = @ \cup {s}]
         /\ \A k \in Keys :
              addWatches(c, s, ks, ps).storeData[k].data = c.storeData[k].data
         /\ \A k \in Keys :
              addWatches(c, s, ks, ps).storeData[k].session = c.storeData[k].session
         /\ \A k \in Keys, t \in Sessions \ {s} :
              addWatches(c, s, ks, ps).storeData[k].refs[t] = c.storeData[k].refs[t]
         /\ \A k \in Keys :
              addWatches(c, s, ks, ps).storeData[k].refs[s] =
                   c.storeData[k].refs[s] + (IF k \in ks THEN 1 ELSE 0)
                   + Cardinality({p \in ps : k \in patternInfo(c, p).keys})
<1> DEFINE d == addWatches(c, s, ks, ps)
           m(k) == IF k \in ks THEN 1 ELSE 0
           n(k) == Cardinality({p \in ps : k \in patternInfo(c, p).keys})
           e(k) == [c.storeData[k] EXCEPT !.refs[s] = @ + m(k) + n(k)]
<1>1. \A p \in Patterns : d.patternData[p] = IF p \in ps
                            THEN [patternInfo(c, p) EXCEPT !.sessions = @ \cup {s}]
                            ELSE c.patternData[p]
  BY DEF addWatches, Store
<1>2. \A k \in Keys : d.storeData[k] = e(k)
  BY DEF addWatches, Store
<1>3. ASSUME NEW k \in Keys
      PROVE  /\ e(k).data = c.storeData[k].data /\ e(k).session = c.storeData[k].session
             /\ \A t \in Sessions \ {s} : e(k).refs[t] = c.storeData[k].refs[t]
             /\ e(k).refs[s] = c.storeData[k].refs[s] + m(k) + n(k)
  <2>1. c.storeData[k] \in Entry
    BY StoreFields
  <2> HIDE DEF m, n
  <2> QED
    BY <2>1 DEF Entry
<1> HIDE DEF d, e
<1>4. QED
  BY <1>1, <1>2, <1>3 DEF d

\* Stopping to watch.
LEMMA RemoveWatchesFields ==
  ASSUME NEW c \in Store, NEW s \in Sessions, NEW ks, NEW ps \in SUBSET Patterns
  PROVE  /\ \A p \in Patterns \ ps :
              removeWatches(c, s, ks, ps).patternData[p] = c.patternData[p]
         /\ \A p \in ps :
              removeWatches(c, s, ks, ps).patternData[p] =
                withoutSession(c.patternData[p], s)
         /\ \A k \in Keys :
              removeWatches(c, s, ks, ps).storeData[k].data = c.storeData[k].data
         /\ \A k \in Keys :
              removeWatches(c, s, ks, ps).storeData[k].session = c.storeData[k].session
         /\ \A k \in Keys, t \in Sessions \ {s} :
              removeWatches(c, s, ks, ps).storeData[k].refs[t] = c.storeData[k].refs[t]
         /\ \A k \in Keys :
              removeWatches(c, s, ks, ps).storeData[k].refs[s] =
                   Less(c.storeData[k].refs[s],
                        (IF k \in ks THEN 1 ELSE 0)
                        + Cardinality({p \in ps : k \in c.patternData[p].keys}))
<1> DEFINE d == removeWatches(c, s, ks, ps)
           n(k) == (IF k \in ks THEN 1 ELSE 0)
                   + Cardinality({p \in ps : k \in c.patternData[p].keys})
           e(k) == [c.storeData[k] EXCEPT !.refs[s] = Less(@, n(k))]
<1>1. \A p \in Patterns : d.patternData[p] = IF p \in ps
                            THEN withoutSession(c.patternData[p], s)
                            ELSE c.patternData[p]
  BY DEF removeWatches, Store
<1>2. \A k \in Keys : d.storeData[k] = e(k)
  BY DEF removeWatches, Store
<1>3. ASSUME NEW k \in Keys
      PROVE  /\ e(k).data = c.storeData[k].data /\ e(k).session = c.storeData[k].session
             /\ \A t \in Sessions \ {s} : e(k).refs[t] = c.storeData[k].refs[t]
             /\ e(k).refs[s] = Less(c.storeData[k].refs[s], n(k))
  <2>1. c.storeData[k] \in Entry
    BY StoreFields
  <2> HIDE DEF n
  <2> QED
    BY <2>1 DEF Entry
<1> HIDE DEF d, e
<1>4. QED
  BY <1>1, <1>2, <1>3 DEF d

\* A new key joins the known patterns that match it.
LEMMA PatternAddKeyFields ==
  ASSUME NEW c \in Store, NEW k \in Keys
  PROVE  LET d == patternAddKey(c, k)
             hit == {p \in Patterns : Registered(c, p) /\ <<p, k>> \in Matches}
         IN  /\ \A p \in Patterns \ hit : d.patternData[p] = c.patternData[p]
             /\ \A p \in hit :
                  d.patternData[p] = [c.patternData[p] EXCEPT !.keys = @ \cup {k}]
             /\ \A j \in Keys \ {k} : d.storeData[j] = c.storeData[j]
             /\ d.storeData[k].data = c.storeData[k].data
             /\ d.storeData[k].session = c.storeData[k].session
             /\ \A t \in Sessions :
                  d.storeData[k].refs[t] =
                    c.storeData[k].refs[t]
                    + Cardinality({p \in hit : t \in c.patternData[p].sessions})
             /\ d.changedKeys = c.changedKeys
             /\ d.deferredRemovals = c.deferredRemovals
             /\ d.removedSessionKeys = c.removedSessionKeys
<1> DEFINE d == patternAddKey(c, k)
           hit == {p \in Patterns : Registered(c, p) /\ <<p, k>> \in Matches}
           n(t) == Cardinality({p \in hit : t \in c.patternData[p].sessions})
           rf == [t \in Sessions |-> c.storeData[k].refs[t] + n(t)]
           e == [c.storeData[k] EXCEPT !.refs = rf]
<1>1. \A p \in Patterns : d.patternData[p] =
                            IF p \in hit
                            THEN [c.patternData[p] EXCEPT !.keys = @ \cup {k}]
                            ELSE c.patternData[p]
  BY DEF patternAddKey, Store
<1>2. d.storeData = [c.storeData EXCEPT ![k] = e]
  BY StoreFields DEF patternAddKey, Store
<1>3. /\ e.data = c.storeData[k].data /\ e.session = c.storeData[k].session
      /\ e.refs = rf
  <2>1. c.storeData[k] \in Entry
    BY StoreFields
  <2> HIDE DEF rf
  <2> QED
    BY <2>1 DEF Entry
<1>4. \A t \in Sessions : rf[t] = c.storeData[k].refs[t] + n(t)
  OBVIOUS
<1>5. /\ d.changedKeys = c.changedKeys
      /\ d.deferredRemovals = c.deferredRemovals
      /\ d.removedSessionKeys = c.removedSessionKeys
  BY DEF patternAddKey, Store
<1>6. \A j \in Keys : d.storeData[j] = IF j = k THEN e ELSE c.storeData[j]
  <2> HIDE DEF e
  <2> QED
    BY <1>2, StoreFields
<1> HIDE DEF d, e, rf
<1> QED
  BY <1>1, <1>3, <1>4, <1>5, <1>6 DEF d

\* The commit takes the removed keys from all patterns.
LEMMA CommittedFields ==
  ASSUME NEW c \in Store
  PROVE  /\ \A p \in Patterns :
              committed(c).patternData[p] =
                [c.patternData[p] EXCEPT !.keys = @ \ c.deferredRemovals]
         /\ \A k \in Keys : committed(c).storeData[k].data = c.storeData[k].data
         /\ \A k \in Keys : committed(c).storeData[k].session = c.storeData[k].session
         /\ \A k \in Keys \ c.deferredRemovals, t \in Sessions :
              committed(c).storeData[k].refs[t] = c.storeData[k].refs[t]
         /\ \A k \in c.deferredRemovals, t \in Sessions :
              committed(c).storeData[k].refs[t] =
                Less(c.storeData[k].refs[t],
                     Cardinality({p \in Patterns :
                                    /\ k \in c.patternData[p].keys
                                    /\ t \in c.patternData[p].sessions}))
<1> DEFINE d == committed(c)
           n(k, t) == Cardinality({p \in Patterns : /\ k \in c.patternData[p].keys
                                                    /\ t \in c.patternData[p].sessions})
           rf(k) == [t \in Sessions |-> Less(c.storeData[k].refs[t], n(k, t))]
           e(k) == [c.storeData[k] EXCEPT !.refs = rf(k)]
<1>1. \A p \in Patterns :
        d.patternData[p] = [c.patternData[p] EXCEPT !.keys = @ \ c.deferredRemovals]
  BY DEF committed, patternRemoveKeys, Store
<1>2. \A k \in Keys : d.storeData[k] =
                        IF k \in c.deferredRemovals THEN e(k) ELSE c.storeData[k]
  BY DEF committed, patternRemoveKeys, Store
<1>3. ASSUME NEW k \in Keys
      PROVE  /\ e(k).data = c.storeData[k].data /\ e(k).session = c.storeData[k].session
             /\ e(k).refs = rf(k)
  <2>1. c.storeData[k] \in Entry
    BY StoreFields
  <2> HIDE DEF rf
  <2> QED
    BY <2>1 DEF Entry
<1>4. \A k \in Keys, t \in Sessions : rf(k)[t] = Less(c.storeData[k].refs[t], n(k, t))
  OBVIOUS
<1> HIDE DEF d, e, rf
<1> QED
  BY <1>1, <1>2, <1>3, <1>4, StoreFields DEF d

\* Removing values.
LEMMA RemoveValuesFields ==
  ASSUME NEW c \in Store, NEW ks \in SUBSET Keys
  PROVE  LET d == removeValues(c, ks)
             gone == {k \in ks : Defined(c, k)}
         IN  /\ d.patternData = c.patternData
             /\ d.changedKeys = c.changedKeys \cup gone
             /\ d.deferredRemovals = c.deferredRemovals \cup gone
             /\ \A t \in Sessions, k \in Keys :
                  <<t, k>> \in d.removedSessionKeys <=>
                    \/ <<t, k>> \in c.removedSessionKeys
                    \/ k \in gone /\ c.storeData[k].session = t
             /\ \A k \in Keys : /\ d.storeData[k].refs = c.storeData[k].refs
                                /\ k \notin gone => d.storeData[k] = c.storeData[k]
                                /\ k \in gone => /\ d.storeData[k].data = NoData
                                                 /\ d.storeData[k].session = NoSession
<1> DEFINE d == removeValues(c, ks)
           gone == {k \in ks : Defined(c, k)}
           pairs == {<<c.storeData[k].session, k>> :
                       k \in {j \in gone : c.storeData[j].session # NoSession}}
           e(k) == [c.storeData[k] EXCEPT !.data = NoData, !.session = NoSession]
<1>1. d.patternData = c.patternData
  BY DEF removeValues, Store
<1>2. d.changedKeys = c.changedKeys \cup gone
  BY DEF removeValues, Store
<1>3. d.deferredRemovals = c.deferredRemovals \cup gone
  BY DEF removeValues, Store
<1>4. d.removedSessionKeys = c.removedSessionKeys \cup pairs
  BY DEF removeValues, Store
<1>5. \A k \in Keys : d.storeData[k] = IF k \in gone THEN e(k) ELSE c.storeData[k]
  BY DEF removeValues, Store
<1>6. ASSUME NEW k \in Keys
      PROVE  /\ e(k).refs = c.storeData[k].refs
             /\ e(k).data = NoData
             /\ e(k).session = NoSession
  <2>1. c.storeData[k] \in Entry
    BY StoreFields
  <2> QED
    BY <2>1 DEF Entry
<1>7. ASSUME NEW t \in Sessions, NEW k \in Keys
      PROVE  <<t, k>> \in pairs <=> k \in gone /\ c.storeData[k].session = t
  BY StoreAssumption
<1> HIDE DEF d, e, pairs, gone
<1> QED
  BY <1>1, <1>2, <1>3, <1>4, <1>5, <1>6, <1>7 DEF d, gone

\* A key that patterns have to list: it has data, or its removal has not been
\* reported yet.
Listed(c, k) == Defined(c, k) \/ k \in c.deferredRemovals

\* The store d is the store c after session s has written v to k.
Written(c, d, s, k, v, sk) ==
  LET e == c.storeData[k]
      foreign == ~sk /\ Defined(c, k) /\ e.session \notin {NoSession, s}
      hit == {p \in Patterns : Registered(c, p) /\ <<p, k>> \in Matches}
  IN  /\ \A j \in Keys \ {k} : d.storeData[j] = c.storeData[j]
      /\ d.storeData[k].data = v
      /\ d.storeData[k].session =
           IF foreign THEN NoSession
           ELSE IF sk /\ ~Defined(c, k) THEN s ELSE e.session
      /\ d.changedKeys = c.changedKeys \cup {k}
      /\ d.removedSessionKeys =
           IF foreign THEN c.removedSessionKeys \cup {<<e.session, k>>}
           ELSE c.removedSessionKeys
      /\ Defined(c, k) => d.deferredRemovals = c.deferredRemovals
      /\ ~Defined(c, k) => d.deferredRemovals = c.deferredRemovals \ {k}
      /\ Listed(c, k) => /\ d.patternData = c.patternData
                         /\ \A t \in Sessions : d.storeData[k].refs[t] = e.refs[t]
      /\ ~Listed(c, k) =>
           /\ \A p \in Patterns \ hit : d.patternData[p] = c.patternData[p]
           /\ \A p \in hit :
                d.patternData[p] = [c.patternData[p] EXCEPT !.keys = @ \cup {k}]
           /\ \A t \in Sessions :
                d.storeData[k].refs[t] =
                  e.refs[t] + Cardinality({p \in hit : t \in c.patternData[p].sessions})

\* Writing a value, once it is not refused.
LEMMA SetValueFields ==
  ASSUME NEW c \in Store, NEW s \in Sessions, NEW k \in Keys, NEW v \in Data,
         NEW sk \in BOOLEAN, ~setRefused(c, s, k, sk)
  PROVE  Written(c, setValue(c, s, k, v, sk), s, k, v, sk)
<1> DEFINE e == c.storeData[k]
           foreign == ~sk /\ Defined(c, k) /\ e.session \notin {NoSession, s}
           owner == IF foreign THEN NoSession
                    ELSE IF sk /\ ~Defined(c, k) THEN s ELSE e.session
           ne == [e EXCEPT !.data = v, !.session = owner]
           ch == c.changedKeys \cup {k}
           rm == IF foreign THEN c.removedSessionKeys \cup {<<e.session, k>>}
                            ELSE c.removedSessionKeys
           w == [c EXCEPT !.storeData[k] = ne, !.changedKeys = ch,
                          !.removedSessionKeys = rm]
           d == setValue(c, s, k, v, sk)
           hit == {p \in Patterns : Registered(c, p) /\ <<p, k>> \in Matches}
           hitw == {p \in Patterns : Registered(w, p) /\ <<p, k>> \in Matches}
<1>1. e \in Entry
  BY StoreFields
<1>2. /\ Defined(c, k) => d = w
      /\ ~Defined(c, k) /\ k \in c.deferredRemovals
           => d = [w EXCEPT !.deferredRemovals = @ \ {k}]
      /\ ~Listed(c, k) => d = patternAddKey(w, k)
  BY DEF setValue, Listed
<1>3. ne.data = v /\ ne.session = owner /\ ne.refs = e.refs /\ ne \in Entry
  <2>1. owner \in Sessions \cup {NoSession}
    BY <1>1 DEF Entry
  <2> HIDE DEF e, owner
  <2> QED
    BY <1>1, <2>1 DEF Entry
<1>4. rm \in SUBSET (Sessions \X Keys)
  <2>1. e.session \in Sessions \cup {NoSession}
    BY <1>1 DEF Entry
  <2> QED
    BY <2>1, StoreFields
<1>5. ch \in SUBSET Keys
  BY StoreFields
<1> HIDE DEF ne, ch, rm
<1>6. w \in Store
  BY <1>3, <1>4, <1>5, StoreEntryType
<1>7. /\ w.storeData = [c.storeData EXCEPT ![k] = ne]
      /\ w.patternData = c.patternData
      /\ w.changedKeys = ch
      /\ w.deferredRemovals = c.deferredRemovals
      /\ w.removedSessionKeys = rm
  BY DEF Store
<1>8. \A j \in Keys : w.storeData[j] = IF j = k THEN ne ELSE c.storeData[j]
  BY <1>7, StoreFields
<1>9. hitw = hit
  BY <1>7 DEF Registered
<1> HIDE DEF w
<1>10. CASE Defined(c, k)
  BY <1>2, <1>3, <1>7, <1>8, <1>10 DEF Written, Listed, ch, rm
<1>11. CASE ~Defined(c, k) /\ k \in c.deferredRemovals
  <2>1. /\ d.storeData = w.storeData
        /\ d.patternData = w.patternData
        /\ d.changedKeys = w.changedKeys
        /\ d.deferredRemovals = w.deferredRemovals \ {k}
        /\ d.removedSessionKeys = w.removedSessionKeys
    BY <1>2, <1>6, <1>11 DEF Store
  <2> HIDE DEF d
  <2> QED
    BY <1>3, <1>7, <1>8, <1>11, <2>1 DEF Written, Listed, ch, rm, d
<1>12. CASE ~Listed(c, k)
  <2>1. ~Defined(c, k) /\ k \notin c.deferredRemovals
    BY <1>12 DEF Listed
  <2> HIDE DEF d, hitw, hit
  <2>2. /\ \A p \in Patterns \ hit : d.patternData[p] = c.patternData[p]
        /\ \A p \in hit :
             d.patternData[p] = [c.patternData[p] EXCEPT !.keys = @ \cup {k}]
        /\ \A j \in Keys \ {k} : d.storeData[j] = w.storeData[j]
        /\ d.storeData[k].data = w.storeData[k].data
        /\ d.storeData[k].session = w.storeData[k].session
        /\ \A t \in Sessions :
             d.storeData[k].refs[t] =
               w.storeData[k].refs[t]
               + Cardinality({p \in hit : t \in c.patternData[p].sessions})
        /\ d.changedKeys = w.changedKeys
        /\ d.deferredRemovals = w.deferredRemovals
        /\ d.removedSessionKeys = w.removedSessionKeys
    <3>1. /\ \A p \in Patterns \ hitw : d.patternData[p] = w.patternData[p]
          /\ \A p \in hitw :
               d.patternData[p] = [w.patternData[p] EXCEPT !.keys = @ \cup {k}]
          /\ \A j \in Keys \ {k} : d.storeData[j] = w.storeData[j]
          /\ d.storeData[k].data = w.storeData[k].data
          /\ d.storeData[k].session = w.storeData[k].session
          /\ \A t \in Sessions :
               d.storeData[k].refs[t] =
                 w.storeData[k].refs[t]
                 + Cardinality({p \in hitw : t \in w.patternData[p].sessions})
          /\ d.changedKeys = w.changedKeys
          /\ d.deferredRemovals = w.deferredRemovals
          /\ d.removedSessionKeys = w.removedSessionKeys
      <4>1. d = patternAddKey(w, k)
        BY <1>2, <1>12
      <4> QED
        BY <1>6, <4>1, PatternAddKeyFields DEF hitw
    <3> QED
      BY <1>7, <1>9, <3>1
  <2> QED
    BY <1>3, <1>7, <1>8, <1>12, <2>1, <2>2 DEF Written, ch, rm, d, hit
<1> QED
  BY <1>10, <1>11, <1>12 DEF Listed

-----------------------------------------------------------------------------
(* A store agrees with what the sessions watch: K[s] are the keys and P[s] *)
(* the patterns of session s.  Every operation keeps the agreement.        *)

Watching(P, p) == {t \in Sessions : p \in P[t]}

Hits(P, t, k) == {p \in P[t] : <<p, k>> \in Matches}

\* patternData has the watched patterns, with their sessions and keys.
PatternsAgree(c, P) ==
  \A p \in Patterns :
    /\ Watching(P, p) = {} => c.patternData[p] = NoPattern
    /\ Watching(P, p) # {} =>
         /\ c.patternData[p].regex = "compiled"
         /\ c.patternData[p].sessions = Watching(P, p)
         /\ \A k \in Keys : k \in c.patternData[p].keys
                              <=> <<p, k>> \in Matches /\ Listed(c, k)

\* A session watches a key once by name and once for each pattern.
RefsAgree(c, K, P) ==
  \A k \in Keys, t \in Sessions :
    c.storeData[k].refs[t] =
      (IF k \in K[t] THEN 1 ELSE 0)
      + (IF Listed(c, k) THEN Cardinality(Hits(P, t, k)) ELSE 0)

\* A removal that was not reported is one, and changes are of listed keys.
PendingAgree(c) ==
  \A k \in Keys : /\ k \in c.deferredRemovals => ~Defined(c, k)
                  /\ k \in c.changedKeys => Listed(c, k)

Agree(c, K, P) == PatternsAgree(c, P) /\ RefsAgree(c, K, P) /\ PendingAgree(c)

\* The numbers of two separate sets of patterns add up.
LEMMA CountUnion ==
  ASSUME NEW S \in SUBSET Patterns, NEW T \in SUBSET Patterns, S \cap T = {}
  PROVE  Cardinality(S \cup T) = Cardinality(S) + Cardinality(T)
<1>1. IsFiniteSet(S) /\ IsFiniteSet(T)
  BY StoreAssumption, FS_Subset
<1>2. Cardinality(S \cap T) = 0
  BY FS_EmptySet
<1>3. Cardinality(S) \in Nat /\ Cardinality(T) \in Nat
  BY PatternCount
<1>4. Cardinality(S \cup T) =
        Cardinality(S) + Cardinality(T) - Cardinality(S \cap T)
  BY <1>1, FS_Union, Zenon
<1> QED
  BY <1>2, <1>3, <1>4

\* What the agreement says of the patterns of one session.
LEMMA AgreeKeys ==
  ASSUME NEW c \in Store, NEW P \in [Sessions -> SUBSET Patterns],
         PatternsAgree(c, P), NEW t \in Sessions, NEW p \in P[t]
  PROVE  /\ c.patternData[p].regex = "compiled"
         /\ c.patternData[p].sessions = Watching(P, p)
         /\ t \in c.patternData[p].sessions
         /\ \A k \in Keys : k \in c.patternData[p].keys
                              <=> <<p, k>> \in Matches /\ Listed(c, k)
<1>1. t \in Watching(P, p) /\ p \in Patterns
  BY DEF Watching
<1> QED
  BY <1>1 DEF PatternsAgree

\* The sessions of a pattern are those that watch it.
LEMMA AgreeSessions ==
  ASSUME NEW c, NEW K, NEW P, Agree(c, K, P), NEW p \in Patterns
  PROVE  c.patternData[p].sessions = Watching(P, p)
<1>1. CASE Watching(P, p) = {}
  BY <1>1 DEF Agree, PatternsAgree, NoPattern
<1>2. CASE Watching(P, p) # {}
  BY <1>2 DEF Agree, PatternsAgree
<1> QED
  BY <1>1, <1>2

\* The empty store agrees with nobody watching.
LEMMA AgreeEmpty ==
  ASSUME NEW K, NEW P, \A t \in Sessions : K[t] = {} /\ P[t] = {}
  PROVE  Agree(EmptyStore, K, P)
<1>1. \A p \in Patterns : Watching(P, p) = {}
  BY DEF Watching
<1>2. \A t \in Sessions, k \in Keys : Cardinality(Hits(P, t, k)) = 0
  BY FS_EmptySet DEF Hits
<1>3. \A k \in Keys : ~Listed(EmptyStore, k)
  BY DEF Listed, Defined, EmptyStore, NoEntry
<1>4. \A k \in Keys, t \in Sessions : EmptyStore.storeData[k].refs[t] = 0
  BY DEF EmptyStore, NoEntry
<1>5. PatternsAgree(EmptyStore, P)
  BY <1>1 DEF PatternsAgree, EmptyStore
<1>6. RefsAgree(EmptyStore, K, P)
  BY <1>2, <1>3, <1>4 DEF RefsAgree
<1>7. PendingAgree(EmptyStore)
  BY DEF PendingAgree, EmptyStore
<1> QED
  BY <1>5, <1>6, <1>7 DEF Agree

\* A session starts to watch ks and ps, between transactions.
LEMMA AgreeAdd ==
  ASSUME NEW c \in Store, NEW s \in Sessions,
         NEW ks \in SUBSET Keys, NEW ps \in SUBSET Patterns,
         NEW K \in [Sessions -> SUBSET Keys], NEW P \in [Sessions -> SUBSET Patterns],
         NEW L \in [Sessions -> SUBSET Keys], NEW Q \in [Sessions -> SUBSET Patterns],
         Agree(c, K, P), c.deferredRemovals = {},
         ks \cap K[s] = {}, ps \cap P[s] = {},
         L[s] = K[s] \cup ks, Q[s] = P[s] \cup ps,
         \A t \in Sessions \ {s} : L[t] = K[t] /\ Q[t] = P[t]
  PROVE  Agree(addWatches(c, s, ks, ps), L, Q)
<1> DEFINE d == addWatches(c, s, ks, ps)
<1>1. /\ \A p \in Patterns \ ps : d.patternData[p] = c.patternData[p]
      /\ \A p \in ps : d.patternData[p] =
                         [patternInfo(c, p) EXCEPT !.sessions = @ \cup {s}]
  BY AddWatchesFields
<1>2. /\ d.deferredRemovals = {}
      /\ d.changedKeys = c.changedKeys
  BY WatchesFrame
<1>3. \A k \in Keys : d.storeData[k].data = c.storeData[k].data
  BY AddWatchesFields
<1>4. \A k \in Keys : Listed(d, k) <=> Listed(c, k)
  BY <1>2, <1>3 DEF Listed, Defined
<1>5. ASSUME NEW p \in ps
      PROVE  /\ patternInfo(c, p).regex = "compiled"
             /\ patternInfo(c, p).sessions = Watching(P, p)
             /\ \A k \in Keys : k \in patternInfo(c, p).keys
                                  <=> <<p, k>> \in Matches /\ Listed(c, k)
  <2>1. CASE Watching(P, p) = {}
    BY <2>1 DEF Agree, PatternsAgree, NoPattern, patternInfo, Registered,
                identifyKeys, Listed
  <2>2. CASE Watching(P, p) # {}
    BY <2>2 DEF Agree, PatternsAgree, patternInfo, Registered
  <2> QED
    BY <2>1, <2>2
<1>6. PatternsAgree(d, Q)
  <2> SUFFICES ASSUME NEW p \in Patterns
               PROVE  /\ Watching(Q, p) = {} => d.patternData[p] = NoPattern
                      /\ Watching(Q, p) # {} =>
                           /\ d.patternData[p].regex = "compiled"
                           /\ d.patternData[p].sessions = Watching(Q, p)
                           /\ \A k \in Keys : k \in d.patternData[p].keys
                                                <=> <<p, k>> \in Matches /\ Listed(d, k)
    BY DEF PatternsAgree
  <2>1. CASE p \in ps
    <3>1. Watching(Q, p) = Watching(P, p) \cup {s}
      BY <2>1 DEF Watching
    <3>2. patternInfo(c, p) \in PatternInfo
      BY PatternInfoType
    <3>3. /\ d.patternData[p].regex = patternInfo(c, p).regex
          /\ d.patternData[p].sessions = patternInfo(c, p).sessions \cup {s}
          /\ d.patternData[p].keys = patternInfo(c, p).keys
      BY <1>1, <2>1, <3>2 DEF PatternInfo
    <3> HIDE DEF d
    <3> QED
      BY <1>4, <1>5, <2>1, <3>1, <3>3
  <2>2. CASE p \notin ps
    <3>1. Watching(Q, p) = Watching(P, p)
      BY <2>2 DEF Watching
    <3> HIDE DEF d
    <3> QED
      BY <1>1, <1>4, <2>2, <3>1 DEF Agree, PatternsAgree
  <2> QED
    BY <2>1, <2>2
<1>7. RefsAgree(d, L, Q)
  <2> SUFFICES ASSUME NEW k \in Keys, NEW t \in Sessions
               PROVE  d.storeData[k].refs[t] =
                        (IF k \in L[t] THEN 1 ELSE 0)
                        + (IF Listed(d, k) THEN Cardinality(Hits(Q, t, k)) ELSE 0)
    BY DEF RefsAgree
  <2>1. c.storeData[k].refs[t] =
          (IF k \in K[t] THEN 1 ELSE 0)
          + (IF Listed(c, k) THEN Cardinality(Hits(P, t, k)) ELSE 0)
    BY DEF Agree, RefsAgree
  <2>2. CASE t = s
    <3> DEFINE H == {p \in ps : k \in patternInfo(c, p).keys}
    <3>1. d.storeData[k].refs[s] =
            c.storeData[k].refs[s] + (IF k \in ks THEN 1 ELSE 0) + Cardinality(H)
      BY AddWatchesFields
    <3>2. Listed(c, k) => H = {p \in ps : <<p, k>> \in Matches}
      BY <1>5
    <3>3. ~Listed(c, k) => H = {}
      BY <1>5
    <3>4. Listed(c, k) => Cardinality(Hits(Q, s, k)) = Cardinality(Hits(P, s, k)) + Cardinality(H)
      <4> SUFFICES ASSUME Listed(c, k)
                   PROVE  Cardinality(Hits(Q, s, k)) =
                            Cardinality(Hits(P, s, k)) + Cardinality(H)
        OBVIOUS
      <4>1. Hits(Q, s, k) = Hits(P, s, k) \cup H
        BY <3>2 DEF Hits
      <4>2. Hits(P, s, k) \cap H = {}
        BY <3>2 DEF Hits
      <4>3. Hits(P, s, k) \in SUBSET Patterns /\ H \in SUBSET Patterns
        BY DEF Hits
      <4> HIDE DEF H
      <4> QED
        BY <4>1, <4>2, <4>3, CountUnion
    <3>5. ~Listed(c, k) => Cardinality(H) = 0
      BY <3>3, FS_EmptySet
    <3>6. Cardinality(H) \in Nat /\ Cardinality(Hits(P, s, k)) \in Nat
      BY PatternCount DEF Hits
    <3>7. (IF k \in L[s] THEN 1 ELSE 0) =
            (IF k \in K[s] THEN 1 ELSE 0) + (IF k \in ks THEN 1 ELSE 0)
      OBVIOUS
    <3> HIDE DEF H, d
    <3> QED
      BY <1>4, <2>1, <2>2, <3>1, <3>4, <3>5, <3>6, <3>7
  <2>3. CASE t # s
    <3>1. d.storeData[k].refs[t] = c.storeData[k].refs[t]
      BY <2>3, AddWatchesFields
    <3>2. Hits(Q, t, k) = Hits(P, t, k) /\ L[t] = K[t]
      BY <2>3 DEF Hits
    <3> HIDE DEF d
    <3> QED
      BY <1>4, <2>1, <3>1, <3>2
  <2> QED
    BY <2>2, <2>3
<1>8. PendingAgree(d)
  <2> HIDE DEF d
  <2> QED
    BY <1>2, <1>4 DEF Agree, PendingAgree
<1> QED
  BY <1>6, <1>7, <1>8 DEF Agree

\* A session stops to watch some of its keys and patterns.
LEMMA AgreeRemove ==
  ASSUME NEW c \in Store, NEW s \in Sessions,
         NEW K \in [Sessions -> SUBSET Keys], NEW P \in [Sessions -> SUBSET Patterns],
         NEW L \in [Sessions -> SUBSET Keys], NEW Q \in [Sessions -> SUBSET Patterns],
         NEW ks \in SUBSET K[s], NEW ps \in SUBSET P[s],
         Agree(c, K, P),
         L[s] = K[s] \ ks, Q[s] = P[s] \ ps,
         \A t \in Sessions \ {s} : L[t] = K[t] /\ Q[t] = P[t]
  PROVE  Agree(removeWatches(c, s, ks, ps), L, Q)
<1> DEFINE d == removeWatches(c, s, ks, ps)
<1>0. ps \in SUBSET Patterns
  OBVIOUS
<1>1. /\ \A p \in Patterns \ ps : d.patternData[p] = c.patternData[p]
      /\ \A p \in ps : d.patternData[p] = withoutSession(c.patternData[p], s)
  BY <1>0, RemoveWatchesFields
<1>2. /\ d.deferredRemovals = c.deferredRemovals
      /\ d.changedKeys = c.changedKeys
  BY WatchesFrame
<1>3. \A k \in Keys : d.storeData[k].data = c.storeData[k].data
  BY <1>0, RemoveWatchesFields
<1>4. \A k \in Keys : (Listed(d, k) <=> Listed(c, k)) /\ (Defined(d, k) <=> Defined(c, k))
  BY <1>2, <1>3 DEF Listed, Defined
<1>5. PatternsAgree(c, P)
  BY DEF Agree
<1>6. PatternsAgree(d, Q)
  <2> SUFFICES ASSUME NEW p \in Patterns
               PROVE  /\ Watching(Q, p) = {} => d.patternData[p] = NoPattern
                      /\ Watching(Q, p) # {} =>
                           /\ d.patternData[p].regex = "compiled"
                           /\ d.patternData[p].sessions = Watching(Q, p)
                           /\ \A k \in Keys : k \in d.patternData[p].keys
                                                <=> <<p, k>> \in Matches /\ Listed(d, k)
    BY DEF PatternsAgree
  <2>1. CASE p \in ps
    <3> DEFINE i == c.patternData[p]
    <3>1. Watching(Q, p) = Watching(P, p) \ {s}
      BY <2>1 DEF Watching
    <3>2. s \in Watching(P, p)
      BY <2>1 DEF Watching
    <3>3. /\ i.regex = "compiled"
          /\ i.sessions = Watching(P, p)
          /\ \A k \in Keys : k \in i.keys <=> <<p, k>> \in Matches /\ Listed(c, k)
      BY <1>5, <3>2 DEF PatternsAgree
    <3>4. i \in PatternInfo
      BY StoreFields
    <3>5. d.patternData[p] = withoutSession(i, s)
      BY <1>1, <2>1
    <3> HIDE DEF d, i
    <3>6. CASE \E x, y \in i.sessions : x # y
      <4>1. d.patternData[p] = [i EXCEPT !.sessions = @ \ {s}]
        BY <3>5, <3>6 DEF withoutSession
      <4>2. /\ d.patternData[p].regex = i.regex
            /\ d.patternData[p].sessions = i.sessions \ {s}
            /\ d.patternData[p].keys = i.keys
        BY <3>4, <4>1 DEF PatternInfo
      <4>3. Watching(Q, p) # {}
        BY <3>1, <3>3, <3>6
      <4> QED
        BY <1>4, <3>1, <3>3, <4>2, <4>3
    <3>7. CASE ~\E x, y \in i.sessions : x # y
      <4>1. d.patternData[p] = NoPattern
        BY <3>5, <3>7 DEF withoutSession
      <4>2. Watching(Q, p) = {}
        BY <3>1, <3>2, <3>3, <3>7
      <4> QED
        BY <4>1, <4>2
    <3> QED
      BY <3>6, <3>7
  <2>2. CASE p \notin ps
    <3>1. Watching(Q, p) = Watching(P, p)
      BY <2>2 DEF Watching
    <3> HIDE DEF d
    <3> QED
      BY <1>1, <1>4, <1>5, <2>2, <3>1 DEF PatternsAgree
  <2> QED
    BY <2>1, <2>2
<1>7. RefsAgree(d, L, Q)
  <2> SUFFICES ASSUME NEW k \in Keys, NEW t \in Sessions
               PROVE  d.storeData[k].refs[t] =
                        (IF k \in L[t] THEN 1 ELSE 0)
                        + (IF Listed(d, k) THEN Cardinality(Hits(Q, t, k)) ELSE 0)
    BY DEF RefsAgree
  <2>1. c.storeData[k].refs[t] =
          (IF k \in K[t] THEN 1 ELSE 0)
          + (IF Listed(c, k) THEN Cardinality(Hits(P, t, k)) ELSE 0)
    BY DEF Agree, RefsAgree
  <2>2. CASE t = s
    <3> DEFINE H == {p \in ps : k \in c.patternData[p].keys}
               n == (IF k \in ks THEN 1 ELSE 0) + Cardinality(H)
    <3>0. ASSUME NEW p \in ps
          PROVE  k \in c.patternData[p].keys <=> <<p, k>> \in Matches /\ Listed(c, k)
      <4>1. s \in Watching(P, p)
        BY DEF Watching
      <4> QED
        BY <1>0, <1>5, <4>1 DEF PatternsAgree
    <3>1. d.storeData[k].refs[s] = Less(c.storeData[k].refs[s], n)
      BY <1>0, RemoveWatchesFields
    <3>2. Listed(c, k) => H = {p \in ps : <<p, k>> \in Matches}
      BY <3>0
    <3>3. ~Listed(c, k) => H = {}
      BY <3>0
    <3>4. Listed(c, k) => Cardinality(Hits(P, s, k)) = Cardinality(Hits(Q, s, k)) + Cardinality(H)
      <4> SUFFICES ASSUME Listed(c, k)
                   PROVE  Cardinality(Hits(P, s, k)) =
                            Cardinality(Hits(Q, s, k)) + Cardinality(H)
        OBVIOUS
      <4>1. Hits(P, s, k) = Hits(Q, s, k) \cup H
        BY <3>2 DEF Hits
      <4>2. Hits(Q, s, k) \cap H = {}
        BY <3>2 DEF Hits
      <4>3. Hits(Q, s, k) \in SUBSET Patterns /\ H \in SUBSET Patterns
        BY DEF Hits
      <4> HIDE DEF H
      <4> QED
        BY <4>1, <4>2, <4>3, CountUnion
    <3>5. ~Listed(c, k) => Cardinality(H) = 0
      BY <3>3, FS_EmptySet
    <3>6. /\ Cardinality(H) \in Nat
          /\ Cardinality(Hits(P, s, k)) \in Nat
          /\ Cardinality(Hits(Q, s, k)) \in Nat
      BY <1>0, PatternCount DEF Hits
    <3>7. (IF k \in K[s] THEN 1 ELSE 0) =
            (IF k \in L[s] THEN 1 ELSE 0) + (IF k \in ks THEN 1 ELSE 0)
      OBVIOUS
    <3> HIDE DEF H, d
    <3> QED
      BY <1>4, <2>1, <2>2, <3>1, <3>4, <3>5, <3>6, <3>7 DEF Less
  <2>3. CASE t # s
    <3>1. d.storeData[k].refs[t] = c.storeData[k].refs[t]
      BY <1>0, <2>3, RemoveWatchesFields
    <3>2. Hits(Q, t, k) = Hits(P, t, k) /\ L[t] = K[t]
      BY <2>3 DEF Hits
    <3> HIDE DEF d
    <3> QED
      BY <1>4, <2>1, <3>1, <3>2
  <2> QED
    BY <2>2, <2>3
<1>8. PendingAgree(d)
  <2> HIDE DEF d
  <2> QED
    BY <1>2, <1>4 DEF Agree, PendingAgree
<1> QED
  BY <1>6, <1>7, <1>8 DEF Agree

\* Two stores that differ neither in what is listed nor in who watches.
LEMMA AgreeSame ==
  ASSUME NEW c \in Store, NEW d \in Store, NEW K, NEW P, Agree(c, K, P),
         d.patternData = c.patternData,
         \A k \in Keys : Listed(d, k) <=> Listed(c, k),
         \A k \in Keys, t \in Sessions : d.storeData[k].refs[t] = c.storeData[k].refs[t],
         PendingAgree(d)
  PROVE  Agree(d, K, P)
<1>1. PatternsAgree(d, P)
  BY DEF Agree, PatternsAgree
<1>2. RefsAgree(d, K, P)
  BY DEF Agree, RefsAgree
<1> QED
  BY <1>1, <1>2 DEF Agree

\* A value is written.
LEMMA AgreeSet ==
  ASSUME NEW c \in Store, NEW s \in Sessions, NEW k \in Keys, NEW v \in Data,
         NEW sk \in BOOLEAN,
         NEW K \in [Sessions -> SUBSET Keys], NEW P \in [Sessions -> SUBSET Patterns],
         Agree(c, K, P)
  PROVE  Agree(setValue(c, s, k, v, sk), K, P)
<1> DEFINE d == setValue(c, s, k, v, sk)
           hit == {p \in Patterns : Registered(c, p) /\ <<p, k>> \in Matches}
<1>0. d \in Store
  BY SetValueType
<1>1. CASE setRefused(c, s, k, sk)
  BY <1>1 DEF setValue
<1>2. CASE ~setRefused(c, s, k, sk)
  <2>0. Written(c, d, s, k, v, sk)
    BY <1>2, SetValueFields
  <2> HIDE DEF d
  <2>1. /\ \A j \in Keys \ {k} : d.storeData[j] = c.storeData[j]
        /\ d.storeData[k].data = v
        /\ d.changedKeys = c.changedKeys \cup {k}
        /\ Defined(c, k) => d.deferredRemovals = c.deferredRemovals
        /\ ~Defined(c, k) => d.deferredRemovals = c.deferredRemovals \ {k}
    BY <2>0 DEF Written
  <2>2. Listed(c, k) => /\ d.patternData = c.patternData
                        /\ \A t \in Sessions :
                             d.storeData[k].refs[t] = c.storeData[k].refs[t]
    BY <2>0 DEF Written
  <2>3. ~Listed(c, k) =>
          /\ \A p \in Patterns \ hit : d.patternData[p] = c.patternData[p]
          /\ \A p \in hit :
               d.patternData[p] = [c.patternData[p] EXCEPT !.keys = @ \cup {k}]
          /\ \A t \in Sessions :
               d.storeData[k].refs[t] =
                 c.storeData[k].refs[t]
                 + Cardinality({p \in hit : t \in c.patternData[p].sessions})
    BY <2>0 DEF Written
  <2>4. Defined(d, k) /\ k \notin d.deferredRemovals
    BY <2>1, StoreAssumption DEF Defined, Agree, PendingAgree
  <2>5. \A j \in Keys \ {k} : /\ Defined(d, j) <=> Defined(c, j)
                              /\ j \in d.deferredRemovals <=> j \in c.deferredRemovals
                              /\ Listed(d, j) <=> Listed(c, j)
    BY <2>1 DEF Defined, Listed
  <2>6. PendingAgree(d)
    BY <2>1, <2>4, <2>5 DEF Agree, PendingAgree, Listed
  <2>7. CASE Listed(c, k)
    <3>1. \A j \in Keys : Listed(d, j) <=> Listed(c, j)
      BY <2>4, <2>5, <2>7 DEF Listed
    <3>2. \A j \in Keys, t \in Sessions : d.storeData[j].refs[t] = c.storeData[j].refs[t]
      BY <2>1, <2>2, <2>7
    <3> QED
      BY <1>0, <2>2, <2>6, <2>7, <3>1, <3>2, AgreeSame DEF d
  <2>8. CASE ~Listed(c, k)
    <3>0. Listed(d, k)
      BY <2>4 DEF Listed
    <3>1. PatternsAgree(d, P)
      <4> SUFFICES ASSUME NEW p \in Patterns
                   PROVE  /\ Watching(P, p) = {} => d.patternData[p] = NoPattern
                          /\ Watching(P, p) # {} =>
                               /\ d.patternData[p].regex = "compiled"
                               /\ d.patternData[p].sessions = Watching(P, p)
                               /\ \A j \in Keys :
                                    j \in d.patternData[p].keys
                                      <=> <<p, j>> \in Matches /\ Listed(d, j)
        BY DEF PatternsAgree
      <4>1. /\ Watching(P, p) = {} => c.patternData[p] = NoPattern
            /\ Watching(P, p) # {} =>
                 /\ c.patternData[p].regex = "compiled"
                 /\ c.patternData[p].sessions = Watching(P, p)
                 /\ \A j \in Keys : j \in c.patternData[p].keys
                                      <=> <<p, j>> \in Matches /\ Listed(c, j)
        BY DEF Agree, PatternsAgree
      <4>2. CASE p \in hit
        <5>1. Watching(P, p) # {} /\ <<p, k>> \in Matches
          BY <4>1, <4>2 DEF Registered, NoPattern
        <5>2. /\ d.patternData[p].regex = c.patternData[p].regex
              /\ d.patternData[p].sessions = c.patternData[p].sessions
              /\ d.patternData[p].keys = c.patternData[p].keys \cup {k}
          <6>1. c.patternData[p] \in PatternInfo
            BY StoreFields
          <6> QED
            BY <2>3, <2>8, <4>2, <6>1 DEF PatternInfo
        <5> QED
          BY <2>5, <3>0, <4>1, <5>1, <5>2
      <4>3. CASE p \notin hit
        <5>1. d.patternData[p] = c.patternData[p]
          BY <2>3, <2>8, <4>3
        <5>2. Watching(P, p) # {} => <<p, k>> \notin Matches
          BY <4>1, <4>3 DEF Registered
        <5> QED
          BY <2>5, <4>1, <5>1, <5>2
      <4> QED
        BY <4>2, <4>3
    <3>2. RefsAgree(d, K, P)
      <4> SUFFICES ASSUME NEW j \in Keys, NEW t \in Sessions
                   PROVE  d.storeData[j].refs[t] =
                            (IF j \in K[t] THEN 1 ELSE 0)
                            + (IF Listed(d, j) THEN Cardinality(Hits(P, t, j)) ELSE 0)
        BY DEF RefsAgree
      <4>1. c.storeData[j].refs[t] =
              (IF j \in K[t] THEN 1 ELSE 0)
              + (IF Listed(c, j) THEN Cardinality(Hits(P, t, j)) ELSE 0)
        BY DEF Agree, RefsAgree
      <4>2. CASE j = k
        <5> DEFINE H == {p \in hit : t \in c.patternData[p].sessions}
        <5>1. H = Hits(P, t, k)
          <6>1. ASSUME NEW p \in H PROVE p \in Hits(P, t, k)
            <7>1. c.patternData[p] # NoPattern
              BY DEF NoPattern, Registered
            <7>2. c.patternData[p].sessions = Watching(P, p)
              BY <7>1 DEF Agree, PatternsAgree
            <7> QED
              BY <7>2 DEF Watching, Hits
          <6>2. ASSUME NEW p \in Hits(P, t, k) PROVE p \in H
            <7>1. p \in P[t] /\ p \in Patterns /\ <<p, k>> \in Matches
              BY DEF Hits
            <7>2. c.patternData[p].regex = "compiled" /\ t \in c.patternData[p].sessions
              BY <7>1, AgreeKeys DEF Agree
            <7> QED
              BY <7>1, <7>2 DEF Registered
          <6> QED
            BY <6>1, <6>2
        <5>2. d.storeData[k].refs[t] = c.storeData[k].refs[t] + Cardinality(H)
          BY <2>3, <2>8
        <5>3. Cardinality(H) \in Nat
          BY PatternCount
        <5> HIDE DEF H
        <5> QED
          BY <2>8, <3>0, <4>1, <4>2, <5>1, <5>2, <5>3
      <4>3. CASE j # k
        BY <2>1, <2>5, <4>1, <4>3
      <4> QED
        BY <4>2, <4>3
    <3> QED
      BY <2>6, <3>1, <3>2 DEF Agree, d
  <2> QED
    BY <2>7, <2>8
<1> QED
  BY <1>1, <1>2

\* Values are removed.
LEMMA AgreeRemoveValues ==
  ASSUME NEW c \in Store, NEW ks \in SUBSET Keys, NEW K, NEW P, Agree(c, K, P)
  PROVE  Agree(removeValues(c, ks), K, P)
<1> DEFINE d == removeValues(c, ks)
           gone == {k \in ks : Defined(c, k)}
<1>0. d \in Store
  BY RemoveValuesType
<1>1. /\ d.patternData = c.patternData
      /\ d.changedKeys = c.changedKeys \cup gone
      /\ d.deferredRemovals = c.deferredRemovals \cup gone
      /\ \A k \in Keys : /\ d.storeData[k].refs = c.storeData[k].refs
                         /\ k \notin gone => d.storeData[k] = c.storeData[k]
                         /\ k \in gone => /\ d.storeData[k].data = NoData
                                          /\ d.storeData[k].session = NoSession
  BY RemoveValuesFields
<1> HIDE DEF d
<1>2. \A k \in Keys : /\ Defined(d, k) <=> Defined(c, k) /\ k \notin gone
                      /\ Listed(d, k) <=> Listed(c, k)
  BY <1>1 DEF Defined, Listed
<1>3. PendingAgree(d)
  BY <1>1, <1>2 DEF Agree, PendingAgree, Listed
<1> QED
  BY <1>0, <1>1, <1>2, <1>3, AgreeSame DEF d

\* A value is flagged.
LEMMA AgreeNotify ==
  ASSUME NEW c \in Store, NEW s \in Sessions, NEW k \in Keys, NEW sk \in BOOLEAN,
         NEW K \in [Sessions -> SUBSET Keys], NEW P \in [Sessions -> SUBSET Patterns],
         Agree(c, K, P)
  PROVE  Agree(notifyValue(c, s, k, sk), K, P)
<1>1. CASE Defined(c, k)
  <2>1. c.storeData[k].data \in Data
    BY <1>1, StoreFields DEF Defined, Entry
  <2> QED
    BY <1>1, <2>1, AgreeSet DEF notifyValue
<1>2. CASE ~Defined(c, k)
  <2> DEFINE v == CHOOSE w \in Data : TRUE
  <2>1. v \in Data
    BY StoreAssumption
  <2>2. notifyValue(c, s, k, sk) = removeValues(setValue(c, s, k, v, sk), {k})
    BY <1>2 DEF notifyValue
  <2> HIDE DEF v
  <2>3. /\ setValue(c, s, k, v, sk) \in Store
        /\ Agree(setValue(c, s, k, v, sk), K, P)
    BY <2>1, SetValueType, AgreeSet
  <2> QED
    BY <2>2, <2>3, AgreeRemoveValues
<1> QED
  BY <1>1, <1>2

\* The commit.
LEMMA AgreeCommitted ==
  ASSUME NEW c \in Store,
         NEW K \in [Sessions -> SUBSET Keys], NEW P \in [Sessions -> SUBSET Patterns],
         Agree(c, K, P)
  PROVE  Agree(committed(c), K, P)
<1> DEFINE d == committed(c)
<1>1. \A p \in Patterns :
        d.patternData[p] = [c.patternData[p] EXCEPT !.keys = @ \ c.deferredRemovals]
  BY CommittedFields
<1>2. \A k \in Keys : d.storeData[k].data = c.storeData[k].data
  BY CommittedFields
<1>3. d.changedKeys = {} /\ d.deferredRemovals = {}
  BY CommittedType
<1>4. \A k \in Keys \ c.deferredRemovals, t \in Sessions :
        d.storeData[k].refs[t] = c.storeData[k].refs[t]
  BY CommittedFields
<1>5. \A k \in c.deferredRemovals, t \in Sessions :
        d.storeData[k].refs[t] =
          Less(c.storeData[k].refs[t],
               Cardinality({p \in Patterns : /\ k \in c.patternData[p].keys
                                             /\ t \in c.patternData[p].sessions}))
  BY CommittedFields
<1> HIDE DEF d
<1>6. \A k \in Keys : Listed(d, k) <=> Listed(c, k) /\ k \notin c.deferredRemovals
  BY <1>2, <1>3 DEF Listed, Defined, Agree, PendingAgree
<1>7. PatternsAgree(d, P)
  <2> SUFFICES ASSUME NEW p \in Patterns
               PROVE  /\ Watching(P, p) = {} => d.patternData[p] = NoPattern
                      /\ Watching(P, p) # {} =>
                           /\ d.patternData[p].regex = "compiled"
                           /\ d.patternData[p].sessions = Watching(P, p)
                           /\ \A k \in Keys : k \in d.patternData[p].keys
                                                <=> <<p, k>> \in Matches /\ Listed(d, k)
    BY DEF PatternsAgree
  <2>1. c.patternData[p] \in PatternInfo
    BY StoreFields
  <2>2. /\ d.patternData[p].regex = c.patternData[p].regex
        /\ d.patternData[p].sessions = c.patternData[p].sessions
        /\ d.patternData[p].keys = c.patternData[p].keys \ c.deferredRemovals
    BY <1>1, <2>1 DEF PatternInfo
  <2>3. c.patternData[p] = NoPattern => d.patternData[p] = NoPattern
    <3> SUFFICES ASSUME c.patternData[p] = NoPattern
                 PROVE  d.patternData[p] = NoPattern
      OBVIOUS
    <3>1. d.patternData[p] = [NoPattern EXCEPT !.keys = {}]
      BY <1>1 DEF NoPattern
    <3> QED
      BY <3>1 DEF NoPattern
  <2> QED
    BY <1>6, <2>2, <2>3 DEF Agree, PatternsAgree
<1>8. RefsAgree(d, K, P)
  <2> SUFFICES ASSUME NEW k \in Keys, NEW t \in Sessions
               PROVE  d.storeData[k].refs[t] =
                        (IF k \in K[t] THEN 1 ELSE 0)
                        + (IF Listed(d, k) THEN Cardinality(Hits(P, t, k)) ELSE 0)
    BY DEF RefsAgree
  <2>1. c.storeData[k].refs[t] =
          (IF k \in K[t] THEN 1 ELSE 0)
          + (IF Listed(c, k) THEN Cardinality(Hits(P, t, k)) ELSE 0)
    BY DEF Agree, RefsAgree
  <2>2. CASE k \in c.deferredRemovals
    <3> DEFINE H == {p \in Patterns : /\ k \in c.patternData[p].keys
                                      /\ t \in c.patternData[p].sessions}
    <3>0. Listed(c, k) /\ ~Listed(d, k)
      BY <1>6, <2>2 DEF Listed
    <3>1. H = Hits(P, t, k)
      <4>1. ASSUME NEW p \in H PROVE p \in Hits(P, t, k)
        <5>1. c.patternData[p] # NoPattern
          BY DEF NoPattern
        <5>2. Watching(P, p) # {}
          BY <5>1 DEF Agree, PatternsAgree
        <5>3. c.patternData[p].sessions = Watching(P, p) /\ <<p, k>> \in Matches
          BY <5>2 DEF Agree, PatternsAgree
        <5> QED
          BY <5>3 DEF Watching, Hits
      <4>2. ASSUME NEW p \in Hits(P, t, k) PROVE p \in H
        <5>1. p \in P[t] /\ p \in Patterns /\ <<p, k>> \in Matches
          BY DEF Hits
        <5>2. k \in c.patternData[p].keys /\ t \in c.patternData[p].sessions
          BY <3>0, <5>1, AgreeKeys DEF Agree
        <5> QED
          BY <5>1, <5>2
      <4> QED
        BY <4>1, <4>2
    <3>2. d.storeData[k].refs[t] = Less(c.storeData[k].refs[t], Cardinality(H))
      BY <1>5, <2>2
    <3>3. Cardinality(H) \in Nat
      BY PatternCount
    <3> HIDE DEF H
    <3> QED
      BY <2>1, <3>0, <3>1, <3>2, <3>3 DEF Less
  <2>3. CASE k \notin c.deferredRemovals
    BY <1>4, <1>6, <2>1, <2>3
  <2> QED
    BY <2>2, <2>3
<1>9. PendingAgree(d)
  BY <1>3 DEF PendingAgree
<1> QED
  BY <1>7, <1>8, <1>9 DEF Agree, d

\* The commit tells a session about exactly the changed keys that it watches
\* by name or by pattern.
LEMMA NotifiedAgree ==
  ASSUME NEW c \in Store,
         NEW K \in [Sessions -> SUBSET Keys], NEW P \in [Sessions -> SUBSET Patterns],
         Agree(c, K, P), NEW t \in Sessions
  PROVE  notified(c, t) =
           {k \in c.changedKeys : k \in K[t] \/ \E p \in P[t] : <<p, k>> \in Matches}
<1>1. ASSUME NEW k \in c.changedKeys
      PROVE  c.storeData[k].refs[t] > 0
               <=> k \in K[t] \/ \E p \in P[t] : <<p, k>> \in Matches
  <2>1. k \in Keys
    BY StoreFields
  <2>2. Listed(c, k)
    BY <2>1 DEF Agree, PendingAgree
  <2>3. c.storeData[k].refs[t] =
          (IF k \in K[t] THEN 1 ELSE 0) + Cardinality(Hits(P, t, k))
    BY <2>1, <2>2 DEF Agree, RefsAgree
  <2>4. Cardinality(Hits(P, t, k)) \in Nat
    BY PatternCount DEF Hits
  <2>5. Cardinality(Hits(P, t, k)) = 0 <=> Hits(P, t, k) = {}
    <3>1. IsFiniteSet(Hits(P, t, k))
      BY StoreAssumption, FS_Subset DEF Hits
    <3> QED
      BY <3>1, FS_EmptySet
  <2>6. Hits(P, t, k) # {} <=> \E p \in P[t] : <<p, k>> \in Matches
    BY DEF Hits
  <2> QED
    BY <2>3, <2>4, <2>5, <2>6
<1> QED
  BY <1>1 DEF notified

\* In a store that agrees, no pattern operation follows a bad pointer.
LEMMA AgreeNoFault ==
  ASSUME NEW c \in Store, NEW K, NEW P \in [Sessions -> SUBSET Patterns], Agree(c, K, P)
  PROVE  /\ ~patternAddFaults(c)
         /\ \A t \in Sessions : \A p \in P[t] : ~patternRemoveFaults(c, p, t)
<1>1. \A p \in Patterns : c.patternData[p].regex # "freed"
  BY DEF Agree, PatternsAgree, NoPattern
<1>2. ASSUME NEW t \in Sessions, NEW p \in P[t]
      PROVE  ~patternRemoveFaults(c, p, t)
  <2>1. c.patternData[p].regex = "compiled" /\ t \in c.patternData[p].sessions
    BY AgreeKeys DEF Agree
  <2> QED
    BY <2>1 DEF patternRemoveFaults
<1> QED
  BY <1>1, <1>2 DEF patternAddFaults

-----------------------------------------------------------------------------
(* The owners of the session keys.  owned[s] are the kSCDSessionKeys of    *)
(* session s, open the sessions that may own a key.                        *)

Owned(c, owned, open) ==
  \A k \in Keys :
    LET o == c.storeData[k].session
    IN  o # NoSession => /\ o \in open
                         /\ k \in owned[o]
                         /\ Defined(c, k)
                         /\ <<o, k>> \notin c.removedSessionKeys

\* Nobody owns anything in the empty store.
LEMMA OwnedEmpty ==
  ASSUME NEW owned, NEW open
  PROVE  Owned(EmptyStore, owned, open)
BY DEF Owned, EmptyStore, NoEntry

\* What is watched does not matter.
LEMMA OwnedSame ==
  ASSUME NEW c, NEW d, NEW owned, NEW open, Owned(c, owned, open),
         \A k \in Keys : /\ d.storeData[k].data = c.storeData[k].data
                         /\ d.storeData[k].session = c.storeData[k].session,
         d.removedSessionKeys = c.removedSessionKeys
  PROVE  Owned(d, owned, open)
BY DEF Owned, Defined

\* A value is written; a new session key was not removed by its session in
\* the same transaction.
LEMMA OwnedSet ==
  ASSUME NEW c \in Store, NEW open \in SUBSET Sessions, NEW s \in open,
         NEW k \in Keys, NEW v \in Data, NEW sk \in BOOLEAN,
         NEW owned \in [Sessions -> SUBSET Keys], NEW more \in [Sessions -> SUBSET Keys],
         Owned(c, owned, open),
         \A t \in Sessions : owned[t] \subseteq more[t],
         setClaims(c, k, sk) => k \in more[s] /\ <<s, k>> \notin c.removedSessionKeys
  PROVE  Owned(setValue(c, s, k, v, sk), more, open)
<1> DEFINE d == setValue(c, s, k, v, sk)
<1>1. CASE setRefused(c, s, k, sk)
  <2>1. d = c
    BY <1>1 DEF setValue
  <2> HIDE DEF d
  <2> QED
    BY <2>1 DEF Owned, d
<1>2. CASE ~setRefused(c, s, k, sk)
  <2>0. Written(c, d, s, k, v, sk)
    BY <1>2, SetValueFields
  <2> HIDE DEF d
  <2> DEFINE e == c.storeData[k]
             foreign == ~sk /\ Defined(c, k) /\ e.session \notin {NoSession, s}
  <2>1. \A j \in Keys \ {k} : d.storeData[j] = c.storeData[j]
    BY <2>0 DEF Written
  <2>2. d.storeData[k].data = v
    BY <2>0 DEF Written
  <2>3. d.storeData[k].session =
          IF foreign THEN NoSession
          ELSE IF sk /\ ~Defined(c, k) THEN s ELSE e.session
    BY <2>0 DEF Written
  <2>4. d.removedSessionKeys =
          IF foreign THEN c.removedSessionKeys \cup {<<e.session, k>>}
          ELSE c.removedSessionKeys
    BY <2>0 DEF Written
  <2>5. ASSUME NEW j \in Keys, d.storeData[j].session # NoSession
        PROVE  LET o == d.storeData[j].session
               IN  /\ o \in open
                   /\ j \in more[o]
                   /\ Defined(d, j)
                   /\ <<o, j>> \notin d.removedSessionKeys
    <3>1. CASE j # k
      BY <2>1, <2>4, <2>5, <3>1 DEF Owned, Defined
    <3>2. CASE j = k
      <4>1. Defined(d, k)
        BY <2>2, StoreAssumption DEF Defined
      <4>2. ~foreign
        BY <2>3, <2>5, <3>2
      <4>3. CASE sk /\ ~Defined(c, k)
        BY <2>3, <2>4, <3>2, <4>1, <4>2, <4>3 DEF setClaims
      <4>4. CASE ~(sk /\ ~Defined(c, k))
        BY <2>3, <2>4, <2>5, <3>2, <4>1, <4>2, <4>4 DEF Owned
      <4> QED
        BY <4>3, <4>4
    <3> QED
      BY <3>1, <3>2
  <2> QED
    BY <2>5 DEF Owned, d
<1> QED
  BY <1>1, <1>2

\* Values are removed, with the ownership of each.
LEMMA OwnedRemoveValues ==
  ASSUME NEW c \in Store, NEW ks \in SUBSET Keys, NEW open \in SUBSET Sessions,
         NEW owned \in [Sessions -> SUBSET Keys], Owned(c, owned, open)
  PROVE  Owned(removeValues(c, ks), owned, open)
<1> DEFINE d == removeValues(c, ks)
           gone == {k \in ks : Defined(c, k)}
<1>1. /\ \A t \in Sessions, k \in Keys :
           <<t, k>> \in d.removedSessionKeys <=>
             \/ <<t, k>> \in c.removedSessionKeys
             \/ k \in gone /\ c.storeData[k].session = t
      /\ \A k \in Keys : /\ k \notin gone => d.storeData[k] = c.storeData[k]
                         /\ k \in gone => d.storeData[k].session = NoSession
  BY RemoveValuesFields
<1> HIDE DEF d, gone
<1> QED
  BY <1>1 DEF Owned, Defined, d

\* A value is flagged: a temporary one is gone before anybody owns it.
LEMMA OwnedNotify ==
  ASSUME NEW c \in Store, NEW open \in SUBSET Sessions, NEW s \in open,
         NEW k \in Keys, NEW sk \in BOOLEAN,
         NEW owned \in [Sessions -> SUBSET Keys], NEW more \in [Sessions -> SUBSET Keys],
         Owned(c, owned, open),
         \A t \in Sessions : owned[t] \subseteq more[t]
  PROVE  Owned(notifyValue(c, s, k, sk), more, open)
<1>1. CASE Defined(c, k)
  <2>1. c.storeData[k].data \in Data
    BY <1>1, StoreFields DEF Defined, Entry
  <2>2. ~setClaims(c, k, sk)
    BY <1>1 DEF setClaims
  <2> QED
    BY <1>1, <2>1, <2>2, OwnedSet DEF notifyValue
<1>2. CASE ~Defined(c, k)
  <2> DEFINE v == CHOOSE w \in Data : TRUE
             d == setValue(c, s, k, v, sk)
             f == removeValues(d, {k})
  <2>1. v \in Data
    BY StoreAssumption
  <2>2. notifyValue(c, s, k, sk) = f
    BY <1>2 DEF notifyValue
  <2> HIDE DEF v
  <2>3. d \in Store
    BY <2>1, SetValueType
  <2>4. Written(c, d, s, k, v, sk)
    <3>1. ~setRefused(c, s, k, sk)
      BY <1>2 DEF setRefused
    <3> QED
      BY <2>1, <3>1, SetValueFields
  <2> HIDE DEF d
  <2>5. /\ \A j \in Keys \ {k} : d.storeData[j] = c.storeData[j]
        /\ d.storeData[k].data = v
        /\ d.removedSessionKeys = c.removedSessionKeys
    BY <1>2, <2>4 DEF Written
  <2>6. {j \in {k} : Defined(d, j)} = {k}
    BY <2>1, <2>5, StoreAssumption DEF Defined
  <2>7. /\ \A t \in Sessions, j \in Keys :
             <<t, j>> \in f.removedSessionKeys <=>
               \/ <<t, j>> \in d.removedSessionKeys
               \/ j \in {k} /\ d.storeData[j].session = t
        /\ \A j \in Keys : /\ j \notin {k} => f.storeData[j] = d.storeData[j]
                           /\ j \in {k} => f.storeData[j].session = NoSession
    BY <2>3, <2>6, RemoveValuesFields
  <2> HIDE DEF f
  <2>8. Owned(f, more, open)
    BY <2>5, <2>7 DEF Owned, Defined
  <2> QED
    BY <2>2, <2>8
<1> QED
  BY <1>1, <1>2

\* The commit takes the removed session keys from their sessions' lists.
LEMMA OwnedCommitted ==
  ASSUME NEW c \in Store, NEW owned, NEW open \in SUBSET Sessions, NEW still,
         NEW left \in [Sessions -> SUBSET Keys],
         Owned(c, owned, open),
         \A k \in Keys : c.storeData[k].session \in still \cup {NoSession},
         \A t \in still \cap Sessions :
           left[t] = {k \in owned[t] : <<t, k>> \notin c.removedSessionKeys}
  PROVE  Owned(committed(c), left, still)
<1> DEFINE d == committed(c)
<1>1. /\ \A k \in Keys : d.storeData[k].data = c.storeData[k].data
      /\ \A k \in Keys : d.storeData[k].session = c.storeData[k].session
  BY CommittedFields
<1>2. d.removedSessionKeys = {}
  BY CommittedType
<1> HIDE DEF d
<1> QED
  BY <1>1, <1>2 DEF Owned, Defined, d
=============================================================================
