------------------------- MODULE DynamicStoreProofs -------------------------
(***************************************************************************)
(* Theorems about the dynamic store server for every set of sessions,      *)
(* keys, patterns and values.  The first ones hold whatever liberties      *)
(* clients take; the others name the liberties that must not be taken.     *)
(***************************************************************************)
EXTENDS StoreRefinement, StoreDataProofs

\* The inductive invariant.  The lock part needs the types only for the
\* range of storeLocked; that nothing is left over needs the lock part, for it
\* excludes that a session closes while another one is inside a transaction.
Inv == TypeOK /\ LockOwner /\ NothingLeftOver

\* A store in which no transaction has left anything.
Clean(c) ==
  c.changedKeys = {} /\ c.deferredRemovals = {} /\ c.removedSessionKeys = {}

\* The server starts with an empty store that nobody has locked.
LEMMA InitInv == Init => Inv
<1> SUFFICES ASSUME Init PROVE Inv
  OBVIOUS
<1>1. TypeOK
  BY EmptyStoreType DEF Init, TypeOK
<1>2. LockOwner
  BY DEF Init, LockOwner
<1>3. NothingLeftOver
  BY DEF Init, NothingLeftOver, EmptyStore
<1> QED
  BY <1>1, <1>2, <1>3 DEF Inv

\* A fault changes nothing else.
LEMMA CrashInv ==
  ASSUME Inv, Crash
  PROVE  Inv'
BY DEF Inv, TypeOK, LockOwner, NothingLeftOver, Crash, storeVars, lockVars,
       sessionVars, watchVars, notifyVars

\* A session key is claimed for an existing session.
LEMMA ClaimedType ==
  ASSUME NEW owned \in [Sessions -> SUBSET Keys], NEW c, NEW s \in Sessions,
         NEW k \in Keys, NEW sk
  PROVE  claimed(owned, c, s, k, sk) \in [Sessions -> SUBSET Keys]
BY DEF claimed

\* The commit has the right types and leaves a clean store.
LEMMA CommitType ==
  ASSUME TypeOK, NEW c \in Store, NEW owned \in [Sessions -> SUBSET Keys],
         Commit(c, owned)
  PROVE  /\ cur' \in Store
         /\ Clean(cur')
         /\ sav' = EmptyStore
         /\ sav' \in Store
         /\ changes' \in [Sessions -> SUBSET Keys]
         /\ sessionKeys' \in [Sessions -> SUBSET Keys]
         /\ needsNotification' \subseteq Sessions
<1>1. cur' \in Store /\ Clean(cur')
  BY CommittedType DEF Commit, Clean
<1>2. \A t \in Sessions : notified(c, t) \subseteq Keys
  BY NotifiedType
<1>3. changes' \in [Sessions -> SUBSET Keys]
  BY <1>2 DEF Commit, TypeOK
<1>4. sessionKeys' \in [Sessions -> SUBSET Keys]
  BY DEF Commit
<1>5. needsNotification' \subseteq Sessions
  BY DEF Commit, TypeOK
<1> QED
  BY <1>1, <1>3, <1>4, <1>5, EmptyStoreType DEF Commit

\* A request that changes values, inside or outside of a transaction.
LEMMA FinishInv ==
  ASSUME Inv, NEW c \in Store, NEW owned \in [Sessions -> SUBSET Keys],
         Finish(c, owned)
  PROVE  Inv'
<1> USE DEF Inv
<1>1. CASE storeLocked > 0
  BY <1>1 DEF Finish, TypeOK, LockOwner, NothingLeftOver, lockVars, sessionVars,
              watchVars, notifyVars
<1>2. CASE ~(storeLocked > 0)
  <2>1. Commit(c, owned)
    BY <1>2 DEF Finish
  <2>2. TypeOK'
    BY <2>1, CommitType DEF Finish, TypeOK, lockVars, sessionVars, watchVars,
                            notifyVars
  <2>3. LockOwner'
    BY DEF Finish, LockOwner, lockVars, sessionVars
  <2>4. NothingLeftOver'
    BY <2>1, CommitType DEF NothingLeftOver, Clean
  <2> QED
    BY <2>2, <2>3, <2>4
<1> QED
  BY <1>1, <1>2

\* A change of what a session watches.
LEMMA WatchInv ==
  ASSUME Inv, NEW s \in Sessions, NEW c \in Store, NEW freed,
         NEW ks \in SUBSET Keys, NEW ps \in SUBSET Patterns,
         Watch(s, c, freed, ks, ps), Clean(cur) => Clean(c)
  PROVE  Inv'
<1> USE DEF Inv
<1>1. dangling(freed) \in Store
  <2> DEFINE pd == [p \in Patterns |->
                      IF p \in freedPatterns(cur, freed) /\ Registered(sav, p)
                      THEN [sav.patternData[p] EXCEPT !.regex = "freed"]
                      ELSE sav.patternData[p]]
  <2>1. sav \in Store /\ sav.patternData \in [Patterns -> PatternInfo]
    BY StoreFields DEF TypeOK
  <2>2. pd \in [Patterns -> PatternInfo]
    BY <2>1 DEF PatternInfo
  <2>3. dangling(freed) = [sav EXCEPT !.patternData = pd]
    BY DEF dangling
  <2> QED
    BY <2>1, <2>2, <2>3 DEF Store
<1>2. sav = EmptyStore => dangling(freed) = EmptyStore
  <2> SUFFICES ASSUME sav = EmptyStore PROVE dangling(freed) = EmptyStore
    OBVIOUS
  <2>1. \A p \in Patterns : sav.patternData[p] = NoPattern /\ ~Registered(sav, p)
    BY DEF EmptyStore, NoPattern, Registered
  <2>2. dangling(freed) =
          [sav EXCEPT !.patternData = [p \in Patterns |-> NoPattern]]
    BY <2>1 DEF dangling
  <2> QED
    BY <2>2 DEF EmptyStore
<1>3. TypeOK'
  BY <1>1 DEF Watch, TypeOK, lockVars, sessionVars, notifyVars
<1>4. LockOwner'
  BY DEF Watch, LockOwner, lockVars, sessionVars
<1>5. NothingLeftOver'
  BY <1>2 DEF Watch, NothingLeftOver, Clean, lockVars
<1> QED
  BY <1>3, <1>4, <1>5

\* The end of a session, on the current or on the saved store.
LEMMA CloseInv ==
  ASSUME Inv, NEW s \in Sessions, Serviced(s), NEW c \in {cur, sav}, Close(s, c)
  PROVE  Inv'
<1> USE DEF Inv
<1> DEFINE c1 == removeWatches(c, s, keys[s], patterns[s])
           own == {k \in sessionKeys[s] : c1.storeData[k].session = s /\ CanLock(s)}
           c2 == removeValues(c1, own)
           bad == \E p \in patterns[s] : patternRemoveFaults(c, p, s)
<1>1. CASE bad
  BY <1>1, CrashInv DEF Close
<1>2. CASE ~bad
  <2>1. c2 \in Store
    <3>1. c \in Store /\ patterns[s] \in SUBSET Patterns /\ own \in SUBSET Keys
      BY DEF TypeOK
    <3>2. c1 \in Store
      BY <3>1, RemoveWatchesType
    <3> HIDE DEF c1, own
    <3> QED
      BY <3>1, <3>2, RemoveValuesType
  <2>2. /\ cur' = committed(c2)
        /\ sav' = EmptyStore
        /\ changes' = [t \in Sessions |->
             IF t = s THEN {} ELSE changes[t] \cup notified(c2, t)]
        /\ sessionKeys' = [t \in Sessions |->
             IF t = s THEN {}
             ELSE {k \in sessionKeys[t] : <<t, k>> \notin c2.removedSessionKeys}]
        /\ needsNotification' =
             (needsNotification \ {s}) \cup {t \in Sessions : notified(c2, t) # {}}
    BY <1>2 DEF Close
  <2>3. /\ storeLocked' = IF s \in locked THEN 0 ELSE storeLocked
        /\ locked' = locked \ {s}
        /\ lockedSources' = lockedSources \ {s}
        /\ sessions' = sessions \ {s}
        /\ dead' = dead \ {s}
        /\ useSessionKeys' = useSessionKeys \ {s}
        /\ keys' = [keys EXCEPT ![s] = {}]
        /\ patterns' = [patterns EXCEPT ![s] = {}]
        /\ notifyStatus' = [notifyStatus EXCEPT ![s] = "none"]
        /\ handle' = [handle EXCEPT ![s] = "none"]
        /\ kicked' = kicked \ {s}
        /\ awake' = awake \ {s}
        /\ UNCHANGED fault
    BY <1>2 DEF Close
  <2> HIDE DEF c2
  <2>4. cur' \in Store /\ Clean(cur') /\ sav' \in Store
    BY <2>1, <2>2, CommittedType, EmptyStoreType DEF Clean
  <2>5. changes' \in [Sessions -> SUBSET Keys]
    BY <2>1, <2>2, NotifiedType DEF TypeOK
  <2>6. sessionKeys' \in [Sessions -> SUBSET Keys]
    BY <2>2 DEF TypeOK
  <2>7. needsNotification' \subseteq Sessions
    BY <2>2 DEF TypeOK
  <2>8. TypeOK'
    BY <2>3, <2>4, <2>5, <2>6, <2>7 DEF TypeOK
  <2>9. LockOwner'
    BY <2>3 DEF LockOwner, TypeOK
  <2>10. NothingLeftOver'
    BY <2>2, <2>4 DEF NothingLeftOver, Clean
  <2> QED
    BY <2>8, <2>9, <2>10
<1> QED
  BY <1>1, <1>2

\* __SCDynamicStoreSetValue, which add and touch share.
LEMMA SetValueInv ==
  ASSUME Inv, NEW s \in Sessions, NEW k \in Keys, NEW v \in Data,
         NEW sk \in BOOLEAN, SetValue(s, k, v, sk)
  PROVE  Inv'
<1>1. cur \in Store /\ sessionKeys \in [Sessions -> SUBSET Keys]
  BY DEF Inv, TypeOK
<1>2. setValue(cur, s, k, v, sk) \in Store
  BY <1>1, SetValueType
<1>3. claimed(sessionKeys, cur, s, k, sk) \in [Sessions -> SUBSET Keys]
  BY <1>1, ClaimedType
<1> QED
  BY <1>2, <1>3, CrashInv, FinishInv DEF SetValue

\* Every step of the server and of its clients keeps the invariant.
LEMMA NextInv ==
  ASSUME Inv, [Next]_vars
  PROVE  Inv'
<1>0. cur \in Store /\ sessionKeys \in [Sessions -> SUBSET Keys]
  BY DEF Inv, TypeOK
<1>1. ASSUME NEW s \in Sessions, NEW sk \in BOOLEAN, configopen(s, sk)
      PROVE  Inv'
  BY <1>1 DEF configopen, fresh, Inv, TypeOK, LockOwner, NothingLeftOver,
              storeVars, lockVars, watchVars, notifyVars
<1>2. ASSUME NEW s \in Sessions, configopen_refused(s)
      PROVE  Inv'
  BY <1>2, CrashInv DEF configopen_refused
<1>3. ASSUME NEW s \in Sessions, configclose(s)
      PROVE  Inv'
  BY <1>3, CloseInv DEF configclose, Request
<1>4. ASSUME NEW s \in Sessions, Die(s)
      PROVE  Inv'
  BY <1>4 DEF Die, Inv, TypeOK, LockOwner, NothingLeftOver, storeVars, lockVars,
              watchVars
<1>5. ASSUME NEW s \in Sessions, cleanupSession(s)
      PROVE  Inv'
  BY <1>5, CloseInv DEF cleanupSession
<1>6. ASSUME NEW s \in Sessions, configlock(s)
      PROVE  Inv'
  BY <1>6 DEF configlock, Request, Serviced, Inv, TypeOK, LockOwner,
              NothingLeftOver, sessionVars, watchVars, notifyVars
<1>7. ASSUME NEW s \in Sessions, configunlock(s)
      PROVE  Inv'
  <2>1. Commit(cur, sessionKeys)
    BY <1>7 DEF configunlock
  <2>2. TypeOK'
    BY <1>0, <1>7, <2>1, CommitType DEF configunlock, Inv, TypeOK, sessionVars,
                                        watchVars, notifyVars
  <2>3. LockOwner'
    BY <1>7 DEF configunlock, Inv, TypeOK, LockOwner, sessionVars
  <2>4. NothingLeftOver'
    BY <1>0, <2>1, CommitType DEF Inv, NothingLeftOver, Clean
  <2> QED
    BY <2>2, <2>3, <2>4 DEF Inv
<1>8. ASSUME NEW s \in Sessions, NEW k \in Keys, NEW v \in Data,
             \/ configset(s, k, v)
             \/ configadd(s, k, v)
             \/ configadd_s(s, k, v)
      PROVE  Inv'
  <2>1. (s \in useSessionKeys) \in BOOLEAN
    OBVIOUS
  <2>2. \E sk \in BOOLEAN : SetValue(s, k, v, sk)
    BY <1>8, <2>1 DEF configset, configadd, configadd_s
  <2> QED
    BY <2>2, SetValueInv
<1>9. ASSUME NEW s \in Sessions, NEW k \in Keys, NEW v \in Data,
             configtouch(s, k, v)
      PROVE  Inv'
  <2> DEFINE w == IF Defined(cur, k) /\ cur.storeData[k].data \notin Dates
                  THEN cur.storeData[k].data ELSE v
  <2>1. w \in Data
    BY <1>0, StoreFields DEF Defined, Entry
  <2>2. \E sk \in BOOLEAN : SetValue(s, k, w, sk)
    <3>1. (s \in useSessionKeys) \in BOOLEAN
      OBVIOUS
    <3> QED
      BY <1>9, <3>1 DEF configtouch
  <2> HIDE DEF w
  <2> QED
    BY <2>1, <2>2, SetValueInv
<1>10. ASSUME NEW s \in Sessions, NEW k \in Keys, NEW v \in Data,
              NEW r \in Keys, NEW n \in Keys, configset_m(s, k, v, r, n)
       PROVE  Inv'
  <2> DEFINE sk == s \in useSessionKeys
             c1 == setValue(cur, s, k, v, sk)
             c2 == removeValues(c1, {r})
             o1 == claimed(sessionKeys, cur, s, k, sk)
  <2>0. sk \in BOOLEAN
    OBVIOUS
  <2>1. c1 \in Store
    <3> HIDE DEF sk
    <3> QED
      BY <1>0, <2>0, SetValueType
  <2>2. c2 \in Store
    <3> HIDE DEF c1
    <3> QED
      BY <2>1, RemoveValuesType
  <2>3. o1 \in [Sessions -> SUBSET Keys]
    BY <1>0, ClaimedType
  <2>4. Crash \/ Finish(notifyValue(c2, s, n, sk), claimed(o1, c2, s, n, sk))
    BY <1>10 DEF configset_m
  <2> HIDE DEF c2, o1, sk
  <2>5. notifyValue(c2, s, n, sk) \in Store
    BY <2>0, <2>2, NotifyValueType
  <2>6. claimed(o1, c2, s, n, sk) \in [Sessions -> SUBSET Keys]
    BY <2>3, ClaimedType
  <2> QED
    BY <2>4, <2>5, <2>6, CrashInv, FinishInv
<1>11. ASSUME NEW s \in Sessions, NEW k \in Keys, configremove(s, k)
       PROVE  Inv'
  <2>1. removeValues(cur, {k}) \in Store
    BY <1>0, RemoveValuesType
  <2> QED
    BY <1>0, <1>11, <2>1, FinishInv DEF configremove
<1>12. ASSUME NEW s \in Sessions, NEW k \in Keys, confignotify(s, k)
       PROVE  Inv'
  <2> DEFINE sk == s \in useSessionKeys
  <2>0. sk \in BOOLEAN
    OBVIOUS
  <2>1. notifyValue(cur, s, k, sk) \in Store
    <3> HIDE DEF sk
    <3> QED
      BY <1>0, <2>0, NotifyValueType
  <2>2. claimed(sessionKeys, cur, s, k, sk) \in [Sessions -> SUBSET Keys]
    BY <1>0, ClaimedType
  <2> QED
    BY <1>12, <2>1, <2>2, CrashInv, FinishInv DEF confignotify
<1>13. ASSUME NEW s \in Sessions, NEW k \in Keys,
              notifyadd_key(s, k) \/ notifyremove_key(s, k)
       PROVE  Inv'
  <2>1. /\ _addWatcher(cur, s, k) \in Store
        /\ _removeWatcher(cur, s, k) \in Store
    BY <1>0, AddWatchesType, RemoveWatchesType DEF _addWatcher, _removeWatcher
  <2>2. /\ Clean(cur) => Clean(_addWatcher(cur, s, k))
        /\ Clean(cur) => Clean(_removeWatcher(cur, s, k))
    BY <1>0, WatchesFrame DEF _addWatcher, _removeWatcher, Clean
  <2>3. /\ keys[s] \cup {k} \in SUBSET Keys
        /\ keys[s] \ {k} \in SUBSET Keys
        /\ patterns[s] \in SUBSET Patterns
    BY DEF Inv, TypeOK
  <2> QED
    BY <1>13, <2>1, <2>2, <2>3, WatchInv DEF notifyadd_key, notifyremove_key
<1>14. ASSUME NEW s \in Sessions, NEW p \in Patterns,
              notifyadd_pattern(s, p) \/ notifyremove_pattern(s, p)
       PROVE  Inv'
  <2>1. /\ patternAddSession(cur, p, s) \in Store
        /\ patternRemoveSession(cur, p, s) \in Store
    BY <1>0, AddWatchesType, RemoveWatchesType
       DEF patternAddSession, patternRemoveSession
  <2>2. /\ Clean(cur) => Clean(patternAddSession(cur, p, s))
        /\ Clean(cur) => Clean(patternRemoveSession(cur, p, s))
    BY <1>0, WatchesFrame DEF patternAddSession, patternRemoveSession, Clean
  <2>3. /\ patterns[s] \cup {p} \in SUBSET Patterns
        /\ patterns[s] \ {p} \in SUBSET Patterns
        /\ keys[s] \in SUBSET Keys
    BY DEF Inv, TypeOK
  <2> QED
    BY <1>14, <2>1, <2>2, <2>3, CrashInv, WatchInv
       DEF notifyadd_pattern, notifyremove_pattern
<1>15. ASSUME NEW s \in Sessions, NEW ks \in SUBSET Keys, NEW newK \in SUBSET Keys,
              NEW ps \in SUBSET Patterns, NEW newP \in SUBSET Patterns,
              notifyset(s, ks, newK, ps, newP)
       PROVE  Inv'
  <2> DEFINE reached == newK = ks \ keys[s]
             oldP == IF reached THEN patterns[s] \ ps ELSE {}
             r1 == removeWatches(cur, s, keys[s] \ ks, {})
             c1 == addWatches(r1, s, newK, {})
             r2 == removeWatches(c1, s, {}, oldP)
             c2 == addWatches(r2, s, {}, newP)
  <2>1. oldP \in SUBSET Patterns
    BY DEF Inv, TypeOK
  <2>2. Crash \/ Watch(s, c2, oldP, (keys[s] \cap ks) \cup newK,
                       (patterns[s] \ oldP) \cup newP)
    BY <1>15 DEF notifyset
  <2>3. /\ (keys[s] \cap ks) \cup newK \in SUBSET Keys
        /\ (patterns[s] \ oldP) \cup newP \in SUBSET Patterns
    BY DEF Inv, TypeOK
  <2>4. r1 \in Store /\ (Clean(cur) => Clean(r1))
    BY <1>0, RemoveWatchesType, WatchesFrame DEF Clean
  <2> HIDE DEF oldP, r1
  <2>5. c1 \in Store /\ (Clean(r1) => Clean(c1))
    BY <2>4, AddWatchesType, WatchesFrame DEF Clean
  <2> HIDE DEF c1
  <2>6. r2 \in Store /\ (Clean(c1) => Clean(r2))
    BY <2>1, <2>5, RemoveWatchesType, WatchesFrame DEF Clean
  <2> HIDE DEF r2
  <2>7. c2 \in Store /\ (Clean(r2) => Clean(c2))
    BY <2>6, AddWatchesType, WatchesFrame DEF Clean
  <2> HIDE DEF c2
  <2> QED
    BY <2>2, <2>3, <2>4, <2>5, <2>6, <2>7, CrashInv, WatchInv
<1>16. ASSUME NEW s \in Sessions,
              notifyviaport(s) \/ notifyviafd(s) \/ notifyviasignal(s)
       PROVE  Inv'
  BY <1>16
     DEF notifyviaport, notifyviafd, notifyviasignal, register, pending, Inv,
         TypeOK, LockOwner, NothingLeftOver, lockVars, sessionVars, watchVars
<1>17. ASSUME NEW s \in Sessions,
              \/ notifyviafd_fails(s)
              \/ notifyviaport_again(s)
              \/ notifycancel(s)
       PROVE  Inv'
  BY <1>17 DEF notifyviafd_fails, notifyviaport_again, notifycancel, pending, Inv,
               TypeOK, LockOwner, NothingLeftOver, storeVars, lockVars,
               sessionVars, watchVars, notifyVars
<1>18. ASSUME NEW s \in Sessions, notifychanges(s) \/ Wake(s)
       PROVE  Inv'
  BY <1>18 DEF notifychanges, Wake, Inv, TypeOK, LockOwner, NothingLeftOver,
               storeVars, lockVars, sessionVars, watchVars
<1>19. ASSUME pushNotifications
       PROVE  Inv'
  <2>1. CASE Crash
    BY <2>1, CrashInv
  <2>2. CASE ~Crash
    BY <1>19, <2>2 DEF pushNotifications, Inv, TypeOK, LockOwner, NothingLeftOver,
                       lockVars, sessionVars, watchVars
  <2> QED
    BY <2>1, <2>2
<1>20. CASE UNCHANGED vars
  BY <1>20 DEF vars, Inv, TypeOK, LockOwner, NothingLeftOver, storeVars, lockVars,
               sessionVars, watchVars, notifyVars
<1> QED
  BY <1>1, <1>2, <1>3, <1>4, <1>5, <1>6, <1>7, <1>8, <1>9, <1>10, <1>11, <1>12,
     <1>13, <1>14, <1>15, <1>16, <1>17, <1>18, <1>19, <1>20 DEF Next

\* All state of the server stays within its type, whatever clients do.
THEOREM TypeCorrect == Spec => []TypeOK
<1>1. Inv => TypeOK
  BY DEF Inv
<1> QED
  BY InitInv, NextInv, <1>1, PTL DEF Spec

\* The lock has one live owner at most, and the run loop listens to it.
THEOREM LockHasOneOwner == Spec => []LockOwner
<1>1. Inv => LockOwner
  BY DEF Inv
<1> QED
  BY InitInv, NextInv, <1>1, PTL DEF Spec

\* Unlock, close and the death of the holder all finish the transaction.
THEOREM TransactionsEnd == Spec => []NothingLeftOver
<1>1. Inv => NothingLeftOver
  BY DEF Inv
<1> QED
  BY InitInv, NextInv, <1>1, PTL DEF Spec

-----------------------------------------------------------------------------
(* Wakeups *)

\* Why no wakeup is lost: a live client with a notifier has a channel that the
\* server can still write to, and a closed session has no notifier.
Channels ==
  /\ \A s \in sessions \ dead : notifyStatus[s] # "none" => handle[s] = "live"
  /\ \A s \in Sessions \ sessions : notifyStatus[s] = "none"

WakeInv == TypeOK /\ Channels /\ NoLostWakeup

\* Steps that leave the notification state alone.
LEMMA QuietWake ==
  ASSUME WakeInv,
         UNCHANGED <<changes, needsNotification, sessionVars, notifyVars>>
  PROVE  (Channels /\ NoLostWakeup)'
BY DEF WakeInv, Channels, NoLostWakeup, sessionVars, notifyVars

\* A fault leaves the notification state alone.
LEMMA CrashWake ==
  ASSUME WakeInv, Crash
  PROVE  (Channels /\ NoLostWakeup)'
BY QuietWake DEF Crash, storeVars

\* A commit asks for a kick for every session whose changes it adds to.
LEMMA CommitWake ==
  ASSUME WakeInv, NEW c, NEW owned, Commit(c, owned),
         UNCHANGED <<sessionVars, notifyVars>>
  PROVE  (Channels /\ NoLostWakeup)'
BY DEF WakeInv, TypeOK, Commit, Channels, NoLostWakeup, sessionVars, notifyVars

LEMMA FinishWake ==
  ASSUME WakeInv, NEW c, NEW owned, Finish(c, owned)
  PROVE  (Channels /\ NoLostWakeup)'
BY CommitWake, QuietWake DEF Finish

LEMMA SetValueWake ==
  ASSUME WakeInv, NEW s, NEW k, NEW v, NEW sk, SetValue(s, k, v, sk)
  PROVE  (Channels /\ NoLostWakeup)'
BY CrashWake, FinishWake DEF SetValue

LEMMA WatchWake ==
  ASSUME WakeInv, NEW s, NEW c, NEW freed, NEW ks, NEW ps,
         Watch(s, c, freed, ks, ps)
  PROVE  (Channels /\ NoLostWakeup)'
BY QuietWake DEF Watch

\* The closing session gives up its notifier; the others are told of the keys
\* that go with it.
LEMMA CloseWake ==
  ASSUME WakeInv, NEW s \in Sessions, NEW c, Close(s, c)
  PROVE  (Channels /\ NoLostWakeup)'
<1>1. CASE Crash
  BY <1>1, CrashWake
<1>2. CASE ~Crash
  <2>1. PICK c2 :
          /\ changes' = [t \in Sessions |->
               IF t = s THEN {} ELSE changes[t] \cup notified(c2, t)]
          /\ needsNotification' =
               (needsNotification \ {s}) \cup {t \in Sessions : notified(c2, t) # {}}
    BY <1>2 DEF Close
  <2>2. /\ sessions' = sessions \ {s}
        /\ dead' = dead \ {s}
        /\ notifyStatus' = [notifyStatus EXCEPT ![s] = "none"]
        /\ handle' = [handle EXCEPT ![s] = "none"]
        /\ kicked' = kicked \ {s}
        /\ awake' = awake \ {s}
    BY <1>2 DEF Close
  <2> QED
    BY <2>1, <2>2 DEF WakeInv, TypeOK, Channels, NoLostWakeup
<1> QED
  BY <1>1, <1>2

\* Every step of the server, of a client or of the kernel preserves WakeInv,
\* provided that no client registers a second notifier.
LEMMA NextWake ==
  ASSUME "RegisterTwice" \notin Allow, WakeInv, TypeOK', [Next]_vars
  PROVE  WakeInv'
<1> SUFFICES (Channels /\ NoLostWakeup)'
  BY DEF WakeInv
<1>1. ASSUME NEW s \in Sessions, NEW sk \in BOOLEAN, configopen(s, sk)
      PROVE  (Channels /\ NoLostWakeup)'
  BY <1>1 DEF configopen, fresh, WakeInv, TypeOK, Channels, NoLostWakeup,
              storeVars, notifyVars
<1>2. ASSUME NEW s \in Sessions, configopen_refused(s)
      PROVE  (Channels /\ NoLostWakeup)'
  BY <1>2, CrashWake DEF configopen_refused
<1>3. ASSUME NEW s \in Sessions, configclose(s) \/ cleanupSession(s)
      PROVE  (Channels /\ NoLostWakeup)'
  BY <1>3, CloseWake DEF configclose, cleanupSession
<1>4. ASSUME NEW s \in Sessions, Die(s)
      PROVE  (Channels /\ NoLostWakeup)'
  BY <1>4 DEF Die, WakeInv, TypeOK, Channels, NoLostWakeup, storeVars
<1>5. ASSUME NEW s \in Sessions, configlock(s) \/ configunlock(s)
      PROVE  (Channels /\ NoLostWakeup)'
  BY <1>5, QuietWake, CommitWake DEF configlock, configunlock
<1>6. ASSUME NEW s \in Sessions, NEW k \in Keys, NEW v \in Data,
             \/ configset(s, k, v)
             \/ configadd(s, k, v)
             \/ configadd_s(s, k, v)
             \/ configtouch(s, k, v)
      PROVE  (Channels /\ NoLostWakeup)'
  BY <1>6, SetValueWake DEF configset, configadd, configadd_s, configtouch
<1>7. ASSUME NEW s \in Sessions, NEW k \in Keys, NEW v \in Data,
             NEW r \in Keys, NEW n \in Keys, configset_m(s, k, v, r, n)
      PROVE  (Channels /\ NoLostWakeup)'
  BY <1>7, CrashWake, FinishWake DEF configset_m
<1>8. ASSUME NEW s \in Sessions, NEW k \in Keys,
             configremove(s, k) \/ confignotify(s, k)
      PROVE  (Channels /\ NoLostWakeup)'
  BY <1>8, CrashWake, FinishWake DEF configremove, confignotify
<1>9. ASSUME NEW s \in Sessions, NEW k \in Keys,
             notifyadd_key(s, k) \/ notifyremove_key(s, k)
      PROVE  (Channels /\ NoLostWakeup)'
  BY <1>9, WatchWake DEF notifyadd_key, notifyremove_key
<1>10. ASSUME NEW s \in Sessions, NEW p \in Patterns,
              notifyadd_pattern(s, p) \/ notifyremove_pattern(s, p)
       PROVE  (Channels /\ NoLostWakeup)'
  BY <1>10, CrashWake, WatchWake DEF notifyadd_pattern, notifyremove_pattern
<1>11. ASSUME NEW s \in Sessions, NEW ks \in SUBSET Keys, NEW newK \in SUBSET Keys,
              NEW ps \in SUBSET Patterns, NEW newP \in SUBSET Patterns,
              notifyset(s, ks, newK, ps, newP)
       PROVE  (Channels /\ NoLostWakeup)'
  BY <1>11, CrashWake, WatchWake DEF notifyset
<1>12. ASSUME NEW s \in Sessions,
              notifyviaport(s) \/ notifyviafd(s) \/ notifyviasignal(s)
       PROVE  (Channels /\ NoLostWakeup)'
  BY <1>12 DEF notifyviaport, notifyviafd, notifyviasignal, register, Request,
               Serviced, pending, WakeInv, TypeOK, Channels, NoLostWakeup,
               sessionVars
<1>13. ASSUME NEW s \in Sessions, notifyviafd_fails(s)
       PROVE  (Channels /\ NoLostWakeup)'
  BY <1>13 DEF notifyviafd_fails, WakeInv, TypeOK, Channels, NoLostWakeup,
               sessionVars, notifyVars
<1>14. ASSUME NEW s \in Sessions, notifyviaport_again(s)
       PROVE  (Channels /\ NoLostWakeup)'
  BY <1>14 DEF notifyviaport_again
<1>15. ASSUME NEW s \in Sessions, notifycancel(s)
       PROVE  (Channels /\ NoLostWakeup)'
  BY <1>15 DEF notifycancel, WakeInv, TypeOK, Channels, NoLostWakeup, sessionVars
<1>16. ASSUME NEW s \in Sessions, notifychanges(s)
       PROVE  (Channels /\ NoLostWakeup)'
  BY <1>16 DEF notifychanges, WakeInv, TypeOK, Channels, NoLostWakeup, sessionVars
<1>17. ASSUME NEW s \in Sessions, Wake(s)
       PROVE  (Channels /\ NoLostWakeup)'
  BY <1>17 DEF Wake, WakeInv, TypeOK, Channels, NoLostWakeup, storeVars, sessionVars
<1>18. ASSUME pushNotifications
       PROVE  (Channels /\ NoLostWakeup)'
  <2>1. CASE Crash
    BY <2>1, CrashWake
  <2>2. CASE ~Crash
    BY <1>18, <2>2 DEF pushNotifications, WakeInv, TypeOK, Channels, NoLostWakeup,
                       sessionVars
  <2> QED
    BY <2>1, <2>2
<1>19. CASE UNCHANGED vars
  BY <1>19, QuietWake DEF vars, storeVars
<1> QED
  BY <1>1, <1>2, <1>3, <1>4, <1>5, <1>6, <1>7, <1>8, <1>9, <1>10, <1>11, <1>12,
     <1>13, <1>14, <1>15, <1>16, <1>17, <1>18, <1>19 DEF Next

\* A change that is committed while a live client has a notifier, or before it
\* registers one, is announced: pushNotifications still has to kick the client,
\* or the kick waits in its channel, or the client is about to ask.
THEOREM WakeupsArrive == ASSUME "RegisterTwice" \notin Allow
                         PROVE  Spec => []NoLostWakeup
<1>1. Init => Channels /\ NoLostWakeup
  BY DEF Init, Channels, NoLostWakeup
<1>2. Init /\ TypeOK => WakeInv
  BY <1>1 DEF WakeInv
<1>3. WakeInv /\ TypeOK' /\ [Next]_vars => WakeInv'
  BY NextWake
<1>4. WakeInv => NoLostWakeup
  BY DEF WakeInv
<1> QED
  BY <1>2, <1>3, <1>4, TypeCorrect, PTL DEF Spec

-----------------------------------------------------------------------------
(* The watchers *)

\* The current store, and while it is locked the saved one, agree with what
\* the sessions watch.  Both are needed: Close starts from either of them.
Books == \A c \in Visible : Agree(c, keys, patterns)

\* Nothing is kept for a session that is not open.
ClosedEmpty ==
  \A s \in Sessions \ sessions :
    /\ keys[s] = {} /\ patterns[s] = {}
    /\ changes[s] = {} /\ sessionKeys[s] = {}
    /\ s \notin needsNotification

BookInv == Inv /\ Books /\ ClosedEmpty

LEMMA VisibleBooks ==
  /\ Books <=> /\ Agree(cur, keys, patterns)
               /\ storeLocked > 0 => Agree(sav, keys, patterns)
  /\ Books' <=> /\ Agree(cur', keys', patterns')
                /\ storeLocked' > 0 => Agree(sav', keys', patterns')
BY DEF Books, Visible

\* Steps that change neither the stores nor what is watched.
LEMMA QuietBooks ==
  ASSUME Books, UNCHANGED <<cur, sav, storeLocked, keys, patterns>>
  PROVE  Books'
BY VisibleBooks

\* A fault leaves the books alone.
LEMMA CrashBooks ==
  ASSUME BookInv, Crash
  PROVE  (Books /\ ClosedEmpty)'
<1>1. Books'
  BY QuietBooks DEF BookInv, Crash, storeVars, lockVars, watchVars
<1>2. ClosedEmpty'
  BY DEF BookInv, ClosedEmpty, Crash, storeVars, watchVars, sessionVars
<1> QED
  BY <1>1, <1>2

\* The commit of a store that agrees: the closed sessions watch nothing in it.
LEMMA CommitBooks ==
  ASSUME BookInv, NEW c \in Store, NEW owned \in [Sessions -> SUBSET Keys],
         Agree(c, keys, patterns),
         \A t \in Sessions \ sessions : owned[t] = {},
         Commit(c, owned), storeLocked' = 0,
         UNCHANGED <<keys, patterns, sessions>>
  PROVE  (Books /\ ClosedEmpty)'
<1>0. /\ keys \in [Sessions -> SUBSET Keys]
      /\ patterns \in [Sessions -> SUBSET Patterns]
  BY DEF BookInv, Inv, TypeOK
<1>1. Books'
  <2>1. Agree(committed(c), keys, patterns)
    BY <1>0, AgreeCommitted
  <2> QED
    BY <2>1, VisibleBooks DEF Commit
<1>2. ASSUME NEW t \in Sessions \ sessions
      PROVE  notified(c, t) = {}
  <2>1. keys[t] = {} /\ patterns[t] = {}
    BY DEF BookInv, ClosedEmpty
  <2>2. notified(c, t) =
          {k \in c.changedKeys : k \in keys[t] \/ \E p \in patterns[t] : <<p, k>> \in Matches}
    BY <1>0, NotifiedAgree
  <2> QED
    BY <2>1, <2>2
<1>3. ClosedEmpty'
  BY <1>2 DEF BookInv, ClosedEmpty, Commit
<1> QED
  BY <1>1, <1>3

LEMMA FinishBooks ==
  ASSUME BookInv, NEW c \in Store, NEW owned \in [Sessions -> SUBSET Keys],
         Agree(c, keys, patterns),
         \A t \in Sessions \ sessions : owned[t] = {},
         Finish(c, owned)
  PROVE  (Books /\ ClosedEmpty)'
<1>1. CASE storeLocked > 0
  <2>1. Books'
    BY <1>1, VisibleBooks DEF BookInv, Finish, lockVars, watchVars
  <2>2. ClosedEmpty'
    BY <1>1 DEF BookInv, ClosedEmpty, Finish, watchVars, sessionVars
  <2> QED
    BY <2>1, <2>2
<1>2. CASE ~(storeLocked > 0)
  <2>1. Commit(c, owned)
    BY <1>2 DEF Finish
  <2>2. storeLocked' = 0
    BY <1>2 DEF Finish, lockVars, BookInv, Inv, TypeOK
  <2> QED
    BY <2>1, <2>2, CommitBooks DEF Finish, watchVars, sessionVars
<1> QED
  BY <1>1, <1>2

\* An open session claims a key.
LEMMA ClaimedClosed ==
  ASSUME NEW owned \in [Sessions -> SUBSET Keys],
         \A t \in Sessions \ sessions : owned[t] = {},
         NEW c, NEW s \in sessions, s \in Sessions, NEW k \in Keys, NEW sk
  PROVE  /\ claimed(owned, c, s, k, sk) \in [Sessions -> SUBSET Keys]
         /\ \A t \in Sessions \ sessions : claimed(owned, c, s, k, sk)[t] = {}
         /\ \A t \in Sessions : owned[t] \subseteq claimed(owned, c, s, k, sk)[t]
         /\ setClaims(c, k, sk) => k \in claimed(owned, c, s, k, sk)[s]
BY DEF claimed

LEMMA SetValueBooks ==
  ASSUME BookInv, NEW s \in Sessions, s \in sessions, NEW k \in Keys, NEW v \in Data,
         NEW sk \in BOOLEAN, SetValue(s, k, v, sk)
  PROVE  (Books /\ ClosedEmpty)'
<1>0. /\ cur \in Store
      /\ sessionKeys \in [Sessions -> SUBSET Keys]
      /\ keys \in [Sessions -> SUBSET Keys]
      /\ patterns \in [Sessions -> SUBSET Patterns]
      /\ Agree(cur, keys, patterns)
      /\ \A t \in Sessions \ sessions : sessionKeys[t] = {}
  BY VisibleBooks DEF BookInv, Inv, TypeOK, ClosedEmpty
<1>1. /\ setValue(cur, s, k, v, sk) \in Store
      /\ Agree(setValue(cur, s, k, v, sk), keys, patterns)
  BY <1>0, SetValueType, AgreeSet
<1>2. /\ claimed(sessionKeys, cur, s, k, sk) \in [Sessions -> SUBSET Keys]
      /\ \A t \in Sessions \ sessions : claimed(sessionKeys, cur, s, k, sk)[t] = {}
  BY <1>0, ClaimedClosed
<1>3. Crash \/ Finish(setValue(cur, s, k, v, sk), claimed(sessionKeys, cur, s, k, sk))
  BY DEF SetValue
<1> QED
  BY <1>1, <1>2, <1>3, CrashBooks, FinishBooks

\* A session changes what it watches, between transactions.
LEMMA WatchBooks ==
  ASSUME BookInv, NEW s \in sessions, NEW c, NEW freed, NEW ks, NEW ps,
         Watch(s, c, freed, ks, ps), storeLocked = 0,
         Agree(c, [keys EXCEPT ![s] = ks], [patterns EXCEPT ![s] = ps])
  PROVE  (Books /\ ClosedEmpty)'
<1>1. Books'
  BY VisibleBooks DEF Watch, lockVars
<1>2. ClosedEmpty'
  BY DEF BookInv, Inv, TypeOK, ClosedEmpty, Watch, sessionVars
<1> QED
  BY <1>1, <1>2

\* A session leaves the watchers of the store that it closes, and some of the
\* values go.
LEMMA CloseAgree ==
  ASSUME BookInv, NEW s \in Sessions, NEW c \in Visible, NEW own \in SUBSET Keys
  PROVE  LET c1 == removeWatches(c, s, keys[s], patterns[s])
         IN  /\ removeValues(c1, own) \in Store
             /\ Agree(removeValues(c1, own), [keys EXCEPT ![s] = {}],
                                             [patterns EXCEPT ![s] = {}])
<1> DEFINE c1 == removeWatches(c, s, keys[s], patterns[s])
           K == [keys EXCEPT ![s] = {}]
           P == [patterns EXCEPT ![s] = {}]
<1>0. /\ c \in Store /\ Agree(c, keys, patterns)
      /\ keys \in [Sessions -> SUBSET Keys]
      /\ patterns \in [Sessions -> SUBSET Patterns]
  BY DEF BookInv, Inv, TypeOK, Books, Visible
<1>1. /\ K \in [Sessions -> SUBSET Keys]
      /\ P \in [Sessions -> SUBSET Patterns]
      /\ \A t \in Sessions \ {s} : K[t] = keys[t] /\ P[t] = patterns[t]
  BY <1>0
<1>2. /\ keys[s] \in SUBSET keys[s] /\ K[s] = keys[s] \ keys[s]
      /\ patterns[s] \in SUBSET patterns[s] /\ P[s] = patterns[s] \ patterns[s]
  BY <1>0
<1> HIDE DEF K, P
<1>3. c1 \in Store
  BY <1>0, RemoveWatchesType
<1>4. Agree(c1, K, P)
  BY <1>0, <1>1, <1>2, AgreeRemove
<1> HIDE DEF c1
<1>5. removeValues(c1, own) \in Store /\ Agree(removeValues(c1, own), K, P)
  BY <1>3, <1>4, RemoveValuesType, AgreeRemoveValues
<1> QED
  BY <1>5 DEF c1, K, P

\* The end of a session, on any of the visible stores.
LEMMA CloseBooks ==
  ASSUME BookInv, NEW s \in Sessions, Serviced(s), NEW c \in Visible, Close(s, c)
  PROVE  (Books /\ ClosedEmpty)'
<1> DEFINE c1 == removeWatches(c, s, keys[s], patterns[s])
           own == {k \in sessionKeys[s] : c1.storeData[k].session = s /\ CanLock(s)}
           c2 == removeValues(c1, own)
           bad == \E p \in patterns[s] : patternRemoveFaults(c, p, s)
<1>1. CASE bad
  BY <1>1, CrashBooks DEF Close
<1>2. CASE ~bad
  <2>0. /\ c \in Store /\ Agree(c, keys, patterns)
        /\ keys \in [Sessions -> SUBSET Keys]
        /\ patterns \in [Sessions -> SUBSET Patterns]
        /\ sessionKeys \in [Sessions -> SUBSET Keys]
    BY DEF BookInv, Inv, TypeOK, Books, Visible
  <2>1. /\ cur' = committed(c2)
        /\ changes' = [t \in Sessions |->
             IF t = s THEN {} ELSE changes[t] \cup notified(c2, t)]
        /\ sessionKeys' = [t \in Sessions |->
             IF t = s THEN {}
             ELSE {k \in sessionKeys[t] : <<t, k>> \notin c2.removedSessionKeys}]
        /\ needsNotification' =
             (needsNotification \ {s}) \cup {t \in Sessions : notified(c2, t) # {}}
        /\ storeLocked' = IF s \in locked THEN 0 ELSE storeLocked
        /\ sessions' = sessions \ {s}
        /\ keys' = [keys EXCEPT ![s] = {}]
        /\ patterns' = [patterns EXCEPT ![s] = {}]
    BY <1>2 DEF Close
  <2>2. /\ keys' \in [Sessions -> SUBSET Keys]
        /\ patterns' \in [Sessions -> SUBSET Patterns]
        /\ keys'[s] = {} /\ patterns'[s] = {}
        /\ \A t \in Sessions \ {s} : keys'[t] = keys[t] /\ patterns'[t] = patterns[t]
    BY <2>0, <2>1
  <2>3. own \in SUBSET Keys
    BY <2>0
  <2> HIDE DEF own
  <2>5. c2 \in Store /\ Agree(c2, keys', patterns')
    BY <2>1, <2>3, CloseAgree
  <2> HIDE DEF c2
  <2>6. Agree(cur', keys', patterns')
    BY <2>1, <2>2, <2>5, AgreeCommitted
  <2>7. storeLocked' = 0
    BY <2>1 DEF BookInv, Inv, LockOwner, TypeOK, Serviced
  <2>8. ASSUME NEW t \in Sessions \ sessions'
        PROVE  keys'[t] = {} /\ patterns'[t] = {} /\ notified(c2, t) = {}
    <3>1. keys'[t] = {} /\ patterns'[t] = {}
      BY <2>1, <2>2 DEF BookInv, ClosedEmpty
    <3>2. notified(c2, t) =
            {k \in c2.changedKeys : k \in keys'[t] \/ \E p \in patterns'[t] : <<p, k>> \in Matches}
      BY <2>2, <2>5, NotifiedAgree
    <3> QED
      BY <3>1, <3>2
  <2>9. ClosedEmpty'
    BY <2>1, <2>8 DEF BookInv, ClosedEmpty
  <2>10. Books'
    BY <2>6, <2>7, VisibleBooks
  <2> QED
    BY <2>9, <2>10
<1> QED
  BY <1>1, <1>2

\* The stores that __SCDynamicStoreSetMultiple goes through.
LEMMA MultipleBooks ==
  ASSUME BookInv, NEW s \in Sessions, s \in sessions, NEW k \in Keys, NEW v \in Data,
         NEW r \in Keys, NEW n \in Keys, NEW sk \in BOOLEAN
  PROVE  LET c2 == removeValues(setValue(cur, s, k, v, sk), {r})
         IN  /\ c2 \in Store
             /\ Agree(c2, keys, patterns)
             /\ notifyValue(c2, s, n, sk) \in Store
             /\ Agree(notifyValue(c2, s, n, sk), keys, patterns)
<1>0. /\ cur \in Store
      /\ keys \in [Sessions -> SUBSET Keys]
      /\ patterns \in [Sessions -> SUBSET Patterns]
      /\ Agree(cur, keys, patterns)
  BY VisibleBooks DEF BookInv, Inv, TypeOK
<1> DEFINE c1 == setValue(cur, s, k, v, sk)
           c2 == removeValues(c1, {r})
<1>1. c1 \in Store /\ Agree(c1, keys, patterns)
  BY <1>0, SetValueType, AgreeSet
<1> HIDE DEF c1
<1>2. c2 \in Store /\ Agree(c2, keys, patterns)
  BY <1>1, RemoveValuesType, AgreeRemoveValues
<1> HIDE DEF c2
<1>3. notifyValue(c2, s, n, sk) \in Store /\ Agree(notifyValue(c2, s, n, sk), keys, patterns)
  BY <1>0, <1>2, NotifyValueType, AgreeNotify
<1> QED
  BY <1>2, <1>3 DEF c1, c2

\* Every step keeps the books, provided that what is watched does not change
\* in the middle of a transaction.
LEMMA NextBooks ==
  ASSUME "WatchUnderLock" \notin Allow, BookInv, [Next]_vars
  PROVE  (Books /\ ClosedEmpty)'
<1>0. /\ cur \in Store
      /\ sessionKeys \in [Sessions -> SUBSET Keys]
      /\ keys \in [Sessions -> SUBSET Keys]
      /\ patterns \in [Sessions -> SUBSET Patterns]
      /\ Agree(cur, keys, patterns)
      /\ \A t \in Sessions \ sessions : sessionKeys[t] = {}
      /\ sessions \subseteq Sessions
  BY VisibleBooks DEF BookInv, Inv, TypeOK, ClosedEmpty
<1>01. ASSUME NEW s, MayWatch(s)
       PROVE  storeLocked = 0 /\ cur.deferredRemovals = {}
  BY <1>01 DEF MayWatch, BookInv, Inv, NothingLeftOver
<1>1. ASSUME NEW s \in Sessions, NEW sk \in BOOLEAN, configopen(s, sk)
      PROVE  (Books /\ ClosedEmpty)'
  <2>1. Books'
    BY <1>1, QuietBooks DEF configopen, BookInv, storeVars, lockVars, watchVars
  <2>2. ClosedEmpty'
    BY <1>1 DEF configopen, BookInv, ClosedEmpty, storeVars, watchVars
  <2> QED
    BY <2>1, <2>2
<1>2. ASSUME NEW s \in Sessions, configopen_refused(s)
      PROVE  (Books /\ ClosedEmpty)'
  BY <1>2, CrashBooks DEF configopen_refused
<1>3. ASSUME NEW s \in Sessions, configclose(s)
      PROVE  (Books /\ ClosedEmpty)'
  BY <1>3, CloseBooks DEF configclose, Request, Visible
<1>4. ASSUME NEW s \in Sessions, Die(s)
      PROVE  (Books /\ ClosedEmpty)'
  <2>1. Books'
    BY <1>4, QuietBooks DEF Die, BookInv, storeVars, lockVars, watchVars
  <2>2. ClosedEmpty'
    BY <1>4 DEF Die, BookInv, ClosedEmpty, storeVars, watchVars
  <2> QED
    BY <2>1, <2>2
<1>5. ASSUME NEW s \in Sessions, cleanupSession(s)
      PROVE  (Books /\ ClosedEmpty)'
  <2>1. (IF storeLocked > 0 /\ s \in locked THEN sav ELSE cur) \in Visible
    BY DEF Visible
  <2> QED
    BY <1>5, <2>1, CloseBooks DEF cleanupSession
<1>6. ASSUME NEW s \in Sessions, configlock(s)
      PROVE  (Books /\ ClosedEmpty)'
  <2>1. Books'
    BY <1>0, <1>6, VisibleBooks DEF configlock, watchVars
  <2>2. ClosedEmpty'
    BY <1>6 DEF configlock, BookInv, ClosedEmpty, sessionVars, watchVars
  <2> QED
    BY <2>1, <2>2
<1>7. ASSUME NEW s \in Sessions, configunlock(s)
      PROVE  (Books /\ ClosedEmpty)'
  <2>1. /\ Commit(cur, sessionKeys)
        /\ storeLocked' = 0
        /\ UNCHANGED <<keys, patterns, sessions>>
    BY <1>7 DEF configunlock, sessionVars, watchVars
  <2> QED
    BY <1>0, <2>1, CommitBooks
<1>8. ASSUME NEW s \in Sessions, NEW k \in Keys, NEW v \in Data,
             \/ configset(s, k, v)
             \/ configadd(s, k, v)
             \/ configadd_s(s, k, v)
      PROVE  (Books /\ ClosedEmpty)'
  <2>1. (s \in useSessionKeys) \in BOOLEAN
    OBVIOUS
  <2>2. \E sk \in BOOLEAN : SetValue(s, k, v, sk)
    BY <1>8, <2>1 DEF configset, configadd, configadd_s
  <2>3. s \in sessions
    BY <1>8 DEF configset, configadd, configadd_s, Request, Serviced
  <2> QED
    BY <2>2, <2>3, SetValueBooks
<1>9. ASSUME NEW s \in Sessions, NEW k \in Keys, NEW v \in Data,
             configtouch(s, k, v)
      PROVE  (Books /\ ClosedEmpty)'
  <2> DEFINE w == IF Defined(cur, k) /\ cur.storeData[k].data \notin Dates
                  THEN cur.storeData[k].data ELSE v
  <2>1. w \in Data
    BY <1>0, StoreFields DEF Defined, Entry
  <2>2. \E sk \in BOOLEAN : SetValue(s, k, w, sk)
    <3>1. (s \in useSessionKeys) \in BOOLEAN
      OBVIOUS
    <3> QED
      BY <1>9, <3>1 DEF configtouch
  <2>3. s \in sessions
    BY <1>9 DEF configtouch, Request, Serviced
  <2> HIDE DEF w
  <2> QED
    BY <2>1, <2>2, <2>3, SetValueBooks
<1>10. ASSUME NEW s \in Sessions, NEW k \in Keys, NEW v \in Data,
              NEW r \in Keys, NEW n \in Keys, configset_m(s, k, v, r, n)
       PROVE  (Books /\ ClosedEmpty)'
  <2> DEFINE sk == s \in useSessionKeys
             c2 == removeValues(setValue(cur, s, k, v, sk), {r})
             o1 == claimed(sessionKeys, cur, s, k, sk)
             o2 == claimed(o1, c2, s, n, sk)
  <2>1. sk \in BOOLEAN /\ s \in sessions
    BY <1>10 DEF configset_m, Request, Serviced
  <2>2. Crash \/ Finish(notifyValue(c2, s, n, sk), o2)
    BY <1>10 DEF configset_m
  <2> HIDE DEF sk
  <2>3. /\ notifyValue(c2, s, n, sk) \in Store
        /\ Agree(notifyValue(c2, s, n, sk), keys, patterns)
    BY <2>1, MultipleBooks
  <2> HIDE DEF c2
  <2>4. /\ o1 \in [Sessions -> SUBSET Keys]
        /\ \A t \in Sessions \ sessions : o1[t] = {}
    BY <1>0, <2>1, ClaimedClosed
  <2> HIDE DEF o1
  <2>5. /\ o2 \in [Sessions -> SUBSET Keys]
        /\ \A t \in Sessions \ sessions : o2[t] = {}
    BY <2>1, <2>4, ClaimedClosed
  <2> HIDE DEF o2
  <2> QED
    BY <2>2, <2>3, <2>5, CrashBooks, FinishBooks
<1>11. ASSUME NEW s \in Sessions, NEW k \in Keys, configremove(s, k)
       PROVE  (Books /\ ClosedEmpty)'
  <2>1. /\ removeValues(cur, {k}) \in Store
        /\ Agree(removeValues(cur, {k}), keys, patterns)
    BY <1>0, RemoveValuesType, AgreeRemoveValues
  <2> QED
    BY <1>0, <1>11, <2>1, FinishBooks DEF configremove
<1>12. ASSUME NEW s \in Sessions, NEW k \in Keys, confignotify(s, k)
       PROVE  (Books /\ ClosedEmpty)'
  <2> DEFINE sk == s \in useSessionKeys
             o == claimed(sessionKeys, cur, s, k, sk)
  <2>1. sk \in BOOLEAN /\ s \in sessions
    BY <1>12 DEF confignotify, Request, Serviced
  <2>2. Crash \/ Finish(notifyValue(cur, s, k, sk), o)
    BY <1>12 DEF confignotify
  <2> HIDE DEF sk
  <2>3. /\ notifyValue(cur, s, k, sk) \in Store
        /\ Agree(notifyValue(cur, s, k, sk), keys, patterns)
    BY <1>0, <2>1, NotifyValueType, AgreeNotify
  <2>4. /\ o \in [Sessions -> SUBSET Keys]
        /\ \A t \in Sessions \ sessions : o[t] = {}
    BY <1>0, <2>1, ClaimedClosed
  <2> HIDE DEF o
  <2> QED
    BY <2>2, <2>3, <2>4, CrashBooks, FinishBooks
<1>13. ASSUME NEW s \in Sessions, NEW k \in Keys, notifyadd_key(s, k)
       PROVE  (Books /\ ClosedEmpty)'
  <2>1. /\ s \in sessions /\ storeLocked = 0 /\ cur.deferredRemovals = {}
        /\ k \notin keys[s]
        /\ Watch(s, addWatches(cur, s, {k}, {}), {}, keys[s] \cup {k}, patterns[s])
    BY <1>01, <1>13 DEF notifyadd_key, Request, Serviced, _addWatcher
  <2> DEFINE L == [keys EXCEPT ![s] = keys[s] \cup {k}]
             Q == [patterns EXCEPT ![s] = patterns[s]]
  <2>2. /\ L \in [Sessions -> SUBSET Keys] /\ Q \in [Sessions -> SUBSET Patterns]
        /\ L[s] = keys[s] \cup {k} /\ Q[s] = patterns[s] \cup {}
        /\ \A t \in Sessions \ {s} : L[t] = keys[t] /\ Q[t] = patterns[t]
    BY <1>0
  <2>3. {k} \cap keys[s] = {} /\ {} \cap patterns[s] = {}
    BY <2>1
  <2> HIDE DEF L, Q
  <2>4. Agree(addWatches(cur, s, {k}, {}), L, Q)
    BY <1>0, <2>1, <2>2, <2>3, AgreeAdd
  <2> QED
    BY <2>1, <2>4, WatchBooks DEF L, Q
<1>14. ASSUME NEW s \in Sessions, NEW k \in Keys, notifyremove_key(s, k)
       PROVE  (Books /\ ClosedEmpty)'
  <2>1. /\ s \in sessions /\ storeLocked = 0
        /\ k \in keys[s]
        /\ Watch(s, removeWatches(cur, s, {k}, {}), {}, keys[s] \ {k}, patterns[s])
    BY <1>01, <1>14 DEF notifyremove_key, Request, Serviced, _removeWatcher
  <2> DEFINE L == [keys EXCEPT ![s] = keys[s] \ {k}]
             Q == [patterns EXCEPT ![s] = patterns[s]]
  <2>2. /\ L \in [Sessions -> SUBSET Keys] /\ Q \in [Sessions -> SUBSET Patterns]
        /\ L[s] = keys[s] \ {k} /\ Q[s] = patterns[s] \ {}
        /\ \A t \in Sessions \ {s} : L[t] = keys[t] /\ Q[t] = patterns[t]
    BY <1>0
  <2>3. {k} \in SUBSET keys[s] /\ {} \in SUBSET patterns[s]
    BY <2>1
  <2> HIDE DEF L, Q
  <2>4. Agree(removeWatches(cur, s, {k}, {}), L, Q)
    BY <1>0, <2>1, <2>2, <2>3, AgreeRemove
  <2> QED
    BY <2>1, <2>4, WatchBooks DEF L, Q
<1>15. ASSUME NEW s \in Sessions, NEW p \in Patterns, notifyadd_pattern(s, p)
       PROVE  (Books /\ ClosedEmpty)'
  <2>1. /\ s \in sessions /\ storeLocked = 0 /\ cur.deferredRemovals = {}
        /\ p \notin patterns[s]
        /\ Watch(s, addWatches(cur, s, {}, {p}), {}, keys[s], patterns[s] \cup {p})
    BY <1>01, <1>15 DEF notifyadd_pattern, Request, Serviced, patternAddSession
  <2> DEFINE L == [keys EXCEPT ![s] = keys[s]]
             Q == [patterns EXCEPT ![s] = patterns[s] \cup {p}]
  <2>2. /\ L \in [Sessions -> SUBSET Keys] /\ Q \in [Sessions -> SUBSET Patterns]
        /\ L[s] = keys[s] \cup {} /\ Q[s] = patterns[s] \cup {p}
        /\ \A t \in Sessions \ {s} : L[t] = keys[t] /\ Q[t] = patterns[t]
    BY <1>0
  <2>3. {} \cap keys[s] = {} /\ {p} \cap patterns[s] = {}
    BY <2>1
  <2> HIDE DEF L, Q
  <2>4. Agree(addWatches(cur, s, {}, {p}), L, Q)
    BY <1>0, <2>1, <2>2, <2>3, AgreeAdd
  <2> QED
    BY <2>1, <2>4, WatchBooks DEF L, Q
<1>16. ASSUME NEW s \in Sessions, NEW p \in Patterns, notifyremove_pattern(s, p)
       PROVE  (Books /\ ClosedEmpty)'
  <2>1. /\ s \in sessions /\ storeLocked = 0
        /\ p \in patterns[s]
        /\ Crash \/ Watch(s, removeWatches(cur, s, {}, {p}), {p}, keys[s], patterns[s] \ {p})
    BY <1>01, <1>16 DEF notifyremove_pattern, Request, Serviced, patternRemoveSession
  <2> DEFINE L == [keys EXCEPT ![s] = keys[s]]
             Q == [patterns EXCEPT ![s] = patterns[s] \ {p}]
  <2>2. /\ L \in [Sessions -> SUBSET Keys] /\ Q \in [Sessions -> SUBSET Patterns]
        /\ L[s] = keys[s] \ {} /\ Q[s] = patterns[s] \ {p}
        /\ \A t \in Sessions \ {s} : L[t] = keys[t] /\ Q[t] = patterns[t]
    BY <1>0
  <2>3. {} \in SUBSET keys[s] /\ {p} \in SUBSET patterns[s]
    BY <2>1
  <2> HIDE DEF L, Q
  <2>4. Agree(removeWatches(cur, s, {}, {p}), L, Q)
    BY <1>0, <2>1, <2>2, <2>3, AgreeRemove
  <2> QED
    BY <2>1, <2>4, CrashBooks, WatchBooks DEF L, Q
<1>17. ASSUME NEW s \in Sessions, NEW ks \in SUBSET Keys, NEW newK \in SUBSET Keys,
              NEW ps \in SUBSET Patterns, NEW newP \in SUBSET Patterns,
              notifyset(s, ks, newK, ps, newP)
       PROVE  (Books /\ ClosedEmpty)'
  <2> DEFINE reached == newK = ks \ keys[s]
             oldP == IF reached THEN patterns[s] \ ps ELSE {}
             oldK == keys[s] \ ks
             r1 == removeWatches(cur, s, oldK, {})
             c1 == addWatches(r1, s, newK, {})
             r2 == removeWatches(c1, s, {}, oldP)
             c2 == addWatches(r2, s, {}, newP)
             K1 == [keys EXCEPT ![s] = @ \ oldK]
             K2 == [keys EXCEPT ![s] = (keys[s] \cap ks) \cup newK]
             P1 == [patterns EXCEPT ![s] = @ \ oldP]
             P2 == [patterns EXCEPT ![s] = (patterns[s] \ oldP) \cup newP]
  <2>1. /\ s \in sessions /\ storeLocked = 0 /\ cur.deferredRemovals = {}
        /\ newK \subseteq ks \ keys[s]
        /\ newP \subseteq (IF reached THEN ps \ patterns[s] ELSE {})
        /\ \/ Crash
           \/ Watch(s, c2, oldP, (keys[s] \cap ks) \cup newK,
                    (patterns[s] \ oldP) \cup newP)
    BY <1>01, <1>17 DEF notifyset, Request, Serviced
  <2>2. /\ oldK \in SUBSET keys[s] /\ oldP \in SUBSET patterns[s]
        /\ newP \cap P1[s] = {} /\ newK \cap K1[s] = {}
        /\ oldP \in SUBSET Patterns
    BY <1>0, <2>1
  <2> HIDE DEF oldP, oldK, reached
  <2>3. /\ K1 \in [Sessions -> SUBSET Keys] /\ K2 \in [Sessions -> SUBSET Keys]
        /\ P1 \in [Sessions -> SUBSET Patterns] /\ P2 \in [Sessions -> SUBSET Patterns]
        /\ K1[s] = keys[s] \ oldK /\ K2[s] = K1[s] \cup newK
        /\ P1[s] = patterns[s] \ oldP /\ P2[s] = P1[s] \cup newP
        /\ \A t \in Sessions \ {s} : /\ K1[t] = keys[t] /\ K2[t] = keys[t]
                                     /\ P1[t] = patterns[t] /\ P2[t] = patterns[t]
    BY <1>0 DEF oldK
  <2> HIDE DEF K1, K2, P1, P2
  <2>4. r1 \in Store /\ Agree(r1, K1, patterns) /\ r1.deferredRemovals = {}
    <3>1. {} \in SUBSET patterns[s] /\ patterns[s] = patterns[s] \ {} /\ {} \in SUBSET Patterns
      OBVIOUS
    <3>2. r1 \in Store /\ r1.deferredRemovals = {}
      BY <1>0, <2>1, <3>1, RemoveWatchesType, WatchesFrame
    <3>3. Agree(r1, K1, patterns)
      BY <1>0, <2>2, <2>3, <3>1, AgreeRemove
    <3> QED
      BY <3>2, <3>3
  <2> HIDE DEF r1
  <2>5. c1 \in Store /\ Agree(c1, K2, patterns) /\ c1.deferredRemovals = {}
    <3>1. {} \cap patterns[s] = {} /\ patterns[s] = patterns[s] \cup {} /\ {} \in SUBSET Patterns
      OBVIOUS
    <3>2. c1 \in Store /\ c1.deferredRemovals = {}
      BY <2>4, <3>1, AddWatchesType, WatchesFrame
    <3>3. Agree(c1, K2, patterns)
      BY <1>0, <2>2, <2>3, <2>4, <3>1, AgreeAdd
    <3> QED
      BY <3>2, <3>3
  <2> HIDE DEF c1
  <2>6. r2 \in Store /\ Agree(r2, K2, P1) /\ r2.deferredRemovals = {}
    <3>1. {} \in SUBSET K2[s] /\ K2[s] = K2[s] \ {}
      OBVIOUS
    <3>2. r2 \in Store /\ r2.deferredRemovals = {}
      BY <2>2, <2>5, RemoveWatchesType, WatchesFrame
    <3>3. Agree(r2, K2, P1)
      BY <1>0, <2>2, <2>3, <2>5, <3>1, AgreeRemove
    <3> QED
      BY <3>2, <3>3
  <2> HIDE DEF r2
  <2>7. Agree(c2, K2, P2)
    <3>1. {} \cap K2[s] = {} /\ K2[s] = K2[s] \cup {} /\ {} \in SUBSET Keys
      OBVIOUS
    <3> QED
      BY <2>2, <2>3, <2>6, <3>1, AgreeAdd
  <2> HIDE DEF c2
  <2> QED
    BY <2>1, <2>7, CrashBooks, WatchBooks DEF K2, P2
<1>18. ASSUME NEW s \in Sessions,
              \/ notifyviaport(s) \/ notifyviafd(s) \/ notifyviasignal(s)
              \/ notifyviafd_fails(s) \/ notifyviaport_again(s)
              \/ notifycancel(s) \/ notifychanges(s)
       PROVE  (Books /\ ClosedEmpty)'
  <2> USE DEF notifyviaport, notifyviafd, notifyviasignal, register,
              notifyviafd_fails, notifyviaport_again, notifycancel, notifychanges
  <2>1. Books'
    BY <1>18, QuietBooks DEF BookInv, storeVars, lockVars, watchVars
  <2>2. s \in sessions
    BY <1>18 DEF Request, Serviced
  <2>3. ClosedEmpty'
    BY <1>18, <2>2 DEF pending, BookInv, Inv, TypeOK, ClosedEmpty, storeVars,
                       sessionVars, watchVars
  <2> QED
    BY <2>1, <2>3
<1>19. ASSUME NEW s \in Sessions, Wake(s)
       PROVE  (Books /\ ClosedEmpty)'
  <2>1. Books'
    BY <1>19, QuietBooks DEF Wake, BookInv, storeVars, lockVars, watchVars
  <2>2. ClosedEmpty'
    BY <1>19 DEF Wake, BookInv, ClosedEmpty, storeVars, sessionVars, watchVars
  <2> QED
    BY <2>1, <2>2
<1>20. ASSUME pushNotifications
       PROVE  (Books /\ ClosedEmpty)'
  <2>1. CASE Crash
    BY <2>1, CrashBooks
  <2>2. CASE ~Crash
    <3>1. Books'
      BY <1>20, <2>2, QuietBooks DEF pushNotifications, BookInv, lockVars, watchVars
    <3>2. ClosedEmpty'
      BY <1>20, <2>2 DEF pushNotifications, BookInv, ClosedEmpty, sessionVars, watchVars
    <3> QED
      BY <3>1, <3>2
  <2> QED
    BY <2>1, <2>2
<1>21. CASE UNCHANGED vars
  <2>1. Books'
    BY <1>21, QuietBooks DEF vars, BookInv, storeVars, lockVars, watchVars
  <2>2. ClosedEmpty'
    BY <1>21 DEF vars, BookInv, ClosedEmpty, storeVars, sessionVars, watchVars
  <2> QED
    BY <2>1, <2>2
<1> QED
  BY <1>1, <1>2, <1>3, <1>4, <1>5, <1>6, <1>7, <1>8, <1>9, <1>10, <1>11, <1>12,
     <1>13, <1>14, <1>15, <1>16, <1>17, <1>18, <1>19, <1>20, <1>21 DEF Next

\* The books are right in every state.
LEMMA BooksAreRight ==
  ASSUME "WatchUnderLock" \notin Allow
  PROVE  Spec => []BookInv
<1>1. Init => BookInv
  <2> SUFFICES ASSUME Init PROVE BookInv
    OBVIOUS
  <2>1. Agree(EmptyStore, keys, patterns)
    BY AgreeEmpty DEF Init
  <2>2. Books
    BY <2>1, VisibleBooks DEF Init
  <2>3. ClosedEmpty
    BY DEF Init, ClosedEmpty
  <2> QED
    BY <2>2, <2>3, InitInv DEF BookInv
<1>2. BookInv /\ [Next]_vars => BookInv'
  BY NextInv, NextBooks DEF BookInv
<1> QED
  BY <1>1, <1>2, PTL DEF Spec

\* patternData always agrees with what the sessions watch, also in the copy
\* that the death of the lock holder would bring back.
THEOREM PatternsAreRight == ASSUME "WatchUnderLock" \notin Allow
                            PROVE  Spec => []PatternLists
<1>1. BookInv => PatternLists
  <2> SUFFICES ASSUME BookInv PROVE PatternLists
    OBVIOUS
  <2>0. sessions \subseteq Sessions /\ cur \in Store /\ sav \in Store
    BY DEF BookInv, Inv, TypeOK
  <2>1. ASSUME NEW c \in Visible, NEW p \in Patterns
        PROVE  LET watching == {s \in sessions : p \in patterns[s]}
               IN  c.patternData[p] =
                     IF watching = {} THEN NoPattern
                     ELSE [regex |-> "compiled", sessions |-> watching,
                           keys |-> identifyKeys(c, p) \cup
                                    {k \in c.deferredRemovals : <<p, k>> \in Matches}]
    <3>1. c \in Store /\ Agree(c, keys, patterns)
      BY <2>0 DEF BookInv, Books, Visible
    <3>2. Watching(patterns, p) = {s \in sessions : p \in patterns[s]}
      BY <2>0 DEF Watching, BookInv, ClosedEmpty
    <3>3. c.patternData[p] \in PatternInfo /\ c.deferredRemovals \subseteq Keys
      BY <3>1, StoreFields
    <3>4. CASE Watching(patterns, p) = {}
      BY <3>1, <3>2, <3>4 DEF Agree, PatternsAgree
    <3>5. CASE Watching(patterns, p) # {}
      <4>1. /\ c.patternData[p].regex = "compiled"
            /\ c.patternData[p].sessions = Watching(patterns, p)
            /\ \A k \in Keys : k \in c.patternData[p].keys
                                 <=> <<p, k>> \in Matches /\ Listed(c, k)
        BY <3>1, <3>5 DEF Agree, PatternsAgree
      <4>2. c.patternData[p].keys \subseteq Keys
        BY <3>3 DEF PatternInfo
      <4>3. c.patternData[p].keys =
              identifyKeys(c, p) \cup {k \in c.deferredRemovals : <<p, k>> \in Matches}
        BY <3>3, <4>1, <4>2 DEF identifyKeys, Listed
      <4> QED
        BY <3>2, <3>3, <3>5, <4>1, <4>3 DEF PatternInfo
    <3> QED
      BY <3>4, <3>5
  <2>2. ASSUME storeLocked = 0, NEW p \in Patterns
        PROVE  patternCopyMatches(cur, p) = identifyKeys(cur, p)
    <3>1. cur.deferredRemovals = {}
      BY <2>2 DEF BookInv, Inv, NothingLeftOver
    <3>2. CASE Registered(cur, p)
      <4>1. Watching(patterns, p) # {}
        BY <3>2, VisibleBooks DEF Registered, NoPattern, BookInv, Agree, PatternsAgree
      <4>2. \A k \in Keys : k \in cur.patternData[p].keys
                              <=> <<p, k>> \in Matches /\ Listed(cur, k)
        BY <4>1, VisibleBooks DEF BookInv, Agree, PatternsAgree
      <4>3. cur.patternData[p].keys \subseteq Keys
        BY <2>0, StoreFields DEF PatternInfo
      <4> QED
        BY <3>1, <3>2, <4>2, <4>3
           DEF patternCopyMatches, patternInfo, identifyKeys, Listed
    <3>3. CASE ~Registered(cur, p)
      BY <3>3 DEF patternCopyMatches, patternInfo
    <3> QED
      BY <3>2, <3>3
  <2> QED
    BY <2>1, <2>2 DEF PatternLists
<1> QED
  BY <1>1, BooksAreRight, PTL

\* Every watcher count is exact in every visible store.
THEOREM CountsAreExact == ASSUME "WatchUnderLock" \notin Allow
                          PROVE  Spec => []WatcherRefs
<1>1. BookInv => WatcherRefs
  <2> SUFFICES ASSUME BookInv, NEW c \in Visible, NEW s \in Sessions, NEW k \in Keys
               PROVE  c.storeData[k].refs[s] =
                        (IF k \in keys[s] THEN 1 ELSE 0)
                        + Cardinality({p \in patterns[s] : k \in c.patternData[p].keys})
    BY DEF WatcherRefs
  <2>1. /\ c \in Store /\ Agree(c, keys, patterns)
        /\ patterns \in [Sessions -> SUBSET Patterns]
    BY DEF BookInv, Inv, TypeOK, Books, Visible
  <2>2. c.storeData[k].refs[s] =
          (IF k \in keys[s] THEN 1 ELSE 0)
          + (IF Listed(c, k) THEN Cardinality(Hits(patterns, s, k)) ELSE 0)
    BY <2>1 DEF Agree, RefsAgree
  <2>3. \A p \in patterns[s] : k \in c.patternData[p].keys
                                 <=> <<p, k>> \in Matches /\ Listed(c, k)
    BY <2>1, AgreeKeys DEF Agree
  <2>4. CASE Listed(c, k)
    <3>1. {p \in patterns[s] : k \in c.patternData[p].keys} = Hits(patterns, s, k)
      BY <2>3, <2>4 DEF Hits
    <3> QED
      BY <2>2, <2>4, <3>1
  <2>5. CASE ~Listed(c, k)
    <3>1. {p \in patterns[s] : k \in c.patternData[p].keys} = {}
      BY <2>3, <2>5
    <3> QED
      BY <2>2, <2>5, <3>1, FS_EmptySet
  <2> QED
    BY <2>4, <2>5
<1> QED
  BY <1>1, BooksAreRight, PTL

\* Nothing in the server mentions a session that is closed.
THEOREM NothingKeptForClosed == ASSUME "WatchUnderLock" \notin Allow
                                PROVE  Spec => []ClosedLeavesNoTrace
<1>1. BookInv => ClosedLeavesNoTrace
  <2> SUFFICES ASSUME BookInv, NEW s \in Sessions \ sessions
               PROVE  \A c \in Visible, k \in Keys : c.storeData[k].refs[s] = 0
    BY DEF BookInv, ClosedEmpty, ClosedLeavesNoTrace
  <2> SUFFICES ASSUME NEW c \in Visible, NEW k \in Keys
               PROVE  c.storeData[k].refs[s] = 0
    OBVIOUS
  <2>1. keys[s] = {} /\ patterns[s] = {} /\ Agree(c, keys, patterns)
    BY DEF BookInv, ClosedEmpty, Books
  <2>2. Cardinality(Hits(patterns, s, k)) = 0
    BY <2>1, FS_EmptySet DEF Hits
  <2> QED
    BY <2>1, <2>2 DEF Agree, RefsAgree
<1> QED
  BY <1>1, BooksAreRight, PTL

\* No step of the server follows a bad pointer: every pattern that a session
\* gives up is known and lists the session, no known expression is freed, and
\* every session to be kicked is open.
LEMMA NextNoFault ==
  ASSUME {"WatchUnderLock", "NoPortNotification"} \cap Allow = {},
         BookInv, ~fault, [Next]_vars
  PROVE  ~fault'
<1>0. /\ cur \in Store
      /\ patterns \in [Sessions -> SUBSET Patterns]
      /\ Agree(cur, keys, patterns)
  BY VisibleBooks DEF BookInv, Inv, TypeOK
<1>1. /\ ~patternAddFaults(cur)
      /\ \A t \in Sessions : \A p \in patterns[t] : ~patternRemoveFaults(cur, p, t)
  BY <1>0, AgreeNoFault
<1>2. \A k \in Keys : ~setFaults(cur, k)
  BY <1>1 DEF setFaults
<1>3. ASSUME NEW s \in Sessions, NEW c \in Visible, Close(s, c)
      PROVE  ~fault'
  <2>1. c \in Store /\ Agree(c, keys, patterns)
    BY DEF BookInv, Inv, TypeOK, Books, Visible
  <2>2. \A p \in patterns[s] : ~patternRemoveFaults(c, p, s)
    BY <1>0, <2>1, AgreeNoFault
  <2>3. UNCHANGED fault
    BY <1>3, <2>2 DEF Close
  <2> QED
    BY <2>3
<1>4. ASSUME NEW s \in Sessions,
             \/ \E sk \in BOOLEAN : configopen(s, sk)
             \/ configopen_refused(s)
             \/ Die(s) \/ configlock(s) \/ configunlock(s)
             \/ notifyviaport(s) \/ notifyviafd(s) \/ notifyviasignal(s)
             \/ notifyviafd_fails(s) \/ notifyviaport_again(s)
             \/ notifycancel(s) \/ notifychanges(s) \/ Wake(s)
      PROVE  ~fault'
  BY <1>4 DEF configopen, configopen_refused, Die, configlock, configunlock,
              notifyviaport, notifyviafd, notifyviasignal, register,
              notifyviafd_fails, notifyviaport_again, notifycancel, notifychanges, Wake
<1>5. ASSUME NEW s \in Sessions, configclose(s) \/ cleanupSession(s)
      PROVE  ~fault'
  <2>1. /\ cur \in Visible
        /\ (IF storeLocked > 0 /\ s \in locked THEN sav ELSE cur) \in Visible
    BY DEF Visible
  <2> QED
    BY <1>3, <1>5, <2>1 DEF configclose, cleanupSession
<1>6. ASSUME NEW s \in Sessions, NEW k \in Keys, NEW v, NEW sk, SetValue(s, k, v, sk)
      PROVE  ~fault'
  BY <1>2, <1>6 DEF SetValue, Finish
<1>7. ASSUME NEW s \in Sessions, NEW k \in Keys, NEW v \in Data,
             \/ configset(s, k, v) \/ configadd(s, k, v)
             \/ configadd_s(s, k, v) \/ configtouch(s, k, v)
      PROVE  ~fault'
  BY <1>6, <1>7 DEF configset, configadd, configadd_s, configtouch
<1>8. ASSUME NEW s \in Sessions, NEW k \in Keys, NEW v \in Data,
             NEW r \in Keys, NEW n \in Keys, configset_m(s, k, v, r, n)
      PROVE  ~fault'
  <2> DEFINE sk == s \in useSessionKeys
             c2 == removeValues(setValue(cur, s, k, v, sk), {r})
  <2>1. sk \in BOOLEAN /\ s \in sessions
    BY <1>8 DEF configset_m, Request, Serviced
  <2>2. \/ setFaults(cur, k)
        \/ setFaults(c2, n)
        \/ UNCHANGED fault
    BY <1>8 DEF configset_m, Finish
  <2> HIDE DEF sk
  <2>3. c2 \in Store /\ Agree(c2, keys, patterns)
    BY <2>1, MultipleBooks
  <2> HIDE DEF c2
  <2>4. ~setFaults(c2, n)
    BY <1>0, <2>3, AgreeNoFault DEF setFaults
  <2> QED
    BY <1>2, <2>2, <2>4
<1>9. ASSUME NEW s \in Sessions, NEW k \in Keys,
             \/ configremove(s, k) \/ confignotify(s, k)
             \/ notifyadd_key(s, k) \/ notifyremove_key(s, k)
      PROVE  ~fault'
  BY <1>2, <1>9 DEF configremove, confignotify, Finish, notifyadd_key,
                    notifyremove_key, Watch
<1>10. ASSUME NEW s \in Sessions, NEW p \in Patterns,
              notifyadd_pattern(s, p) \/ notifyremove_pattern(s, p)
       PROVE  ~fault'
  BY <1>1, <1>10 DEF notifyadd_pattern, notifyremove_pattern, Watch
<1>11. ASSUME NEW s \in Sessions, NEW ks \in SUBSET Keys, NEW newK \in SUBSET Keys,
              NEW ps \in SUBSET Patterns, NEW newP \in SUBSET Patterns,
              notifyset(s, ks, newK, ps, newP)
       PROVE  ~fault'
  <2> DEFINE oldP == IF newK = ks \ keys[s] THEN patterns[s] \ ps ELSE {}
  <2>1. (\E p \in oldP : patternRemoveFaults(cur, p, s)) \/ UNCHANGED fault
    BY <1>11 DEF notifyset, Watch
  <2>2. \A p \in oldP : ~patternRemoveFaults(cur, p, s)
    BY <1>1
  <2> QED
    BY <2>1, <2>2
<1>12. ASSUME pushNotifications
       PROVE  ~fault'
  <2>1. \A t \in needsNotification : t \in sessions
    BY DEF BookInv, ClosedEmpty, Inv, TypeOK
  <2> QED
    BY <1>12, <2>1 DEF pushNotifications
<1>13. CASE UNCHANGED vars
  BY <1>13 DEF vars
<1> QED
  BY <1>4, <1>5, <1>7, <1>8, <1>9, <1>10, <1>11, <1>12, <1>13 DEF Next

\* Clients that do not watch inside of transactions cannot crash the server.
THEOREM ServerStaysUp ==
  ASSUME {"WatchUnderLock", "NoPortNotification"} \cap Allow = {}
  PROVE  Spec => []NoFault
<1>1. Init => ~fault
  BY DEF Init
<1>2. BookInv /\ ~fault /\ [Next]_vars => ~fault'
  BY NextNoFault
<1>3. Spec => []BookInv
  BY BooksAreRight
<1>4. ~fault => NoFault
  BY DEF NoFault
<1> QED
  BY <1>1, <1>2, <1>3, <1>4, PTL DEF Spec

-----------------------------------------------------------------------------
(* Session keys *)

\* Besides what SessionKeyOwners says, the owner may claim the lock: only then
\* does __SCDynamicStoreClose get to remove its keys.
Owners == \A c \in Visible : Owned(c, sessionKeys, sessions \cap RootSessions)

OwnerInv == Inv /\ Owners

LEMMA VisibleOwners ==
  /\ Owners <=> /\ Owned(cur, sessionKeys, sessions \cap RootSessions)
                /\ storeLocked > 0 => Owned(sav, sessionKeys, sessions \cap RootSessions)
  /\ Owners' <=>
       /\ Owned(cur', sessionKeys', sessions' \cap RootSessions)
       /\ storeLocked' > 0 => Owned(sav', sessionKeys', sessions' \cap RootSessions)
BY DEF Owners, Visible

LEMMA QuietOwners ==
  ASSUME Owners, UNCHANGED <<cur, sav, storeLocked, sessionKeys, sessions>>
  PROVE  Owners'
BY VisibleOwners

LEMMA CrashOwners ==
  ASSUME Owners, Crash
  PROVE  Owners'
BY QuietOwners DEF Crash, storeVars, lockVars, sessionVars

\* A session that may claim the lock is a superuser's.
LEMMA LockingRoot ==
  ASSUME Inv, NEW s \in Sessions, s \in sessions, CanLock(s)
  PROVE  s \in sessions \cap RootSessions
BY DEF Inv, LockOwner, TypeOK, CanLock

LEMMA CommitOwners ==
  ASSUME OwnerInv, NEW c \in Store, NEW owned \in [Sessions -> SUBSET Keys],
         Owned(c, owned, sessions \cap RootSessions),
         Commit(c, owned), storeLocked' = 0, UNCHANGED sessions
  PROVE  Owners'
<1> DEFINE open == sessions \cap RootSessions
<1>1. open \in SUBSET Sessions
  BY DEF OwnerInv, Inv, TypeOK
<1>2. /\ sessionKeys' \in [Sessions -> SUBSET Keys]
      /\ \A t \in open \cap Sessions :
           sessionKeys'[t] = {k \in owned[t] : <<t, k>> \notin c.removedSessionKeys}
  BY DEF Commit
<1>3. \A k \in Keys : c.storeData[k].session \in open \cup {NoSession}
  BY DEF Owned
<1> HIDE DEF open
<1>4. Owned(committed(c), sessionKeys', open)
  BY <1>1, <1>2, <1>3, OwnedCommitted DEF open
<1> QED
  BY <1>4, VisibleOwners DEF Commit, open

LEMMA FinishOwners ==
  ASSUME OwnerInv, NEW c \in Store, NEW owned \in [Sessions -> SUBSET Keys],
         \A t \in Sessions : sessionKeys[t] \subseteq owned[t],
         Owned(c, owned, sessions \cap RootSessions),
         Finish(c, owned)
  PROVE  Owners'
<1>1. CASE storeLocked > 0
  <2>1. Owned(sav, sessionKeys, sessions \cap RootSessions)
    BY <1>1, VisibleOwners DEF OwnerInv
  <2>2. Owned(sav, owned, sessions \cap RootSessions)
    BY <2>1 DEF Owned, OwnerInv, Inv, TypeOK
  <2> QED
    BY <1>1, <2>2, VisibleOwners DEF Finish, lockVars, sessionVars
<1>2. CASE ~(storeLocked > 0)
  <2>1. Commit(c, owned)
    BY <1>2 DEF Finish
  <2>2. storeLocked' = 0
    BY <1>2 DEF Finish, lockVars, OwnerInv, Inv, TypeOK
  <2> QED
    BY <2>1, <2>2, CommitOwners DEF Finish, sessionVars
<1> QED
  BY <1>1, <1>2

\* What a claim adds.
LEMMA ClaimedMore ==
  ASSUME NEW owned \in [Sessions -> SUBSET Keys], NEW c, NEW s \in Sessions,
         NEW k \in Keys, NEW sk
  PROVE  /\ claimed(owned, c, s, k, sk) \in [Sessions -> SUBSET Keys]
         /\ \A t \in Sessions : owned[t] \subseteq claimed(owned, c, s, k, sk)[t]
         /\ setClaims(c, k, sk) => k \in claimed(owned, c, s, k, sk)[s]
BY DEF claimed

LEMMA SetValueOwners ==
  ASSUME "RecreateSessionKey" \notin Allow, OwnerInv,
         NEW s \in Sessions, s \in sessions, NEW k \in Keys, NEW v \in Data,
         NEW sk \in BOOLEAN, SetValue(s, k, v, sk)
  PROVE  Owners'
<1> DEFINE open == sessions \cap RootSessions
           o == claimed(sessionKeys, cur, s, k, sk)
<1>0. /\ cur \in Store
      /\ sessionKeys \in [Sessions -> SUBSET Keys]
      /\ open \in SUBSET Sessions
      /\ Owned(cur, sessionKeys, open)
  BY VisibleOwners DEF OwnerInv, Inv, TypeOK
<1>1. s \in open
  BY LockingRoot DEF SetValue, OwnerInv
<1>2. setClaims(cur, k, sk) => <<s, k>> \notin cur.removedSessionKeys
  BY DEF SetValue, MayCreate
<1>3. Crash \/ Finish(setValue(cur, s, k, v, sk), o)
  BY DEF SetValue
<1>4. /\ o \in [Sessions -> SUBSET Keys]
      /\ \A t \in Sessions : sessionKeys[t] \subseteq o[t]
      /\ setClaims(cur, k, sk) => k \in o[s]
  BY <1>0, ClaimedMore
<1> HIDE DEF o, open
<1>5. setValue(cur, s, k, v, sk) \in Store
  BY <1>0, SetValueType
<1>6. Owned(setValue(cur, s, k, v, sk), o, open)
  BY <1>0, <1>1, <1>2, <1>4, OwnedSet
<1> QED
  BY <1>3, <1>4, <1>5, <1>6, CrashOwners, FinishOwners DEF OwnerInv, open

\* The stores c and d differ only in who watches.
SameValues(c, d) ==
  /\ \A k \in Keys : /\ d.storeData[k].data = c.storeData[k].data
                     /\ d.storeData[k].session = c.storeData[k].session
  /\ d.changedKeys = c.changedKeys
  /\ d.removedSessionKeys = c.removedSessionKeys

LEMMA WatchesSameValues ==
  ASSUME NEW c \in Store, NEW s \in Sessions, NEW ks, NEW ps \in SUBSET Patterns
  PROVE  SameValues(c, addWatches(c, s, ks, ps)) /\ SameValues(c, removeWatches(c, s, ks, ps))
<1>1. SameValues(c, addWatches(c, s, ks, ps))
  BY AddWatchesFields, WatchesFrame DEF SameValues
<1>2. SameValues(c, removeWatches(c, s, ks, ps))
  BY RemoveWatchesFields, WatchesFrame DEF SameValues
<1> QED
  BY <1>1, <1>2

\* Every request that changes what a session watches.
LEMMA WatchSteps ==
  ASSUME Inv, NEW s \in Sessions,
         \/ \E k \in Keys : notifyadd_key(s, k) \/ notifyremove_key(s, k)
         \/ \E p \in Patterns : notifyadd_pattern(s, p) \/ notifyremove_pattern(s, p)
         \/ \E ks, newK \in SUBSET Keys, ps, newP \in SUBSET Patterns :
              notifyset(s, ks, newK, ps, newP)
  PROVE  \/ Crash
         \/ \E c, freed, ks, ps : /\ Watch(s, c, freed, ks, ps)
                                  /\ c \in Store
                                  /\ SameValues(cur, c)
<1>0. cur \in Store /\ patterns \in [Sessions -> SUBSET Patterns]
  BY DEF Inv, TypeOK
<1>1. ASSUME NEW k \in Keys, notifyadd_key(s, k) \/ notifyremove_key(s, k)
      PROVE  \E c, freed, ks, ps :
               Watch(s, c, freed, ks, ps) /\ c \in Store /\ SameValues(cur, c)
  <2>0. {} \in SUBSET Patterns
    OBVIOUS
  <2>1. _addWatcher(cur, s, k) \in Store /\ SameValues(cur, _addWatcher(cur, s, k))
    BY <1>0, <2>0, AddWatchesType, WatchesSameValues DEF _addWatcher
  <2>2. _removeWatcher(cur, s, k) \in Store /\ SameValues(cur, _removeWatcher(cur, s, k))
    BY <1>0, <2>0, RemoveWatchesType, WatchesSameValues DEF _removeWatcher
  <2> QED
    BY <1>1, <2>1, <2>2 DEF notifyadd_key, notifyremove_key
<1>2. ASSUME NEW p \in Patterns, notifyadd_pattern(s, p) \/ notifyremove_pattern(s, p)
      PROVE  \/ Crash
             \/ \E c, freed, ks, ps :
                  Watch(s, c, freed, ks, ps) /\ c \in Store /\ SameValues(cur, c)
  <2>0. {p} \in SUBSET Patterns
    OBVIOUS
  <2>1. patternAddSession(cur, p, s) \in Store /\ SameValues(cur, patternAddSession(cur, p, s))
    BY <1>0, <2>0, AddWatchesType, WatchesSameValues DEF patternAddSession
  <2>2. /\ patternRemoveSession(cur, p, s) \in Store
        /\ SameValues(cur, patternRemoveSession(cur, p, s))
    BY <1>0, <2>0, RemoveWatchesType, WatchesSameValues DEF patternRemoveSession
  <2> QED
    BY <1>2, <2>1, <2>2 DEF notifyadd_pattern, notifyremove_pattern
<1>3. ASSUME NEW ks \in SUBSET Keys, NEW newK \in SUBSET Keys,
             NEW ps \in SUBSET Patterns, NEW newP \in SUBSET Patterns,
             notifyset(s, ks, newK, ps, newP)
      PROVE  \/ Crash
             \/ \E c, freed, ls, qs :
                  Watch(s, c, freed, ls, qs) /\ c \in Store /\ SameValues(cur, c)
  <2> DEFINE reached == newK = ks \ keys[s]
             oldP == IF reached THEN patterns[s] \ ps ELSE {}
             r1 == removeWatches(cur, s, keys[s] \ ks, {})
             c1 == addWatches(r1, s, newK, {})
             r2 == removeWatches(c1, s, {}, oldP)
             c2 == addWatches(r2, s, {}, newP)
  <2>1. \/ Crash
        \/ Watch(s, c2, oldP, (keys[s] \cap ks) \cup newK, (patterns[s] \ oldP) \cup newP)
    BY <1>3 DEF notifyset
  <2>2. oldP \in SUBSET Patterns /\ {} \in SUBSET Patterns
    BY <1>0
  <2> HIDE DEF oldP
  <2>3. r1 \in Store /\ SameValues(cur, r1)
    BY <1>0, <2>2, RemoveWatchesType, WatchesSameValues
  <2> HIDE DEF r1
  <2>4. c1 \in Store /\ SameValues(r1, c1)
    BY <2>2, <2>3, AddWatchesType, WatchesSameValues
  <2> HIDE DEF c1
  <2>5. r2 \in Store /\ SameValues(c1, r2)
    BY <2>2, <2>4, RemoveWatchesType, WatchesSameValues
  <2> HIDE DEF r2
  <2>6. c2 \in Store /\ SameValues(r2, c2)
    BY <2>5, AddWatchesType, WatchesSameValues
  <2> HIDE DEF c2
  <2>7. SameValues(cur, c2)
    BY <2>3, <2>4, <2>5, <2>6 DEF SameValues
  <2> QED
    BY <2>1, <2>6, <2>7
<1> QED
  BY <1>1, <1>2, <1>3

\* A change of the watches touches no owner, neither in the current nor in the
\* saved store.
LEMMA WatchOwners ==
  ASSUME OwnerInv, NEW s, NEW c, NEW freed, NEW ks, NEW ps,
         Watch(s, c, freed, ks, ps), SameValues(cur, c)
  PROVE  Owners'
<1>1. Owned(c, sessionKeys, sessions \cap RootSessions)
  BY VisibleOwners, OwnedSame DEF OwnerInv, SameValues
<1>2. /\ dangling(freed).storeData = sav.storeData
      /\ dangling(freed).removedSessionKeys = sav.removedSessionKeys
  BY DEF dangling, Store, OwnerInv, Inv, TypeOK
<1>3. storeLocked > 0 => Owned(dangling(freed), sessionKeys, sessions \cap RootSessions)
  BY <1>2, VisibleOwners, OwnedSame DEF OwnerInv
<1> QED
  BY <1>1, <1>3, VisibleOwners DEF Watch, lockVars, sessionVars

\* The store d is the store c without the keys of session s.
Bereft(c, d, s) ==
  /\ d \in Store
  /\ Owned(d, sessionKeys, sessions \cap RootSessions)
  /\ d.changedKeys = c.changedKeys \cup {k \in Keys : c.storeData[k].session = s}
  /\ \A k \in Keys :
       /\ c.storeData[k].session = s => /\ d.storeData[k].data = NoData
                                        /\ d.storeData[k].session = NoSession
       /\ c.storeData[k].session # s =>
            /\ d.storeData[k].data = c.storeData[k].data
            /\ d.storeData[k].session = c.storeData[k].session

\* The store that a closing session leaves has none of its keys.
LEMMA CloseRemovesOwned ==
  ASSUME OwnerInv, NEW s \in Sessions, Serviced(s), NEW c \in Visible
  PROVE  LET c1 == removeWatches(c, s, keys[s], patterns[s])
             own == {k \in sessionKeys[s] : c1.storeData[k].session = s /\ CanLock(s)}
         IN  Bereft(c, removeValues(c1, own), s)
<1> DEFINE open == sessions \cap RootSessions
           c1 == removeWatches(c, s, keys[s], patterns[s])
           own == {k \in sessionKeys[s] : c1.storeData[k].session = s /\ CanLock(s)}
           c2 == removeValues(c1, own)
           gone == {k \in own : Defined(c1, k)}
<1>0. /\ c \in Store /\ Owned(c, sessionKeys, open)
      /\ sessionKeys \in [Sessions -> SUBSET Keys]
      /\ patterns[s] \in SUBSET Patterns
      /\ open \in SUBSET Sessions
      /\ s # NoSession
  BY StoreAssumption DEF OwnerInv, Inv, TypeOK, Owners, Visible
<1>1. c1 \in Store
  BY <1>0, RemoveWatchesType
<1>2. /\ \A k \in Keys : c1.storeData[k].data = c.storeData[k].data
      /\ \A k \in Keys : c1.storeData[k].session = c.storeData[k].session
  BY <1>0, RemoveWatchesFields
<1>3. c1.removedSessionKeys = c.removedSessionKeys /\ c1.changedKeys = c.changedKeys
  BY <1>0, WatchesFrame
<1>4. own \in SUBSET Keys
  BY <1>0
<1> HIDE DEF c1
<1>5. Owned(c1, sessionKeys, open)
  BY <1>0, <1>2, <1>3, OwnedSame
<1>6. ASSUME NEW k \in Keys
      PROVE  k \in own <=> c.storeData[k].session = s
  <2>1. ASSUME c.storeData[k].session = s
        PROVE  k \in own
    <3>1. k \in sessionKeys[s] /\ s \in RootSessions
      BY <1>0, <2>1 DEF Owned
    <3>2. CanLock(s)
      BY <3>1 DEF CanLock, Serviced, OwnerInv, Inv, LockOwner
    <3> QED
      BY <1>2, <2>1, <3>1, <3>2
  <2> QED
    BY <1>2, <2>1
<1>7. \A k \in own : Defined(c1, k)
  BY <1>0, <1>2, <1>4 DEF Owned, Defined
<1>8. gone = own
  BY <1>7
<1> HIDE DEF own, gone, open
<1>9. c2 \in Store /\ Owned(c2, sessionKeys, open)
  BY <1>0, <1>1, <1>4, <1>5, RemoveValuesType, OwnedRemoveValues
<1>10. /\ c2.changedKeys = c1.changedKeys \cup gone
       /\ \A k \in Keys : /\ k \notin gone => c2.storeData[k] = c1.storeData[k]
                          /\ k \in gone => /\ c2.storeData[k].data = NoData
                                           /\ c2.storeData[k].session = NoSession
  BY <1>1, <1>4, RemoveValuesFields DEF gone
<1> HIDE DEF c2
<1>11. own = {k \in Keys : c.storeData[k].session = s}
  BY <1>4, <1>6
<1>12. Bereft(c, c2, s)
  BY <1>2, <1>3, <1>8, <1>9, <1>10, <1>11 DEF Bereft, open
<1> QED
  BY <1>12 DEF c1, own, c2

LEMMA CloseOwners ==
  ASSUME OwnerInv, NEW s \in Sessions, Serviced(s), NEW c \in Visible, Close(s, c)
  PROVE  Owners'
<1> DEFINE c1 == removeWatches(c, s, keys[s], patterns[s])
           own == {k \in sessionKeys[s] : c1.storeData[k].session = s /\ CanLock(s)}
           c2 == removeValues(c1, own)
           bad == \E p \in patterns[s] : patternRemoveFaults(c, p, s)
           open == sessions \cap RootSessions
           still == sessions' \cap RootSessions
<1>1. CASE bad
  BY <1>1, CrashOwners DEF Close, OwnerInv
<1>2. CASE ~bad
  <2>1. /\ cur' = committed(c2)
        /\ sessionKeys' = [t \in Sessions |->
             IF t = s THEN {}
             ELSE {k \in sessionKeys[t] : <<t, k>> \notin c2.removedSessionKeys}]
        /\ storeLocked' = IF s \in locked THEN 0 ELSE storeLocked
        /\ sessions' = sessions \ {s}
    BY <1>2 DEF Close
  <2>20. Bereft(c, c2, s)
    BY CloseRemovesOwned
  <2> HIDE DEF c2
  <2>2. /\ c2 \in Store
        /\ Owned(c2, sessionKeys, open)
        /\ \A k \in Keys : c2.storeData[k].session # s
    BY <2>20, StoreAssumption DEF Bereft
  <2>3. open \in SUBSET Sessions /\ sessionKeys \in [Sessions -> SUBSET Keys]
    BY DEF OwnerInv, Inv, TypeOK
  <2>4. \A k \in Keys : c2.storeData[k].session \in still \cup {NoSession}
    BY <2>1, <2>2, StoreAssumption DEF Owned
  <2>5. /\ sessionKeys' \in [Sessions -> SUBSET Keys]
        /\ \A t \in still \cap Sessions :
             sessionKeys'[t] = {k \in sessionKeys[t] : <<t, k>> \notin c2.removedSessionKeys}
    BY <2>1, <2>3
  <2> HIDE DEF open, still
  <2>6. Owned(cur', sessionKeys', still)
    BY <2>1, <2>2, <2>3, <2>4, <2>5, OwnedCommitted
  <2>7. storeLocked' = 0
    BY <2>1 DEF OwnerInv, Inv, LockOwner, TypeOK, Serviced
  <2> QED
    BY <2>6, <2>7, VisibleOwners DEF still
<1> QED
  BY <1>1, <1>2

\* Every step keeps the owners, provided that no lock holder creates a session
\* key again that it has removed in the same transaction.
LEMMA NextOwners ==
  ASSUME "RecreateSessionKey" \notin Allow, OwnerInv, [Next]_vars
  PROVE  Owners'
<1> DEFINE open == sessions \cap RootSessions
<1>0. /\ cur \in Store
      /\ sessionKeys \in [Sessions -> SUBSET Keys]
      /\ open \in SUBSET Sessions
      /\ Owned(cur, sessionKeys, open)
      /\ Inv
      /\ Owners
  BY VisibleOwners DEF OwnerInv, Inv, TypeOK
<1>1. ASSUME NEW s \in Sessions, NEW sk \in BOOLEAN, configopen(s, sk)
      PROVE  Owners'
  <2>1. /\ UNCHANGED <<cur, sav, storeLocked, sessionKeys>>
        /\ sessions' = sessions \cup {s}
    BY <1>1 DEF configopen, storeVars, lockVars
  <2> QED
    BY <1>0, <2>1, VisibleOwners DEF Owned
<1>2. ASSUME NEW s \in Sessions, configopen_refused(s)
      PROVE  Owners'
  BY <1>0, <1>2, CrashOwners DEF configopen_refused
<1>3. ASSUME NEW s \in Sessions, configclose(s)
      PROVE  Owners'
  BY <1>3, CloseOwners DEF configclose, Request, Visible
<1>4. ASSUME NEW s \in Sessions, cleanupSession(s)
      PROVE  Owners'
  <2>1. (IF storeLocked > 0 /\ s \in locked THEN sav ELSE cur) \in Visible
    BY DEF Visible
  <2> QED
    BY <1>4, <2>1, CloseOwners DEF cleanupSession
<1>5. ASSUME NEW s \in Sessions,
             \/ Die(s) \/ notifyviaport(s) \/ notifyviafd(s) \/ notifyviasignal(s)
             \/ notifyviafd_fails(s) \/ notifyviaport_again(s)
             \/ notifycancel(s) \/ notifychanges(s) \/ Wake(s)
      PROVE  Owners'
  <2>1. UNCHANGED <<cur, sav, storeLocked, sessionKeys, sessions>>
    BY <1>5 DEF Die, notifyviaport, notifyviafd, notifyviasignal, register,
                notifyviafd_fails, notifyviaport_again, notifycancel, notifychanges,
                Wake, storeVars, lockVars, sessionVars
  <2> QED
    BY <1>0, <2>1, QuietOwners
<1>6. ASSUME NEW s \in Sessions, configlock(s)
      PROVE  Owners'
  BY <1>0, <1>6, VisibleOwners DEF configlock, sessionVars
<1>7. ASSUME NEW s \in Sessions, configunlock(s)
      PROVE  Owners'
  BY <1>0, <1>7, CommitOwners DEF configunlock, sessionVars
<1>8. ASSUME NEW s \in Sessions, NEW k \in Keys, NEW v \in Data,
             \/ configset(s, k, v)
             \/ configadd(s, k, v)
             \/ configadd_s(s, k, v)
      PROVE  Owners'
  <2>1. (s \in useSessionKeys) \in BOOLEAN
    OBVIOUS
  <2>2. \E sk \in BOOLEAN : SetValue(s, k, v, sk)
    BY <1>8, <2>1 DEF configset, configadd, configadd_s
  <2>3. s \in sessions
    BY <1>8 DEF configset, configadd, configadd_s, Request, Serviced
  <2> QED
    BY <2>2, <2>3, SetValueOwners
<1>9. ASSUME NEW s \in Sessions, NEW k \in Keys, NEW v \in Data,
             configtouch(s, k, v)
      PROVE  Owners'
  <2> DEFINE w == IF Defined(cur, k) /\ cur.storeData[k].data \notin Dates
                  THEN cur.storeData[k].data ELSE v
  <2>1. w \in Data
    BY <1>0, StoreFields DEF Defined, Entry
  <2>2. \E sk \in BOOLEAN : SetValue(s, k, w, sk)
    <3>1. (s \in useSessionKeys) \in BOOLEAN
      OBVIOUS
    <3> QED
      BY <1>9, <3>1 DEF configtouch
  <2>3. s \in sessions
    BY <1>9 DEF configtouch, Request, Serviced
  <2> HIDE DEF w
  <2> QED
    BY <2>1, <2>2, <2>3, SetValueOwners
<1>10. ASSUME NEW s \in Sessions, NEW k \in Keys, NEW v \in Data,
              NEW r \in Keys, NEW n \in Keys, configset_m(s, k, v, r, n)
       PROVE  Owners'
  <2> DEFINE sk == s \in useSessionKeys
             c1 == setValue(cur, s, k, v, sk)
             c2 == removeValues(c1, {r})
             c3 == notifyValue(c2, s, n, sk)
             o1 == claimed(sessionKeys, cur, s, k, sk)
             o2 == claimed(o1, c2, s, n, sk)
  <2>1. sk \in BOOLEAN /\ s \in sessions /\ CanLock(s)
    BY <1>10 DEF configset_m, Request, Serviced
  <2>2. s \in open
    BY <1>0, <2>1, LockingRoot
  <2>3. setClaims(cur, k, sk) => <<s, k>> \notin cur.removedSessionKeys
    BY <1>10 DEF configset_m, MayCreate
  <2>4. Crash \/ Finish(c3, o2)
    BY <1>10 DEF configset_m
  <2> HIDE DEF sk, open
  <2>5. /\ o1 \in [Sessions -> SUBSET Keys]
        /\ \A t \in Sessions : sessionKeys[t] \subseteq o1[t]
        /\ setClaims(cur, k, sk) => k \in o1[s]
    BY <1>0, ClaimedMore
  <2> HIDE DEF o1
  <2>6. c1 \in Store /\ Owned(c1, o1, open)
    BY <1>0, <2>1, <2>2, <2>3, <2>5, SetValueType, OwnedSet
  <2> HIDE DEF c1
  <2>7. c2 \in Store /\ Owned(c2, o1, open)
    BY <1>0, <2>5, <2>6, RemoveValuesType, OwnedRemoveValues
  <2> HIDE DEF c2
  <2>8. /\ o2 \in [Sessions -> SUBSET Keys]
        /\ \A t \in Sessions : o1[t] \subseteq o2[t]
    BY <2>5, ClaimedMore
  <2> HIDE DEF o2
  <2>9. c3 \in Store /\ Owned(c3, o2, open)
    BY <1>0, <2>1, <2>2, <2>5, <2>7, <2>8, NotifyValueType, OwnedNotify
  <2> HIDE DEF c3
  <2>10. \A t \in Sessions : sessionKeys[t] \subseteq o2[t]
    BY <2>5, <2>8
  <2> QED
    BY <1>0, <2>4, <2>8, <2>9, <2>10, CrashOwners, FinishOwners DEF open
<1>11. ASSUME NEW s \in Sessions, NEW k \in Keys, configremove(s, k)
       PROVE  Owners'
  <2>1. removeValues(cur, {k}) \in Store /\ Owned(removeValues(cur, {k}), sessionKeys, open)
    BY <1>0, RemoveValuesType, OwnedRemoveValues
  <2> QED
    BY <1>0, <1>11, <2>1, FinishOwners DEF configremove
<1>12. ASSUME NEW s \in Sessions, NEW k \in Keys, confignotify(s, k)
       PROVE  Owners'
  <2> DEFINE sk == s \in useSessionKeys
             o == claimed(sessionKeys, cur, s, k, sk)
  <2>1. sk \in BOOLEAN /\ s \in sessions /\ CanLock(s)
    BY <1>12 DEF confignotify, Request, Serviced
  <2>2. s \in open
    BY <1>0, <2>1, LockingRoot
  <2>3. Crash \/ Finish(notifyValue(cur, s, k, sk), o)
    BY <1>12 DEF confignotify
  <2> HIDE DEF sk, open
  <2>4. /\ o \in [Sessions -> SUBSET Keys]
        /\ \A t \in Sessions : sessionKeys[t] \subseteq o[t]
    BY <1>0, ClaimedMore
  <2> HIDE DEF o
  <2>5. notifyValue(cur, s, k, sk) \in Store /\ Owned(notifyValue(cur, s, k, sk), o, open)
    BY <1>0, <2>1, <2>2, <2>4, NotifyValueType, OwnedNotify
  <2> QED
    BY <1>0, <2>3, <2>4, <2>5, CrashOwners, FinishOwners DEF open
<1>13. ASSUME NEW s \in Sessions,
              \/ \E k \in Keys : notifyadd_key(s, k) \/ notifyremove_key(s, k)
              \/ \E p \in Patterns : notifyadd_pattern(s, p) \/ notifyremove_pattern(s, p)
              \/ \E ks, newK \in SUBSET Keys, ps, newP \in SUBSET Patterns :
                   notifyset(s, ks, newK, ps, newP)
       PROVE  Owners'
  BY <1>0, <1>13, WatchSteps, CrashOwners, WatchOwners
<1>14. ASSUME pushNotifications
       PROVE  Owners'
  <2>1. CASE Crash
    BY <1>0, <2>1, CrashOwners
  <2>2. CASE ~Crash
    BY <1>0, <1>14, <2>2, QuietOwners DEF pushNotifications, lockVars, sessionVars
  <2> QED
    BY <2>1, <2>2
<1>15. CASE UNCHANGED vars
  BY <1>0, <1>15, QuietOwners DEF vars, storeVars, lockVars, sessionVars
<1> QED
  BY <1>1, <1>2, <1>3, <1>4, <1>5, <1>6, <1>7, <1>8, <1>9, <1>10, <1>11, <1>12,
     <1>13, <1>14, <1>15 DEF Next

LEMMA OwnersAreRight ==
  ASSUME "RecreateSessionKey" \notin Allow
  PROVE  Spec => []OwnerInv
<1>1. Init => OwnerInv
  <2> SUFFICES ASSUME Init PROVE OwnerInv
    OBVIOUS
  <2>1. Owners
    BY OwnedEmpty, VisibleOwners DEF Init
  <2> QED
    BY <2>1, InitInv DEF OwnerInv
<1>2. OwnerInv /\ [Next]_vars => OwnerInv'
  BY NextInv, NextOwners DEF OwnerInv
<1> QED
  BY <1>1, <1>2, PTL DEF Spec

\* Every session key has an open session that lists it and may remove it.
THEOREM SessionKeysAreOwned == ASSUME "RecreateSessionKey" \notin Allow
                               PROVE  Spec => []SessionKeyOwners
<1>1. OwnerInv => SessionKeyOwners
  BY DEF OwnerInv, Owners, Owned, SessionKeyOwners
<1> QED
  BY <1>1, OwnersAreRight, PTL

-----------------------------------------------------------------------------
(* The death of the lock holder *)

\* Death in a transaction restores what the transaction has changed.
THEOREM DeathRollsBack ==
  ASSUME {"WatchUnderLock", "RecreateSessionKey"} \cap Allow = {}
  PROVE  Spec => RollbackRestores
<1> DEFINE Restored == \A s \in locked \cap dead :
             s \notin sessions' =>
               /\ \A k \in Keys :
                    LET e == sav.storeData[k]
                    IN  /\ e.session # s => cur'.storeData[k].data = e.data
                        /\ e.session = s => cur'.storeData[k].data = NoData
               /\ \A p \in Patterns :
                    cur'.patternData[p].sessions = sav.patternData[p].sessions \ {s}
<1>1. BookInv /\ BookInv' /\ OwnerInv /\ [Next]_vars => [Restored]_vars
  <2> SUFFICES ASSUME BookInv, BookInv', OwnerInv, [Next]_vars,
                      NEW s \in locked \cap dead, s \notin sessions'
               PROVE  /\ \A k \in Keys :
                           LET e == sav.storeData[k]
                           IN  /\ e.session # s => cur'.storeData[k].data = e.data
                               /\ e.session = s => cur'.storeData[k].data = NoData
                      /\ \A p \in Patterns :
                           cur'.patternData[p].sessions = sav.patternData[p].sessions \ {s}
    OBVIOUS
  <2>0. /\ s \in Sessions /\ s \in sessions /\ storeLocked > 0
        /\ \A t \in locked : t = s
        /\ lockedSources = locked
    BY DEF BookInv, Inv, TypeOK, LockOwner
  <2>1. sessions' # sessions
    BY <2>0
  <2>2. cleanupSession(s)
    <3>1. ASSUME NEW t \in Sessions, configclose(t) \/ cleanupSession(t)
          PROVE  cleanupSession(s)
      <4>1. t = s
        BY <2>0, <3>1 DEF configclose, cleanupSession, Request, Serviced
      <4> QED
        BY <3>1, <4>1 DEF configclose, Request
    <3>2. ASSUME NEW t \in Sessions, ~(configclose(t) \/ cleanupSession(t)),
                 \/ \E sk \in BOOLEAN : configopen(t, sk)
                 \/ configopen_refused(t)
                 \/ Die(t) \/ configlock(t) \/ configunlock(t)
                 \/ notifyviaport(t) \/ notifyviafd(t) \/ notifyviasignal(t)
                 \/ notifyviafd_fails(t) \/ notifyviaport_again(t)
                 \/ notifycancel(t) \/ notifychanges(t) \/ Wake(t)
          PROVE  s \in sessions'
      BY <2>0, <3>2 DEF configopen, configopen_refused, Die, configlock, configunlock,
              notifyviaport, notifyviafd, notifyviasignal, register,
              notifyviafd_fails, notifyviaport_again, notifycancel, notifychanges,
              Wake, Crash, sessionVars
    <3>3. ASSUME NEW t \in Sessions, NEW k \in Keys,
                 \/ \E v \in Data : \/ configset(t, k, v)
                                    \/ configadd(t, k, v)
                                    \/ configadd_s(t, k, v)
                                    \/ configtouch(t, k, v)
                                    \/ \E r, n \in Keys : configset_m(t, k, v, r, n)
                 \/ configremove(t, k)
                 \/ confignotify(t, k)
          PROVE  s \in sessions'
      BY <2>0, <3>3 DEF configset, configadd, configadd_s, configtouch, SetValue,
              configset_m, configremove, confignotify, Finish, Crash, sessionVars
    <3>4. ASSUME NEW t \in Sessions,
                 \/ \E k \in Keys : notifyadd_key(t, k) \/ notifyremove_key(t, k)
                 \/ \E p \in Patterns : notifyadd_pattern(t, p) \/ notifyremove_pattern(t, p)
                 \/ \E ks, newK \in SUBSET Keys, ps, newP \in SUBSET Patterns :
                      notifyset(t, ks, newK, ps, newP)
          PROVE  s \in sessions'
      <4>1. Inv
        BY DEF BookInv
      <4> QED
        BY <2>0, <3>4, <4>1, WatchSteps DEF Watch, Crash, sessionVars
    <3>5. pushNotifications => s \in sessions'
      BY <2>0 DEF pushNotifications, Crash, sessionVars
    <3>6. UNCHANGED vars => s \in sessions'
      BY <2>0 DEF vars, sessionVars
    <3> QED
      BY <3>1, <3>2, <3>3, <3>4, <3>5, <3>6 DEF Next
  <2> DEFINE c1 == removeWatches(sav, s, keys[s], patterns[s])
             own == {k \in sessionKeys[s] : c1.storeData[k].session = s /\ CanLock(s)}
             c2 == removeValues(c1, own)
  <2>3. Serviced(s) /\ Close(s, sav)
    BY <2>0, <2>2 DEF cleanupSession
  <2>4. sav \in Visible /\ sav \in Store /\ Agree(sav, keys, patterns)
    BY <2>0 DEF Visible, BookInv, Inv, TypeOK, Books
  <2>5. cur' = committed(c2) /\ patterns' = [patterns EXCEPT ![s] = {}]
    <3>1. ~Crash
      BY <2>1 DEF Crash, sessionVars
    <3> QED
      BY <2>3, <3>1 DEF Close
  <2>6. Bereft(sav, c2, s)
    BY <2>0, <2>3, <2>4, CloseRemovesOwned
  <2> HIDE DEF c2
  <2>7. \A k \in Keys : cur'.storeData[k].data = c2.storeData[k].data
    BY <2>5, <2>6, CommittedFields DEF Bereft
  <2>8. \A k \in Keys :
          /\ sav.storeData[k].session # s => cur'.storeData[k].data = sav.storeData[k].data
          /\ sav.storeData[k].session = s => cur'.storeData[k].data = NoData
    BY <2>6, <2>7 DEF Bereft
  <2>9. ASSUME NEW p \in Patterns
        PROVE  cur'.patternData[p].sessions = sav.patternData[p].sessions \ {s}
    <3>1. patterns \in [Sessions -> SUBSET Patterns]
      BY DEF BookInv, Inv, TypeOK
    <3>2. sav.patternData[p].sessions = Watching(patterns, p)
      BY <2>4, AgreeSessions
    <3>3. Agree(cur', keys', patterns')
      BY VisibleBooks DEF BookInv
    <3>4. cur'.patternData[p].sessions = Watching(patterns', p)
      BY <3>3, AgreeSessions
    <3>5. Watching(patterns', p) = Watching(patterns, p) \ {s}
      BY <2>5, <3>1 DEF Watching
    <3> QED
      BY <3>2, <3>4, <3>5
  <2> QED
    BY <2>8, <2>9
<1>2. Spec => []BookInv
  BY BooksAreRight
<1>3. Spec => []OwnerInv
  BY OwnersAreRight
<1> QED
  BY <1>1, <1>2, <1>3, PTL DEF Spec, RollbackRestores

-----------------------------------------------------------------------------
(* The server implements PubSubStore *)

\* The store d comes from the store c by touching keys.
Touches(c, d) ==
  /\ c.changedKeys \subseteq d.changedKeys
  /\ \A k \in Keys \ d.changedKeys :
       /\ d.storeData[k].data = c.storeData[k].data
       /\ d.storeData[k].session = c.storeData[k].session

LEMMA TouchesTwice ==
  ASSUME NEW c, NEW d, NEW e, Touches(c, d), Touches(d, e)
  PROVE  Touches(c, e)
BY DEF Touches

\* Whatever is set, removed or flagged is reported as changed.
LEMMA SetTouches ==
  ASSUME NEW c \in Store, NEW s \in Sessions, NEW k \in Keys, NEW v \in Data,
         NEW sk \in BOOLEAN
  PROVE  Touches(c, setValue(c, s, k, v, sk))
<1>1. CASE setRefused(c, s, k, sk)
  <2>1. setValue(c, s, k, v, sk) = c
    BY <1>1 DEF setValue
  <2> QED
    BY <2>1 DEF Touches
<1>2. CASE ~setRefused(c, s, k, sk)
  <2>1. Written(c, setValue(c, s, k, v, sk), s, k, v, sk)
    BY <1>2, SetValueFields
  <2> QED
    BY <2>1 DEF Written, Touches
<1> QED
  BY <1>1, <1>2

LEMMA RemoveTouches ==
  ASSUME NEW c \in Store, NEW ks \in SUBSET Keys
  PROVE  Touches(c, removeValues(c, ks))
<1> DEFINE d == removeValues(c, ks)
           gone == {k \in ks : Defined(c, k)}
<1>1. /\ d.changedKeys = c.changedKeys \cup gone
      /\ \A k \in Keys : k \notin gone => d.storeData[k] = c.storeData[k]
  BY RemoveValuesFields
<1> HIDE DEF d, gone
<1> QED
  BY <1>1 DEF Touches, d

LEMMA NotifyTouches ==
  ASSUME NEW c \in Store, NEW s \in Sessions, NEW k \in Keys, NEW sk \in BOOLEAN
  PROVE  Touches(c, notifyValue(c, s, k, sk))
<1>1. CASE Defined(c, k)
  <2>1. c.storeData[k].data \in Data
    BY <1>1, StoreFields DEF Defined, Entry
  <2> QED
    BY <1>1, <2>1, SetTouches DEF notifyValue
<1>2. CASE ~Defined(c, k)
  <2> DEFINE v == CHOOSE w \in Data : TRUE
             d == setValue(c, s, k, v, sk)
  <2>1. v \in Data
    BY StoreAssumption
  <2>2. notifyValue(c, s, k, sk) = removeValues(d, {k})
    BY <1>2 DEF notifyValue
  <2> HIDE DEF v
  <2>3. d \in Store /\ Touches(c, d)
    BY <2>1, SetValueType, SetTouches
  <2> HIDE DEF d
  <2>4. Touches(d, removeValues(d, {k}))
    BY <2>3, RemoveTouches
  <2> QED
    BY <2>2, <2>3, <2>4, TouchesTwice
<1> QED
  BY <1>1, <1>2

\* A saved store was saved between two transactions.
SavedClean == storeLocked > 0 => sav.changedKeys = {}

\* What the refinement rests on.
RefInv == BookInv /\ OwnerInv /\ SavedClean

\* The holder of the lock and the settled contents.
LEMMA HolderFacts ==
  ASSUME Inv
  PROVE  /\ storeLocked = 0 => lockHolder = NoSession /\ settled = Contents(cur)
         /\ storeLocked > 0 => lockHolder # NoSession /\ settled = Contents(sav)
         /\ \A s \in locked : lockHolder = s
<1>1. ASSUME NEW s \in locked
      PROVE  lockHolder = s
  <2>1. s \in Sessions /\ \A t \in locked : t = s
    BY DEF Inv, TypeOK, LockOwner
  <2>2. (CHOOSE t \in Sessions : t \in locked) = s
    BY <2>1
  <2> QED
    BY <2>2 DEF lockHolder
<1>2. storeLocked > 0 => locked # {}
  BY DEF Inv, LockOwner
<1>3. storeLocked = 0 => locked = {}
  BY DEF Inv, LockOwner
<1>4. \A s \in locked : s # NoSession
  BY StoreAssumption DEF Inv, TypeOK
<1> QED
  BY <1>1, <1>2, <1>3, <1>4 DEF lockHolder, settled

\* Steps after which a client finds everything as it was.
LEMMA QuietAbstract ==
  ASSUME UNCHANGED <<cur, sav, storeLocked, locked, keys, patterns, changes, dead>>
  PROVE  UNCHANGED Abstract!vars
BY DEF Abstract!vars, settled, Contents, lockHolder

LEMMA CrashAbstract ==
  ASSUME Crash
  PROVE  UNCHANGED Abstract!vars
BY QuietAbstract DEF Crash, storeVars, lockVars, sessionVars, watchVars

\* The commit does not change the contents.
LEMMA ContentsCommitted ==
  ASSUME NEW c \in Store
  PROVE  Contents(committed(c)) = Contents(c)
<1>1. \A k \in Keys : /\ committed(c).storeData[k].data = c.storeData[k].data
                      /\ committed(c).storeData[k].session = c.storeData[k].session
  BY CommittedFields
<1> QED
  BY <1>1 DEF Contents

\* A commit publishes: gone are the sessions that are no longer there.
LEMMA Publishes ==
  ASSUME Inv, Inv', NEW c \in Store, NEW gone,
         NEW K \in [Sessions -> SUBSET Keys], NEW P \in [Sessions -> SUBSET Patterns],
         Agree(c, K, P),
         \A t \in Sessions \ gone : K[t] = keys[t] /\ P[t] = patterns[t],
         cur' = committed(c), storeLocked' = 0,
         changes' = [t \in Sessions |->
                       IF t \in gone THEN {} ELSE changes[t] \cup notified(c, t)]
  PROVE  Abstract!Publish(Contents(c), c.changedKeys, gone)
<1>1. /\ settled' = Contents(cur')
      /\ lockHolder' = NoSession
  BY DEF settled, lockHolder, Contents, Inv, LockOwner
<1>2. Contents(cur') = Contents(c)
  BY ContentsCommitted
<1>3. cur'.changedKeys = {}
  BY CommittedType
<1>4. ASSUME NEW t \in Sessions \ gone
      PROVE  notified(c, t) = {k \in c.changedKeys : Abstract!Watches(t, k)}
  <2>1. t \in Sessions /\ K[t] = keys[t] /\ P[t] = patterns[t]
    OBVIOUS
  <2> DEFINE told == {k \in c.changedKeys : k \in K[t] \/ \E p \in P[t] : <<p, k>> \in Matches}
  <2>2. notified(c, t) = told
    BY <2>1, NotifiedAgree
  <2>3. told = {k \in c.changedKeys : Abstract!Watches(t, k)}
    BY <2>1 DEF Abstract!Watches
  <2> QED
    BY <2>2, <2>3
<1>5. changes' = [t \in Sessions |->
                    IF t \in gone THEN {}
                    ELSE changes[t] \cup {k \in c.changedKeys : Abstract!Watches(t, k)}]
  BY <1>4
<1>6. Contents(cur)' = Contents(c)
  BY <1>2 DEF Contents
<1> QED
  BY <1>1, <1>2, <1>3, <1>5, <1>6 DEF Abstract!Publish

\* A request that changes values is part of the transaction of its session, or
\* a transaction of its own.
LEMMA FinishAbstract ==
  ASSUME RefInv, Inv', NEW c \in Store, NEW owned, Agree(c, keys, patterns),
         Touches(cur, c), Finish(c, owned)
  PROVE  Abstract!Write \/ Abstract!Single
<1>0. /\ Inv
      /\ keys \in [Sessions -> SUBSET Keys]
      /\ patterns \in [Sessions -> SUBSET Patterns]
  BY DEF RefInv, BookInv, Inv, TypeOK
<1>1. \A k \in Keys \ c.changedKeys : Contents(c)[k] = Contents(cur)[k]
  BY DEF Touches, Contents
<1>2. UNCHANGED <<keys, patterns, dead, locked, storeLocked>>
  BY DEF Finish, lockVars, sessionVars, watchVars
<1>3. UNCHANGED lockHolder
  BY <1>2 DEF lockHolder
<1>4. CASE storeLocked > 0
  <2>1. cur' = c /\ UNCHANGED <<sav, changes>>
    BY <1>4 DEF Finish
  <2>2. UNCHANGED settled
    BY <1>2, <1>4, <2>1 DEF settled, Contents
  <2>3. Contents(cur)' = Contents(c)
    BY <2>1 DEF Contents
  <2>4. lockHolder # NoSession
    BY <1>0, <1>4, HolderFacts
  <2>5. Abstract!Write
    BY <1>1, <1>2, <1>3, <2>1, <2>2, <2>3, <2>4 DEF Abstract!Write, Touches
  <2> QED
    BY <2>5
<1>5. CASE ~(storeLocked > 0)
  <2>0. storeLocked = 0
    BY <1>0, <1>5 DEF Inv, TypeOK
  <2>1. Commit(c, owned)
    BY <1>5 DEF Finish
  <2>2. changes' = [t \in Sessions |->
                      IF t \in {} THEN {} ELSE changes[t] \cup notified(c, t)]
    BY <2>1 DEF Commit
  <2>3. Abstract!Publish(Contents(c), c.changedKeys, {})
    <3>1. cur' = committed(c) /\ storeLocked' = 0
      BY <1>2, <2>0, <2>1 DEF Commit
    <3> QED
      BY <1>0, <2>2, <3>1, Publishes
  <2>4. settled' = Contents(c)
    BY <2>3 DEF Abstract!Publish
  <2>5. settled = Contents(cur) /\ lockHolder = NoSession
    BY <1>0, <2>0, HolderFacts
  <2>6. c.changedKeys \in SUBSET Keys
    BY StoreFields
  <2>7. Abstract!Single
    <3>1. \A k \in Keys \ c.changedKeys : settled'[k] = settled[k]
      BY <1>1, <2>4, <2>5
    <3>2. Abstract!Publish(settled', c.changedKeys, {})
      BY <2>3, <2>4
    <3> QED
      BY <1>2, <2>5, <2>6, <3>1, <3>2 DEF Abstract!Single
  <2> QED
    BY <2>7
<1> QED
  BY <1>4, <1>5

\* A change of the watches, between transactions.
LEMMA WatchAbstract ==
  ASSUME Inv, Inv', NEW s \in Sessions, NEW c, NEW freed, NEW ks, NEW ps,
         Watch(s, c, freed, ks, ps), SameValues(cur, c), storeLocked = 0
  PROVE  Abstract!Watch(s)
<1>1. /\ cur' = c
      /\ UNCHANGED <<changes, dead, locked, storeLocked>>
      /\ \A t \in Sessions \ {s} : keys'[t] = keys[t] /\ patterns'[t] = patterns[t]
  BY DEF Watch, lockVars, sessionVars, Inv, TypeOK
<1>2. Contents(c) = Contents(cur)
  BY DEF SameValues, Contents
<1>3. Contents(cur)' = Contents(cur)
  BY <1>1, <1>2 DEF Contents
<1>4. /\ settled = Contents(cur)
      /\ lockHolder = NoSession
  BY HolderFacts
<1>5. UNCHANGED <<settled, lockHolder>>
  BY <1>1, <1>3, <1>4 DEF settled, lockHolder, Contents
<1>6. cur'.changedKeys = cur.changedKeys
  BY <1>1 DEF SameValues
<1> QED
  BY <1>1, <1>3, <1>4, <1>5, <1>6 DEF Abstract!Watch

\* The end of a session.
LEMMA CloseAbstract ==
  ASSUME RefInv, Inv', NEW s \in Sessions, Serviced(s), NEW c \in Visible,
         Close(s, c), ~Crash
  PROVE  Abstract!End(s, Contents(c), c.changedKeys)
<1> DEFINE c1 == removeWatches(c, s, keys[s], patterns[s])
           own == {k \in sessionKeys[s] : c1.storeData[k].session = s /\ CanLock(s)}
           c2 == removeValues(c1, own)
           K == [keys EXCEPT ![s] = {}]
           P == [patterns EXCEPT ![s] = {}]
           mine == {k \in Keys : c.storeData[k].session = s}
<1>0. /\ Inv /\ BookInv /\ OwnerInv
      /\ keys \in [Sessions -> SUBSET Keys]
      /\ patterns \in [Sessions -> SUBSET Patterns]
      /\ sessionKeys \in [Sessions -> SUBSET Keys]
  BY DEF RefInv, BookInv, Inv, TypeOK
<1>1. /\ cur' = committed(c2)
      /\ changes' = [t \in Sessions |->
           IF t = s THEN {} ELSE changes[t] \cup notified(c2, t)]
      /\ storeLocked' = IF s \in locked THEN 0 ELSE storeLocked
      /\ dead' = dead \ {s}
      /\ keys' = K
      /\ patterns' = P
  BY DEF Close
<1>2. storeLocked' = 0
  BY <1>0, <1>1 DEF Inv, LockOwner, TypeOK, Serviced
<1>3. Bereft(c, c2, s)
  BY <1>0, CloseRemovesOwned
<1>4. Agree(c2, K, P)
  <2>1. own \in SUBSET Keys
    BY <1>0
  <2> HIDE DEF own
  <2> QED
    BY <1>0, <2>1, CloseAgree
<1> HIDE DEF c2
<1>5. changes' = [t \in Sessions |->
                    IF t \in {s} THEN {} ELSE changes[t] \cup notified(c2, t)]
  BY <1>1
<1>6. /\ K \in [Sessions -> SUBSET Keys] /\ P \in [Sessions -> SUBSET Patterns]
      /\ \A t \in Sessions \ {s} : K[t] = keys[t] /\ P[t] = patterns[t]
  BY <1>0
<1> HIDE DEF K, P
<1>7. c2 \in Store
  BY <1>3 DEF Bereft
<1>8. Abstract!Publish(Contents(c2), c2.changedKeys, {s})
  BY <1>0, <1>1, <1>2, <1>4, <1>5, <1>6, <1>7, Publishes
<1>9. mine = {k \in Keys : Contents(c)[k].session = s}
  BY DEF Contents
<1>10. Contents(c2) = [k \in Keys |-> IF k \in mine THEN Abstract!Absent ELSE Contents(c)[k]]
  BY <1>3 DEF Bereft, Contents, Abstract!Absent
<1>11. c2.changedKeys = c.changedKeys \cup mine
  BY <1>3 DEF Bereft
<1>12. Abstract!Publish([k \in Keys |-> IF k \in mine THEN Abstract!Absent ELSE Contents(c)[k]],
                        c.changedKeys \cup mine, {s})
  BY <1>8, <1>10, <1>11
<1> HIDE DEF mine
<1> QED
  BY <1>1, <1>9, <1>12 DEF Abstract!End, K, P

\* The saved store stays as it is until the transaction ends.
LEMMA NextSaved ==
  ASSUME "WatchUnderLock" \notin Allow, RefInv, Inv', [Next]_vars
  PROVE  SavedClean'
<1>0. Inv /\ Inv'
  BY DEF RefInv, BookInv
<1>1. CASE UNCHANGED <<sav, storeLocked>>
  BY <1>1 DEF RefInv, SavedClean
<1>2. ASSUME storeLocked' = 0
      PROVE  SavedClean'
  BY <1>2 DEF SavedClean
<1>3. ASSUME NEW s \in Sessions, configlock(s)
      PROVE  SavedClean'
  BY <1>0, <1>3 DEF configlock, Inv, NothingLeftOver, SavedClean
<1>4. ASSUME NEW s \in Sessions, NEW c, Serviced(s), Close(s, c)
      PROVE  SavedClean'
  <2>1. CASE Crash
    BY <1>1, <2>1 DEF Crash, storeVars, lockVars
  <2>2. CASE ~Crash
    <3>1. storeLocked' = IF s \in locked THEN 0 ELSE storeLocked
      BY <1>4, <2>2 DEF Close
    <3>2. storeLocked' = 0
      BY <1>0, <1>4, <3>1 DEF Inv, LockOwner, TypeOK, Serviced
    <3> QED
      BY <1>2, <3>2
  <2> QED
    BY <2>1, <2>2
<1>5. ASSUME NEW c, NEW owned, Crash \/ Finish(c, owned)
      PROVE  SavedClean'
  <2>1. CASE storeLocked > 0
    BY <1>1, <1>5, <2>1 DEF Crash, Finish, storeVars, lockVars
  <2>2. CASE ~(storeLocked > 0)
    BY <1>5, <2>2 DEF Crash, Finish, lockVars, SavedClean
  <2> QED
    BY <2>1, <2>2
<1>6. ASSUME NEW s \in Sessions, NEW k, NEW v, NEW sk, SetValue(s, k, v, sk)
      PROVE  SavedClean'
  BY <1>5, <1>6 DEF SetValue
<1>7. ASSUME NEW s \in Sessions,
             \/ \E k \in Keys : notifyadd_key(s, k) \/ notifyremove_key(s, k)
             \/ \E p \in Patterns : notifyadd_pattern(s, p) \/ notifyremove_pattern(s, p)
             \/ \E ks, newK \in SUBSET Keys, ps, newP \in SUBSET Patterns :
                  notifyset(s, ks, newK, ps, newP)
      PROVE  SavedClean'
  <2>1. MayWatch(s)
    BY <1>7 DEF notifyadd_key, notifyremove_key, notifyadd_pattern,
                notifyremove_pattern, notifyset
  <2>2. storeLocked = 0
    BY <2>1 DEF MayWatch
  <2>3. Crash \/ \E c, freed, ks, ps : Watch(s, c, freed, ks, ps)
    BY <1>0, <1>7, WatchSteps
  <2>4. storeLocked' = storeLocked
    BY <2>3 DEF Crash, Watch, lockVars
  <2> QED
    BY <1>2, <2>2, <2>4
<1>8. ASSUME NEW s \in Sessions, NEW k \in Keys, NEW v \in Data,
             \/ configset(s, k, v) \/ configadd(s, k, v)
             \/ configadd_s(s, k, v) \/ configtouch(s, k, v)
             \/ \E r, n \in Keys : configset_m(s, k, v, r, n)
             \/ configremove(s, k) \/ confignotify(s, k)
      PROVE  SavedClean'
  <2>1. CASE \/ configset(s, k, v) \/ configadd(s, k, v)
             \/ configadd_s(s, k, v) \/ configtouch(s, k, v)
    BY <1>6, <2>1 DEF configset, configadd, configadd_s, configtouch
  <2>2. CASE \E r, n \in Keys : configset_m(s, k, v, r, n)
    BY <1>5, <2>2 DEF configset_m
  <2>3. CASE configremove(s, k) \/ confignotify(s, k)
    BY <1>5, <2>3 DEF configremove, confignotify
  <2> QED
    BY <1>8, <2>1, <2>2, <2>3
<1>9. ASSUME NEW s \in Sessions,
             \/ \E sk \in BOOLEAN : configopen(s, sk)
             \/ configopen_refused(s) \/ Die(s) \/ notifyviaport(s) \/ notifyviafd(s)
             \/ notifyviasignal(s) \/ notifyviafd_fails(s) \/ notifyviaport_again(s)
             \/ notifycancel(s) \/ notifychanges(s) \/ Wake(s)
      PROVE  SavedClean'
  <2>1. UNCHANGED <<sav, storeLocked>>
    BY <1>9 DEF configopen, configopen_refused, Crash, Die, notifyviaport, notifyviafd,
                notifyviasignal, register, notifyviafd_fails, notifyviaport_again,
                notifycancel, notifychanges, Wake, storeVars, lockVars
  <2> QED
    BY <1>1, <2>1
<1>10. ASSUME pushNotifications \/ UNCHANGED vars
       PROVE  SavedClean'
  <2>1. UNCHANGED <<sav, storeLocked>>
    BY <1>10 DEF pushNotifications, Crash, vars, storeVars, lockVars
  <2> QED
    BY <1>1, <2>1
<1>11. ASSUME NEW s \in Sessions, configclose(s) \/ cleanupSession(s)
       PROVE  SavedClean'
  BY <1>4, <1>11 DEF configclose, cleanupSession, Request
<1>12. ASSUME NEW s \in Sessions, configunlock(s)
       PROVE  SavedClean'
  BY <1>2, <1>12 DEF configunlock
<1> QED
  BY <1>3, <1>7, <1>8, <1>9, <1>10, <1>11, <1>12, StoreAssumption DEF Next

\* A request that sets a value.
LEMMA SetValueAbstract ==
  ASSUME RefInv, Inv', NEW s \in Sessions, NEW k \in Keys, NEW v \in Data,
         NEW sk \in BOOLEAN, s \in sessions, SetValue(s, k, v, sk)
  PROVE  Abstract!Next \/ UNCHANGED Abstract!vars
<1>0. /\ cur \in Store
      /\ keys \in [Sessions -> SUBSET Keys]
      /\ patterns \in [Sessions -> SUBSET Patterns]
      /\ Agree(cur, keys, patterns)
  BY VisibleBooks DEF RefInv, BookInv, Inv, TypeOK
<1> DEFINE c == setValue(cur, s, k, v, sk)
           o == claimed(sessionKeys, cur, s, k, sk)
<1>1. Crash \/ Finish(c, o)
  BY DEF SetValue
<1>2. c \in Store /\ Agree(c, keys, patterns) /\ Touches(cur, c)
  BY <1>0, SetValueType, AgreeSet, SetTouches
<1> HIDE DEF c, o
<1>3. CASE Crash
  BY <1>3, CrashAbstract
<1>4. CASE Finish(c, o)
  <2>1. Abstract!Write \/ Abstract!Single
    BY <1>2, <1>4, FinishAbstract
  <2> QED
    BY <2>1 DEF Abstract!Next
<1> QED
  BY <1>1, <1>3, <1>4

\* The orderly end of a session.
LEMMA ConfigcloseAbstract ==
  ASSUME RefInv, Inv', NEW s \in Sessions, configclose(s)
  PROVE  Abstract!Next \/ UNCHANGED Abstract!vars
<1>0. Inv
  BY DEF RefInv, BookInv
<1>1. CASE Crash
  BY <1>1, CrashAbstract
<1>2. CASE ~Crash
  <2>1. Serviced(s) /\ s \notin dead /\ Close(s, cur) /\ cur \in Visible
    BY DEF configclose, Request, Visible
  <2>2. Abstract!End(s, Contents(cur), cur.changedKeys)
    BY <1>2, <2>1, CloseAbstract
  <2>3. Abstract!Close(s)
    <3>1. CASE storeLocked > 0
      <4>1. lockHolder = s
        BY <1>0, <2>1, <3>1, HolderFacts DEF Serviced, Inv, LockOwner
      <4> QED
        BY <2>1, <2>2, <4>1 DEF Abstract!Close
    <3>2. CASE storeLocked = 0
      <4>1. lockHolder = NoSession /\ settled = Contents(cur)
        BY <1>0, <3>2, HolderFacts
      <4>2. cur.changedKeys = {}
        BY <1>0, <3>2 DEF Inv, NothingLeftOver
      <4>3. Abstract!End(s, settled, {})
        BY <2>2, <4>1, <4>2
      <4> QED
        BY <2>1, <4>1, <4>3 DEF Abstract!Close
    <3> QED
      BY <1>0, <3>1, <3>2 DEF Inv, TypeOK
  <2> QED
    BY <2>3 DEF Abstract!Next
<1> QED
  BY <1>1, <1>2

\* The end of a session whose client is gone.
LEMMA CleanupAbstract ==
  ASSUME RefInv, Inv', NEW s \in Sessions, cleanupSession(s)
  PROVE  Abstract!Next \/ UNCHANGED Abstract!vars
<1> DEFINE c == IF storeLocked > 0 /\ s \in locked THEN sav ELSE cur
<1>0. Inv
  BY DEF RefInv, BookInv
<1>1. CASE Crash
  BY <1>1, CrashAbstract
<1>2. CASE ~Crash
  <2>1. Serviced(s) /\ s \in dead /\ Close(s, c) /\ c \in Visible
    BY DEF cleanupSession, Visible
  <2>2. /\ c.changedKeys = {}
        /\ settled = Contents(c)
        /\ lockHolder \in {s, NoSession}
    <3>1. CASE storeLocked > 0
      <4>1. s \in locked
        BY <1>0, <2>1, <3>1 DEF Serviced, Inv, LockOwner
      <4>2. lockHolder = s /\ settled = Contents(sav) /\ c = sav
        BY <1>0, <3>1, <4>1, HolderFacts
      <4> QED
        BY <3>1, <4>2 DEF RefInv, SavedClean
    <3>2. CASE storeLocked = 0
      <4>1. lockHolder = NoSession /\ settled = Contents(cur) /\ c = cur
        BY <1>0, <3>2, HolderFacts
      <4> QED
        BY <1>0, <3>2, <4>1 DEF Inv, NothingLeftOver
    <3> QED
      BY <1>0, <3>1, <3>2 DEF Inv, TypeOK
  <2> HIDE DEF c
  <2>3. Abstract!End(s, Contents(c), c.changedKeys)
    BY <1>2, <2>1, CloseAbstract
  <2>4. Abstract!End(s, settled, {})
    BY <2>2, <2>3
  <2>5. Abstract!Abort(s)
    BY <2>1, <2>2, <2>4 DEF Abstract!Abort
  <2> QED
    BY <2>5 DEF Abstract!Next
<1> QED
  BY <1>1, <1>2

\* Every step of the server is one of PubSubStore, or shows nothing.
LEMMA StepAbstract ==
  ASSUME "WatchUnderLock" \notin Allow, RefInv, Inv', [Next]_vars
  PROVE  Abstract!Next \/ UNCHANGED Abstract!vars
<1> DEFINE Goal == Abstract!Next \/ UNCHANGED Abstract!vars
<1>0. /\ Inv /\ BookInv
      /\ cur \in Store
      /\ changes \in [Sessions -> SUBSET Keys]
      /\ keys \in [Sessions -> SUBSET Keys]
      /\ patterns \in [Sessions -> SUBSET Patterns]
      /\ Agree(cur, keys, patterns)
  BY VisibleBooks DEF RefInv, BookInv, Inv, TypeOK
<1>1. ASSUME NEW c \in Store, NEW owned, Agree(c, keys, patterns), Touches(cur, c),
             Crash \/ Finish(c, owned)
      PROVE  Goal
  <2>1. CASE Crash
    BY <2>1, CrashAbstract
  <2>2. CASE Finish(c, owned)
    <3>1. Abstract!Write \/ Abstract!Single
      BY <1>1, <2>2, FinishAbstract
    <3> QED
      BY <3>1 DEF Abstract!Next
  <2> QED
    BY <1>1, <2>1, <2>2
<1>2. ASSUME NEW s \in Sessions,
             \/ \E sk \in BOOLEAN : configopen(s, sk)
             \/ configopen_refused(s) \/ notifyviaport(s) \/ notifyviafd(s)
             \/ notifyviasignal(s) \/ notifyviafd_fails(s) \/ notifyviaport_again(s)
             \/ notifycancel(s) \/ Wake(s)
      PROVE  Goal
  <2>1. UNCHANGED <<cur, sav, storeLocked, locked, keys, patterns, changes, dead>>
    BY <1>2 DEF configopen, configopen_refused, Crash, notifyviaport, notifyviafd,
                notifyviasignal, register, notifyviafd_fails, notifyviaport_again,
                notifycancel, Wake, storeVars, lockVars, watchVars, sessionVars
  <2> QED
    BY <2>1, QuietAbstract
<1>3. ASSUME pushNotifications \/ UNCHANGED vars
      PROVE  Goal
  <2>1. UNCHANGED <<cur, sav, storeLocked, locked, keys, patterns, changes, dead>>
    BY <1>3 DEF pushNotifications, Crash, vars, storeVars, lockVars, watchVars,
                sessionVars
  <2> QED
    BY <2>1, QuietAbstract
<1>4. ASSUME NEW s \in Sessions, configclose(s) \/ cleanupSession(s)
      PROVE  Goal
  BY <1>4, ConfigcloseAbstract, CleanupAbstract
<1>5. ASSUME NEW s \in Sessions, Die(s)
      PROVE  Goal
  <2>1. /\ dead' = dead \cup {s}
        /\ UNCHANGED <<cur, sav, storeLocked, locked, keys, patterns, changes>>
    BY <1>5 DEF Die, storeVars, lockVars, watchVars
  <2>2. UNCHANGED <<settled, Contents(cur), lockHolder>>
    BY <2>1 DEF settled, Contents, lockHolder
  <2>3. Abstract!Die(s)
    BY <2>1, <2>2 DEF Abstract!Die
  <2> QED
    BY <2>3 DEF Abstract!Next
<1>6. ASSUME NEW s \in Sessions, notifychanges(s)
      PROVE  Goal
  <2>1. /\ changes' = [changes EXCEPT ![s] = {}]
        /\ UNCHANGED <<cur, sav, storeLocked, locked, keys, patterns, dead>>
    BY <1>6 DEF notifychanges, lockVars, watchVars, sessionVars
  <2>2. UNCHANGED <<settled, Contents(cur), lockHolder>>
    BY <2>1 DEF settled, Contents, lockHolder
  <2>3. Abstract!Fetch(s)
    BY <2>1, <2>2 DEF Abstract!Fetch
  <2> QED
    BY <2>3 DEF Abstract!Next
<1>7. ASSUME NEW s \in Sessions, configlock(s)
      PROVE  Goal
  <2>1. /\ storeLocked = 0 /\ storeLocked' = 1 /\ sav' = cur
        /\ locked = {} /\ locked' = {s}
        /\ UNCHANGED <<cur, keys, patterns, changes, dead>>
    BY <1>0, <1>7 DEF configlock, watchVars, sessionVars, Inv, LockOwner
  <2>2. lockHolder = NoSession /\ settled = Contents(cur)
    BY <1>0, <2>1, HolderFacts
  <2>3. settled' = settled /\ UNCHANGED Contents(cur)
    BY <2>1, <2>2 DEF settled, Contents
  <2>4. lockHolder' = s
    <3>1. (CHOOSE t \in Sessions : t \in {s}) = s
      OBVIOUS
    <3> QED
      BY <2>1, <3>1 DEF lockHolder
  <2>5. Abstract!Begin(s)
    BY <2>1, <2>2, <2>3, <2>4 DEF Abstract!Begin
  <2> QED
    BY <2>5 DEF Abstract!Next
<1>8. ASSUME NEW s \in Sessions, configunlock(s)
      PROVE  Goal
  <2>1. /\ storeLocked > 0 /\ storeLocked' = 0 /\ Commit(cur, sessionKeys)
        /\ UNCHANGED <<keys, patterns, dead>>
    BY <1>8 DEF configunlock, watchVars, sessionVars
  <2>2. lockHolder # NoSession
    BY <1>0, <2>1, HolderFacts
  <2>3. /\ cur' = committed(cur)
        /\ changes' = [t \in Sessions |->
                         IF t \in {} THEN {} ELSE changes[t] \cup notified(cur, t)]
    BY <2>1 DEF Commit
  <2>4. Abstract!Publish(Contents(cur), cur.changedKeys, {})
    BY <1>0, <2>1, <2>3, Publishes
  <2>5. Abstract!Commit
    BY <2>1, <2>2, <2>4 DEF Abstract!Commit
  <2> QED
    BY <2>5 DEF Abstract!Next
<1>9. ASSUME NEW s \in Sessions, NEW k \in Keys, NEW v \in Data,
             \/ configset(s, k, v)
             \/ configadd(s, k, v)
             \/ configadd_s(s, k, v)
      PROVE  Goal
  <2>1. (s \in useSessionKeys) \in BOOLEAN
    OBVIOUS
  <2>2. \E sk \in BOOLEAN : SetValue(s, k, v, sk)
    BY <1>9, <2>1 DEF configset, configadd, configadd_s
  <2>3. s \in sessions
    BY <1>9 DEF configset, configadd, configadd_s, Request, Serviced
  <2> QED
    BY <2>2, <2>3, SetValueAbstract
<1>10. ASSUME NEW s \in Sessions, NEW k \in Keys, NEW v \in Data,
              configtouch(s, k, v)
       PROVE  Goal
  <2> DEFINE w == IF Defined(cur, k) /\ cur.storeData[k].data \notin Dates
                  THEN cur.storeData[k].data ELSE v
  <2>1. w \in Data
    BY <1>0, StoreFields DEF Defined, Entry
  <2>2. \E sk \in BOOLEAN : SetValue(s, k, w, sk)
    <3>1. (s \in useSessionKeys) \in BOOLEAN
      OBVIOUS
    <3> QED
      BY <1>10, <3>1 DEF configtouch
  <2>3. s \in sessions
    BY <1>10 DEF configtouch, Request, Serviced
  <2> HIDE DEF w
  <2> QED
    BY <2>1, <2>2, <2>3, SetValueAbstract
<1>11. ASSUME NEW s \in Sessions, NEW k \in Keys, NEW v \in Data,
              NEW r \in Keys, NEW n \in Keys, configset_m(s, k, v, r, n)
       PROVE  Goal
  <2> DEFINE sk == s \in useSessionKeys
             c1 == setValue(cur, s, k, v, sk)
             c2 == removeValues(c1, {r})
             c3 == notifyValue(c2, s, n, sk)
  <2>1. sk \in BOOLEAN /\ s \in sessions
    BY <1>11 DEF configset_m, Request, Serviced
  <2>2. \E o : Crash \/ Finish(c3, o)
    BY <1>11 DEF configset_m
  <2> HIDE DEF sk
  <2>3. c3 \in Store /\ Agree(c3, keys, patterns)
    BY <1>0, <2>1, MultipleBooks
  <2>4. c1 \in Store /\ Touches(cur, c1)
    BY <1>0, <2>1, SetValueType, SetTouches
  <2> HIDE DEF c1
  <2>5. c2 \in Store /\ Touches(c1, c2)
    BY <2>4, RemoveValuesType, RemoveTouches
  <2> HIDE DEF c2
  <2>6. Touches(c2, c3)
    BY <2>1, <2>5, NotifyTouches
  <2> HIDE DEF c3
  <2>7. Touches(cur, c3)
    BY <2>4, <2>5, <2>6, TouchesTwice
  <2> QED
    BY <1>1, <2>2, <2>3, <2>7
<1>12. ASSUME NEW s \in Sessions, NEW k \in Keys, configremove(s, k)
       PROVE  Goal
  <2> DEFINE c == removeValues(cur, {k})
  <2>1. c \in Store /\ Agree(c, keys, patterns) /\ Touches(cur, c)
    BY <1>0, RemoveValuesType, AgreeRemoveValues, RemoveTouches
  <2>2. Finish(c, sessionKeys)
    BY <1>12 DEF configremove
  <2> HIDE DEF c
  <2> QED
    BY <1>1, <2>1, <2>2
<1>13. ASSUME NEW s \in Sessions, NEW k \in Keys, confignotify(s, k)
       PROVE  Goal
  <2> DEFINE sk == s \in useSessionKeys
             c == notifyValue(cur, s, k, sk)
  <2>1. sk \in BOOLEAN
    OBVIOUS
  <2>2. \E o : Crash \/ Finish(c, o)
    BY <1>13 DEF confignotify
  <2> HIDE DEF sk
  <2>3. c \in Store /\ Agree(c, keys, patterns) /\ Touches(cur, c)
    BY <1>0, <2>1, NotifyValueType, AgreeNotify, NotifyTouches
  <2> HIDE DEF c
  <2> QED
    BY <1>1, <2>2, <2>3
<1>14. ASSUME NEW s \in Sessions,
              \/ \E k \in Keys : notifyadd_key(s, k) \/ notifyremove_key(s, k)
              \/ \E p \in Patterns : notifyadd_pattern(s, p) \/ notifyremove_pattern(s, p)
              \/ \E ks, newK \in SUBSET Keys, ps, newP \in SUBSET Patterns :
                   notifyset(s, ks, newK, ps, newP)
       PROVE  Goal
  <2>1. MayWatch(s)
    BY <1>14 DEF notifyadd_key, notifyremove_key, notifyadd_pattern,
                 notifyremove_pattern, notifyset
  <2>2. storeLocked = 0
    BY <2>1 DEF MayWatch
  <2>3. CASE Crash
    BY <2>3, CrashAbstract
  <2>4. CASE \E c, freed, ks, ps : Watch(s, c, freed, ks, ps) /\ SameValues(cur, c)
    <3>1. Abstract!Watch(s)
      BY <1>0, <2>2, <2>4, WatchAbstract
    <3> QED
      BY <3>1 DEF Abstract!Next
  <2> QED
    BY <1>0, <1>14, <2>3, <2>4, WatchSteps
<1> HIDE DEF Goal
<1>15. Goal
  BY <1>2, <1>3, <1>4, <1>5, <1>6, <1>7, <1>8, <1>9, <1>10, <1>11, <1>12, <1>13, <1>14
     DEF Next
<1> QED
  BY <1>15 DEF Goal

\* Clients that do not change what they watch, and do not recreate a session
\* key, in the middle of a transaction see a transactional store with exact
\* change notifications, whatever else they do and whenever they die: with all
\* its watcher counts, cached pattern matches, deferred removals and saved copies
\* the server is an implementation of PubSubStore.
THEOREM ServerImplementsPubSub ==
  ASSUME {"WatchUnderLock", "RecreateSessionKey"} \cap Allow = {}
  PROVE  Spec => ImplementsPubSub
<1>0. "WatchUnderLock" \notin Allow /\ "RecreateSessionKey" \notin Allow
  OBVIOUS
<1>1. Init => Abstract!Init
  <2> SUFFICES ASSUME Init PROVE Abstract!Init
    OBVIOUS
  <2>1. Contents(EmptyStore) = [k \in Keys |-> Abstract!Absent]
    BY DEF Contents, EmptyStore, Abstract!Absent, NoEntry
  <2>2. settled = Contents(EmptyStore) /\ lockHolder = NoSession
    BY DEF Init, settled, lockHolder, Contents
  <2>3. EmptyStore.changedKeys = {}
    BY DEF EmptyStore
  <2> QED
    BY <2>1, <2>2, <2>3 DEF Init, Abstract!Init
<1>2. Init => SavedClean
  BY DEF Init, SavedClean
<1>3. BookInv /\ OwnerInv /\ SavedClean /\ BookInv' /\ [Next]_vars => SavedClean'
  BY <1>0, NextSaved DEF RefInv, BookInv
<1>4. BookInv /\ OwnerInv /\ SavedClean /\ BookInv' /\ [Next]_vars
        => [Abstract!Next]_Abstract!vars
  BY <1>0, StepAbstract DEF RefInv, BookInv
<1>5. Spec => []BookInv
  BY <1>0, BooksAreRight
<1>6. Spec => []OwnerInv
  BY <1>0, OwnersAreRight
<1> QED
  BY <1>1, <1>2, <1>3, <1>4, <1>5, <1>6, PTL DEF Spec, ImplementsPubSub, Abstract!Spec
=============================================================================
