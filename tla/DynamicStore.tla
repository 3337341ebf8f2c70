---------------------------- MODULE DynamicStore ----------------------------
(***************************************************************************)
(* configd's dynamic store server (configd.tproj): sessions, the store     *)
(* lock with its transaction semantics, values, session keys, watched keys *)
(* and patterns, and the delivery of change notifications.                 *)
(*                                                                         *)
(* The server is one thread around a run loop.  Each MIG request of a      *)
(* client is one action: the RPC is synchronous and its handler runs to    *)
(* completion before the next event.  While the store is locked the run    *)
(* loop runs in a mode that only contains the server's own port and the    *)
(* port of the lock holder, so all other requests wait in their queues.    *)
(* pushNotifications runs after every event, before the next one.          *)
(***************************************************************************)
EXTENDS StoreData

CONSTANTS
  RootSessions,  \* the sessions whose caller has effective user id 0
  Kinds,         \* the notification methods that clients use
  Allow,         \* what clients and the kernel may do beyond the usual
  MaxRefs        \* a bound on the watcher counts that can be added to

\* The members that Allow may have:
\*   "WatchUnderLock"     the lock holder changes what it watches;
\*   "RecreateSessionKey" the lock holder removes one of its session keys and
\*                        creates it again before it unlocks;
\*   "RegisterTwice"      a client registers a notifier while one is active;
\*   "NoPortNotification" mach_port_request_notification fails in _configopen.
Liberties == {"WatchUnderLock", "RecreateSessionKey", "RegisterTwice",
              "NoPortNotification"}

ASSUME ServerAssumption ==
  /\ RootSessions \subseteq Sessions
  /\ Kinds \subseteq {"port", "fd", "signal"}
  /\ Allow \subseteq Liberties
  /\ MaxRefs \in Nat

VARIABLES
  cur,               \* storeData, patternData, changedKeys, ...
  sav,               \* storeData_s, patternData_s, changedKeys_s, ...
  storeLocked,       \* the lock count; nested claims are undone within an action
  sessions,          \* sessions[]: the open sessions
  locked,            \* the sessions with storePrivate->locked
  lockedSources,     \* the session ports in the "locked" run loop mode
  dead,              \* no sender is left, the notification is in the port's queue
  useSessionKeys,    \* the sessions with storePrivate->useSessionKeys
  keys, patterns,    \* storePrivate->keys, storePrivate->patterns
  changes,           \* sessionData[s]: kSCDChangedKeys
  sessionKeys,       \* sessionData[s]: kSCDSessionKeys
  needsNotification, \* the sessions to kick after this event
  notifyStatus,      \* storePrivate->notifyStatus
  handle,            \* notifyPort, notifyFile or notifySignalTask
  kicked,            \* the clients with an undelivered kick in their channel
  awake,             \* the clients that took a kick and will ask what changed
  fault              \* the server has dereferenced NULL or used freed memory

storeVars   == <<cur, sav, changes, sessionKeys, needsNotification>>
lockVars    == <<storeLocked, locked, lockedSources>>
sessionVars == <<sessions, dead, useSessionKeys>>
watchVars   == <<keys, patterns>>
notifyVars  == <<notifyStatus, handle, kicked, awake>>

vars == <<storeVars, lockVars, sessionVars, watchVars, notifyVars, fault>>

TypeOK ==
  /\ cur \in Store
  /\ sav \in Store
  /\ storeLocked \in {0, 1}
  /\ sessions \subseteq Sessions
  /\ locked \subseteq Sessions
  /\ lockedSources \subseteq Sessions
  /\ dead \subseteq sessions
  /\ useSessionKeys \subseteq sessions
  /\ keys \in [Sessions -> SUBSET Keys]
  /\ patterns \in [Sessions -> SUBSET Patterns]
  /\ changes \in [Sessions -> SUBSET Keys]
  /\ sessionKeys \in [Sessions -> SUBSET Keys]
  /\ needsNotification \subseteq Sessions
  /\ notifyStatus \in [Sessions -> {"none", "port", "fd", "signal"}]
  /\ handle \in [Sessions -> {"none", "live", "stale"}]
  /\ kicked \subseteq Sessions
  /\ awake \subseteq Sessions
  /\ fault \in BOOLEAN

Init ==
  /\ cur = EmptyStore
  /\ sav = EmptyStore
  /\ storeLocked = 0
  /\ sessions = {}
  /\ locked = {}
  /\ lockedSources = {}
  /\ dead = {}
  /\ useSessionKeys = {}
  /\ keys = [s \in Sessions |-> {}]
  /\ patterns = [s \in Sessions |-> {}]
  /\ changes = [s \in Sessions |-> {}]
  /\ sessionKeys = [s \in Sessions |-> {}]
  /\ needsNotification = {}
  /\ notifyStatus = [s \in Sessions |-> "none"]
  /\ handle = [s \in Sessions |-> "none"]
  /\ kicked = {}
  /\ awake = {}
  /\ fault = FALSE

-----------------------------------------------------------------------------
(* The run loop *)

\* pushNotifications has run and the server takes the next event.
Idle == ~fault /\ needsNotification = {}

\* The run loop takes a message from the port of session s.
Serviced(s) ==
  /\ Idle
  /\ s \in sessions
  /\ storeLocked > 0 => s \in lockedSources

\* A request: the client that sent it is still there.
Request(s) == Serviced(s) /\ s \notin dead

Crash ==
  /\ fault' = TRUE
  /\ UNCHANGED <<storeVars, lockVars, sessionVars, watchVars, notifyVars>>

-----------------------------------------------------------------------------
(* The lock *)

\* A recursive __SCDynamicStoreLock succeeds.
CanLock(s) == IF storeLocked > 0 THEN s \in locked ELSE s \in RootSessions

\* The part of __SCDynamicStoreUnlock that makes the store c the real one;
\* owned is the kSCDSessionKeys of every session before the cleanup.
Commit(c, owned) ==
  /\ cur' = committed(c)
  /\ sav' = EmptyStore
  /\ changes' = [t \in Sessions |-> changes[t] \cup notified(c, t)]
  /\ sessionKeys' = [t \in Sessions |->
                       {k \in owned[t] : <<t, k>> \notin c.removedSessionKeys}]
  /\ needsNotification' =
       needsNotification \cup {t \in Sessions : notified(c, t) # {}}

\* The recursive __SCDynamicStoreUnlock at the end of a request that changed
\* the store into c: the lock holder goes on, for the others the lock that the
\* request claimed is released.
Finish(c, owned) ==
  /\ IF storeLocked > 0
     THEN /\ cur' = c
          /\ sessionKeys' = owned
          /\ UNCHANGED <<sav, changes, needsNotification>>
     ELSE Commit(c, owned)
  /\ UNCHANGED <<lockVars, sessionVars, watchVars, notifyVars, fault>>

\* Mutant of configlock: the lock holder's second request is counted.
configlock_counts(s) ==
  /\ Request(s)
  /\ storeLocked > 0 => s \in locked
  /\ s \in RootSessions
  /\ storeLocked' = storeLocked + 1
  /\ locked' = locked \cup {s}
  /\ lockedSources' = lockedSources \cup {s}
  /\ sav' = cur
  /\ UNCHANGED <<cur, changes, sessionKeys, needsNotification, sessionVars,
                 watchVars, notifyVars, fault>>

configlock(s) ==
  /\ Request(s)
  /\ storeLocked = 0
  /\ s \in RootSessions
  /\ storeLocked' = 1
  /\ locked' = locked \cup {s}
  /\ lockedSources' = lockedSources \cup {s}
  /\ sav' = cur
  /\ UNCHANGED <<cur, changes, sessionKeys, needsNotification, sessionVars,
                 watchVars, notifyVars, fault>>

\* Mutant of configunlock: the port stays in the "locked" run loop mode.
configunlock_keepsSource(s) ==
  /\ Request(s)
  /\ storeLocked > 0
  /\ s \in locked
  /\ Commit(cur, sessionKeys)
  /\ storeLocked' = 0
  /\ locked' = locked \ {s}
  /\ UNCHANGED <<lockedSources, sessionVars, watchVars, notifyVars, fault>>

configunlock(s) ==
  /\ Request(s)
  /\ storeLocked > 0
  /\ s \in locked
  /\ Commit(cur, sessionKeys)
  /\ storeLocked' = 0
  /\ locked' = locked \ {s}
  /\ lockedSources' = lockedSources \ {s}
  /\ UNCHANGED <<sessionVars, watchVars, notifyVars, fault>>

-----------------------------------------------------------------------------
(* Values *)

\* The session s creates key k in store c as (sk) a session key.
MayCreate(c, s, k, sk) ==
  setClaims(c, k, sk) => \/ <<s, k>> \notin c.removedSessionKeys
                         \/ "RecreateSessionKey" \in Allow

\* Mutant of claimed: the key does not join the session's keys.
claimed_never(owned, c, s, k, sk) == owned

\* kSCDSessionKeys after session s has set key k of store c.
claimed(owned, c, s, k, sk) ==
  IF setClaims(c, k, sk) THEN [owned EXCEPT ![s] = @ \cup {k}] ELSE owned

\* __SCDynamicStoreSetValue and the recursive unlock that ends it.
SetValue(s, k, v, sk) ==
  /\ CanLock(s)
  /\ MayCreate(cur, s, k, sk)
  /\ IF setFaults(cur, k)
     THEN Crash
     ELSE Finish(setValue(cur, s, k, v, sk), claimed(sessionKeys, cur, s, k, sk))

configset(s, k, v) == Request(s) /\ SetValue(s, k, v, s \in useSessionKeys)

configadd(s, k, v) ==
  /\ Request(s)
  /\ ~Defined(cur, k)
  /\ SetValue(s, k, v, s \in useSessionKeys)

\* The request of SCDynamicStoreAddTemporaryValue: useSessionKeys is forced.
configadd_s(s, k, v) ==
  /\ Request(s)
  /\ ~Defined(cur, k)
  /\ SetValue(s, k, v, TRUE)

\* A missing value or a date becomes the current time v, other data is kept.
configtouch(s, k, v) ==
  /\ Request(s)
  /\ v \in Dates
  /\ SetValue(s, k,
              IF Defined(cur, k) /\ cur.storeData[k].data \notin Dates
              THEN cur.storeData[k].data ELSE v,
              s \in useSessionKeys)

configremove(s, k) ==
  /\ Request(s)
  /\ CanLock(s)
  /\ Defined(cur, k)
  /\ Finish(removeValues(cur, {k}), sessionKeys)

confignotify(s, k) ==
  LET sk == s \in useSessionKeys
  IN  /\ Request(s)
      /\ CanLock(s)
      /\ IF setFaults(cur, k)
         THEN Crash
         ELSE Finish(notifyValue(cur, s, k, sk),
                     claimed(sessionKeys, cur, s, k, sk))

\* __SCDynamicStoreSetMultiple with one key in each of its three lists: k is
\* set, then r removed, then n notified, under one claim of the lock.
configset_m(s, k, v, r, n) ==
  LET sk == s \in useSessionKeys
      c1 == setValue(cur, s, k, v, sk)
      c2 == removeValues(c1, {r})
  IN  /\ Request(s)
      /\ CanLock(s)
      /\ MayCreate(cur, s, k, sk)
      /\ IF setFaults(cur, k) \/ setFaults(c2, n)
         THEN Crash
         ELSE Finish(notifyValue(c2, s, n, sk),
                     claimed(claimed(sessionKeys, cur, s, k, sk), c2, s, n, sk))

-----------------------------------------------------------------------------
(* Watched keys and patterns *)

\* Stale counts could be added to without end, hence the bound.
MayWatch(s) ==
  /\ storeLocked = 0 \/ "WatchUnderLock" \in Allow
  /\ \A k \in Keys : cur.storeData[k].refs[s] <= MaxRefs

\* The saved patternData shares the compiled expressions: an expression that
\* is freed in the current one dangles in the saved one.
dangling(ps) ==
  [sav EXCEPT !.patternData = [p \in Patterns |->
     IF p \in freedPatterns(cur, ps) /\ Registered(sav, p)
     THEN [sav.patternData[p] EXCEPT !.regex = "freed"]
     ELSE sav.patternData[p]]]

Watch(s, c, freed, ks, ps) ==
  /\ cur' = c
  /\ sav' = dangling(freed)
  /\ keys' = [keys EXCEPT ![s] = ks]
  /\ patterns' = [patterns EXCEPT ![s] = ps]
  /\ UNCHANGED <<changes, sessionKeys, needsNotification, lockVars,
                 sessionVars, notifyVars, fault>>

notifyadd_key(s, k) ==
  /\ Request(s)
  /\ MayWatch(s)
  /\ k \notin keys[s]
  /\ Watch(s, _addWatcher(cur, s, k), {}, keys[s] \cup {k}, patterns[s])

notifyadd_pattern(s, p) ==
  /\ Request(s)
  /\ MayWatch(s)
  /\ p \notin patterns[s]
  /\ Watch(s, patternAddSession(cur, p, s), {}, keys[s], patterns[s] \cup {p})

notifyremove_key(s, k) ==
  /\ Request(s)
  /\ MayWatch(s)
  /\ k \in keys[s]
  /\ Watch(s, _removeWatcher(cur, s, k), {}, keys[s] \ {k}, patterns[s])

notifyremove_pattern(s, p) ==
  /\ Request(s)
  /\ MayWatch(s)
  /\ p \in patterns[s]
  /\ IF patternRemoveFaults(cur, p, s)
     THEN Crash
     ELSE Watch(s, patternRemoveSession(cur, p, s), {p},
                keys[s], patterns[s] \ {p})

\* __SCDynamicStoreSetNotificationKeys for the lists ks and ps: the old entries
\* that are not retained go, then the new ones are added one after the other
\* until one fails (a key that is listed twice, a pattern that does not
\* compile), and nothing is done after a failure.  newK and newP are the new
\* entries that were added; patterns are only reached when all keys were.
notifyset(s, ks, newK, ps, newP) ==
  LET reached == newK = ks \ keys[s]
      oldP == IF reached THEN patterns[s] \ ps ELSE {}
      c1 == addWatches(removeWatches(cur, s, keys[s] \ ks, {}), s, newK, {})
  IN  /\ Request(s)
      /\ MayWatch(s)
      /\ newK \subseteq ks \ keys[s]
      /\ ~reached => newK # {}
      /\ newP \subseteq (IF reached THEN ps \ patterns[s] ELSE {})
      /\ IF \E p \in oldP : patternRemoveFaults(cur, p, s)
         THEN Crash
         ELSE Watch(s, addWatches(removeWatches(c1, s, {}, oldP), s, {}, newP),
                    oldP, (keys[s] \cap ks) \cup newK,
                    (patterns[s] \ oldP) \cup newP)

-----------------------------------------------------------------------------
(* Sessions *)

\* The kernel hands out a port name that nothing in the store still mentions:
\* names carry a generation number, so that one is not used again soon.
fresh(s) ==
  /\ s \notin sessions
  /\ \A k \in Keys : cur.storeData[k].refs[s] = 0 /\ cur.storeData[k].session # s
  /\ \A p \in Patterns : s \notin cur.patternData[p].sessions

configopen(s, sk) ==
  /\ Idle
  /\ fresh(s)
  /\ sessions' = sessions \cup {s}
  /\ useSessionKeys' = IF sk THEN useSessionKeys \cup {s} ELSE useSessionKeys
  /\ UNCHANGED <<dead, storeVars, lockVars, watchVars, notifyVars, fault>>

\* When the no-senders notification cannot be requested the new session is
\* cleaned up, but it has no sessionData entry yet: CFDictionaryGetValue(NULL).
configopen_refused(s) ==
  /\ "NoPortNotification" \in Allow
  /\ Idle
  /\ fresh(s)
  /\ Crash

\* __SCDynamicStoreClose on the store c, then removeSession.
Close(s, c) ==
  LET c1 == removeWatches(c, s, keys[s], patterns[s])
      own == {k \in sessionKeys[s] : c1.storeData[k].session = s /\ CanLock(s)}
      c2 == removeValues(c1, own)
  IN  IF \E p \in patterns[s] : patternRemoveFaults(c, p, s)
      THEN Crash
      ELSE /\ cur' = committed(c2)
           /\ sav' = EmptyStore
           /\ changes' = [t \in Sessions |->
                IF t = s THEN {} ELSE changes[t] \cup notified(c2, t)]
           /\ sessionKeys' = [t \in Sessions |->
                IF t = s THEN {}
                ELSE {k \in sessionKeys[t] : <<t, k>> \notin c2.removedSessionKeys}]
           /\ needsNotification' =
                (needsNotification \ {s}) \cup {t \in Sessions : notified(c2, t) # {}}
           /\ storeLocked' = IF s \in locked THEN 0 ELSE storeLocked
           /\ locked' = locked \ {s}
           /\ lockedSources' = lockedSources \ {s}
           /\ sessions' = sessions \ {s}
           /\ dead' = dead \ {s}
           /\ useSessionKeys' = useSessionKeys \ {s}
           /\ keys' = [keys EXCEPT ![s] = {}]
           /\ patterns' = [patterns EXCEPT ![s] = {}]
           /\ notifyStatus' = [notifyStatus EXCEPT ![s] = "none"]
           /\ handle' = [handle EXCEPT ![s] = "none"]
           /\ kicked' = kicked \ {s}
           /\ awake' = awake \ {s}
           /\ UNCHANGED fault

\* An orderly close by the lock holder commits what it changed.
configclose(s) == Request(s) /\ Close(s, cur)

\* The client dies: its end of the notification channel goes away and the
\* kernel queues the no-senders notification on the session's port.
Die(s) ==
  /\ s \in sessions \ dead
  /\ ~fault
  /\ dead' = dead \cup {s}
  /\ handle' = [handle EXCEPT ![s] = IF @ = "live" THEN "stale" ELSE @]
  /\ kicked' = kicked \ {s}
  /\ awake' = awake \ {s}
  /\ UNCHANGED <<storeVars, lockVars, sessions, useSessionKeys, watchVars,
                 notifyStatus, fault>>

\* Mutant of cleanupSession: the changes of a lock holder are not discarded.
cleanupSession_noSwap(s) == Serviced(s) /\ s \in dead /\ Close(s, cur)

\* Mutant of cleanupSession: a lock holder's changes are discarded, but its
\* session is not closed.
cleanupSession_keepsLock(s) ==
  /\ Serviced(s)
  /\ s \in dead
  /\ IF storeLocked > 0 /\ s \in locked
     THEN /\ cur' = sav
          /\ UNCHANGED <<sav, changes, sessionKeys, needsNotification, lockVars,
                         sessionVars, watchVars, notifyVars, fault>>
     ELSE Close(s, cur)

\* Mutant of cleanupSession: only a lock holder's session is closed.
cleanupSession_onlyHolder(s) ==
  /\ Serviced(s)
  /\ s \in dead
  /\ IF storeLocked > 0 /\ s \in locked THEN Close(s, sav) ELSE UNCHANGED vars

\* MACH_NOTIFY_NO_SENDERS: what a dead lock holder changed is discarded.
cleanupSession(s) ==
  /\ Serviced(s)
  /\ s \in dead
  /\ Close(s, IF storeLocked > 0 /\ s \in locked THEN sav ELSE cur)

-----------------------------------------------------------------------------
(* Notifiers *)

\* Mutant of pending: registration ignores the changes that are waiting.
pending_ignored(s) == {}

\* Registration with a pending change asks for an immediate kick.
pending(s) == IF changes[s] # {} THEN {s} ELSE {}

\* What the three registrations have in common: only one notifier at a time.
register(s, kind) ==
  /\ kind \in Kinds
  /\ Request(s)
  /\ notifyStatus[s] = "none"
  /\ notifyStatus' = [notifyStatus EXCEPT ![s] = kind]
  /\ handle' = [handle EXCEPT ![s] = "live"]
  /\ needsNotification' = needsNotification \cup pending(s)
  /\ UNCHANGED <<cur, sav, changes, sessionKeys, lockVars, sessionVars,
                 watchVars, kicked, awake, fault>>

notifyviaport(s) == register(s, "port")

notifyviafd(s) == register(s, "fd")

notifyviasignal(s) == register(s, "signal")

\* _notifyviafd: connect(), setsockopt() or ioctl() fails after the kick was
\* asked for.
notifyviafd_fails(s) ==
  /\ "fd" \in Kinds
  /\ Request(s)
  /\ notifyStatus[s] = "none"
  /\ needsNotification' = needsNotification \cup pending(s)
  /\ UNCHANGED <<cur, sav, changes, sessionKeys, lockVars, sessionVars,
                 watchVars, notifyVars, fault>>

\* _notifyviaport with an active notifier destroys the old port before it
\* answers kSCStatusNotifierActive.
notifyviaport_again(s) ==
  /\ "RegisterTwice" \in Allow
  /\ Request(s)
  /\ notifyStatus[s] = "port"
  /\ handle' = [handle EXCEPT ![s] = "stale"]
  /\ UNCHANGED <<storeVars, lockVars, sessionVars, watchVars, notifyStatus,
                 kicked, awake, fault>>

notifycancel(s) ==
  /\ Request(s)
  /\ notifyStatus' = [notifyStatus EXCEPT ![s] = "none"]
  /\ handle' = [handle EXCEPT ![s] = "none"]
  /\ kicked' = kicked \ {s}
  /\ awake' = awake \ {s}
  /\ needsNotification' = needsNotification \ {s}
  /\ UNCHANGED <<cur, sav, changes, sessionKeys, lockVars, sessionVars,
                 watchVars, fault>>

\* Mutant of notifychanges: the list of changes is not emptied.
notifychanges_keeps(s) ==
  /\ Request(s)
  /\ awake' = awake \ {s}
  /\ UNCHANGED <<storeVars, lockVars, sessionVars, watchVars, notifyStatus,
                 handle, kicked, fault>>

\* The client asks which keys have changed.
notifychanges(s) ==
  /\ Request(s)
  /\ changes' = [changes EXCEPT ![s] = {}]
  /\ awake' = awake \ {s}
  /\ UNCHANGED <<cur, sav, sessionKeys, needsNotification, lockVars,
                 sessionVars, watchVars, notifyStatus, handle, kicked, fault>>

\* The client takes the kick from its port, descriptor or signal.
Wake(s) ==
  /\ ~fault
  /\ s \in kicked
  /\ kicked' = kicked \ {s}
  /\ awake' = awake \cup {s}
  /\ UNCHANGED <<storeVars, lockVars, sessionVars, watchVars, notifyStatus,
                 handle, fault>>

\* A full queue keeps the kick that is already in it.  A failed write() or
\* kill() ends the attempts; a failed mach_msg() is ignored.
pushNotifications ==
  /\ ~fault
  /\ needsNotification # {}
  /\ IF \E t \in needsNotification : t \notin sessions
     THEN Crash
     ELSE /\ kicked' = kicked \cup {t \in needsNotification : handle[t] = "live"}
          /\ handle' = [t \in Sessions |->
               IF /\ t \in needsNotification
                  /\ handle[t] = "stale"
                  /\ notifyStatus[t] \in {"fd", "signal"}
               THEN "none" ELSE handle[t]]
          /\ needsNotification' = {}
          /\ UNCHANGED <<cur, sav, changes, sessionKeys, lockVars, sessionVars,
                         watchVars, notifyStatus, awake, fault>>

-----------------------------------------------------------------------------
Next ==
  \/ pushNotifications
  \/ \E s \in Sessions :
       \/ \E sk \in BOOLEAN : configopen(s, sk)
       \/ configopen_refused(s)
       \/ configclose(s)
       \/ Die(s)
       \/ cleanupSession(s)
       \/ configlock(s)
       \/ configunlock(s)
       \/ \E k \in Keys :
            \/ \E v \in Data : \/ configset(s, k, v)
                               \/ configadd(s, k, v)
                               \/ configadd_s(s, k, v)
                               \/ configtouch(s, k, v)
                               \/ \E r, n \in Keys : configset_m(s, k, v, r, n)
            \/ configremove(s, k)
            \/ confignotify(s, k)
            \/ notifyadd_key(s, k)
            \/ notifyremove_key(s, k)
       \/ \E p \in Patterns : notifyadd_pattern(s, p) \/ notifyremove_pattern(s, p)
       \/ \E ks, newK \in SUBSET Keys, ps, newP \in SUBSET Patterns :
            notifyset(s, ks, newK, ps, newP)
       \/ notifyviaport(s)
       \/ notifyviafd(s)
       \/ notifyviasignal(s)
       \/ notifyviafd_fails(s)
       \/ notifyviaport_again(s)
       \/ notifycancel(s)
       \/ notifychanges(s)
       \/ Wake(s)

Spec == Init /\ [][Next]_vars

\* The framework answers a kick by asking for the changed keys.
Answer(s) == s \in awake /\ notifychanges(s)

\* The server pushes before it waits for the next event; in each mode the run
\* loop takes from all ports of the mode in turn, so that a message which can
\* be taken again and again is taken; clients take and answer their kicks.
\* Nothing makes a live client release the lock.
Fairness ==
  /\ WF_vars(pushNotifications)
  /\ \A s \in Sessions : /\ SF_vars(cleanupSession(s))
                          /\ WF_vars(Wake(s))
                          /\ SF_vars(Answer(s))

FairSpec == Spec /\ Fairness

-----------------------------------------------------------------------------
(* Properties of the lock, for whatever clients do *)

\* The store lock has one holder: storeLocked, storePrivate->locked and the
\* "locked" run loop mode always agree on one open session of the superuser,
\* so the server never runs a mode in which no request can unlock the store.
LockOwner ==
  /\ storeLocked > 0 <=> locked # {}
  /\ \A s, t \in locked : s = t
  /\ locked \subseteq sessions \cap RootSessions
  /\ lockedSources = locked

\* Every way to release the lock leaves nothing of the transaction behind: no
\* changed key that was not reported, no removal that was not carried out, no
\* session key cleanup left over, and no saved copy.
NothingLeftOver ==
  storeLocked = 0 => /\ cur.changedKeys = {}
                     /\ cur.deferredRemovals = {}
                     /\ cur.removedSessionKeys = {}
                     /\ sav = EmptyStore

-----------------------------------------------------------------------------
(* Properties of the store when clients take none of the liberties *)

\* The stores that a client may come to see: the current one and, for the case
\* that the lock holder dies, the saved one.
Visible == IF storeLocked > 0 THEN {cur, sav} ELSE {cur}

\* patternData agrees with the sessions' own lists: a pattern is known iff a
\* session watches it, its sessions are those, its expression is not freed,
\* and its keys are the matching ones with data or with a removal still to be
\* reported.  Between transactions SCDynamicStoreCopyKeyList, which answers from
\* patternData when some session watches the pattern, therefore lists exactly the
\* entries that the store has.
PatternLists ==
  /\ \A c \in Visible, p \in Patterns :
       LET watching == {s \in sessions : p \in patterns[s]}
       IN  c.patternData[p] =
             IF watching = {} THEN NoPattern
             ELSE [regex |-> "compiled", sessions |-> watching,
                   keys |-> identifyKeys(c, p) \cup
                            {k \in c.deferredRemovals : <<p, k>> \in Matches}]
  /\ storeLocked = 0 =>
       \A p \in Patterns : patternCopyMatches(cur, p) = identifyKeys(cur, p)

\* kSCDWatcherRefs is exact: a session is a watcher of a key once for the key
\* itself and once for each of its patterns that lists the key.  One count too
\* few loses notifications, one too many makes a closed session a watcher.
WatcherRefs ==
  \A c \in Visible, s \in Sessions, k \in Keys :
    c.storeData[k].refs[s] =
      (IF k \in keys[s] THEN 1 ELSE 0)
      + Cardinality({p \in patterns[s] : k \in c.patternData[p].keys})

\* A session key always has a session that will remove it: its creator is open
\* and lists it in kSCDSessionKeys, with no cleanup of that entry on its way.
SessionKeyOwners ==
  \A c \in Visible, k \in Keys :
    LET s == c.storeData[k].session
    IN  s # NoSession => /\ s \in sessions
                         /\ k \in sessionKeys[s]
                         /\ Defined(c, k)
                         /\ <<s, k>> \notin c.removedSessionKeys

\* SCDynamicStoreAddTemporaryValue: a temporary value does not outlive the
\* session that created it.
TemporaryValuesRemoved ==
  \A k \in Keys : cur.storeData[k].session \in sessions \cup {NoSession}

\* A closed session is not to be kicked and nothing is kept for it, so that
\* pushNotifications always finds the session and no port name is used up.
ClosedLeavesNoTrace ==
  \A s \in Sessions \ sessions :
    /\ keys[s] = {} /\ patterns[s] = {}
    /\ changes[s] = {} /\ sessionKeys[s] = {}
    /\ s \notin needsNotification
    /\ \A c \in Visible, k \in Keys : c.storeData[k].refs[s] = 0

\* The server never follows a NULL pointer, an index out of range or a freed
\* expression in patternRemoveSession, patternAddKey or pushNotifications.
NoFault == ~fault

\* No lost wakeup: a live client with a notifier that has changes to fetch is
\* about to be kicked, has a kick in its channel, or is already up.
NoLostWakeup ==
  \A s \in sessions \ dead :
    changes[s] # {} /\ notifyStatus[s] # "none"
      => s \in needsNotification \cup kicked \cup awake

\* cleanupSession: when the lock holder dies the values are again what they
\* were before it locked the store, but for its own session keys, and all
\* other sessions watch what they watched.
RollbackRestores ==
  [][\A s \in locked \cap dead :
       s \notin sessions' =>
         /\ \A k \in Keys :
              LET e == sav.storeData[k]
              IN  /\ e.session # s => cur'.storeData[k].data = e.data
                  /\ e.session = s => cur'.storeData[k].data = NoData
         /\ \A p \in Patterns :
              cur'.patternData[p].sessions = sav.patternData[p].sessions \ {s}]_vars

-----------------------------------------------------------------------------
(* Liveness *)

\* A lock holder that dies does not block the store for ever: the server only
\* listens to the holder's port, and the news of the death arrives there.
DeadHolderReleases ==
  \A s \in Sessions : (s \in locked \cap dead) ~> (s \notin locked)

\* Unless somebody keeps the lock for ever, every dead session is cleaned up.
DeadSessionsReaped ==
  []<>(storeLocked = 0) => \A s \in Sessions : (s \in dead) ~> (s \notin dead)

\* Unless somebody keeps the lock for ever, a client with a notifier fetches
\* its changes, gives up the notifier, or ends.
ChangesFetched ==
  []<>(storeLocked = 0) =>
    \A s \in Sessions :
      (changes[s] # {} /\ notifyStatus[s] # "none")
        ~> (changes[s] = {} \/ notifyStatus[s] = "none" \/ s \in dead)
=============================================================================
