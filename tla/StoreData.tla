----------------------------- MODULE StoreData -----------------------------
(***************************************************************************)
(* The data of configd's dynamic store and the pure operations on it:      *)
(* configd.tproj/_SCD.c (watchers), pattern.c (regular expressions), and   *)
(* the bodies of __SCDynamicStoreSetValue, __SCDynamicStoreRemoveValue and *)
(* __SCDynamicStoreNotifyValue once the lock is held.                      *)
(*                                                                         *)
(* A "store" is the record of the five objects that _swapLockedStoreData   *)
(* exchanges as a unit: storeData, patternData, changedKeys,               *)
(* deferredRemovals and removedSessionKeys.                                *)
(***************************************************************************)
EXTENDS Naturals, FiniteSets

CONSTANTS
  Sessions,   \* server port names; the session numbers of the code
  Keys,       \* store keys
  Patterns,   \* regular expressions that regcomp() accepts
  Matches,    \* regexec(): the pairs <<p, k>> where pattern p matches key k
  Data,       \* serialized property lists
  Dates,      \* the members of Data that are a serialized CFDate
  NoData,     \* the entry has no kSCDData
  NoSession   \* the entry has no kSCDSession

ASSUME StoreAssumption ==
  /\ IsFiniteSet(Patterns)
  /\ Matches \subseteq Patterns \X Keys
  /\ Dates \subseteq Data
  /\ Dates # {}
  /\ NoData \notin Data
  /\ NoSession \notin Sessions

\* One value of the storeData dictionary.  refs merges kSCDWatchers with
\* kSCDWatcherRefs: a session is in the watchers array iff its count is not 0.
\* An entry that is removed from the dictionary is NoEntry.
Entry == [data: Data \cup {NoData},
          session: Sessions \cup {NoSession},
          refs: [Sessions -> Nat]]

NoEntry == [data |-> NoData, session |-> NoSession, refs |-> [s \in Sessions |-> 0]]

\* One value of the patternData dictionary: [0] the compiled expression,
\* [1] the watching sessions, [2-n] the matching keys.  regex is "none" when
\* the pattern is not in the dictionary and "freed" when its regex_t has been
\* passed to regfree() while the dictionary still refers to it.
PatternInfo == [regex: {"none", "compiled", "freed"},
                sessions: SUBSET Sessions,
                keys: SUBSET Keys]

NoPattern == [regex |-> "none", sessions |-> {}, keys |-> {}]

Store == [storeData: [Keys -> Entry],
          patternData: [Patterns -> PatternInfo],
          changedKeys: SUBSET Keys,
          deferredRemovals: SUBSET Keys,
          removedSessionKeys: SUBSET (Sessions \X Keys)]

EmptyStore == [storeData |-> [k \in Keys |-> NoEntry],
               patternData |-> [p \in Patterns |-> NoPattern],
               changedKeys |-> {},
               deferredRemovals |-> {},
               removedSessionKeys |-> {}]

Defined(c, k) == c.storeData[k].data # NoData

Registered(c, p) == c.patternData[p].regex # "none"

-----------------------------------------------------------------------------
(* Patterns and watchers *)

\* Repeated _removeWatcher: the count of a session never goes below zero.
Less(n, m) == IF n >= m THEN n - m ELSE 0

\* The keys with data that match p (identifyKeyForPattern over storeData).
identifyKeys(c, p) == {k \in Keys : <<p, k>> \in Matches /\ Defined(c, k)}

\* patternCopy() if p is known, patternNew() otherwise.
patternInfo(c, p) ==
  IF Registered(c, p)
  THEN c.patternData[p]
  ELSE [regex |-> "compiled", sessions |-> {}, keys |-> identifyKeys(c, p)]

\* What a client reads with a list request for pattern p.
patternCopyMatches(c, p) == patternInfo(c, p).keys

\* Starting to watch the keys ks and the patterns ps, one
\* __SCDynamicStoreAddWatchedKey after the other.
addWatches(c, s, ks, ps) ==
  [c EXCEPT
    !.patternData = [p \in Patterns |->
       IF p \in ps
       THEN [patternInfo(c, p) EXCEPT !.sessions = @ \cup {s}]
       ELSE c.patternData[p]],
    !.storeData = [k \in Keys |->
       [c.storeData[k] EXCEPT !.refs[s] =
          @ + (IF k \in ks THEN 1 ELSE 0)
            + Cardinality({p \in ps : k \in patternInfo(c, p).keys})]]]

_addWatcher(c, s, k) == addWatches(c, s, {k}, {})

patternAddSession(c, p, s) == addWatches(c, s, {}, {p})

\* The tail of patternRemoveSession.  With more than one entry in the session
\* array this session leaves it; otherwise the pattern is dropped, whoever the
\* remaining entry belongs to.
withoutSession(info, s) ==
  IF \E x, y \in info.sessions : x # y
  THEN [info EXCEPT !.sessions = @ \ {s}]
  ELSE NoPattern

\* Mutant of removeWatches: _removeWatcher is not called.
removeWatches_keepsRefs(c, s, ks, ps) ==
  [c EXCEPT !.patternData = [p \in Patterns |-> IF p \in ps
                                               THEN withoutSession(c.patternData[p], s)
                                               ELSE c.patternData[p]]]

\* Stopping to watch the keys ks and the patterns ps, one
\* __SCDynamicStoreRemoveWatchedKey after the other.
removeWatches(c, s, ks, ps) ==
  [c EXCEPT
    !.patternData = [p \in Patterns |-> IF p \in ps
                                        THEN withoutSession(c.patternData[p], s)
                                        ELSE c.patternData[p]],
    !.storeData = [k \in Keys |->
       [c.storeData[k] EXCEPT !.refs[s] =
          Less(@, (IF k \in ks THEN 1 ELSE 0)
                  + Cardinality({p \in ps : k \in c.patternData[p].keys}))]]]

_removeWatcher(c, s, k) == removeWatches(c, s, {k}, {})

patternRemoveSession(c, p, s) == removeWatches(c, s, {}, {p})

\* patternRemoveSession goes wrong when the pattern is not in patternData
\* (CFArrayGetCount(NULL)), when the session is not among several watchers
\* (CFArrayRemoveValueAtIndex(kCFNotFound)), or when the last watcher leaves
\* and the expression was already freed.
patternRemoveFaults(c, p, s) ==
  LET info == c.patternData[p]
      many == \E x, y \in info.sessions : x # y
  IN  \/ info.regex = "none"
      \/ many /\ s \notin info.sessions
      \/ ~many /\ info.regex = "freed"

\* The patterns that patternRemoveSession hands to regfree().
freedPatterns(c, ps) ==
  {p \in ps : ~ \E x, y \in c.patternData[p].sessions : x # y}

\* Mutant of patternAddKey: the key is listed, but nobody becomes a watcher.
patternAddKey_noWatchers(c, k) ==
  [c EXCEPT !.patternData = [p \in Patterns |->
     IF Registered(c, p) /\ <<p, k>> \in Matches
     THEN [c.patternData[p] EXCEPT !.keys = @ \cup {k}]
     ELSE c.patternData[p]]]

\* patternAddKey: every known pattern that matches k lists it, and each of the
\* pattern's sessions becomes a watcher of k once more.
patternAddKey(c, k) ==
  LET hit == {p \in Patterns : Registered(c, p) /\ <<p, k>> \in Matches}
  IN  [c EXCEPT
        !.patternData = [p \in Patterns |->
                           IF p \in hit
                           THEN [c.patternData[p] EXCEPT !.keys = @ \cup {k}]
                           ELSE c.patternData[p]],
        !.storeData[k].refs =
           [s \in Sessions |->
              @[s] + Cardinality({p \in hit : s \in c.patternData[p].sessions})]]

\* regexec() on an expression whose memory was released.
patternAddFaults(c) == \E p \in Patterns : c.patternData[p].regex = "freed"

\* patternRemoveKey for every key of ks.
patternRemoveKeys(c, ks) ==
  [c EXCEPT
    !.patternData = [p \in Patterns |-> [c.patternData[p] EXCEPT !.keys = @ \ ks]],
    !.storeData = [k \in Keys |->
       IF k \in ks
       THEN [c.storeData[k] EXCEPT !.refs =
               [s \in Sessions |->
                  Less(@[s], Cardinality({p \in Patterns :
                                /\ k \in c.patternData[p].keys
                                /\ s \in c.patternData[p].sessions}))]]
       ELSE c.storeData[k]]]

-----------------------------------------------------------------------------
(* Values.  s is the calling session, sk its useSessionKeys flag.          *)

\* kSCStatusKeyExists: the key has data and is not a session key of s.
setRefused(c, s, k, sk) == sk /\ Defined(c, k) /\ c.storeData[k].session # s

\* Steps 2 to 7 of __SCDynamicStoreSetValue.
setValue(c, s, k, v, sk) ==
  LET e == c.storeData[k]
      newEntry == ~Defined(c, k)
      foreign == ~sk /\ ~newEntry /\ e.session \notin {NoSession, s}
      owner == IF foreign THEN NoSession
               ELSE IF sk /\ newEntry THEN s ELSE e.session
      d == [c EXCEPT
             !.storeData[k] = [e EXCEPT !.data = v, !.session = owner],
             !.changedKeys = @ \cup {k},
             !.removedSessionKeys = IF foreign THEN @ \cup {<<e.session, k>>} ELSE @]
  IN  IF setRefused(c, s, k, sk) THEN c
      ELSE IF newEntry /\ k \in c.deferredRemovals
      THEN [d EXCEPT !.deferredRemovals = @ \ {k}]
      ELSE IF newEntry THEN patternAddKey(d, k) ELSE d

setFaults(c, k) ==
  ~Defined(c, k) /\ k \notin c.deferredRemovals /\ patternAddFaults(c)

\* Step 4 of __SCDynamicStoreSetValue: does the key join the kSCDSessionKeys of
\* the session?
setClaims(c, k, sk) == sk /\ ~Defined(c, k)

\* Steps 2 to 6 of __SCDynamicStoreRemoveValue, for every key of ks.
removeValues(c, ks) ==
  LET gone == {k \in ks : Defined(c, k)}
  IN  [c EXCEPT
        !.changedKeys = @ \cup gone,
        !.deferredRemovals = @ \cup gone,
        !.removedSessionKeys =
           @ \cup {<<c.storeData[k].session, k>> :
                     k \in {j \in gone : c.storeData[j].session # NoSession}},
        !.storeData = [k \in Keys |->
           IF k \in gone
           THEN [c.storeData[k] EXCEPT !.data = NoData, !.session = NoSession]
           ELSE c.storeData[k]]]

\* __SCDynamicStoreNotifyValue: write the value again, or create a temporary
\* one and remove it.
notifyValue(c, s, k, sk) ==
  IF Defined(c, k)
  THEN setValue(c, s, k, c.storeData[k].data, sk)
  ELSE removeValues(setValue(c, s, k, CHOOSE v \in Data : TRUE, sk), {k})

-----------------------------------------------------------------------------
(* The commit of __SCDynamicStoreUnlock *)

\* Mutant of notified: _processDeferredRemovals runs before _notifyWatchers.
notified_afterRemovals(c, s) ==
  {k \in c.changedKeys :
     patternRemoveKeys(c, c.deferredRemovals).storeData[k].refs[s] > 0}

\* _notifyWatchers: the changed keys that session s is told about.
notified(c, s) == {k \in c.changedKeys : c.storeData[k].refs[s] > 0}

\* Mutant of committed: removedSessionKeys is not emptied.
committed_keepsRemovedSessionKeys(c) ==
  [patternRemoveKeys(c, c.deferredRemovals) EXCEPT
     !.changedKeys = {},
     !.deferredRemovals = {}]

\* Mutant of committed: no patternRemoveKey for the deferred removals.
committed_keepsMatches(c) ==
  [c EXCEPT !.changedKeys = {},
            !.deferredRemovals = {},
            !.removedSessionKeys = {}]

\* What is left of the store after _notifyWatchers, _processDeferredRemovals
\* and the cleanup of the removed session keys.
committed(c) ==
  [patternRemoveKeys(c, c.deferredRemovals) EXCEPT
     !.changedKeys = {},
     !.deferredRemovals = {},
     !.removedSessionKeys = {}]
=============================================================================
