---------------------------- MODULE KickerProofs ----------------------------
(***************************************************************************)
(* Theorems about the Kicker plug-in for every set of targets, keys and    *)
(* children, and whatever fails.                                           *)
(***************************************************************************)
EXTENDS Kicker, FiniteSetTheorems, TLAPS

\* Each target has its own child, and is active while it has one.
Owned ==
  /\ \A p, q \in wanted : context[p] = context[q] => p = q
  /\ \A p \in wanted : context[p] \in active

\* A kick only waits for a script.
QueuedBehindScript == needsKick \subseteq active

\* The inductive invariant.  booter frees a target that is not active, and clears
\* its keys: that no child has it as context is Owned, that no kick is waiting is
\* QueuedBehindScript.
IInv == KickerInv /\ Owned /\ QueuedBehindScript

\* The plug-in starts with all targets, no child and no changes.
LEMMA InitIInv == Init => IInv
<1> SUFFICES ASSUME Init PROVE IInv
  OBVIOUS
<1>1. TypeOK
  BY KickerAssumption DEF Init, TypeOK, ExecInit, Stages
<1>2. NoDangling /\ Owned
  BY DEF Init, ExecInit, NoDangling, Owned
<1>3. KickHasKeys /\ QueuedBehindScript
  BY KickerAssumption DEF Init, KickHasKeys, QueuedBehindScript
<1> QED
  BY <1>1, <1>2, <1>3 DEF IInv, KickerInv

\* The keys of a released target are gone, those of all others stay.
LEMMA ReleasedType ==
  ASSUME TypeOK, NEW t \in Targets, Released(t)
  PROVE  /\ live' = live \ {t}
         /\ reported' \in [Targets -> SUBSET Keys]
         /\ changedKeys' \in [Targets -> SUBSET Keys]
         /\ \A u \in Targets \ {t} : changedKeys'[u] = changedKeys[u]
         /\ needsKick' = needsKick \ {t}
BY DEF TypeOK, Released

\* A change in the store, and the callback that hands it out.
LEMMA ChangeIInv ==
  ASSUME IInv, NEW t \in Targets, NEW k \in Keys, Change(t, k) \/ kicker(t)
  PROVE  IInv'
<1> USE DEF IInv, KickerInv
<1>1. TypeOK'
  BY KickerAssumption DEF TypeOK, Change, kicker
<1>2. NoDangling' /\ Owned' /\ QueuedBehindScript'
  BY DEF Change, kicker, NoDangling, Owned, QueuedBehindScript
<1>3. KickHasKeys'
  BY KickerAssumption DEF Change, kicker, KickHasKeys, TypeOK, RunLoopIdle
<1> QED
  BY <1>1, <1>2, <1>3

\* The exit of a script is news only to booterExit.
LEMMA ExitIInv ==
  ASSUME IInv, NEW p \in Pids, ScriptExits(p)
  PROVE  IInv'
BY DEF IInv, KickerInv, TypeOK, NoDangling, KickHasKeys, Owned,
       QueuedBehindScript, ScriptExits, Exit, Stages

\* booter, called for a target that exists: its keys are there to be counted, and
\* a target that is not active can be freed.
LEMMA BooterIInv ==
  ASSUME IInv, NEW t \in Targets, booter(t)
  PROVE  IInv'
<1> USE DEF IInv, KickerInv
<1>0. calling = t /\ t \in live /\ changedKeys[t] # {}
  BY KickerAssumption DEF booter, BootQueued, BootFails, BootPosts, BootRuns,
     BootNotForked, TypeOK, KickHasKeys
<1>1. CASE BootQueued(t)
  BY <1>0, <1>1, KickerAssumption
  DEF BootQueued, TypeOK, NoDangling, KickHasKeys, Owned, QueuedBehindScript
<1>2. CASE BootFails(t)
  <2>1. TypeOK'
    BY <1>2, ReleasedType DEF BootFails, TypeOK, Released
  <2>2. NoDangling' /\ Owned' /\ QueuedBehindScript'
    BY <1>2 DEF BootFails, Released, NoDangling, Owned, QueuedBehindScript
  <2>3. KickHasKeys'
    BY <1>2, ReleasedType, KickerAssumption DEF BootFails, KickHasKeys, TypeOK
  <2> QED
    BY <2>1, <2>2, <2>3
<1>3. CASE BootPosts(t)
  <2>1. TypeOK'
    BY <1>3 DEF BootPosts, TypeOK
  <2>2. NoDangling' /\ Owned' /\ QueuedBehindScript'
    BY <1>3 DEF BootPosts, NoDangling, Owned, QueuedBehindScript
  <2>3. KickHasKeys'
    BY <1>3, KickerAssumption DEF BootPosts, KickHasKeys, TypeOK, QueuedBehindScript
  <2> QED
    BY <2>1, <2>2, <2>3
<1>4. ASSUME NEW p \in Pids, BootRuns(t, p)
      PROVE  IInv'
  <2>1. TypeOK'
    BY <1>4 DEF BootRuns, Start, TypeOK, Stages
  <2>2. /\ wanted' = wanted \cup {p}
        /\ context' = [context EXCEPT ![p] = t]
        /\ active' = active \cup {t}
        /\ live' = live
        /\ t \notin active
    BY <1>4 DEF BootRuns, Start
  <2>3. NoDangling'
    BY <1>0, <2>2 DEF NoDangling, TypeOK
  <2>4. Owned'
    BY <2>2 DEF Owned, TypeOK
  <2>5. QueuedBehindScript' /\ KickHasKeys'
    BY <1>4, KickerAssumption DEF BootRuns, KickHasKeys, TypeOK, QueuedBehindScript
  <2> QED
    BY <2>1, <2>3, <2>4, <2>5
<1>5. CASE BootNotForked(t)
  <2>1. TypeOK'
    BY <1>5 DEF BootNotForked, TypeOK
  <2>2. NoDangling' /\ Owned' /\ QueuedBehindScript'
    BY <1>5 DEF BootNotForked, NoDangling, Owned, QueuedBehindScript
  <2>3. KickHasKeys'
    BY <1>5, KickerAssumption DEF BootNotForked, KickHasKeys, TypeOK, QueuedBehindScript
  <2> QED
    BY <2>1, <2>2, <2>3
<1> QED
  BY <1>1, <1>2, <1>3, <1>4, <1>5 DEF booter

\* booterExit finds its target alive and takes the child from it, before it
\* releases the target or kicks it again.
LEMMA BooterExitIInv ==
  ASSUME IInv, NEW p \in Pids, booterExit(p)
  PROVE  IInv'
<1> USE DEF IInv, KickerInv
<1> DEFINE t == context[p]
<1>1. /\ p \in wanted
      /\ wanted' = wanted \ {p}
      /\ child' \in [Pids -> Stages]
      /\ context' = [context EXCEPT ![p] = NoTarget]
      /\ active' = active \ {t}
      /\ t \in live
      /\ calling = NoTarget
  BY DEF booterExit, ScriptFailed, ScriptDone, Callout, RunLoopIdle, TypeOK, Stages
<1>2. t \in Targets
  BY <1>1 DEF TypeOK
<1>3. Owned'
  BY <1>1 DEF Owned, TypeOK
<1>4. \A q \in wanted' : context'[q] = context[q] /\ context[q] # t
  BY <1>1 DEF Owned, TypeOK
<1>5. CASE ScriptFailed(p)
  <2>1. TypeOK'
    BY <1>1, <1>2, <1>5, ReleasedType DEF ScriptFailed, TypeOK
  <2>2. NoDangling' /\ QueuedBehindScript'
    BY <1>1, <1>4, <1>5 DEF ScriptFailed, Released, NoDangling, QueuedBehindScript
  <2>3. KickHasKeys'
    BY <1>1, <1>2, <1>5, ReleasedType, KickerAssumption DEF ScriptFailed, KickHasKeys, TypeOK
  <2> QED
    BY <1>3, <2>1, <2>2, <2>3
<1>6. ASSUME NEW ok \in BOOLEAN, ScriptDone(p, ok)
      PROVE  IInv'
  <2>1. TypeOK'
    BY <1>1, <1>2, <1>6 DEF ScriptDone, TypeOK
  <2>2. NoDangling' /\ QueuedBehindScript'
    BY <1>1, <1>4, <1>6 DEF ScriptDone, NoDangling, QueuedBehindScript
  <2>3. KickHasKeys'
    BY <1>1, <1>2, <1>6, KickerAssumption DEF ScriptDone, KickHasKeys, TypeOK
  <2> QED
    BY <1>3, <2>1, <2>2, <2>3
<1> QED
  BY <1>5, <1>6 DEF booterExit

\* Every step of the plug-in and of its surroundings preserves the invariant.
LEMMA NextIInv == IInv /\ [Next]_vars => IInv'
<1> SUFFICES ASSUME IInv, [Next]_vars PROVE IInv'
  OBVIOUS
<1>1. CASE UNCHANGED vars
  BY <1>1 DEF vars, IInv, KickerInv, TypeOK, NoDangling, KickHasKeys, Owned,
     QueuedBehindScript
<1>2. ASSUME NEW t \in Targets, NEW k \in Keys, Change(t, k) PROVE IInv'
  BY <1>2, ChangeIInv
<1>3. ASSUME NEW p \in Pids, ScriptExits(p) PROVE IInv'
  BY <1>3, ExitIInv
<1>4. ASSUME NEW t \in Targets, kicker(t) PROVE IInv'
  <2>1. PICK k \in Keys : TRUE
    BY <1>4 DEF kicker, IInv, KickerInv, TypeOK
  <2> QED
    BY <1>4, <2>1, ChangeIInv
<1>5. ASSUME NEW t \in Targets, booter(t) PROVE IInv'
  BY <1>5, BooterIInv
<1>6. ASSUME NEW p \in Pids, booterExit(p) PROVE IInv'
  BY <1>6, BooterExitIInv
<1> QED
  BY <1>1, <1>2, <1>3, <1>4, <1>5, <1>6 DEF Next, Callbacks

\* The children of a target are none while it is idle and at most one otherwise.
LEMMA OwnedOneScript == Owned => OneScript
<1> SUFFICES ASSUME Owned, NEW t \in Targets
             PROVE  Cardinality({p \in wanted : context[p] = t})
                      <= (IF t \in active THEN 1 ELSE 0)
  BY DEF OneScript
<1> DEFINE running == {p \in wanted : context[p] = t}
<1>1. CASE running = {}
  BY <1>1, FS_EmptySet
<1>2. CASE running # {}
  <2>1. PICK p \in wanted : context[p] = t
    BY <1>2
  <2>2. running = {p}
    BY <2>1 DEF Owned
  <2>3. Cardinality(running) = 1
    BY <2>2, FS_Singleton
  <2>4. t \in active
    BY <2>1 DEF Owned
  <2> QED
    BY <2>3, <2>4
<1> QED
  BY <1>1, <1>2

\* In every behaviour of kicker.c, whatever fails and however changes and exits
\* interleave, booterExit never reads a target that was freed and booter never
\* counts the keys of a NULL dictionary.
THEOREM MemoryIsSound == Spec => []KickerInv
<1>1. IInv => KickerInv
  BY DEF IInv
<1> QED
  BY <1>1, InitIInv, NextIInv, PTL DEF Spec

\* A target never has two scripts at a time, and none that booter has forgotten.
THEOREM ScriptsRunAlone == Spec => []OneScript
<1>1. IInv => OneScript
  BY OwnedOneScript DEF IInv
<1> QED
  BY <1>1, InitIInv, NextIInv, PTL DEF Spec
=============================================================================
