------------------------------ MODULE Kicker ------------------------------
(***************************************************************************)
(* The Kicker plug-in of configd (Plugins/Kicker/kicker.c): each target    *)
(* watches keys of the store and, when one changes, posts a notification,  *)
(* runs a script, or both.  A change that arrives while the script runs is *)
(* remembered and served by another kick when it exits.                    *)
(*                                                                         *)
(* All callbacks run on the plug-in run loop, one at a time.  The scripts  *)
(* are children of the ExecService, which PluginExec implements.           *)
(***************************************************************************)
EXTENDS ExecService, Integers, FiniteSets

CONSTANTS
  Targets,    \* the targets of Kicker.xml
  Keys,       \* the keys they watch
  Posts,      \* the targets with a postName
  Execs,      \* the targets with an execCommand
  NoTarget,
  Faults,     \* what can fail: notify_post ("post"), the conversion of the
              \* command or its arguments ("argument"), fork ("fork")
  MaxChanges  \* a bound on the changes of keys

ASSUME KickerAssumption ==
  /\ Posts \subseteq Targets
  /\ Execs \subseteq Targets
  /\ NoTarget \notin Targets
  /\ Faults \subseteq {"post", "argument", "fork"}
  /\ MaxChanges \in Nat

VARIABLES
  live,         \* the targets that have not been released
  reported,     \* the changed keys that configd has not handed out yet
  changedKeys,  \* target->changedKeys, {} for NULL
  active,       \* the targets with target->active
  needsKick,    \* the targets with target->needsKick
  scripted,     \* the targets whose dict has an execCommand
  context,      \* the target that is the context of each child
  calling,      \* the target for which booter has been called
  changes       \* how many changes there have been

vars == <<child, wanted, live, reported, changedKeys, active, needsKick,
          scripted, context, calling, changes>>

TypeOK ==
  /\ child \in [Pids -> Stages]
  /\ wanted \subseteq Pids
  /\ live \subseteq Targets
  /\ reported \in [Targets -> SUBSET Keys]
  /\ changedKeys \in [Targets -> SUBSET Keys]
  /\ active \subseteq Targets
  /\ needsKick \subseteq Targets
  /\ scripted \subseteq Execs
  /\ context \in [Pids -> Targets \cup {NoTarget}]
  /\ calling \in live \cup {NoTarget}
  /\ changes \in 0..MaxChanges

\* startKicker for every target.
Init ==
  /\ ExecInit
  /\ live = Targets
  /\ reported = [t \in Targets |-> {}]
  /\ changedKeys = [t \in Targets |-> {}]
  /\ active = {}
  /\ needsKick = {}
  /\ scripted = Execs
  /\ context = [p \in Pids |-> NoTarget]
  /\ calling = NoTarget
  /\ changes = 0

\* A key that the target watches changes in the store.
Change(t, k) ==
  /\ t \in live
  /\ changes < MaxChanges
  /\ changes' = changes + 1
  /\ reported' = [reported EXCEPT ![t] = @ \cup {k}]
  /\ UNCHANGED <<child, wanted, live, changedKeys, active, needsKick, scripted,
                 context, calling>>

ScriptExits(p) ==
  /\ Exit(p)
  /\ UNCHANGED <<live, reported, changedKeys, active, needsKick, scripted,
                 context, calling, changes>>

\* The run loop is not in a callback.
RunLoopIdle == calling = NoTarget

\* The callback of the target's session: the changed keys are added to those of
\* the target, and booter is called.
kicker(t) ==
  /\ RunLoopIdle
  /\ t \in live
  /\ reported[t] # {}
  /\ changedKeys' = [changedKeys EXCEPT ![t] = @ \cup reported[t]]
  /\ reported' = [reported EXCEPT ![t] = {}]
  /\ calling' = t
  /\ UNCHANGED <<child, wanted, live, active, needsKick, scripted, context,
                 changes>>

---------------------------------------------------------------------------
(* booter                                                                  *)

\* Mutant of BootQueued: the kick is not remembered.
BootQueued_forgets(t) ==
  /\ calling = t
  /\ t \in active
  /\ calling' = NoTarget
  /\ UNCHANGED <<child, wanted, live, reported, changedKeys, active, needsKick,
                 scripted, context, changes>>

BootQueued(t) ==
  /\ calling = t
  /\ t \in active
  /\ needsKick' = needsKick \cup {t}
  /\ calling' = NoTarget
  /\ UNCHANGED <<child, wanted, live, reported, changedKeys, active, scripted,
                 context, changes>>

\* The session and its run loop source go with the target.
Released(t) ==
  /\ live' = live \ {t}
  /\ reported' = [reported EXCEPT ![t] = {}]
  /\ changedKeys' = [changedKeys EXCEPT ![t] = {}]
  /\ needsKick' = needsKick \ {t}

\* There is nothing to do, or a part of it failed: cleanupKicker.
BootFails(t) ==
  /\ calling = t
  /\ t \notin active
  /\ \/ t \notin Posts \cup scripted
     \/ t \in Posts /\ "post" \in Faults
     \/ t \in scripted /\ "argument" \in Faults
  /\ Released(t)
  /\ calling' = NoTarget
  /\ UNCHANGED <<child, wanted, active, scripted, context, changes>>

\* A notification is posted and there is no script.
BootPosts(t) ==
  /\ calling = t
  /\ t \notin active
  /\ t \in Posts \ scripted
  /\ changedKeys' = [changedKeys EXCEPT ![t] = {}]
  /\ calling' = NoTarget
  /\ UNCHANGED <<child, wanted, live, reported, active, needsKick, scripted,
                 context, changes>>

\* Mutant of BootRuns: the target is not marked as running.
BootRuns_idle(t, p) ==
  /\ calling = t
  /\ t \notin active
  /\ t \in scripted
  /\ Start(p, TRUE)
  /\ context' = [context EXCEPT ![p] = t]
  /\ changedKeys' = [changedKeys EXCEPT ![t] = {}]
  /\ calling' = NoTarget
  /\ UNCHANGED <<live, reported, active, needsKick, scripted, changes>>

\* The script is started, after the notification where there is one.
BootRuns(t, p) ==
  /\ calling = t
  /\ t \notin active
  /\ t \in scripted
  /\ Start(p, TRUE)
  /\ context' = [context EXCEPT ![p] = t]
  /\ changedKeys' = [changedKeys EXCEPT ![t] = {}]
  /\ active' = active \cup {t}
  /\ calling' = NoTarget
  /\ UNCHANGED <<live, reported, needsKick, scripted, changes>>

\* fork fails: the result of _SCDPluginExecCommand is ignored.
BootNotForked(t) ==
  /\ "fork" \in Faults
  /\ calling = t
  /\ t \notin active
  /\ t \in scripted
  /\ changedKeys' = [changedKeys EXCEPT ![t] = {}]
  /\ active' = active \cup {t}
  /\ calling' = NoTarget
  /\ UNCHANGED <<child, wanted, live, reported, needsKick, scripted, context,
                 changes>>

booter(t) ==
  \/ BootQueued(t)
  \/ BootFails(t)
  \/ BootPosts(t)
  \/ \E p \in Pids : BootRuns(t, p)
  \/ BootNotForked(t)

---------------------------------------------------------------------------
(* booterExit                                                              *)

\* Mutant of ScriptDone: the waiting kick is not taken off.
ScriptDone_kicks(p, ok) ==
  LET t == context[p] IN
  /\ RunLoopIdle
  /\ Callout(p)
  /\ t \in live
  /\ ok \/ t \in Posts
  /\ active' = active \ {t}
  /\ scripted' = IF ok THEN scripted ELSE scripted \ {t}
  /\ calling' = IF t \in needsKick THEN t ELSE NoTarget
  /\ context' = [context EXCEPT ![p] = NoTarget]
  /\ UNCHANGED <<live, reported, changedKeys, needsKick, changes>>

\* A script that fails is not run again; the target survives it if it also
\* posts.  A kick that waits is made now.
ScriptDone(p, ok) ==
  LET t == context[p] IN
  /\ RunLoopIdle
  /\ Callout(p)
  /\ t \in live
  /\ ok \/ t \in Posts
  /\ active' = active \ {t}
  /\ scripted' = IF ok THEN scripted ELSE scripted \ {t}
  /\ needsKick' = needsKick \ {t}
  /\ calling' = IF t \in needsKick THEN t ELSE NoTarget
  /\ context' = [context EXCEPT ![p] = NoTarget]
  /\ UNCHANGED <<live, reported, changedKeys, changes>>

ScriptFailed(p) ==
  LET t == context[p] IN
  /\ RunLoopIdle
  /\ Callout(p)
  /\ t \in live
  /\ t \notin Posts
  /\ active' = active \ {t}
  /\ Released(t)
  /\ context' = [context EXCEPT ![p] = NoTarget]
  /\ UNCHANGED <<scripted, calling, changes>>

booterExit(p) == ScriptFailed(p) \/ \E ok \in BOOLEAN : ScriptDone(p, ok)

---------------------------------------------------------------------------
Callbacks ==
  \/ \E t \in Targets : kicker(t) \/ booter(t)
  \/ \E p \in Pids : booterExit(p)

Next ==
  \/ \E t \in Targets, k \in Keys : Change(t, k)
  \/ \E p \in Pids : ScriptExits(p)
  \/ Callbacks

Spec == Init /\ [][Next]_vars

\* The run loop serves its sources in turn, and the scripts end.
Fairness ==
  /\ \A t \in Targets : SF_vars(kicker(t)) /\ WF_vars(booter(t))
  /\ \A p \in Pids : WF_vars(ScriptExits(p)) /\ SF_vars(booterExit(p))

FairSpec == Spec /\ Fairness

---------------------------------------------------------------------------
(* Properties                                                              *)

\* The context of a child is a target that has not been released: booterExit
\* would read it after its memory has been freed (kicker.c:269).
NoDangling == \A p \in wanted : context[p] \in live

\* A target has at most one script at a time, however the changes and the exits
\* interleave, and only while it is marked active.
OneScript ==
  \A t \in Targets :
    LET running == {p \in wanted : context[p] = t}
    IN  Cardinality(running) <= (IF t \in active THEN 1 ELSE 0)

\* booter counts the elements of changedKeys without a test for NULL
\* (kicker.c:192): whenever it is called, and whenever a kick is waiting, some
\* key has changed since the last kick.
KickHasKeys ==
  \A t \in live : t \in needsKick \/ calling = t => changedKeys[t] # {}

\* The memory of the plug-in is sound: no target is used after it is released, and
\* none is kicked without keys.
KickerInv == TypeOK /\ NoDangling /\ KickHasKeys

\* The script of the target could not be started: the target is marked active and
\* no callout will ever clear the mark (kicker.c:224).
Stranded(t) == t \in active /\ \A p \in wanted : context[p] # t

\* Every change that configd reports is followed by a kick, unless the target is
\* released or stranded: one that arrives while the script runs is not lost.
KicksHappen ==
  \A t \in Targets :
    (reported[t] \cup changedKeys[t] # {}) ~>
      \/ reported[t] \cup changedKeys[t] = {}
      \/ t \notin live
      \/ Stranded(t)
=============================================================================
