-------------------------- MODULE PluginExecProofs --------------------------
(***************************************************************************)
(* Theorems about the child processes of the plug-ins, for any number of   *)
(* threads and children: the lists are sound, no zombie is overlooked, and *)
(* the plug-ins get the service that they are modelled with.               *)
(***************************************************************************)
EXTENDS PluginExec, FiniteSetTheorems, SequenceTheorems, TLAPS

NoRepeats(list) == \A i, j \in DOMAIN list : list[i] = list[j] => i = j

-----------------------------------------------------------------------------
(* Lists of children. *)

\* A child is entered in front.
LEMMA Prepended ==
  ASSUME NEW list \in Seq(Pids), NEW p \in Pids
  PROVE  /\ <<p>> \o list \in Seq(Pids)
         /\ On(<<p>> \o list) = On(list) \cup {p}
         /\ NoRepeats(list) /\ p \notin On(list) => NoRepeats(<<p>> \o list)
<1> DEFINE longer == <<p>> \o list
<1>1. /\ longer \in Seq(Pids)
      /\ Len(longer) = Len(list) + 1
      /\ longer[1] = p
      /\ \A i \in 1 .. Len(list) : longer[i + 1] = list[i]
  OBVIOUS
<1>2. \A i \in 2 .. Len(longer) : i - 1 \in DOMAIN list /\ longer[i] = list[i - 1]
  BY <1>1
<1> HIDE DEF longer
<1>3. DOMAIN list = 1 .. Len(list) /\ DOMAIN longer = 1 .. Len(longer) /\ Len(list) \in Nat
  BY <1>1
<1>6. \A i \in DOMAIN longer : i = 1 \/ i \in 2 .. Len(longer)
  BY <1>1, <1>3
<1>4. On(longer) = On(list) \cup {p}
  <2>1. ASSUME NEW i \in DOMAIN longer
        PROVE  longer[i] \in On(list) \cup {p}
    <3>1. CASE i = 1
      BY <1>1, <3>1
    <3>2. CASE i \in 2 .. Len(longer)
      BY <1>2, <3>2 DEF On
    <3> QED
      BY <1>6, <3>1, <3>2
  <2>2. \A x \in On(list) : x \in On(longer)
    <3>1. \A i \in DOMAIN list : i + 1 \in DOMAIN longer
      BY <1>1, <1>3
    <3> QED
      BY <1>1, <1>3, <3>1 DEF On
  <2>3. p \in On(longer)
    BY <1>1, <1>3 DEF On
  <2> QED
    BY <2>1, <2>2, <2>3 DEF On
<1>5. ASSUME NoRepeats(list), p \notin On(list)
      PROVE  NoRepeats(longer)
  <2> SUFFICES ASSUME NEW i \in DOMAIN longer, NEW j \in DOMAIN longer,
                      longer[i] = longer[j]
               PROVE  i = j
    BY DEF NoRepeats
  <2>1. CASE i = 1 /\ j = 1
    BY <2>1
  <2>2. CASE i = 1 /\ j \in 2 .. Len(longer)
    BY <1>1, <1>2, <1>5, <2>2 DEF On
  <2>3. CASE j = 1 /\ i \in 2 .. Len(longer)
    BY <1>1, <1>2, <1>5, <2>3 DEF On
  <2>4. CASE i \in 2 .. Len(longer) /\ j \in 2 .. Len(longer)
    <3>1. i - 1 = j - 1
      BY <1>2, <1>5, <2>4 DEF NoRepeats
    <3> QED
      BY <2>4, <3>1
  <2> QED
    BY <1>6, <2>1, <2>2, <2>3, <2>4
<1> QED
  BY <1>1, <1>4, <1>5 DEF longer

\* The first child is taken off.
LEMMA Taken ==
  ASSUME NEW list \in Seq(Pids), list # << >>
  PROVE  /\ Head(list) \in Pids
         /\ Tail(list) \in Seq(Pids)
         /\ On(list) = On(Tail(list)) \cup {Head(list)}
         /\ NoRepeats(list) => NoRepeats(Tail(list)) /\ Head(list) \notin On(Tail(list))
<1> DEFINE rest == Tail(list)
<1>1. /\ rest \in Seq(Pids)
      /\ Len(list) \in Nat /\ Len(list) > 0
      /\ DOMAIN list = 1 .. Len(list)
      /\ DOMAIN rest = 1 .. Len(list) - 1
      /\ Head(list) = list[1]
      /\ Head(list) \in Pids
      /\ \A i \in 1 .. Len(list) - 1 : rest[i] = list[i + 1]
  OBVIOUS
<1> HIDE DEF rest
<1>2. \A i \in 2 .. Len(list) : i - 1 \in DOMAIN rest /\ list[i] = rest[i - 1]
  BY <1>1
<1>3. On(list) = On(rest) \cup {Head(list)}
  <2>1. \A x \in On(list) : x \in On(rest) \cup {Head(list)}
    BY <1>1, <1>2 DEF On
  <2>2. \A x \in On(rest) : x \in On(list)
    <3>1. \A i \in DOMAIN rest : i + 1 \in DOMAIN list
      BY <1>1
    <3> QED
      BY <1>1, <3>1 DEF On
  <2>3. Head(list) \in On(list)
    BY <1>1 DEF On
  <2> QED
    BY <2>1, <2>2, <2>3
<1>4. NoRepeats(list) => NoRepeats(rest) /\ Head(list) \notin On(rest)
  BY <1>1 DEF NoRepeats, On
<1> QED
  BY <1>1, <1>3, <1>4 DEF rest

\* A child is unlinked, wherever it is.
LEMMA Unlinked ==
  ASSUME NEW list \in Seq(Pids), NEW p \in Pids
  PROVE  /\ Without(list, p) \in Seq(Pids)
         /\ NoRepeats(list) => /\ On(Without(list, p)) = On(list) \ {p}
                               /\ NoRepeats(Without(list, p))
<1>1. CASE p \notin On(list)
  BY <1>1 DEF Without
<1>2. CASE p \in On(list)
  <2> DEFINE at == CHOOSE i \in DOMAIN list : list[i] = p
             rest == [j \in 1 .. Len(list) - 1 |-> IF j < at THEN list[j] ELSE list[j + 1]]
  <2>1. at \in DOMAIN list /\ list[at] = p
    BY <1>2 DEF On
  <2>2. Without(list, p) = rest
    BY <1>2 DEF Without
  <2>3. /\ Len(list) \in Nat /\ Len(list) > 0
        /\ DOMAIN list = 1 .. Len(list)
        /\ at \in 1 .. Len(list)
        /\ \A i \in 1 .. Len(list) : list[i] \in Pids
    BY <2>1
  <2>4. /\ DOMAIN rest = 1 .. Len(list) - 1
        /\ \A j \in 1 .. Len(list) - 1 : rest[j] = IF j < at THEN list[j] ELSE list[j + 1]
    OBVIOUS
  <2> HIDE DEF at, rest
  <2>5. rest \in Seq(Pids)
    <3>1. \A j \in 1 .. Len(list) - 1 : rest[j] \in Pids
      BY <2>3, <2>4
    <3>2. rest \in [1 .. Len(list) - 1 -> Pids] /\ Len(list) - 1 \in Nat
      BY <2>3, <2>4, <3>1 DEF rest
    <3> QED
      BY <3>2
  <2>6. ASSUME NoRepeats(list)
        PROVE  On(rest) = On(list) \ {p} /\ NoRepeats(rest)
    <3>1. \A x \in On(rest) : x \in On(list) \ {p}
      BY <2>1, <2>3, <2>4, <2>6 DEF On, NoRepeats
    <3>2. \A i \in 1 .. at - 1 : i \in DOMAIN rest /\ rest[i] = list[i]
      BY <2>3, <2>4
    <3>3. \A i \in at + 1 .. Len(list) : i - 1 \in DOMAIN rest /\ rest[i - 1] = list[i]
      BY <2>3, <2>4
    <3>4. \A i \in DOMAIN list : i # at => i \in 1 .. at - 1 \/ i \in at + 1 .. Len(list)
      BY <2>3
    <3>5. \A x \in On(list) \ {p} : x \in On(rest)
      BY <2>1, <3>2, <3>3, <3>4 DEF On
    <3>6. NoRepeats(rest)
      BY <2>3, <2>4, <2>6 DEF NoRepeats
    <3> QED
      BY <3>1, <3>5, <3>6
  <2> QED
    BY <2>2, <2>5, <2>6
<1> QED
  BY <1>1, <1>2
-----------------------------------------------------------------------------
(* The inductive invariant. *)

\* The windows: a child that is forked and not entered is in the hands of the
\* holder of the mutex; one that wait4 has returned is in those of the run loop.
Windows ==
  /\ forked # None =>
       /\ lock # NoThread
       /\ forked \notin called
       /\ proc[forked] \in {"running", "zombie"} \/ forked = found
  /\ found # None <=> wait = "lock"
  /\ found # None => proc[found] = "reaped"

\* What each list holds.
Active ==
  /\ NoRepeats(activeChildren)
  /\ \A p \in On(activeChildren) :
       /\ p \in wantsCallout \ called
       /\ p # forked
       /\ proc[p] \in {"running", "zombie"} \/ p = found

Reaped ==
  /\ NoRepeats(reapedChildren)
  /\ \A p \in On(reapedChildren) :
       /\ p \in wantsCallout \ called
       /\ p # forked /\ p # found
       /\ proc[p] = "reaped"

\* No child is on neither list, but for the first window; those that do not exist
\* want nothing.
Complete ==
  /\ \A p \in wantsCallout \ called :
       p = forked \/ p \in On(activeChildren) \/ p \in On(reapedChildren)
  /\ \A p \in wantsCallout : proc[p] # "none"

\* SIGCHLD is only blocked while a message will lead to wait4.
BlockedIsServed == blocked => port \/ wait \in {"wait4", "lock"}

IInv ==
  /\ TypeOK /\ Windows /\ Active /\ Reaped /\ Complete
  /\ ZombieIsNoticed /\ BlockedIsServed

\* No child exists and the lists are empty.
LEMMA InitIInv == Init => IInv
<1> SUFFICES ASSUME Init PROVE IInv
  OBVIOUS
<1>1. On(<< >>) = {} /\ NoRepeats(<< >>) /\ << >> \in Seq(Pids)
  BY DEF On, NoRepeats
<1>2. TypeOK
  BY <1>1, PluginExecAssumption DEF Init, TypeOK
<1>3. Windows /\ ZombieIsNoticed /\ BlockedIsServed
  BY DEF Init, Windows, ZombieIsNoticed, BlockedIsServed
<1>4. Active /\ Reaped /\ Complete
  BY <1>1 DEF Init, Active, Reaped, Complete
<1> QED
  BY <1>2, <1>3, <1>4 DEF IInv

\* The first half of _SCDPluginExecCommand2: the mutex and the fork.
LEMMA CommandIInv ==
  ASSUME IInv,
         \/ \E t \in Threads : LockChildren(t)
         \/ ForkRefused
         \/ \E p \in Pids, callout \in BOOLEAN : Fork(p, callout)
  PROVE  IInv'
<1> USE PluginExecAssumption DEF IInv
<1>1. ASSUME NEW t \in Threads, LockChildren(t) PROVE IInv'
  BY <1>1 DEF LockChildren, TypeOK, Windows, Active, Reaped, Complete,
     ZombieIsNoticed, BlockedIsServed
<1>2. CASE ForkRefused
  BY <1>2 DEF ForkRefused, TypeOK, Windows, Active, Reaped, Complete,
     ZombieIsNoticed, BlockedIsServed
<1>3. ASSUME NEW p \in Pids, NEW callout \in BOOLEAN, Fork(p, callout) PROVE IInv'
  <2>1. TypeOK'
    BY <1>3 DEF Fork, TypeOK
  <2>2. /\ p \notin wantsCallout
        /\ p \notin On(activeChildren) /\ p \notin On(reapedChildren)
        /\ forked = None
    BY <1>3 DEF Fork, TypeOK, Windows, Active, Reaped, Complete
  <2>5. Windows'
    BY <1>3, <2>2 DEF Fork, TypeOK, Windows
  <2>3. Active' /\ Reaped' /\ Complete'
    BY <1>3, <2>2 DEF Fork, TypeOK, Windows, Active, Reaped, Complete
  <2>4. ZombieIsNoticed' /\ BlockedIsServed'
    BY <1>3 DEF Fork, TypeOK, ZombieIsNoticed, BlockedIsServed
  <2> QED
    BY <2>1, <2>3, <2>4, <2>5
<1> QED
  BY <1>1, <1>2, <1>3

\* The second half: the child is entered and the mutex released.
LEMMA EnterIInv ==
  ASSUME IInv, EnterChild
  PROVE  IInv'
<1> USE PluginExecAssumption DEF IInv
<1>1. forked \in Pids
  BY DEF EnterChild, TypeOK
<1>2. forked \notin On(activeChildren)
  BY DEF Active
<1>3. /\ activeChildren' \in Seq(Pids)
      /\ NoRepeats(activeChildren')
      /\ On(activeChildren') = On(activeChildren) \cup ({forked} \cap wantsCallout)
  BY <1>1, <1>2, Prepended DEF EnterChild, TypeOK, Active
<1>4. TypeOK' /\ Windows'
  BY <1>3 DEF EnterChild, TypeOK, Windows
<1>6. Active' /\ Reaped' /\ Complete'
  BY <1>1, <1>3 DEF EnterChild, TypeOK, Windows, Active, Reaped, Complete
<1>7. ZombieIsNoticed' /\ BlockedIsServed'
  BY DEF EnterChild, ZombieIsNoticed, BlockedIsServed
<1> QED
  BY <1>4, <1>6, <1>7

\* A child exits, and the signal handler posts its message.
LEMMA SignalIInv ==
  ASSUME IInv, reaper \/ \E p \in Pids : ChildExits(p)
  PROVE  IInv'
<1> USE PluginExecAssumption DEF IInv
<1>1. CASE reaper
  <2>1. TypeOK' /\ Windows' /\ Active' /\ Reaped' /\ Complete'
    BY <1>1 DEF reaper, TypeOK, Windows, Active, Reaped, Complete
  <2>2. ZombieIsNoticed' /\ BlockedIsServed'
    BY <1>1 DEF reaper, ZombieIsNoticed, BlockedIsServed
  <2> QED
    BY <2>1, <2>2
<1>2. ASSUME NEW p \in Pids, ChildExits(p) PROVE IInv'
  <2>1. TypeOK'
    BY <1>2 DEF ChildExits, TypeOK
  <2>2. Windows' /\ Active' /\ Reaped' /\ Complete'
    BY <1>2 DEF ChildExits, TypeOK, Windows, Active, Reaped, Complete
  <2>3. ZombieIsNoticed' /\ BlockedIsServed'
    BY <1>2 DEF ChildExits, TypeOK, ZombieIsNoticed, BlockedIsServed
  <2> QED
    BY <2>1, <2>2, <2>3
<1> QED
  BY <1>1, <1>2

\* childrenReaped, all but the moves between the lists.
LEMMA WaitIInv ==
  ASSUME IInv,
         ReceiveReaped \/ WaitDone \/ CalloutsDone \/ \E p \in Pids : WaitFinds(p)
  PROVE  IInv'
<1> USE PluginExecAssumption DEF IInv
<1>1. CASE ReceiveReaped \/ WaitDone \/ CalloutsDone
  <2>1. TypeOK' /\ Windows' /\ Active' /\ Reaped' /\ Complete'
    BY <1>1 DEF ReceiveReaped, WaitDone, CalloutsDone, TypeOK, Windows, Active,
       Reaped, Complete
  <2>2. ZombieIsNoticed' /\ BlockedIsServed'
    BY <1>1 DEF ReceiveReaped, WaitDone, CalloutsDone, ZombieIsNoticed, BlockedIsServed
  <2> QED
    BY <2>1, <2>2
<1>2. ASSUME NEW p \in Pids, WaitFinds(p) PROVE IInv'
  <2>1. TypeOK'
    BY <1>2 DEF WaitFinds, TypeOK
  <2>2. Windows'
    BY <1>2 DEF WaitFinds, TypeOK, Windows
  <2>3. p \notin On(reapedChildren) /\ found = None
    BY <1>2 DEF WaitFinds, Reaped, Windows
  <2>4. Active' /\ Reaped' /\ Complete'
    BY <1>2, <2>3 DEF WaitFinds, TypeOK, Active, Reaped, Complete
  <2>5. ZombieIsNoticed' /\ BlockedIsServed'
    BY <1>2 DEF WaitFinds, ZombieIsNoticed, BlockedIsServed
  <2> QED
    BY <2>1, <2>2, <2>4, <2>5
<1> QED
  BY <1>1, <1>2

\* The child that wait4 returned goes from one list to the other.  The mutex
\* excludes that it is still to be entered.
LEMMA MoveIInv ==
  ASSUME IInv, MoveChild
  PROVE  IInv'
<1> USE PluginExecAssumption DEF IInv
<1>1. found \in Pids /\ proc[found] = "reaped" /\ forked = None
  BY DEF MoveChild, TypeOK, Windows
<1>2. /\ activeChildren' \in Seq(Pids)
      /\ NoRepeats(activeChildren')
      /\ On(activeChildren') = On(activeChildren) \ {found}
  BY <1>1, Unlinked DEF MoveChild, TypeOK, Active
<1>3. found \notin On(reapedChildren)
  BY DEF Reaped
<1>4. /\ reapedChildren' \in Seq(Pids)
      /\ NoRepeats(reapedChildren')
      /\ On(reapedChildren') = On(reapedChildren) \cup ({found} \cap On(activeChildren))
  BY <1>1, <1>3, Prepended DEF MoveChild, TypeOK, Reaped
<1>5. TypeOK' /\ Windows'
  BY <1>1, <1>2, <1>4 DEF MoveChild, TypeOK, Windows
<1>6. Active'
  BY <1>2 DEF MoveChild, Active
<1>7. Reaped'
  <2>1. \A p \in On(reapedChildren') : p \in Pids
    BY <1>4 DEF Reaped, Active, TypeOK
  <2> QED
    BY <1>1, <1>4, <2>1 DEF MoveChild, Active, Reaped
<1>8. Complete'
  BY <1>2, <1>4 DEF MoveChild, Complete
<1>9. ZombieIsNoticed' /\ BlockedIsServed'
  BY DEF MoveChild, ZombieIsNoticed, BlockedIsServed
<1> QED
  BY <1>5, <1>6, <1>7, <1>8, <1>9

\* The callout is made for a child of the second list.
LEMMA CalloutIInv ==
  ASSUME IInv, MakeCallout
  PROVE  IInv'
<1> USE PluginExecAssumption DEF IInv
<1> DEFINE p == Head(reapedChildren)
<1>1. /\ p \in Pids
      /\ p \in On(reapedChildren)
      /\ reapedChildren' \in Seq(Pids)
      /\ NoRepeats(reapedChildren')
      /\ On(reapedChildren') = On(reapedChildren) \ {p}
  BY Taken DEF MakeCallout, TypeOK, Reaped
<1>2. called' = called \cup {p}
  BY DEF MakeCallout
<1> HIDE DEF p
<1>3. TypeOK' /\ Windows'
  BY <1>1, <1>2 DEF MakeCallout, TypeOK, Windows, Reaped
<1>4. p \notin On(activeChildren)
  BY <1>1 DEF Active, Reaped
<1>5. Active' /\ Reaped' /\ Complete'
  BY <1>1, <1>2, <1>4 DEF MakeCallout, Active, Reaped, Complete
<1>6. ZombieIsNoticed' /\ BlockedIsServed'
  BY DEF MakeCallout, ZombieIsNoticed, BlockedIsServed
<1> QED
  BY <1>3, <1>5, <1>6

\* Every step of a thread, of the kernel and of the run loop preserves it.
LEMMA NextIInv == IInv /\ [Next]_vars => IInv'
<1> SUFFICES ASSUME IInv, [Next]_vars PROVE IInv'
  OBVIOUS
<1>1. CASE UNCHANGED vars
  BY <1>1 DEF vars, IInv, TypeOK, Windows, Active, Reaped, Complete,
     ZombieIsNoticed, BlockedIsServed
<1>2. CASE Next
  BY <1>2, CommandIInv, EnterIInv, SignalIInv, WaitIInv, MoveIInv, CalloutIInv
  DEF Next, InCommand, childrenReaped
<1> QED
  BY <1>1, <1>2

-----------------------------------------------------------------------------
(* The theorems. *)

\* A list without repetitions has a child once or not at all.
LEMMA Places ==
  ASSUME NEW list, NEW p, NoRepeats(list)
  PROVE  Cardinality({i \in DOMAIN list : list[i] = p}) = IF p \in On(list) THEN 1 ELSE 0
<1> DEFINE places == {i \in DOMAIN list : list[i] = p}
<1>1. CASE p \notin On(list)
  <2>1. places = {}
    BY <1>1 DEF On
  <2> QED
    BY <1>1, <2>1, FS_EmptySet
<1>2. CASE p \in On(list)
  <2>1. PICK i \in DOMAIN list : list[i] = p
    BY <1>2 DEF On
  <2>2. places = {i}
    BY <2>1 DEF NoRepeats
  <2> QED
    BY <1>2, <2>2, FS_Singleton
<1> QED
  BY <1>1, <1>2

\* The invariant in terms of lists is the one in terms of how often a child is
\* listed.
LEMMA ListedOnce == IInv => ExecInv
<1> SUFFICES ASSUME IInv, NEW p \in wantsCallout \ called
             PROVE  LET lists == Cardinality({i \in DOMAIN activeChildren : activeChildren[i] = p})
                                 + Cardinality({i \in DOMAIN reapedChildren : reapedChildren[i] = p})
                    IN  \/ p = forked /\ lists = 0
                        \/ p # forked /\ lists = 1
                           /\ (p \in On(reapedChildren) <=> (proc[p] = "reaped" /\ p # found))
  BY DEF IInv, ExecInv, ChildIsListed
<1> USE DEF IInv
<1>1. /\ Cardinality({i \in DOMAIN activeChildren : activeChildren[i] = p})
           = IF p \in On(activeChildren) THEN 1 ELSE 0
      /\ Cardinality({i \in DOMAIN reapedChildren : reapedChildren[i] = p})
           = IF p \in On(reapedChildren) THEN 1 ELSE 0
  BY Places DEF Active, Reaped
<1>2. CASE p = forked
  <2>1. p \notin On(activeChildren) /\ p \notin On(reapedChildren)
    BY <1>2 DEF Active, Reaped
  <2> QED
    BY <1>1, <1>2, <2>1
<1>3. CASE p # forked
  <2>1. CASE p \in On(activeChildren)
    <3>1. p \notin On(reapedChildren) /\ ~(proc[p] = "reaped" /\ p # found)
      BY <2>1 DEF Active, Reaped
    <3> QED
      BY <1>1, <1>3, <2>1, <3>1
  <2>2. CASE p \in On(reapedChildren)
    <3>1. p \notin On(activeChildren) /\ proc[p] = "reaped" /\ p # found
      BY <2>2 DEF Active, Reaped
    <3> QED
      BY <1>1, <1>3, <2>2, <3>1
  <2> QED
    BY <1>3, <2>1, <2>2 DEF Complete
<1> QED
  BY <1>2, <1>3

\* SCDPlugin.c, with any number of threads that start children and whenever these
\* exit: every child that wants a callout is on exactly one list, once, from the
\* release of the mutex to its callout.
THEOREM ListsAreSound == Spec => []ExecInv
BY InitIInv, NextIInv, ListedOnce, PTL DEF Spec

\* While there is a zombie, wait4 is about to be called or a signal or message is
\* on its way that leads to it, although signals coalesce and the port drops
\* messages.
THEOREM ZombiesAreNoticed == Spec => []ZombieIsNoticed
<1>1. IInv => ZombieIsNoticed
  BY DEF IInv
<1> QED
  BY <1>1, InitIInv, NextIInv, PTL DEF Spec

\* The service starts without children.
LEMMA ServiceInit == Init => Service!ExecInit
BY DEF Init, Service!ExecInit, childStage

\* Every step is a step of the service, or none that it knows of.
LEMMA ServiceStep ==
  IInv /\ [Next]_vars => [Service!ExecNext]_(Service!execVars)
<1> SUFFICES ASSUME IInv, [Next]_vars
             PROVE  Service!ExecNext \/ UNCHANGED Service!execVars
  OBVIOUS
<1> USE PluginExecAssumption DEF IInv
<1>1. ASSUME UNCHANGED <<proc, wantsCallout, called>>
      PROVE  UNCHANGED Service!execVars
  BY <1>1 DEF Service!execVars, childStage
<1>2. ASSUME NEW p \in Pids, NEW callout \in BOOLEAN, Fork(p, callout)
      PROVE  Service!Start(p, callout)
  <2>1. p \notin wantsCallout /\ p \notin called /\ proc[p] = "none"
    BY <1>2 DEF Fork, TypeOK, Complete
  <2>2. childStage[p] = "none" /\ childStage' = [childStage EXCEPT ![p] = "running"]
    BY <1>2, <2>1 DEF Fork, TypeOK, childStage
  <2>3. wantsCallout' \ called' = IF callout THEN (wantsCallout \ called) \cup {p}
                                  ELSE wantsCallout \ called
    BY <1>2, <2>1 DEF Fork
  <2> QED
    BY <2>2, <2>3 DEF Service!Start
<1>3. ASSUME NEW p \in Pids, ChildExits(p)
      PROVE  Service!Exit(p)
  <2>1. childStage[p] = "running" /\ childStage' = [childStage EXCEPT ![p] = "exited"]
    BY <1>3 DEF ChildExits, TypeOK, childStage
  <2> QED
    BY <1>3, <2>1 DEF Service!Exit, ChildExits
<1>4. ASSUME NEW p \in Pids, WaitFinds(p)
      PROVE  Service!Reap(p) \/ UNCHANGED Service!execVars
  <2>1. childStage[p] = "exited"
    BY <1>4 DEF WaitFinds, TypeOK, childStage
  <2>2. CASE p \in wantsCallout \ called
    <3>1. childStage' = childStage
      BY <1>4, <2>2 DEF WaitFinds, TypeOK, childStage
    <3> QED
      BY <1>4, <3>1 DEF WaitFinds, Service!execVars
  <2>3. CASE p \notin wantsCallout \ called
    <3>1. childStage' = [childStage EXCEPT ![p] = "none"]
      BY <1>4, <2>3 DEF WaitFinds, TypeOK, childStage
    <3> QED
      BY <1>4, <2>1, <2>3, <3>1 DEF WaitFinds, Service!Reap
  <2> QED
    BY <2>2, <2>3
<1>5. ASSUME MakeCallout
      PROVE  \E p \in Pids : Service!Callout(p)
  <2> DEFINE p == Head(reapedChildren)
  <2>1. p \in Pids /\ p \in On(reapedChildren) /\ called' = called \cup {p}
    BY <1>5, Taken DEF MakeCallout, TypeOK
  <2> HIDE DEF p
  <2>2. p \in wantsCallout \ called /\ proc[p] = "reaped"
    BY <2>1 DEF Reaped
  <2>3. childStage[p] = "exited" /\ childStage' = [childStage EXCEPT ![p] = "none"]
    BY <1>5, <2>1, <2>2 DEF MakeCallout, TypeOK, childStage
  <2>4. wantsCallout' \ called' = (wantsCallout \ called) \ {p}
    BY <1>5, <2>1 DEF MakeCallout
  <2>5. Service!Callout(p)
    BY <2>2, <2>3, <2>4 DEF Service!Callout
  <2> QED
    BY <2>1, <2>5
<1>6. CASE \/ UNCHANGED vars
           \/ \E t \in Threads : LockChildren(t)
           \/ ForkRefused \/ EnterChild \/ reaper
           \/ ReceiveReaped \/ MoveChild \/ WaitDone \/ CalloutsDone
  BY <1>1, <1>6 DEF vars, LockChildren, ForkRefused, EnterChild, reaper,
     ReceiveReaped, MoveChild, WaitDone, CalloutsDone
<1> QED
  BY <1>2, <1>3, <1>4, <1>5, <1>6 DEF Next, InCommand, childrenReaped, Service!ExecNext

\* SCDPlugin.c gives the plug-ins the service of ExecService: each child is started
\* once, exits once and is called back at most once, after its exit.
THEOREM PluginExecImplementsService == Spec => ImplementsService
BY InitIInv, NextIInv, ServiceInit, ServiceStep, PTL
DEF Spec, ImplementsService, Service!ExecSpec
=============================================================================
