----------------------------- MODULE PluginExec -----------------------------
(***************************************************************************)
(* The child processes of the plug-ins (SystemConfiguration.fproj,         *)
(* SCDPlugin.c).  _SCDPluginExecCommand forks under a mutex and then       *)
(* enters the child in activeChildren; the SIGCHLD handler posts a message *)
(* to a port with room for one; the run loop that receives it collects     *)
(* every zombie with wait4, and only then makes the callouts.              *)
(***************************************************************************)
EXTENDS Integers, Sequences, FiniteSets

CONSTANTS
  Pids,      \* the children that can be started, a bound
  Threads,   \* the threads that start children
  RunLoop,   \* the one that runs the plug-in run loop
  NoThread,
  None,      \* no child: what found and forked are outside their windows
  ForkFails  \* whether fork can fail

ASSUME PluginExecAssumption ==
  /\ RunLoop \in Threads
  /\ NoThread \notin Threads
  /\ None \notin Pids
  /\ ForkFails \in BOOLEAN

VARIABLES
  proc,            \* each child in the kernel
  lock,            \* the thread that holds the mutex
  forked,          \* the child that the holder has forked and not entered yet
  activeChildren,  \* the list, newest first
  reapedChildren,  \* the local list of childrenReaped, newest first
  wait,            \* where the run loop is in childrenReaped
  found,           \* the child that wait4 has just returned
  pending,         \* SIGCHLD is pending
  blocked,         \* SIGCHLD is blocked
  port,            \* a message is queued
  wantsCallout,    \* the children that were started with a callout
  called           \* the children whose callout has been made

vars == <<proc, lock, forked, activeChildren, reapedChildren, wait, found,
          pending, blocked, port, wantsCallout, called>>

TypeOK ==
  /\ proc \in [Pids -> {"none", "running", "zombie", "reaped"}]
  /\ lock \in Threads \cup {NoThread}
  /\ forked \in Pids \cup {None}
  /\ activeChildren \in Seq(Pids)
  /\ reapedChildren \in Seq(Pids)
  /\ wait \in {"idle", "wait4", "lock", "callouts"}
  /\ found \in Pids \cup {None}
  /\ {pending, blocked, port} \subseteq BOOLEAN
  /\ called \subseteq wantsCallout
  /\ wantsCallout \subseteq Pids

\* _SCDPluginExecInit
Init ==
  /\ proc = [p \in Pids |-> "none"]
  /\ lock = NoThread
  /\ forked = None
  /\ activeChildren = << >>
  /\ reapedChildren = << >>
  /\ wait = "idle"
  /\ found = None
  /\ pending = FALSE
  /\ blocked = FALSE
  /\ port = FALSE
  /\ wantsCallout = {}
  /\ called = {}

On(list) == {list[i] : i \in DOMAIN list}

\* The list after its node for p, if there is one, is unlinked.
Without(list, p) ==
  IF p \in On(list)
  THEN LET i == CHOOSE i \in DOMAIN list : list[i] = p
       IN  [j \in 1 .. Len(list) - 1 |-> IF j < i THEN list[j] ELSE list[j + 1]]
  ELSE list

---------------------------------------------------------------------------
(* _SCDPluginExecCommand2: any thread takes the mutex, forks, enters the   *)
(* child and releases the mutex.  The run loop's own thread calls it from  *)
(* a run loop callback: between two rounds of childrenReaped, or from one  *)
(* of the callouts.                                                        *)

LockChildren(t) ==
  /\ lock = NoThread
  /\ t = RunLoop => wait \in {"idle", "callouts"}
  /\ lock' = t
  /\ UNCHANGED <<proc, forked, activeChildren, reapedChildren, wait, found,
                 pending, blocked, port, wantsCallout, called>>

Fork(p, callout) ==
  /\ lock # NoThread
  /\ forked = None
  /\ proc[p] = "none"
  /\ proc' = [proc EXCEPT ![p] = "running"]
  /\ forked' = p
  /\ wantsCallout' = IF callout THEN wantsCallout \cup {p} ELSE wantsCallout
  /\ UNCHANGED <<lock, activeChildren, reapedChildren, wait, found, pending,
                 blocked, port, called>>

\* The caller gets -1 and no callout.  So it is once all Pids are used.
ForkRefused ==
  /\ lock # NoThread
  /\ forked = None
  /\ ForkFails \/ \A p \in Pids : proc[p] # "none"
  /\ lock' = NoThread
  /\ UNCHANGED <<proc, forked, activeChildren, reapedChildren, wait, found,
                 pending, blocked, port, wantsCallout, called>>

EnterChild ==
  /\ forked # None
  /\ activeChildren' = IF forked \in wantsCallout
                       THEN <<forked>> \o activeChildren
                       ELSE activeChildren
  /\ forked' = None
  /\ lock' = NoThread
  /\ UNCHANGED <<proc, reapedChildren, wait, found, pending, blocked, port,
                 wantsCallout, called>>

---------------------------------------------------------------------------
(* The kernel and the signal handler.                                      *)

ChildExits(p) ==
  /\ proc[p] = "running"
  /\ proc' = [proc EXCEPT ![p] = "zombie"]
  /\ pending' = TRUE
  /\ UNCHANGED <<lock, forked, activeChildren, reapedChildren, wait, found,
                 blocked, port, wantsCallout, called>>

\* The message is dropped when one is queued.  Whether the mask that the
\* handler sets survives its return depends on how the system restores it;
\* both are allowed here.
reaper ==
  /\ pending
  /\ ~blocked
  /\ pending' = FALSE
  /\ port' = TRUE
  /\ blocked' \in BOOLEAN
  /\ UNCHANGED <<proc, lock, forked, activeChildren, reapedChildren, wait,
                 found, wantsCallout, called>>

---------------------------------------------------------------------------
(* childrenReaped                                                          *)

\* The run loop does nothing else while its thread is in a command.
RunLoopFree == lock # RunLoop

ReceiveReaped ==
  /\ RunLoopFree
  /\ wait = "idle"
  /\ port
  /\ port' = FALSE
  /\ wait' = "wait4"
  /\ UNCHANGED <<proc, lock, forked, activeChildren, reapedChildren, found,
                 pending, blocked, wantsCallout, called>>

WaitFinds(p) ==
  /\ wait = "wait4"
  /\ proc[p] = "zombie"
  /\ proc' = [proc EXCEPT ![p] = "reaped"]
  /\ found' = p
  /\ wait' = "lock"
  /\ UNCHANGED <<lock, forked, activeChildren, reapedChildren, pending,
                 blocked, port, wantsCallout, called>>

\* Mutant of MoveChild: the list is searched without the mutex.
MoveChild_unlocked ==
  /\ wait = "lock"
  /\ reapedChildren' = IF found \in On(activeChildren)
                       THEN <<found>> \o reapedChildren
                       ELSE reapedChildren
  /\ activeChildren' = Without(activeChildren, found)
  /\ found' = None
  /\ wait' = "wait4"
  /\ UNCHANGED <<proc, lock, forked, pending, blocked, port, wantsCallout,
                 called>>

\* Mutant of MoveChild: the newest child is taken, whatever pid wait4 returned.
MoveChild_newest ==
  /\ wait = "lock"
  /\ lock = NoThread
  /\ activeChildren # << >>
  /\ reapedChildren' = <<Head(activeChildren)>> \o reapedChildren
  /\ activeChildren' = Tail(activeChildren)
  /\ found' = None
  /\ wait' = "wait4"
  /\ UNCHANGED <<proc, lock, forked, pending, blocked, port, wantsCallout,
                 called>>

MoveChild ==
  /\ wait = "lock"
  /\ lock = NoThread
  /\ reapedChildren' = IF found \in On(activeChildren)
                       THEN <<found>> \o reapedChildren
                       ELSE reapedChildren
  /\ activeChildren' = Without(activeChildren, found)
  /\ found' = None
  /\ wait' = "wait4"
  /\ UNCHANGED <<proc, lock, forked, pending, blocked, port, wantsCallout,
                 called>>

\* Mutant of WaitDone: SIGCHLD stays blocked.
WaitDone_blocked ==
  /\ wait = "wait4"
  /\ \A p \in Pids : proc[p] # "zombie"
  /\ wait' = "callouts"
  /\ UNCHANGED <<proc, lock, forked, activeChildren, reapedChildren, found,
                 pending, blocked, port, wantsCallout, called>>

\* wait4 has no more: the signal is unblocked before the callouts are made.
WaitDone ==
  /\ wait = "wait4"
  /\ \A p \in Pids : proc[p] # "zombie"
  /\ blocked' = FALSE
  /\ wait' = "callouts"
  /\ UNCHANGED <<proc, lock, forked, activeChildren, reapedChildren, found,
                 pending, port, wantsCallout, called>>

\* The callout itself may start commands afterwards (LockChildren).
MakeCallout ==
  /\ RunLoopFree
  /\ wait = "callouts"
  /\ reapedChildren # << >>
  /\ called' = called \cup {Head(reapedChildren)}
  /\ reapedChildren' = Tail(reapedChildren)
  /\ UNCHANGED <<proc, lock, forked, activeChildren, wait, found, pending,
                 blocked, port, wantsCallout>>

CalloutsDone ==
  /\ RunLoopFree
  /\ wait = "callouts"
  /\ reapedChildren = << >>
  /\ wait' = "idle"
  /\ UNCHANGED <<proc, lock, forked, activeChildren, reapedChildren, found,
                 pending, blocked, port, wantsCallout, called>>

---------------------------------------------------------------------------
childrenReaped ==
  \/ ReceiveReaped
  \/ \E p \in Pids : WaitFinds(p)
  \/ MoveChild
  \/ WaitDone
  \/ MakeCallout
  \/ CalloutsDone

InCommand == ForkRefused \/ EnterChild
             \/ \E p \in Pids, callout \in BOOLEAN : Fork(p, callout)

Next ==
  \/ \E t \in Threads : LockChildren(t)
  \/ InCommand
  \/ \E p \in Pids : ChildExits(p)
  \/ reaper
  \/ childrenReaped

Spec == Init /\ [][Next]_vars

\* The kernel delivers signals and a thread that holds the mutex goes on to
\* release it.  The run loop gets its turn although its own callbacks may start
\* commands and other threads take the mutex again and again: callbacks return,
\* and a waiter is not passed over for ever.  Children need not exit.
Fairness ==
  /\ WF_vars(reaper)
  /\ WF_vars(InCommand)
  /\ SF_vars(childrenReaped)

FairSpec == Spec /\ Fairness

---------------------------------------------------------------------------
(* Properties                                                              *)

\* No zombie is overlooked: while one exists, wait4 is about to be called
\* (SCDPlugin.c:139), a message is queued, or a signal is pending that the
\* process can still receive or that childrenReaped will unblock.
ZombieIsNoticed ==
  (\E p \in Pids : proc[p] = "zombie") =>
    \/ wait \in {"wait4", "lock"}
    \/ port
    \/ pending /\ ~blocked

\* A child with a callout is on exactly one list until the callout: that of the
\* active children while it is alive or unnoticed, that of the reaped children
\* after wait4 has returned it.  Only in the windows between fork and entry, and
\* between wait4 and the search, is it on neither.
ChildIsListed ==
  \A p \in wantsCallout \ called :
    LET lists == Cardinality({i \in DOMAIN activeChildren : activeChildren[i] = p})
                 + Cardinality({i \in DOMAIN reapedChildren : reapedChildren[i] = p})
    IN  \/ p = forked /\ lists = 0
        \/ p # forked /\ lists = 1
           /\ (p \in On(reapedChildren) <=> (proc[p] = "reaped" /\ p # found))

\* The lists are sound: they hold the children they should, each once.
ExecInv == TypeOK /\ ChildIsListed

\* Every child that exits is reported to its callout: the signal, the message of
\* a port that drops the second one, the wait4 loop and the lists lose none.
ChildrenCalledBack ==
  \A p \in Pids :
    (p \in wantsCallout /\ proc[p] = "zombie") ~> (p \in called)

---------------------------------------------------------------------------
(* The promise to the plug-ins.                                            *)

childStage ==
  [p \in Pids |->
     IF proc[p] = "running" THEN "running"
     ELSE IF \/ proc[p] = "zombie"
             \/ proc[p] = "reaped" /\ p \in wantsCallout \ called
          THEN "exited" ELSE "none"]

Service == INSTANCE ExecService
             WITH child <- childStage, wanted <- wantsCallout \ called

\* Whatever the threads, the signals and the run loop do, each child is started
\* once, exits once and is called back at most once, after its exit.
ImplementsService == Service!ExecSpec
=============================================================================
