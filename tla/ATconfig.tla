------------------------------ MODULE ATconfig ------------------------------
(***************************************************************************)
(* The AppleTalk configuration plug-in of configd                          *)
(* (Plugins/ATconfig/atconfig.c): it brings the AppleTalk stack up, down   *)
(* or up again with /usr/sbin/appletalk whenever the configuration in the  *)
(* store changes.  At most one command runs; a change that arrives during  *)
(* one is seen when it completes; one that fails is retried by a timer.    *)
(*                                                                         *)
(* All callbacks run on the plug-in run loop, one at a time.  A callback   *)
(* that ends by calling startAppleTalk or stopAppleTalk is two steps here, *)
(* with nothing of the run loop between them.  The commands are children   *)
(* of the ExecService, which PluginExec implements.                        *)
(***************************************************************************)
EXTENDS ExecService, Integers, Sequences, FiniteSets

CONSTANTS
  Configs,      \* the configurations with an interface
  Offs,         \* those without one, which differ in the name of the computer
  Fresh,        \* the empty dictionaries before the first callback
  Down,         \* the state of a stack that is not started
  RETRY_LIMIT,
  Faults,       \* what can fail: a command ("fail"), a command after it has
                \* done its work ("killed"), fork ("fork"), the ioctl that asks
                \* for the state of the stack ("ioctl"), the conversion of the
                \* arguments ("convert")
  MayStop,      \* whether configd is shut down
  MaxChanges    \* a bound on the changes of the configuration

ASSUME ATconfigAssumption ==
  /\ Offs # {} /\ Offs \cap Configs = {}
  /\ Fresh # Down /\ {Fresh, Down} \cap (Configs \cup Offs) = {}
  /\ RETRY_LIMIT \in Nat \ {0}
  /\ Faults \subseteq {"fail", "killed", "fork", "ioctl", "convert"}
  /\ MayStop \in BOOLEAN
  /\ MaxChanges \in Nat

VARIABLES
  setup,        \* the configuration in the store
  told,         \* a change of it has not been handed out yet
  conf,         \* curConfigFile, curStartup and the other copies of it
  curState,     \* sequence number, negative to stop, positive to start
  execCommand,  \* the command that is running: {} for 0, {-1} for -1
  execRetry,
  timers,       \* the retries that wait, in the order in which they fire
  calling,      \* the call of startAppleTalk or stopAppleTalk to be made
  command,      \* what each child was started for
  status,       \* its exit status
  stack,        \* the configuration that the stack runs
  gaveUp,       \* history: the last change was given up ("yes"), without asking
                \* for the state of the stack ("unasked"), or the sign of
                \* curState was lost with it, or never right ("blind")
  released,     \* stop_ATconfig has released the configuration
  changes       \* how many changes there have been

plugin == <<conf, curState, execCommand, execRetry, timers, calling>>
vars == <<child, wanted, plugin, setup, told, command, status, stack, gaveUp,
          released, changes>>

Calls == {"startAppleTalk", "stopAppleTalk"}
Statuses == {"none", "success", "already", "notRunning", "failed", "killed"}

TypeOK ==
  /\ child \in [Pids -> Stages]
  /\ setup \in Configs \cup Offs
  /\ conf \in Configs \cup Offs \cup {Fresh}
  /\ curState \in -MaxChanges..MaxChanges
  /\ execCommand \in SUBSET (Pids \cup {-1})
  /\ Cardinality(execCommand) <= 1
  /\ execRetry <= RETRY_LIMIT
  /\ \A i \in DOMAIN timers : timers[i].call \in Calls
  /\ Len(calling) <= 1
  /\ status \in [Pids -> Statuses]
  /\ gaveUp \in {"no", "yes", "unasked", "blind"}
  /\ stack \in Configs \cup Offs \cup {Down}

Abs(n) == IF n < 0 THEN -n ELSE n

\* A call and its arguments: the context, and whether a timer makes it.
Call(call, info, timer) == [call |-> call, info |-> info, timer |-> timer]

NoCommand == [call |-> "none", context |-> 0, conf |-> Fresh]

\* load_ATconfig.  A configd that is launched again may find the stack up, which
\* curState does not tell.
Init ==
  /\ ExecInit
  /\ setup \in Offs
  /\ told = FALSE
  /\ conf = Fresh
  /\ curState = 0
  /\ execCommand = {}
  /\ execRetry = 0
  /\ timers = << >>
  /\ calling = << >>
  /\ command = [p \in Pids |-> NoCommand]
  /\ status = [p \in Pids |-> "none"]
  /\ stack \in Configs \cup {Down}
  /\ gaveUp = IF stack = Down THEN "no" ELSE "blind"
  /\ released = FALSE
  /\ changes = 0

\* The configuration in the store changes.
Change(c) ==
  /\ changes < MaxChanges
  /\ c # setup
  /\ changes' = changes + 1
  /\ setup' = c
  /\ told' = TRUE
  /\ UNCHANGED <<child, wanted, plugin, command, status, stack, gaveUp,
                 released>>

RunLoopIdle == calling = << >>

---------------------------------------------------------------------------
(* The commands                                                            *)

\* The exit of a command with its effect on the stack.  The command reads its
\* arguments, of the time when it was started, and the configuration file as it
\* is now.
CommandEnds(p, result, running) ==
  /\ Exit(p)
  /\ status' = [status EXCEPT ![p] = result]
  /\ stack' = running
  /\ UNCHANGED <<plugin, setup, told, command, gaveUp, released, changes>>

StartExits(p) ==
  /\ command[p].call = "startAppleTalk"
  /\ \/ stack # Down /\ CommandEnds(p, "already", stack)
     \/ stack = Down /\ \E c \in {command[p].conf, conf} :
                          CommandEnds(p, "success", c)
     \/ /\ "fail" \in Faults \/ command[p].conf \in Offs
        /\ stack = Down
        /\ CommandEnds(p, "failed", Down)
     \/ /\ "killed" \in Faults
        /\ stack = Down
        /\ \E c \in {command[p].conf, conf} : CommandEnds(p, "killed", c)

StopExits(p) ==
  /\ command[p].call = "stopAppleTalk"
  /\ \/ stack = Down /\ CommandEnds(p, "notRunning", Down)
     \/ stack # Down /\ CommandEnds(p, "success", Down)
     \/ /\ "fail" \in Faults
        /\ stack # Down
        /\ CommandEnds(p, "failed", stack)
     \/ /\ "killed" \in Faults
        /\ stack # Down
        /\ CommandEnds(p, "killed", Down)

---------------------------------------------------------------------------
(* startAppleTalk and stopAppleTalk                                        *)

Skip ==
  /\ calling # << >>
  /\ execCommand # {}
  /\ calling' = << >>
  /\ UNCHANGED <<child, wanted, setup, told, conf, curState, execCommand,
                 execRetry, timers, command, status, stack, gaveUp, released,
                 changes>>

\* Mutant of Retries: a retry gets all attempts again.
Retries_anew(c) == RETRY_LIMIT

\* A call that is not a retry starts to count anew.
Retries(c) == IF c.timer THEN execRetry ELSE RETRY_LIMIT

\* Mutant of Execute: a transition in progress does not matter.
Execute_busy(p) ==
  /\ calling # << >>
  /\ LET c == Head(calling) IN
       /\ command' = [command EXCEPT ![p] = [call |-> c.call,
                                             context |-> c.info,
                                             conf |-> conf]]
       /\ execRetry' = Retries(c)
  /\ Start(p, TRUE)
  /\ execCommand' = {p}
  /\ calling' = << >>
  /\ UNCHANGED <<setup, told, conf, curState, timers, status, stack, gaveUp,
                 released, changes>>

Execute(p) ==
  /\ calling # << >>
  /\ execCommand = {}
  /\ LET c == Head(calling) IN
       /\ command' = [command EXCEPT ![p] = [call |-> c.call,
                                             context |-> c.info,
                                             conf |-> conf]]
       /\ execRetry' = Retries(c)
  /\ Start(p, TRUE)
  /\ execCommand' = {p}
  /\ calling' = << >>
  /\ UNCHANGED <<setup, told, conf, curState, timers, status, stack, gaveUp,
                 released, changes>>

ExecuteFails ==
  /\ "fork" \in Faults
  /\ calling # << >>
  /\ execCommand = {}
  /\ execCommand' = {-1}
  /\ execRetry' = Retries(Head(calling))
  /\ calling' = << >>
  /\ UNCHANGED <<child, wanted, setup, told, conf, curState, timers, command,
                 status, stack, gaveUp, released, changes>>

\* A lost sequence number stays lost.
Noted(how) == IF gaveUp = "blind" THEN "blind" ELSE how

\* The host name or the interface cannot be converted.  A retry that ends like
\* this may leave a stack that is up although it should be down.
NotConverted ==
  /\ "convert" \in Faults
  /\ calling # << >>
  /\ Head(calling).call = "startAppleTalk"
  /\ execCommand = {}
  /\ calling' = << >>
  /\ gaveUp' = IF curState < 0 /\ stack # Down THEN "blind" ELSE Noted("unasked")
  /\ UNCHANGED <<child, wanted, setup, told, conf, curState, execCommand,
                 execRetry, timers, command, status, stack, released, changes>>

---------------------------------------------------------------------------
(* The callbacks                                                           *)

\* updateConfiguration
NewState == IF setup \in Offs THEN -(Abs(curState) + 1) ELSE Abs(curState) + 1

\* The configuration has changed: restart, start, stop, or nothing to do.
NextCalls ==
  IF curState > 0 THEN <<Call("stopAppleTalk", NewState, FALSE)>>
  ELSE IF NewState > 0 THEN <<Call("startAppleTalk", NewState, FALSE)>>
  ELSE << >>

atConfigChangedCallback ==
  /\ RunLoopIdle
  /\ told
  /\ ~released
  /\ told' = FALSE
  /\ IF setup = conf
     THEN UNCHANGED <<conf, curState, calling, gaveUp>>
     ELSE /\ conf' = setup
          /\ curState' = NewState
          /\ calling' = IF execCommand = {} THEN NextCalls ELSE << >>
          /\ gaveUp' = Noted("no")
  /\ UNCHANGED <<child, wanted, setup, execCommand, execRetry, timers, command,
                 status, stack, released, changes>>

TimerFires ==
  /\ RunLoopIdle
  /\ timers # << >>
  /\ calling' = <<Call(Head(timers).call, Head(timers).info, TRUE)>>
  /\ timers' = Tail(timers)
  /\ UNCHANGED <<child, wanted, setup, told, conf, curState, execCommand,
                 execRetry, command, status, stack, gaveUp, released, changes>>

Forget(p) ==
  /\ command' = [command EXCEPT ![p] = NoCommand]
  /\ status' = [status EXCEPT ![p] = "none"]

\* The command has done what it was for: the next one, if any.
Completed(p, calls) ==
  /\ RunLoopIdle
  /\ Callout(p)
  /\ execCommand' = {}
  /\ calling' = calls
  /\ Forget(p)
  /\ UNCHANGED <<setup, told, conf, curState, execRetry, timers, stack, gaveUp,
                 released, changes>>

\* Mutant of stackState: the sign that was wanted is kept.
stackState_wanted == {curState}

\* The sign says whether the stack is up.
stackState ==
  {IF stack # Down THEN Abs(curState) ELSE -Abs(curState)}
  \cup (IF "ioctl" \in Faults THEN {0} ELSE {})

\* The command failed: try it again later, or take the stack as it is.
Failed(p, call) ==
  /\ RunLoopIdle
  /\ Callout(p)
  /\ status[p] \in {"failed", "killed"}
  /\ execCommand' = {}
  /\ execRetry' = execRetry - 1
  /\ IF execRetry > 1
     THEN /\ timers' = Append(timers, [call |-> call, info |-> curState])
          /\ UNCHANGED <<curState, gaveUp>>
     ELSE /\ curState' \in stackState
          /\ gaveUp' = IF curState' = 0 THEN "blind" ELSE Noted("yes")
          /\ UNCHANGED timers
  /\ Forget(p)
  /\ UNCHANGED <<setup, told, conf, calling, stack, released, changes>>

stopComplete(p) ==
  /\ command[p].call = "stopAppleTalk"
  /\ \/ /\ status[p] \in {"success", "notRunning"}
        /\ Completed(p, IF curState > 0
                        THEN <<Call("startAppleTalk", curState, FALSE)>>
                        ELSE << >>)
     \/ Failed(p, "stopAppleTalk")

\* Mutant of startComplete: a newer configuration is not noticed.
startComplete_sign(p) ==
  /\ command[p].call = "startAppleTalk"
  /\ \/ /\ \/ status[p] = "already"
           \/ status[p] = "success" /\ curState < 0
        /\ Completed(p, <<Call("stopAppleTalk", curState, FALSE)>>)
     \/ /\ status[p] = "success" /\ curState >= 0
        /\ Completed(p, << >>)
     \/ Failed(p, "startAppleTalk")

\* The stack is up.  It has to go down again when it should be down, or when it
\* runs a configuration that is not the latest, or not known to be.
startComplete(p) ==
  /\ command[p].call = "startAppleTalk"
  /\ LET outdated == curState < 0 \/ curState > command[p].context IN
     \/ /\ status[p] = "already" \/ (status[p] = "success" /\ outdated)
        /\ Completed(p, <<Call("stopAppleTalk", curState, FALSE)>>)
     \/ /\ status[p] = "success" /\ ~outdated
        /\ Completed(p, << >>)
     \/ Failed(p, "startAppleTalk")

\* The session and the copies of the configuration are released.
stop_ATconfig ==
  /\ MayStop
  /\ RunLoopIdle
  /\ ~released
  /\ released' = TRUE
  /\ UNCHANGED <<child, wanted, plugin, setup, told, command, status, stack,
                 gaveUp, changes>>

---------------------------------------------------------------------------
Exits(p) == StartExits(p) \/ StopExits(p)
Callouts(p) == startComplete(p) \/ stopComplete(p)
Calling == Skip \/ ExecuteFails \/ NotConverted \/ \E p \in Pids : Execute(p)

Next ==
  \/ \E c \in Configs \cup Offs : Change(c)
  \/ \E p \in Pids : Exits(p) \/ Callouts(p)
  \/ Calling
  \/ atConfigChangedCallback
  \/ TimerFires
  \/ stop_ATconfig

Spec == Init /\ [][Next]_vars

\* Commands end and the run loop serves its sources.
Fairness ==
  /\ WF_vars(\E p \in Pids : Exits(p))
  /\ WF_vars(\E p \in Pids : Callouts(p))
  /\ WF_vars(Calling)
  /\ WF_vars(atConfigChangedCallback)
  /\ WF_vars(TimerFires)

FairSpec == Spec /\ Fairness

---------------------------------------------------------------------------
(* Properties                                                              *)

\* No command is running and nothing is left to be done.
Quiet == RunLoopIdle /\ execCommand = {} /\ timers = << >> /\ ~told /\ ~released

\* When the plug-in is at rest and has not given up on the last change, the stack
\* runs the latest configuration, whichever commands, retries and changes of the
\* configuration overtook each other.  After a failed ioctl (atconfig.c:1217), or a
\* retry that could not convert its arguments (atconfig.c:1399), the sign of
\* curState is lost and with it this promise; there is none either when the stack is
\* up at the start, which only a configuration with an interface corrects.
Settled ==
  Quiet /\ gaveUp = "no" /\ conf # Fresh =>
    stack = IF setup \in Offs THEN Down ELSE setup

\* At rest, the sign of curState says whether the stack is up, after a change
\* that was given up too: the next change starts or stops it by that sign
\* (atconfig.c:1454).
SignIsRight == Quiet /\ gaveUp \in {"no", "yes"} => (curState > 0 <=> stack # Down)

\* Only one appletalk command runs at a time, and it is the one that execCommand
\* names.
OneCommand == wanted \subseteq execCommand

\* The plug-in's own state is consistent in every state, at rest or not.
ATInv == TypeOK /\ OneCommand

\* Starting, stopping and retrying come to an end, unless commands are killed again
\* and again after they have done their work: each "already running" refills the
\* retries (atconfig.c:1432).
RetriesEnd ==
  \/ []<>(\E p \in Pids : status[p] = "killed")
  \/ <>[](wanted = {} /\ timers = << >>)
=============================================================================
