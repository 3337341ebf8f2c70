--------------------------- MODULE ATconfigProofs ---------------------------
(***************************************************************************)
(* Theorems about the AppleTalk plug-in for any set of configurations and  *)
(* children, any number of attempts and of changes, and whatever fails.    *)
(***************************************************************************)
EXTENDS ATconfig, FiniteSetTheorems, SequenceTheorems, TLAPS

CallRecords == [call : Calls, info : Int, timer : BOOLEAN]
TimerRecords == [call : Calls, info : Int]
Commands == [call : Calls \cup {"none"}, context : Int,
             conf : Configs \cup Offs \cup {Fresh}]

\* The types that TypeOK leaves open.  Every change is counted once more when the
\* callback takes it, and merged ones only once.
Types ==
  /\ child \in [Pids -> Stages]
  /\ wanted \subseteq Pids
  /\ setup \in Configs \cup Offs
  /\ conf \in Configs \cup Offs \cup {Fresh}
  /\ curState \in Int /\ changes \in 0 .. MaxChanges
  /\ Abs(curState) <= changes /\ (told => Abs(curState) < changes)
  /\ execRetry \in Int /\ execRetry <= RETRY_LIMIT
  /\ timers \in Seq(TimerRecords)
  /\ calling \in Seq(CallRecords) /\ Len(calling) <= 1
  /\ command \in [Pids -> Commands]
  /\ status \in [Pids -> Statuses]
  /\ stack \in Configs \cup Offs \cup {Down}
  /\ gaveUp \in {"no", "yes", "unasked", "blind"}

\* The children are the command that execCommand names.
Single ==
  /\ execCommand = {} \/ \E p \in Pids \cup {-1} : execCommand = {p}
  /\ wanted \subseteq execCommand
  /\ \A p \in Pids : child[p] # "none" => p \in wanted

\* Nothing is done before the first configuration is seen, and what has been seen
\* is the configuration in the store, or a callback is due.
Copied ==
  /\ conf = Fresh => /\ calling = << >> /\ timers = << >> /\ execCommand = {}
                     /\ curState = 0 /\ gaveUp \in {"no", "blind"}
  /\ \A p \in wanted : command[p].conf # Fresh /\ command[p].call \in Calls
  /\ ~told => conf = setup \/ (conf = Fresh /\ setup \in Offs)

\* Something is still to happen to the stack.
Pending == calling # << >> \/ execCommand # {} \/ timers # << >>

\* A call carries a sequence number that is not in the future; a start command that
\* carries the current one has the current configuration.
Numbered ==
  /\ \A i \in DOMAIN calling : calling[i].info <= Abs(curState)
  /\ \A i \in DOMAIN timers : timers[i].info <= Abs(curState)
  /\ \A p \in wanted :
       /\ command[p].context <= Abs(curState)
       /\ command[p].context = curState /\ curState > 0 => command[p].conf = conf

\* What the status of a command that has ended says about the stack.
Told(p) ==
  /\ command[p].call = "stopAppleTalk" /\ status[p] \in {"success", "notRunning", "killed"}
       => stack = Down
  /\ command[p].call = "startAppleTalk" =>
       /\ status[p] \in {"success", "already", "killed"} => stack # Down
       /\ status[p] = "success" /\ command[p].context = curState /\ curState > 0
            => stack = conf

Results == \A p \in wanted : child[p] = "exited" => Told(p)

\* The sign of curState is right or something is pending, the configuration of the
\* stack is the latest or something is pending.
Signs ==
  /\ IF conf = Fresh THEN stack = Down ELSE curState # 0
  /\ stack # Down /\ curState < 0 => Pending
  /\ stack = Down /\ curState > 0 => Pending \/ gaveUp = "unasked"
  /\ gaveUp = "no" =>
       /\ conf \in Offs => curState < 0
       /\ conf \in Configs => curState > 0
       /\ conf \in Configs /\ stack \notin {Down, conf} => Pending

\* The inductive invariant.  Once the sign is lost, nothing is promised of it.
IInv ==
  /\ Types /\ Single /\ Copied
  /\ gaveUp # "blind" => Numbered /\ Results /\ Signs

-----------------------------------------------------------------------------
(* The inductive invariant is one.  *)

\* Sequence numbers.
LEMMA AbsFacts ==
  ASSUME NEW n \in Int
  PROVE  /\ Abs(n) \in Nat /\ n <= Abs(n)
         /\ Abs(-n) = Abs(n) /\ Abs(Abs(n)) = Abs(n) /\ Abs(-Abs(n)) = Abs(n)
         /\ Abs(Abs(n) + 1) = Abs(n) + 1 /\ Abs(-(Abs(n) + 1)) = Abs(n) + 1
         /\ n # 0 => Abs(n) > 0
         /\ n > 0 => Abs(n) = n
BY DEF Abs

\* Nothing has been seen and the stack is down, or nothing is known about it.
LEMMA InitIInv == Init => IInv
<1> SUFFICES ASSUME Init PROVE IInv
  OBVIOUS
<1> USE ATconfigAssumption
<1>1. Types
  <2>1. NoCommand \in Commands /\ "none" \in Statuses /\ "none" \in Stages /\ Abs(0) = 0
    BY DEF NoCommand, Commands, Statuses, Stages, Abs
  <2>2. << >> \in Seq(CallRecords) /\ << >> \in Seq(TimerRecords)
        /\ Len(<< >>) = 0
    OBVIOUS
  <2> QED
    BY <2>1, <2>2 DEF Init, ExecInit, Types
<1>2. Single /\ Copied
  BY DEF Init, ExecInit, Single, Copied
<1>3. gaveUp # "blind" => Numbered /\ Results /\ Signs
  BY DEF Init, ExecInit, Numbered, Results, Signs
<1> QED
  BY <1>1, <1>2, <1>3 DEF IInv

\* The store changes, or the plug-in is stopped.
LEMMA ChangeIInv ==
  ASSUME IInv, (\E c \in Configs \cup Offs : Change(c)) \/ stop_ATconfig
  PROVE  IInv'
<1> USE ATconfigAssumption DEF IInv, plugin
<1>1. Types'
  BY DEF Types, Change, stop_ATconfig, Abs
<1>2. Single' /\ Copied'
  BY DEF Single, Copied, Change, stop_ATconfig
<1>3. ASSUME gaveUp' # "blind" PROVE Numbered' /\ Results' /\ Signs'
  BY <1>3 DEF Change, stop_ATconfig, Numbered, Results, Told, Signs, Pending
<1> QED
  BY <1>1, <1>2, <1>3

\* The command that runs is the one that execCommand names.
LEMMA OnlyCommand ==
  ASSUME Single, NEW p \in wanted
  PROVE  execCommand = {p} /\ wanted = {p}
BY DEF Single

\* A command ends.
LEMMA ExitIInv ==
  ASSUME IInv, NEW p \in Pids, Exits(p)
  PROVE  IInv'
<1> USE ATconfigAssumption DEF IInv, plugin
<1>1. p \in wanted /\ execCommand = {p} /\ wanted = {p} /\ conf # Fresh
  BY OnlyCommand DEF Exits, StartExits, StopExits, CommandEnds, Exit, Single, Copied
<1>2. PICK result \in Statuses, running \in {Down, stack, command[p].conf, conf} :
        /\ CommandEnds(p, result, running)
        /\ command[p].call = "stopAppleTalk" =>
             (result \in {"success", "notRunning", "killed"} => running = Down)
        /\ command[p].call = "startAppleTalk" =>
             /\ result \in {"success", "already", "killed"} => running # Down
             /\ result = "success" => running \in {command[p].conf, conf}
  BY <1>1 DEF Exits, StartExits, StopExits, Statuses, Types, Commands, Copied
<1>3. Types'
  BY <1>1, <1>2 DEF CommandEnds, Exit, Types, Stages, Copied, Commands
<1>4. Single' /\ Copied'
  BY <1>1, <1>2 DEF CommandEnds, Exit, Single, Copied
<1>5. ASSUME gaveUp' # "blind" PROVE Numbered' /\ Results' /\ Signs'
  <2>1. Numbered'
    BY <1>2, <1>5 DEF CommandEnds, Exit, Numbered
  <2>2. status'[p] = result
    BY <1>2 DEF CommandEnds, Types
  <2>3. Results'
    BY <1>1, <1>2, <1>5, <2>2 DEF CommandEnds, Exit, Numbered, Results, Told
  <2>4. Signs'
    BY <1>1, <1>2, <1>5 DEF CommandEnds, Exit, Signs, Pending
  <2> QED
    BY <2>1, <2>3, <2>4
<1> QED
  BY <1>3, <1>4, <1>5

\* A call is skipped while a command runs.
LEMMA SkipIInv ==
  ASSUME IInv, Skip
  PROVE  IInv'
<1> USE DEF IInv
<1>1. Types' /\ Single' /\ Copied'
  BY DEF Skip, Types, Single, Copied
<1>2. ASSUME gaveUp' # "blind" PROVE Numbered' /\ Results' /\ Signs'
  BY <1>2 DEF Skip, Numbered, Results, Told, Signs, Pending
<1> QED
  BY <1>1, <1>2

\* The call that is to be made.
LEMMA HeadOfCalls ==
  ASSUME Types, calling # << >>
  PROVE  Head(calling) \in CallRecords /\ Head(calling) = calling[1] /\ 1 \in DOMAIN calling
BY DEF Types

\* A command is started.
LEMMA ExecuteIInv ==
  ASSUME IInv, NEW p \in Pids, Execute(p)
  PROVE  IInv'
<1> USE ATconfigAssumption DEF IInv
<1> DEFINE c == Head(calling)
<1>1. c \in CallRecords /\ c = calling[1] /\ 1 \in DOMAIN calling
  BY HeadOfCalls DEF Execute
<1>2. /\ command' = [command EXCEPT ![p] = [call |-> c.call, context |-> c.info,
                                            conf |-> conf]]
      /\ execRetry' = Retries(c)
      /\ child[p] = "none" /\ child' = [child EXCEPT ![p] = "running"]
      /\ wanted' = wanted \cup {p}
      /\ execCommand = {} /\ execCommand' = {p}
      /\ calling # << >> /\ calling' = << >>
      /\ UNCHANGED <<setup, told, conf, curState, timers, status, stack, gaveUp,
                     released, changes>>
  BY DEF Execute, Start
<1>3. wanted = {} /\ conf # Fresh
  BY <1>2 DEF Single, Copied
<1> HIDE DEF c
<1>4. Types'
  BY <1>1, <1>2, <1>3 DEF Types, Stages, Retries, CallRecords, Commands
<1>5. command'[p].conf = conf /\ command'[p].call \in Calls /\ command'[p].context = c.info
  BY <1>1, <1>2 DEF Types, CallRecords
<1>6. Single' /\ Copied'
  BY <1>2, <1>3, <1>5 DEF Types, Single, Copied
<1>7. ASSUME gaveUp' # "blind" PROVE Numbered' /\ Results' /\ Signs'
  <2>1. Numbered'
    BY <1>1, <1>2, <1>3, <1>5, <1>7 DEF Numbered
  <2>2. Results' /\ Signs'
    BY <1>2, <1>3, <1>7 DEF Results, Signs, Pending, Types
  <2> QED
    BY <2>1, <2>2
<1> QED
  BY <1>4, <1>6, <1>7

\* A command could not be started: fork failed, or its arguments were lost.
LEMMA NotStartedIInv ==
  ASSUME IInv, ExecuteFails \/ NotConverted
  PROVE  IInv'
<1> USE ATconfigAssumption DEF IInv
<1>1. Head(calling) \in CallRecords /\ calling # << >> /\ calling' = << >>
  BY HeadOfCalls DEF ExecuteFails, NotConverted
<1>2. Types'
  BY <1>1 DEF ExecuteFails, NotConverted, Types, Retries, CallRecords, Noted
<1>3. Single' /\ Copied'
  BY <1>1 DEF ExecuteFails, NotConverted, Single, Copied
<1>4. ASSUME gaveUp' # "blind" PROVE Numbered' /\ Results' /\ Signs'
  <2>1. gaveUp # "blind" /\ UNCHANGED <<curState, conf, stack, timers, wanted, command, child, status>>
    BY <1>4 DEF ExecuteFails, NotConverted, Noted
  <2>2. Numbered' /\ Results'
    BY <1>1, <2>1 DEF Numbered, Results, Told
  <2>3. Signs'
    BY <1>1, <1>4, <2>1 DEF ExecuteFails, NotConverted, Noted, Signs, Pending
  <2> QED
    BY <2>2, <2>3
<1> QED
  BY <1>2, <1>3, <1>4

\* The callback of the store: a new configuration gets the next number, and a call
\* unless a command is running.
LEMMA ChangedIInv ==
  ASSUME IInv, atConfigChangedCallback
  PROVE  IInv'
<1> USE ATconfigAssumption DEF IInv
<1>1. CASE setup = conf
  <2>1. Types' /\ Single' /\ Copied'
    BY <1>1 DEF atConfigChangedCallback, Types, Single, Copied
  <2>2. ASSUME gaveUp' # "blind" PROVE Numbered' /\ Results' /\ Signs'
    BY <1>1, <2>2 DEF atConfigChangedCallback, Numbered, Results, Told, Signs, Pending
  <2> QED
    BY <2>1, <2>2
<1>2. CASE setup # conf
  <2>1. /\ conf' = setup /\ curState' = NewState /\ gaveUp' = Noted("no")
        /\ calling' = IF execCommand = {} THEN NextCalls ELSE << >>
        /\ calling = << >> /\ told /\ ~told'
        /\ UNCHANGED <<child, wanted, setup, execCommand, execRetry, timers, command,
                       status, stack, released, changes>>
    BY <1>2 DEF atConfigChangedCallback, RunLoopIdle, Types
  <2>2. /\ curState' \in Int /\ Abs(curState') = Abs(curState) + 1
        /\ Abs(curState) \in Nat /\ curState <= Abs(curState)
        /\ setup \in Offs => curState' < 0
        /\ setup \in Configs => curState' > 0
    BY <2>1 DEF NewState, Abs, Types
  <2>3. /\ calling' \in Seq(CallRecords) /\ Len(calling') <= 1
        /\ \A i \in DOMAIN calling' : calling'[i].info <= Abs(curState')
    <3>1. CASE calling' = << >>
      BY <3>1
    <3>2. CASE calling' # << >>
      <4>1. /\ Call("stopAppleTalk", NewState, FALSE) \in CallRecords
            /\ Call("startAppleTalk", NewState, FALSE) \in CallRecords
            /\ Call("stopAppleTalk", NewState, FALSE).info = NewState
            /\ Call("startAppleTalk", NewState, FALSE).info = NewState
        BY <2>1, <2>2 DEF Call, CallRecords, Calls
      <4>2. PICK r \in CallRecords : calling' = <<r>> /\ r.info = NewState
        BY <2>1, <3>2, <4>1 DEF NextCalls
      <4>3. NewState <= Abs(curState')
        BY <2>1, <2>2, AbsFacts
      <4> QED
        BY <4>2, <4>3
    <3> QED
      BY <3>1, <3>2
  <2>4. Types'
    BY <2>1, <2>2, <2>3 DEF Types, Noted
  <2>5. Single' /\ Copied'
    BY <2>1 DEF Types, Single, Copied
  <2>6. ASSUME gaveUp' # "blind" PROVE Numbered' /\ Results' /\ Signs'
    <3>1. gaveUp # "blind" /\ gaveUp' = "no"
      BY <2>1, <2>6 DEF Noted
    <3>2. \A n \in Int : n <= Abs(curState) => n <= Abs(curState') /\ (n = curState' => curState' <= 0)
      BY <2>2, AbsFacts
    <3>3. \A i \in DOMAIN timers : timers[i].info \in Int
      <4>1. \A i \in DOMAIN timers : timers[i] \in TimerRecords
        BY ElementOfSeq, LenProperties DEF Types
      <4> QED
        BY <4>1 DEF TimerRecords
    <3>4. \A p \in wanted : command[p].context \in Int
      BY DEF Types, Commands
    <3>5. Numbered'
      BY <2>1, <2>2, <2>3, <3>1, <3>2, <3>3, <3>4 DEF Numbered
    <3>6. Results'
      BY <2>1, <3>1, <3>2, <3>4 DEF Results, Told, Numbered
    <3>7. curState > 0 \/ setup \in Configs => Pending'
      BY <2>1, <2>2 DEF NextCalls, Pending
    <3>8. curState = 0 => stack = Down
      BY <3>1 DEF Signs, Copied
    <3>9. Signs'
      BY <2>1, <2>2, <3>1, <3>7, <3>8 DEF Signs, Pending, Types
    <3> QED
      BY <3>5, <3>6, <3>9
  <2> QED
    BY <2>4, <2>5, <2>6
<1> QED
  BY <1>1, <1>2

\* A timer fires: its call is to be made.
LEMMA TimerIInv ==
  ASSUME IInv, TimerFires
  PROVE  IInv'
<1> USE ATconfigAssumption DEF IInv
<1> DEFINE first == Head(timers)
<1>1. /\ first = timers[1] /\ 1 \in DOMAIN timers
      /\ first \in TimerRecords
      /\ Tail(timers) \in Seq(TimerRecords)
      /\ \A i \in DOMAIN Tail(timers) : i + 1 \in DOMAIN timers /\ Tail(timers)[i] = timers[i + 1]
  <2>1. timers \in Seq(TimerRecords) /\ timers # << >>
    BY DEF TimerFires, Types
  <2>2. DOMAIN timers = 1 .. Len(timers) /\ Len(timers) \in Nat \ {0}
    BY <2>1, LenProperties, EmptySeq
  <2>3. /\ Tail(timers) \in Seq(TimerRecords) /\ Len(Tail(timers)) = Len(timers) - 1
        /\ \A i \in 1 .. Len(Tail(timers)) : Tail(timers)[i] = timers[i + 1]
        /\ DOMAIN Tail(timers) = 1 .. Len(Tail(timers))
    BY <2>1, HeadTailProperties, LenProperties
  <2> QED
    BY <2>1, <2>2, <2>3, HeadTailProperties
<1>2. /\ calling = << >> /\ calling' = <<Call(first.call, first.info, TRUE)>>
      /\ timers' = Tail(timers) /\ timers # << >>
      /\ UNCHANGED <<child, wanted, setup, told, conf, curState, execCommand,
                     execRetry, command, status, stack, gaveUp, released, changes>>
  BY DEF TimerFires, RunLoopIdle
<1> HIDE DEF first
<1>3. /\ calling' \in Seq(CallRecords) /\ Len(calling') <= 1 /\ calling' # << >>
      /\ \A i \in DOMAIN calling' : calling'[i].info = first.info
  BY <1>1, <1>2 DEF Call, CallRecords, TimerRecords
<1>4. Types'
  BY <1>1, <1>2, <1>3 DEF Types
<1>5. Single' /\ Copied'
  BY <1>2 DEF Single, Copied
<1>6. ASSUME gaveUp' # "blind" PROVE Numbered' /\ Results' /\ Signs'
  <2>1. Numbered'
    BY <1>1, <1>2, <1>3, <1>6 DEF Numbered
  <2>2. Results' /\ Signs'
    BY <1>2, <1>3, <1>6 DEF Results, Told, Signs, Pending
  <2> QED
    BY <2>1, <2>2
<1> QED
  BY <1>4, <1>5, <1>6

\* A command has done what it was for.
LEMMA CompletedIInv ==
  ASSUME IInv, NEW p \in Pids, NEW calls \in Seq(CallRecords), Completed(p, calls),
         Len(calls) <= 1, \A i \in DOMAIN calls : calls[i].info = curState,
         gaveUp # "blind" => \/ calls # << >>
                             \/ curState > 0 /\ stack # Down /\ (gaveUp = "no" => stack = conf)
                             \/ curState < 0 /\ stack = Down
  PROVE  IInv'
<1> USE ATconfigAssumption DEF IInv
<1>1. /\ p \in wanted /\ child[p] = "exited"
      /\ child' = [child EXCEPT ![p] = "none"] /\ wanted' = wanted \ {p}
      /\ execCommand' = {} /\ calling' = calls
      /\ command' = [command EXCEPT ![p] = NoCommand]
      /\ status' = [status EXCEPT ![p] = "none"]
      /\ UNCHANGED <<setup, told, conf, curState, execRetry, timers, stack, gaveUp,
                     released, changes>>
  BY DEF Completed, Callout, Forget
<1>2. wanted = {p} /\ execCommand = {p} /\ wanted' = {} /\ conf # Fresh
  BY <1>1, OnlyCommand DEF Copied
<1>3. NoCommand \in Commands /\ "none" \in Statuses /\ "none" \in Stages
  BY DEF NoCommand, Commands, Statuses, Stages
<1>4. Types'
  BY <1>1, <1>2, <1>3 DEF Types
<1>5. Single' /\ Copied'
  BY <1>1, <1>2 DEF Types, Single, Copied
<1>6. ASSUME gaveUp' # "blind" PROVE Numbered' /\ Results' /\ Signs'
  <2>1. curState \in Int /\ curState <= Abs(curState)
    BY DEF Types, Abs
  <2>2. Numbered' /\ Results'
    BY <1>1, <1>2, <1>6, <2>1 DEF Numbered, Results
  <2>3. Signs'
    BY <1>1, <1>2, <1>6, <2>1 DEF Signs, Pending
  <2> QED
    BY <2>2, <2>3
<1> QED
  BY <1>4, <1>5, <1>6

\* A command has failed: a timer will call it again, or the plug-in asks for the
\* state of the stack and gives up.
LEMMA FailedIInv ==
  ASSUME IInv, NEW p \in Pids, NEW call \in Calls, Failed(p, call)
  PROVE  IInv'
<1> USE ATconfigAssumption DEF IInv
<1>1. /\ p \in wanted /\ child[p] = "exited"
      /\ child' = [child EXCEPT ![p] = "none"] /\ wanted' = wanted \ {p}
      /\ execCommand' = {} /\ calling = << >>
      /\ command' = [command EXCEPT ![p] = NoCommand]
      /\ status' = [status EXCEPT ![p] = "none"]
      /\ execRetry' = execRetry - 1
      /\ UNCHANGED <<setup, told, conf, calling, stack, released, changes>>
  BY DEF Failed, Callout, Forget, RunLoopIdle
<1>2. wanted = {p} /\ execCommand = {p} /\ wanted' = {} /\ conf # Fresh
  BY <1>1, OnlyCommand DEF Copied
<1>3. NoCommand \in Commands /\ "none" \in Statuses /\ "none" \in Stages
  BY DEF NoCommand, Commands, Statuses, Stages
<1>4. curState \in Int /\ Abs(curState) \in Nat /\ curState <= Abs(curState)
  BY DEF Types, Abs
<1>5. Single' /\ Copied'
  BY <1>1, <1>2 DEF Types, Single, Copied, Failed
<1>6. CASE execRetry > 1
  <2> DEFINE timer == [call |-> call, info |-> curState]
  <2>1. timers' = Append(timers, timer) /\ UNCHANGED <<curState, gaveUp>>
    BY <1>6 DEF Failed
  <2>2. timer \in TimerRecords /\ timer.info = curState
    BY <1>4 DEF TimerRecords
  <2> HIDE DEF timer
  <2>3. /\ timers' \in Seq(TimerRecords) /\ timers' # << >>
        /\ \A i \in DOMAIN timers' :
             \/ i \in DOMAIN timers /\ timers'[i] = timers[i]
             \/ timers'[i] = timer
    BY <2>1, <2>2 DEF Types
  <2>4. Types'
    BY <1>1, <1>3, <2>1, <2>3 DEF Types
  <2>5. ASSUME gaveUp' # "blind" PROVE Numbered' /\ Results' /\ Signs'
    <3>1. Numbered'
      BY <1>1, <1>2, <1>4, <2>1, <2>2, <2>3, <2>5 DEF Numbered
    <3>2. Results' /\ Signs'
      BY <1>1, <1>2, <2>1, <2>3, <2>5 DEF Results, Signs, Pending
    <3> QED
      BY <3>1, <3>2
  <2> QED
    BY <1>5, <2>4, <2>5
<1>7. CASE ~(execRetry > 1)
  <2>1. curState' \in stackState /\ timers' = timers
        /\ gaveUp' = IF curState' = 0 THEN "blind" ELSE Noted("yes")
    BY <1>7 DEF Failed
  <2>2. curState' \in {Abs(curState), -Abs(curState), 0}
    BY <2>1 DEF stackState
  <2>5. curState' \in Int /\ Abs(curState') \in Nat /\ Abs(curState') <= Abs(curState)
    <3>1. Abs(0) = 0
      BY DEF Abs
    <3> QED
      BY <1>4, <2>2, <3>1, AbsFacts
  <2>3. Types'
    BY <1>1, <1>3, <1>4, <2>1, <2>5 DEF Types, Noted
  <2>4. ASSUME gaveUp' # "blind" PROVE Numbered' /\ Results' /\ Signs'
    <3>1. gaveUp # "blind" /\ gaveUp' = "yes" /\ curState' # 0
      BY <2>1, <2>4 DEF Noted
    <3>2. Abs(curState') = Abs(curState) /\ (curState' > 0 <=> stack # Down)
      BY <1>4, <2>1, <3>1, AbsFacts DEF stackState
    <3>3. Numbered' /\ Results'
      BY <1>1, <1>2, <2>1, <3>1, <3>2 DEF Numbered, Results
    <3>4. Signs'
      BY <1>1, <2>5, <3>1, <3>2 DEF Signs
    <3> QED
      BY <3>3, <3>4
  <2> QED
    BY <1>5, <2>3, <2>4
<1> QED
  BY <1>6, <1>7

\* startComplete and stopComplete, the callouts of a command.
LEMMA CalloutIInv ==
  ASSUME IInv, NEW p \in Pids, Callouts(p)
  PROVE  IInv'
<1> USE ATconfigAssumption DEF IInv
<1> DEFINE up == Call("startAppleTalk", curState, FALSE)
           down == Call("stopAppleTalk", curState, FALSE)
           none == << >>
           start == <<up>>
           stop == <<down>>
           Fits(calls) == /\ calls \in Seq(CallRecords) /\ Len(calls) <= 1
                          /\ \A i \in DOMAIN calls : calls[i].info = curState
<1>1. Fits(none) /\ Fits(start) /\ Fits(stop)
  <2>1. up \in CallRecords /\ down \in CallRecords /\ up.info = curState /\ down.info = curState
    BY DEF Call, CallRecords, Calls, Types
  <2> HIDE DEF up, down
  <2>2. Fits(none)
    OBVIOUS
  <2>3. Fits(start)
    BY <2>1
  <2>4. Fits(stop)
    BY <2>1
  <2> QED
    BY <2>2, <2>3, <2>4
<1>2. start # << >> /\ stop # << >>
  OBVIOUS
<1> HIDE DEF none, start, stop, Fits
<1>3. ASSUME NEW call \in Calls, Failed(p, call) PROVE IInv'
  BY <1>3, FailedIInv
<1>4. ASSUME NEW calls, Fits(calls), Completed(p, calls),
             gaveUp # "blind" => \/ calls # << >>
                                 \/ curState > 0 /\ stack # Down /\ (gaveUp = "no" => stack = conf)
                                 \/ curState < 0 /\ stack = Down
      PROVE  IInv'
  BY <1>4, CompletedIInv DEF Fits
<1>5. ASSUME RunLoopIdle, Callout(p), gaveUp # "blind"
      PROVE  /\ conf # Fresh /\ curState \in Int /\ curState # 0 /\ Told(p)
             /\ command[p].context \in Int /\ command[p].context <= Abs(curState)
             /\ curState > 0 => Abs(curState) = curState
  <2>1. p \in wanted /\ child[p] = "exited" /\ curState \in Int /\ command[p] \in Commands
    BY <1>5 DEF Callout, Types
  <2>2. conf # Fresh
    BY <2>1, OnlyCommand DEF Copied
  <2> QED
    BY <1>5, <2>1, <2>2, AbsFacts DEF Commands, Results, Numbered, Signs
<1>6. CASE startComplete(p)
  <2>1. CASE Completed(p, stop)
    BY <1>1, <1>2, <1>4, <2>1
  <2>2. CASE /\ status[p] = "success" /\ ~(curState < 0 \/ curState > command[p].context)
             /\ Completed(p, none)
    <3>1. ASSUME gaveUp # "blind" PROVE curState > 0 /\ stack # Down /\ stack = conf
      <4>1. RunLoopIdle /\ Callout(p) /\ command[p].call = "startAppleTalk"
        BY <1>6, <2>2 DEF Completed, startComplete
      <4>2. curState > 0 /\ curState = command[p].context
        BY <1>5, <2>2, <3>1, <4>1
      <4> QED
        BY <1>5, <2>2, <3>1, <4>1, <4>2 DEF Told
    <3> QED
      BY <1>1, <1>4, <2>2, <3>1
  <2> QED
    BY <1>3, <1>6, <2>1, <2>2 DEF startComplete, Calls, stop, none
<1>7. CASE stopComplete(p)
  <2>1. CASE curState > 0 /\ Completed(p, start)
    BY <1>1, <1>2, <1>4, <2>1
  <2>2. CASE status[p] \in {"success", "notRunning"} /\ ~(curState > 0) /\ Completed(p, none)
    <3>1. ASSUME gaveUp # "blind" PROVE curState < 0 /\ stack = Down
      <4>1. RunLoopIdle /\ Callout(p) /\ command[p].call = "stopAppleTalk"
        BY <1>7, <2>2 DEF Completed, stopComplete
      <4> QED
        BY <1>5, <2>2, <3>1, <4>1 DEF Told
    <3> QED
      BY <1>1, <1>4, <2>2, <3>1
  <2> QED
    BY <1>3, <1>7, <2>1, <2>2 DEF stopComplete, Calls, start, none
<1> QED
  BY <1>6, <1>7 DEF Callouts

\* Every step preserves the invariant.
LEMMA NextIInv == IInv /\ [Next]_vars => IInv'
<1> SUFFICES ASSUME IInv, [Next]_vars PROVE IInv'
  OBVIOUS
<1>1. CASE UNCHANGED vars
  <2>1. Types' /\ Single' /\ Copied'
    BY <1>1 DEF vars, plugin, IInv, Types, Single, Copied
  <2>2. gaveUp' # "blind" => Numbered' /\ Results' /\ Signs'
    BY <1>1 DEF vars, plugin, IInv, Numbered, Results, Told, Signs, Pending
  <2> QED
    BY <2>1, <2>2 DEF IInv
<1> QED
  BY <1>1, ChangeIInv, ExitIInv, CalloutIInv, SkipIInv, ExecuteIInv, NotStartedIInv,
     ChangedIInv, TimerIInv DEF Next, Calling

-----------------------------------------------------------------------------
(* Theorems.  *)

\* The plug-in's own state is consistent: the sequence number stays within the
\* number of changes, retries within the limit, at most one command runs and it is
\* the one that execCommand names (atconfig.c), whatever fails.
THEOREM StateIsConsistent == Spec => []ATInv
<1>1. IInv => ATInv
  <2> SUFFICES ASSUME IInv PROVE ATInv
    OBVIOUS
  <2>1. Cardinality(execCommand) <= 1 /\ execCommand \in SUBSET (Pids \cup {-1})
    BY FS_EmptySet, FS_Singleton DEF IInv, Single
  <2>2. curState \in -MaxChanges..MaxChanges
    BY ATconfigAssumption DEF IInv, Types, Abs
  <2>3. \A i \in DOMAIN timers : timers[i].call \in Calls
    <3>1. \A i \in DOMAIN timers : timers[i] \in TimerRecords
      BY ElementOfSeq, LenProperties DEF IInv, Types
    <3> QED
      BY <3>1 DEF TimerRecords
  <2> QED
    BY <2>1, <2>2, <2>3 DEF IInv, ATInv, TypeOK, OneCommand, Types, Single
<1> QED
  BY <1>1, InitIInv, NextIInv, PTL DEF Spec

\* At rest, the sign of curState says whether the stack is up, also after a change
\* that was given up: unless the sign was lost, the next change starts or stops the
\* stack by it (atconfig.c:1454), whichever commands, timers and changes overtook
\* each other.
THEOREM SignTellsTheStack == Spec => []SignIsRight
<1>1. IInv => SignIsRight
  <2> SUFFICES ASSUME IInv, Quiet, gaveUp \in {"no", "yes"}
               PROVE  curState > 0 <=> stack # Down
    BY DEF SignIsRight
  <2>1. ~Pending /\ Signs /\ curState \in Int /\ Copied
    BY DEF IInv, Types, Quiet, RunLoopIdle, Pending
  <2> QED
    BY <2>1 DEF Signs, Copied
<1> QED
  BY <1>1, InitIInv, NextIInv, PTL DEF Spec

\* At rest and with nothing given up, the stack runs the latest configuration, for
\* any number of changes and attempts.
THEOREM LatestConfigurationRuns == Spec => []Settled
<1>1. IInv => Settled
  <2> SUFFICES ASSUME IInv, Quiet, gaveUp = "no", conf # Fresh
               PROVE  stack = IF setup \in Offs THEN Down ELSE setup
    BY DEF Settled
  <2>1. ~Pending /\ Signs /\ curState \in Int /\ conf = setup /\ setup \in Configs \cup Offs
    BY DEF IInv, Types, Quiet, RunLoopIdle, Pending, Copied
  <2> QED
    BY <2>1, ATconfigAssumption DEF Signs
<1> QED
  BY <1>1, InitIInv, NextIInv, PTL DEF Spec
=============================================================================
