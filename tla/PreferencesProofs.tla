------------------------- MODULE PreferencesProofs -------------------------
(***************************************************************************)
(* The preferences sessions, for any number of them: the exclusion that    *)
(* the lock file gives, what the lock protects, and the register that the  *)
(* sessions implement, whatever fails and whoever dies between any two     *)
(* system calls.  Then the same for the sessions that helpers run, and     *)
(* what clients and helpers know of each other.                            *)
(***************************************************************************)
EXTENDS PreferencesRefinement, PreferencesHelper, TLAPS

\* The steps of a commit or an apply that has the lock.
Committing == {"commit", "write", "rename", "retire", "link", "resign", "notify"}

\* The steps at which a session that has the lock may be before it begins to give it
\* back, and those at which one may be that has not begun to acquire it.
Inside  == Committing \cup {"idle", "unlock"}
Outside == {"closed", "create", "idle", "open", "unlock"}

LockTypes ==
  /\ pc \in [Sessions -> Steps]
  /\ fd \in [Sessions -> Nat]
  /\ lockFile \in Nat /\ lockInodes \in Nat
  /\ flocked \subseteq Sessions

\* prefsPrivate->locked and the position of a session agree.
Positions ==
  \A s \in Sessions :
    /\ s \in locked => pc[s] \in Inside \cup {"close"}
    /\ pc[s] \in Committing => s \in locked

\* The kernel grants the lock of an inode once, and only to open descriptors.
Exclusive ==
  /\ \A s, t \in flocked : fd[s] = fd[t] => s = t
  /\ \A s \in Sessions :
       /\ s \notin locked /\ pc[s] \in Outside => s \notin flocked /\ fd[s] = 0
       /\ pc[s] \in {"flock", "check"} => fd[s] # 0
       /\ pc[s] = "flock" => s \notin flocked
       /\ pc[s] = "check" => s \in flocked

\* A holder has the lock of the inode that has the name: this is what the check
\* after the lock establishes, and what unlinking before closing preserves.
HoldersHaveTheName ==
  \A s \in Sessions : Holds(s) => s \in flocked /\ fd[s] = lockFile /\ lockFile # 0

\* The inductive invariant.
LockInv ==
  /\ readOnly => setting.readOnly
  /\ LockTypes
  /\ ~setting.readOnly => Positions /\ Exclusive /\ HoldersHaveTheName

\* No session exists and no lock file.
LEMMA InitLockInv == Init => LockInv
<1> SUFFICES ASSUME Init PROVE LockInv
  OBVIOUS
<1>1. (readOnly => setting.readOnly) /\ LockTypes
  BY DEF Init, LockTypes, Steps
<1>2. Positions
  BY DEF Init, Positions, Committing
<1>3. Exclusive
  BY DEF Init, Exclusive
<1>4. HoldersHaveTheName
  BY DEF Init, HoldersHaveTheName, Holds
<1> QED
  BY <1>1, <1>2, <1>3, <1>4 DEF LockInv

\* Two holders have the same inode, which is locked once.
LEMMA OneAtATime ==
  ASSUME LockInv, ~setting.readOnly, NEW s \in Sessions, NEW t \in Sessions,
         Holds(s), Holds(t)
  PROVE  s = t
BY DEF LockInv, Exclusive, HoldersHaveTheName

\* A session moves on within what it does with the lock, or without it.
LEMMA Moves ==
  ASSUME LockInv, NEW s \in Sessions, NEW step \in Steps, Goto(s, step),
         UNCHANGED <<lockVars, setting, readOnly>>,
         \/ s \notin locked /\ pc[s] \in Outside /\ step \in Outside
         \/ s \in locked /\ pc[s] \in Inside /\ step \in Inside
  PROVE  LockInv'
<1>1. pc' = [pc EXCEPT ![s] = step] /\ pc' \in [Sessions -> Steps]
  BY DEF Goto, LockInv, LockTypes
<1>2. LockTypes' /\ (readOnly' => setting'.readOnly)
  BY <1>1 DEF LockInv, LockTypes, lockVars
<1> SUFFICES ASSUME ~setting.readOnly
             PROVE  Positions' /\ Exclusive' /\ HoldersHaveTheName'
  BY <1>2 DEF LockInv
<1>3. \A t \in Sessions : t # s => pc'[t] = pc[t]
  BY <1>1 DEF LockInv, LockTypes
<1>4. pc'[s] = step
  BY <1>1 DEF LockInv, LockTypes
<1>5. Positions'
  BY <1>3, <1>4 DEF LockInv, Positions, Inside, Outside, Committing, lockVars
<1>6. Exclusive'
  BY <1>3, <1>4 DEF LockInv, Exclusive, Inside, Outside, Committing, lockVars
<1>7. HoldersHaveTheName'
  <2>1. ASSUME NEW t \in Sessions, Holds(t)' PROVE Holds(t)
    BY <1>3, <1>4, <2>1 DEF Holds, Inside, Outside, Committing, lockVars
  <2> QED
    BY <2>1 DEF LockInv, HoldersHaveTheName, lockVars
<1> QED
  BY <1>5, <1>6, <1>7

\* What does not concern the lock.
LEMMA Elsewhere ==
  ASSUME LockInv, UNCHANGED <<lockVars, setting, readOnly, pc>>
  PROVE  LockInv'
BY DEF LockInv, LockTypes, Positions, Exclusive, HoldersHaveTheName, Holds, lockVars

\* The end of a commit or an apply.
LEMMA DoneMoves ==
  ASSUME LockInv, NEW s \in Sessions, pc[s] \in Committing, Done(s),
         UNCHANGED <<lockVars, setting, readOnly>>, ~setting.readOnly
  PROVE  LockInv'
<1>1. PICK step \in {"idle", "unlock"} : Goto(s, step)
  BY DEF Done, Finish
<1>2. s \in locked
  BY DEF LockInv, Positions
<1> QED
  BY <1>1, <1>2, Moves DEF Inside, Steps

\* The calls, before their first step.
LEMMA RequestLockInv ==
  ASSUME LockInv, NEW s \in Sessions, Request(s), ~setting.readOnly
  PROVE  LockInv'
<1> USE DEF diskVars, boundVars, callVars, Begin
<1>1. CASE SCPreferencesCreate(s)
  <2>1. PICK step \in {"idle", "create"} : Goto(s, step)
    BY <1>1 DEF SCPreferencesCreate
  <2>2. s \notin locked /\ pc[s] = "closed"
    BY <1>1 DEF SCPreferencesCreate, LockInv, Positions, Inside, Committing
  <2> QED
    BY <1>1, <2>1, <2>2, Moves DEF SCPreferencesCreate, Outside, Steps
<1>2. CASE \/ SCPreferencesGetValue(s) \/ AccessFails(s) \/ SCPreferencesSynchronize(s)
           \/ \E k \in setting.keys : SCPreferencesSetValue(s, k)
                                      \/ SCPreferencesRemoveValue(s, k)
  BY <1>2, Elsewhere DEF SCPreferencesGetValue, AccessFails, SCPreferencesSynchronize,
     SCPreferencesSetValue, SCPreferencesRemoveValue, Cache
<1>3. CASE SCPreferencesUnlock(s) \/ SCPreferencesRelease(s)
  <2>1. Goto(s, "unlock") /\ pc[s] = "idle" /\ UNCHANGED <<lockVars, setting, readOnly>>
    BY <1>3 DEF SCPreferencesUnlock, SCPreferencesRelease
  <2> QED
    BY <2>1, Moves DEF Inside, Outside, Steps
<1>4. ASSUME NEW o, Acquire(s, o), Counted PROVE LockInv'
  <2>1. /\ Goto(s, "open") /\ pc[s] = "idle" /\ s \notin locked
        /\ UNCHANGED <<lockVars, setting, readOnly>>
    BY <1>4 DEF Acquire, Counted
  <2> QED
    BY <2>1, Moves DEF Outside, Steps
<1>5. ASSUME NEW o, NEW step \in {"commit", "notify"}, WithLock(s, o, step), Counted
      PROVE  LockInv'
  <2>1. /\ Goto(s, step) /\ pc[s] = "idle" /\ s \in locked
        /\ UNCHANGED <<lockVars, setting, readOnly>>
    BY <1>5 DEF WithLock, Counted
  <2> QED
    BY <2>1, Moves DEF Inside, Committing, Steps
<1> QED
  BY <1>1, <1>2, <1>3, <1>4, <1>5 DEF Request, SCPreferencesLock,
     SCPreferencesCommitChanges, SCPreferencesApplyChanges

\* The step changes pc, fd, flocked and locked for no other session.
Others(s) ==
  \A t \in Sessions \ {s} :
    /\ pc'[t] = pc[t]
    /\ fd'[t] = fd[t]
    /\ t \in flocked' <=> t \in flocked
    /\ t \in locked' <=> t \in locked

\* What remains to be shown of a step in which the name of the lock file stays, or
\* goes while the session that removes it holds the lock.
LEMMA LockStep ==
  ASSUME LockInv, NEW s \in Sessions, Others(s), LockTypes', ~setting.readOnly,
         UNCHANGED <<setting, readOnly>>,
         lockFile' = lockFile \/ lockFile = 0 \/ Holds(s),
         s \in locked' => pc'[s] \in Inside \cup {"close"},
         pc'[s] \in Committing => s \in locked',
         s \in flocked' => fd'[s] # 0
           /\ \A t \in flocked \ {s} : fd[t] # fd'[s],
         s \notin locked' /\ pc'[s] \in Outside => s \notin flocked' /\ fd'[s] = 0,
         pc'[s] \in {"flock", "check"} => fd'[s] # 0,
         pc'[s] = "flock" => s \notin flocked',
         pc'[s] = "check" => s \in flocked',
         Holds(s)' => s \in flocked' /\ fd'[s] = lockFile' /\ lockFile' # 0
  PROVE  LockInv'
<1> USE DEF Others
<1>1. Positions'
  BY DEF LockInv, Positions
<1>2. Exclusive'
  <2>1. ASSUME NEW t \in flocked', NEW u \in flocked', fd'[t] = fd'[u] PROVE t = u
    BY <2>1 DEF LockInv, Exclusive, LockTypes
  <2>2. \A t \in Sessions :
          /\ t \notin locked' /\ pc'[t] \in Outside => t \notin flocked' /\ fd'[t] = 0
          /\ pc'[t] \in {"flock", "check"} => fd'[t] # 0
          /\ pc'[t] = "flock" => t \notin flocked'
          /\ pc'[t] = "check" => t \in flocked'
    BY DEF LockInv, Exclusive
  <2> QED
    BY <2>1, <2>2 DEF Exclusive
<1>3. HoldersHaveTheName'
  <2>1. ASSUME NEW t \in Sessions \ {s}, Holds(t)'
        PROVE  t \in flocked' /\ fd'[t] = lockFile' /\ lockFile' # 0
    <3>1. Holds(t)
      BY <2>1 DEF Holds
    <3>2. ~Holds(s)
      BY <3>1, OneAtATime
    <3>3. t \in flocked /\ fd[t] = lockFile /\ lockFile # 0
      BY <3>1 DEF LockInv, HoldersHaveTheName
    <3> QED
      BY <3>2, <3>3
  <2> QED
    BY <2>1 DEF HoldersHaveTheName
<1> QED
  BY <1>1, <1>2, <1>3 DEF LockInv

\* The steps that take the lock.
LEMMA LockingLockInv ==
  ASSUME LockInv, NEW s \in Sessions, ~setting.readOnly,
         \/ LockOpen(s) \/ LockOpenFails(s) \/ LockGranted(s) \/ LockBusy(s)
         \/ LockCheck(s) \/ LockFresh(s)
  PROVE  LockInv'
<1> USE DEF diskVars, boundVars
<1>0. ~readOnly /\ LockTypes /\ Positions /\ Exclusive /\ HoldersHaveTheName
  BY DEF LockInv
<1>1. CASE LockOpen(s)
  <2>1. /\ pc[s] = "open" /\ s \notin locked /\ s \notin flocked
        /\ LockInode \in Nat \ {0}
    BY <1>0, <1>1 DEF LockOpen, Positions, Exclusive, LockTypes, LockInode, Inside,
       Outside, Committing
  <2>2. /\ pc' = [pc EXCEPT ![s] = "flock"] /\ fd' = [fd EXCEPT ![s] = LockInode]
        /\ lockFile' = LockInode /\ UNCHANGED <<flocked, locked, setting, readOnly>>
        /\ lockInodes' \in Nat
    BY <1>0, <1>1 DEF LockOpen, Goto, LockTypes
  <2>3. LockTypes' /\ Others(s) /\ pc'[s] = "flock" /\ fd'[s] = LockInode
    BY <1>0, <2>1, <2>2 DEF LockTypes, Steps, Others
  <2>4. lockFile' = lockFile \/ lockFile = 0
    BY <2>2 DEF LockInode
  <2> QED
    BY <2>1, <2>2, <2>3, <2>4, LockStep DEF Holds, Inside, Outside, Committing
<1>2. CASE LockOpenFails(s)
  <2>1. /\ pc[s] = "open" /\ s \notin locked /\ Goto(s, "idle")
        /\ UNCHANGED <<lockVars, setting, readOnly>>
    BY <1>0, <1>2 DEF LockOpenFails, Finish, Positions, Inside, Committing
  <2> QED
    BY <2>1, Moves DEF Outside, Steps
<1>3. CASE LockGranted(s)
  <2>1. /\ pc[s] = "flock" /\ s \notin locked /\ fd[s] # 0
        /\ \A t \in flocked : fd[t] # fd[s]
    BY <1>0, <1>3 DEF LockGranted, Free, Positions, Exclusive, Inside, Committing
  <2>2. /\ pc' = [pc EXCEPT ![s] = "check"] /\ flocked' = flocked \cup {s}
        /\ UNCHANGED <<fd, lockFile, lockInodes, locked, setting, readOnly>>
    BY <1>3 DEF LockGranted, Goto
  <2>3. LockTypes' /\ Others(s) /\ pc'[s] = "check"
    BY <1>0, <2>2 DEF LockTypes, Steps, Others
  <2> QED
    BY <2>1, <2>2, <2>3, LockStep DEF Holds, Inside, Outside, Committing
<1>4. CASE LockBusy(s)
  <2>1. pc[s] = "flock" /\ s \notin locked /\ s \notin flocked
    BY <1>0, <1>4 DEF LockBusy, Positions, Exclusive, Inside, Committing
  <2>2. /\ pc' = [pc EXCEPT ![s] = "idle"] /\ fd' = [fd EXCEPT ![s] = 0]
        /\ UNCHANGED <<flocked, lockFile, lockInodes, locked, setting, readOnly>>
    BY <1>4 DEF LockBusy, Finish, Goto
  <2>3. LockTypes' /\ Others(s) /\ pc'[s] = "idle" /\ fd'[s] = 0
    BY <1>0, <2>2 DEF LockTypes, Steps, Others
  <2> QED
    BY <2>1, <2>2, <2>3, LockStep DEF Holds, Inside, Outside, Committing
<1>5. CASE LockCheck(s)
  <2>1. pc[s] = "check" /\ s \notin locked /\ s \in flocked /\ fd[s] # 0
    BY <1>0, <1>5 DEF LockCheck, Positions, Exclusive, Inside, Committing
  <2>2. CASE lockFile = fd[s]
    <3>1. /\ pc' = [pc EXCEPT ![s] = "stale"]
          /\ UNCHANGED <<fd, flocked, lockFile, lockInodes, locked, setting, readOnly>>
      BY <1>5, <2>2 DEF LockCheck, Goto
    <3>2. LockTypes' /\ Others(s) /\ pc'[s] = "stale"
      BY <1>0, <3>1 DEF LockTypes, Steps, Others
    <3>3. \A t \in flocked \ {s} : fd[t] # fd[s]
      BY <1>0, <2>1 DEF Exclusive
    <3> QED
      BY <2>1, <2>2, <3>1, <3>2, <3>3, LockStep DEF Inside, Outside, Committing
  <2>3. CASE lockFile # fd[s]
    <3>1. /\ pc' = [pc EXCEPT ![s] = "open"] /\ fd' = [fd EXCEPT ![s] = 0]
          /\ flocked' = flocked \ {s}
          /\ UNCHANGED <<lockFile, lockInodes, locked, setting, readOnly>>
      BY <1>5, <2>3 DEF LockCheck, Goto
    <3>2. LockTypes' /\ Others(s) /\ pc'[s] = "open" /\ fd'[s] = 0
      BY <1>0, <3>1 DEF LockTypes, Steps, Others
    <3> QED
      BY <2>1, <3>1, <3>2, LockStep DEF Holds, Inside, Outside, Committing
  <2> QED
    BY <2>2, <2>3
<1>6. CASE LockFresh(s)
  <2>1. /\ pc[s] = "stale" /\ s \in flocked /\ fd[s] = lockFile /\ lockFile # 0
    BY <1>0, <1>6 DEF LockFresh, HoldersHaveTheName, Holds
  <2>2. PICK step \in {"commit", "notify", "idle"} : pc' = [pc EXCEPT ![s] = step]
    BY <1>6 DEF LockFresh, Resume, Goto, Finish
  <2>3. /\ locked' = locked \cup {s}
        /\ UNCHANGED <<fd, flocked, lockFile, lockInodes, setting, readOnly>>
    BY <1>6 DEF LockFresh
  <2>4. LockTypes' /\ Others(s) /\ pc'[s] = step
    BY <1>0, <2>2, <2>3 DEF LockTypes, Steps, Others
  <2>5. \A t \in flocked \ {s} : fd[t] # fd[s]
    BY <1>0, <2>1 DEF Exclusive
  <2> QED
    BY <2>1, <2>3, <2>4, <2>5, LockStep DEF Inside, Outside, Committing
<1> QED
  BY <1>1, <1>2, <1>3, <1>4, <1>5, <1>6

\* The steps that give the lock back, and the death of a process.
LEMMA UnlockingLockInv ==
  ASSUME LockInv, NEW s \in Sessions, ~setting.readOnly,
         LockStale(s) \/ UnlockUnlink(s) \/ UnlockClose(s) \/ Die(s)
  PROVE  LockInv'
<1> USE DEF diskVars, boundVars
<1>0. ~readOnly /\ LockTypes /\ Positions /\ Exclusive /\ HoldersHaveTheName
  BY DEF LockInv
<1>1. CASE LockStale(s)
  <2>1. Holds(s) /\ pc[s] = "stale" /\ s \notin locked /\ s \in flocked
        /\ fd[s] = lockFile /\ lockFile # 0
    BY <1>0, <1>1 DEF LockStale, Holds, HoldersHaveTheName, Positions, Inside, Committing
  <2>2. /\ pc' = [pc EXCEPT ![s] = "close"] /\ lockFile' = 0
        /\ UNCHANGED <<fd, flocked, lockInodes, locked, setting, readOnly>>
    BY <1>0, <1>1 DEF LockStale, UnlinkLock, Goto
  <2>3. LockTypes' /\ Others(s) /\ pc'[s] = "close"
    BY <1>0, <2>2 DEF LockTypes, Steps, Others
  <2>4. \A t \in flocked \ {s} : fd[t] # fd[s]
    BY <1>0, <2>1 DEF Exclusive
  <2> QED
    BY <2>1, <2>2, <2>3, <2>4, LockStep DEF Holds, Inside, Outside, Committing
<1>2. CASE UnlockUnlink(s)
  <2>1. pc[s] = "unlock" /\ s \in Sessions
    BY <1>2 DEF UnlockUnlink
  <2>2. /\ pc' = [pc EXCEPT ![s] = "close"]
        /\ lockFile' = IF fd[s] # 0 THEN 0 ELSE lockFile
        /\ UNCHANGED <<fd, flocked, lockInodes, locked, setting, readOnly>>
    BY <1>0, <1>2 DEF UnlockUnlink, UnlinkLock, Goto
  <2>3. LockTypes' /\ Others(s) /\ pc'[s] = "close"
    BY <1>0, <2>2 DEF LockTypes, Steps, Others
  <2>4. CASE s \in locked
    <3>1. Holds(s) /\ s \in flocked /\ fd[s] = lockFile /\ lockFile # 0
      BY <1>0, <2>1, <2>4 DEF Holds, HoldersHaveTheName
    <3>2. \A t \in flocked \ {s} : fd[t] # fd[s]
      BY <1>0, <3>1 DEF Exclusive
    <3> QED
      BY <2>2, <2>3, <3>1, <3>2, LockStep DEF Holds, Inside, Outside, Committing
  <2>5. CASE s \notin locked
    <3>1. s \notin flocked /\ fd[s] = 0
      BY <1>0, <2>1, <2>5 DEF Exclusive, Outside
    <3> QED
      BY <2>2, <2>3, <2>5, <3>1, LockStep DEF Holds, Inside, Outside, Committing
  <2> QED
    BY <2>4, <2>5
<1>3. CASE UnlockClose(s) \/ Die(s)
  <2>1. PICK step \in {"closed", "idle"} : pc' = [pc EXCEPT ![s] = step]
    BY <1>3 DEF UnlockClose, Die, Vanish, Finish, Goto
  <2>2. /\ fd' = [fd EXCEPT ![s] = 0] /\ flocked' = flocked \ {s}
        /\ locked' = locked \ {s}
        /\ UNCHANGED <<lockFile, lockInodes, setting, readOnly>>
    BY <1>3 DEF UnlockClose, Die, Vanish
  <2>3. LockTypes' /\ Others(s) /\ pc'[s] = step /\ fd'[s] = 0
    BY <1>0, <2>1, <2>2 DEF LockTypes, Steps, Others
  <2> QED
    BY <2>2, <2>3, LockStep DEF Holds, Inside, Outside, Committing
<1> QED
  BY <1>1, <1>2, <1>3

\* The steps of a commit or an apply, from the grant of the lock to its end, do
\* not touch the lock.
LEMMA CommitLockInv ==
  ASSUME LockInv, NEW s \in Sessions, ~setting.readOnly,
         \/ CommitOpen(s) \/ CommitOpenFails(s) \/ CommitWrite(s) \/ CommitWriteFails(s)
         \/ CommitRename(s) \/ CommitRenameFails(s) \/ RetireOld(s) \/ LinkOld(s)
         \/ CommitSign(s) \/ CommitSignFails(s) \/ Notify(s) \/ NotifyFails(s)
  PROVE  LockInv'
<1> USE DEF diskVars, boundVars
<1>1. pc[s] \in Committing /\ UNCHANGED <<lockVars, setting, readOnly>>
  BY DEF CommitOpen, CommitOpenFails, CommitWrite, CommitWriteFails, CommitRename,
     CommitRenameFails, RetireOld, LinkOld, CommitSign, CommitSignFails, Notify,
     NotifyFails, Committing
<1>2. s \in locked
  BY <1>1 DEF LockInv, Positions
<1>3. \/ Done(s)
      \/ \E step \in Committing : Goto(s, step)
  BY DEF CommitOpen, CommitOpenFails, CommitWrite, CommitWriteFails, CommitRename,
     CommitRenameFails, RetireOld, LinkOld, CommitSign, CommitSignFails, Notify,
     NotifyFails, Committing
<1>4. ASSUME NEW step \in Committing, Goto(s, step) PROVE LockInv'
  <2>1. step \in Inside /\ step \in Steps /\ pc[s] \in Inside
    BY <1>1 DEF Inside, Committing, Steps
  <2> QED
    BY <1>1, <1>2, <1>4, <2>1, Moves
<1> QED
  BY <1>1, <1>3, <1>4, DoneMoves

\* A migration that was not completed is not forgotten.
LEMMA TornStays == [Next]_vars => (torn => torn')
<1> SUFFICES ASSUME [Next]_vars PROVE torn => torn'
  OBVIOUS
<1> USE DEF boundVars
<1>1. CASE \E s \in Sessions : Request(s)
  <2>1. torn' = torn
    BY <1>1 DEF Request, Counted, SCPreferencesCreate, SCPreferencesGetValue,
       AccessFails, SCPreferencesSetValue, SCPreferencesRemoveValue, Cache,
       SCPreferencesSynchronize, SCPreferencesUnlock, SCPreferencesRelease
  <2> QED
    BY <2>1
<1>2. CASE \E s \in Sessions : Step(s) /\ ~LinkOld(s)
  <2>1. torn' = torn
    BY <1>2 DEF Step, Proceed, CreateOld, LockOpen, LockOpenFails, LockGranted,
       LockBusy, LockCheck, LockFresh, LockStale, UnlockUnlink, UnlockClose,
       CommitOpen, CommitOpenFails, CommitWrite, CommitWriteFails, CommitRename,
       CommitRenameFails, RetireOld, CommitSign, CommitSignFails, Notify, NotifyFails
  <2> QED
    BY <2>1
<1>3. CASE \E s \in Sessions : LinkOld(s) \/ Die(s)
  BY <1>3 DEF LinkOld, Die
<1>4. CASE Remount \/ UNCHANGED vars
  BY <1>4 DEF Remount, vars
<1> QED
  BY <1>1, <1>2, <1>3, <1>4 DEF Next

\* The setting is fixed, also on a volume that is mounted late.
LEMMA SettingFixed == [Next]_vars => setting' = setting
<1> SUFFICES ASSUME [Next]_vars PROVE setting' = setting
  OBVIOUS
<1> USE DEF boundVars
<1>1. CASE \E s \in Sessions : Request(s)
  BY <1>1 DEF Request, Counted, SCPreferencesCreate, SCPreferencesGetValue,
     AccessFails, SCPreferencesSetValue, SCPreferencesRemoveValue, Cache,
     SCPreferencesSynchronize, SCPreferencesUnlock, SCPreferencesRelease
<1>2. CASE \E s \in Sessions : Step(s)
  BY <1>2 DEF Step, Proceed, CreateOld, LockOpen, LockOpenFails, LockGranted,
     LockBusy, LockCheck, LockFresh, LockStale, UnlockUnlink, UnlockClose,
     CommitOpen, CommitOpenFails, CommitWrite, CommitWriteFails, CommitRename,
     CommitRenameFails, RetireOld, LinkOld, CommitSign, CommitSignFails, Notify,
     NotifyFails
<1>3. CASE \E s \in Sessions : Die(s)
  BY <1>3 DEF Die
<1>4. CASE Remount
  BY <1>4 DEF Remount
<1>5. CASE UNCHANGED vars
  BY <1>5 DEF vars
<1> QED
  BY <1>1, <1>2, <1>3, <1>4, <1>5 DEF Next

\* Every step on a writable volume preserves the invariant.
LEMMA NextLockInv == LockInv /\ ~setting.readOnly /\ [Next]_vars => LockInv'
<1> SUFFICES ASSUME LockInv, ~setting.readOnly, [Next]_vars PROVE LockInv'
  OBVIOUS
<1>1. CASE UNCHANGED vars
  BY <1>1, Elsewhere DEF vars, diskVars, callVars, boundVars
<1>2. ASSUME NEW s \in Sessions, Request(s) PROVE LockInv'
  BY <1>2, RequestLockInv
<1>3. ASSUME NEW s \in Sessions, CreateOld(s) PROVE LockInv'
  <2>1. Goto(s, "idle") /\ pc[s] = "create" /\ UNCHANGED <<lockVars, setting, readOnly>>
    BY <1>3 DEF CreateOld, diskVars, boundVars
  <2>2. s \notin locked
    BY <2>1 DEF LockInv, Positions, Inside, Committing
  <2> QED
    BY <2>1, <2>2, Moves DEF Outside, Steps
<1>4. ASSUME NEW s \in Sessions, Step(s) \/ Die(s) PROVE LockInv'
  BY <1>3, <1>4, LockingLockInv, UnlockingLockInv, CommitLockInv DEF Step, Proceed
<1>5. ~Remount
  BY DEF LockInv, Remount
<1> QED
  BY <1>1, <1>2, <1>4, <1>5 DEF Next

\* At most one session holds the lock of a file on a writable volume, whatever
\* system call fails and whoever dies between two of them: the lock file may be
\* unlinked and created again at any time, and SCPreferencesLock
\* (SCPLock.c) takes only the lock of the inode that still has the name.
THEOREM LockIsExclusive == Spec => []OneHolder
<1> DEFINE Guarded == ~setting.readOnly => LockInv
<1>1. Init => Guarded
  BY InitLockInv
<1>2. Guarded /\ [Next]_vars => Guarded'
  <2> SUFFICES ASSUME Guarded, [Next]_vars, ~setting'.readOnly PROVE LockInv'
    OBVIOUS
  <2>1. ~setting.readOnly
    BY SettingFixed
  <2> QED
    BY <2>1, NextLockInv
<1>3. Guarded => OneHolder
  BY OneAtATime DEF OneHolder
<1> QED
  BY <1>1, <1>2, <1>3, PTL DEF Spec

-----------------------------------------------------------------------------
(* What the lock protects: the files and what sessions believe of them. *)

\* The steps at which a commit has work left to do on the files.
Writing == {"write", "rename", "retire", "link", "resign"}

\* The "-new" file is nobody's copy yet, and no path leads to it; what a path leads
\* to is whole.
Names ==
  /\ tmpFile # 0 =>
       /\ tmpFile \notin {newFile, oldFile}
       /\ \A t \in Sessions : tmpFile \notin {signature[t], base[t]}
  /\ newFile # 0 => data[newFile] # Partial
  /\ oldFile \notin {0, Link} => data[oldFile] # Partial

\* The session has the content of the file whose signature it has.
Saved(s) == signature[s] # 0 /\ prefs[s] = data[signature[s]]

\* The copy of a session.  The signature is of another file than the copy only
\* after a commit that failed once its file was in place, and then no path leads
\* to the file of the signature before the next commit does.
Copy(s) ==
  /\ s \in changed => s \in accessed
  /\ s \notin accessed => signature[s] = 0 /\ base[s] = 0
  /\ s \in accessed /\ signature[s] # base[s] => newFile \notin {0, signature[s]}
  /\ s \in accessed \ changed => Saved(s)

\* How far a commit has come.
Progress(s) ==
  /\ pc[s] \in Writing => s \in changed
  /\ pc[s] \in {"write", "rename"} => tmpFile # 0 /\ tfd[s] = tmpFile
  /\ pc[s] = "rename" => data[tmpFile] = prefs[s]
  /\ pc[s] \in {"retire", "link", "resign"} =>
       newFile # 0 /\ base[s] = newFile /\ data[newFile] = prefs[s]
  /\ pc[s] \in {"retire", "link"} => path[s] = "old"
  /\ pc[s] = "notify" /\ op[s] = "commit" /\ s \in accessed => Saved(s)

FileInv == Names /\ \A s \in Sessions : Copy(s) /\ Progress(s)

\* Where the file is.  Without a file in the old directory all sessions use the
\* current one.  With one, there is a single file, except while a commit replaces
\* the old one by a link, and a session that uses the current directory found the
\* file there.
Migration ==
  IF ~setting.legacy
  THEN oldFile = 0 /\ \A s \in Sessions : path[s] = "new"
  ELSE /\ oldFile = 0 => \E s \in Sessions : pc[s] = "link"
       /\ oldFile > 0 /\ newFile # 0 =>
            \E s \in Sessions : pc[s] \in {"retire", "link"}
       /\ oldFile = Link => newFile # 0
       /\ \A s \in Sessions :
            path[s] = "new" /\ pc[s] \notin {"closed", "create"} => newFile # 0

\* The inductive invariant.
PrefsIInv ==
  /\ TypeOK
  /\ ~setting.readOnly =>
       /\ LockInv
       /\ FileInv
       /\ Protected => Migration /\ HolderIsCurrent

-----------------------------------------------------------------------------
(* Types. *)

\* A path leads to a file or to none.
LEMMA Resolves == TypeOK => \A p : Resolve(p) \in 0 .. fileInodes
BY DEF TypeOK, Resolve, Link

\* What a session loads is a document.
LEMMA LoadsDocuments ==
  ASSUME TypeOK, NEW s \in Sessions
  PROVE  Loaded(s) \in Documents
<1> DEFINE i == Resolve(path[s])
<1>1. i \in 0 .. fileInodes
  BY Resolves
<1>2. i # 0 /\ data[i] # Partial => data[i] \in Documents
  BY <1>1 DEF TypeOK
<1>3. prefs[s] \in Documents
  BY DEF TypeOK
<1> QED
  BY <1>2, <1>3 DEF Loaded, Documents

\* The variables by what they describe.
DiskTypes ==
  /\ readOnly \in BOOLEAN /\ fileInodes \in Nat
  /\ newFile \in 0 .. fileInodes
  /\ oldFile \in Link .. fileInodes
  /\ tmpFile \in 0 .. fileInodes
  /\ data \in [1 .. fileInodes -> {Partial} \cup Documents]

LockFileTypes ==
  /\ lockInodes \in Nat /\ lockFile \in 0 .. lockInodes
  /\ fd \in [Sessions -> 0 .. lockInodes]
  /\ flocked \subseteq Sessions /\ locked \subseteq Sessions

CallTypes ==
  /\ pc \in [Sessions -> Steps]
  /\ op \in [Sessions -> Operations]
  /\ wasLocked \subseteq Sessions

CacheTypes ==
  /\ accessed \subseteq Sessions /\ changed \subseteq Sessions
  /\ signature \in [Sessions -> 0 .. fileInodes]
  /\ prefs \in [Sessions -> Documents]
  /\ base \in [Sessions -> 0 .. fileInodes]

OtherTypes ==
  /\ path \in [Sessions -> {"old", "new"}]
  /\ store \subseteq Sessions
  /\ tfd \in [Sessions -> 0 .. fileInodes]

BoundTypes ==
  setting \in Settings /\ calls \in Nat /\ crashes \in Nat /\ torn \in BOOLEAN

Types ==
  DiskTypes /\ LockFileTypes /\ CallTypes /\ CacheTypes /\ OtherTypes /\ BoundTypes

LEMMA TypesParts == (TypeOK <=> Types) /\ (TypeOK' <=> Types')
BY DEF TypeOK, Types, DiskTypes, LockFileTypes, CallTypes, CacheTypes, OtherTypes,
   BoundTypes

\* What a step leaves alone keeps its types.
LEMMA TypesKept ==
  ASSUME Types
  PROVE  /\ UNCHANGED diskVars => DiskTypes' /\ UNCHANGED fileInodes
         /\ UNCHANGED lockVars => LockFileTypes'
         /\ UNCHANGED callVars => CallTypes'
         /\ UNCHANGED <<cacheVars, fileInodes>> => CacheTypes'
         /\ UNCHANGED <<path, store, tfd, fileInodes>> => OtherTypes'
         /\ UNCHANGED boundVars => BoundTypes'
BY DEF Types, DiskTypes, LockFileTypes, CallTypes, CacheTypes, OtherTypes, BoundTypes,
   diskVars, nameVars, lockVars, callVars, cacheVars, boundVars

\* Moving within a call.
LEMMA CallsKeepTypes ==
  ASSUME CallTypes, NEW s \in Sessions
  PROVE  /\ \A step \in Steps : Goto(s, step) /\ UNCHANGED <<op, wasLocked>> => CallTypes'
         /\ \A step \in Steps : Finish(s, step) => CallTypes'
         /\ \A step \in Steps, o \in Operations :
              Begin(s, o, step) /\ wasLocked' \subseteq Sessions => CallTypes'
         /\ Done(s) => CallTypes'
         /\ Resume(s) => CallTypes'
<1>1. \A step \in Steps : Goto(s, step) => pc' \in [Sessions -> Steps]
  BY DEF CallTypes, Goto
<1>2. \A step \in Steps : Goto(s, step) /\ UNCHANGED <<op, wasLocked>> => CallTypes'
  BY <1>1 DEF CallTypes
<1>3. \A step \in Steps : Finish(s, step) => CallTypes'
  BY <1>1 DEF CallTypes, Finish, Operations
<1>4. \A step \in Steps, o \in Operations :
        Begin(s, o, step) /\ wasLocked' \subseteq Sessions => CallTypes'
  BY <1>1 DEF CallTypes, Begin
<1>5. Done(s) => CallTypes'
  BY <1>2, <1>3 DEF Done, Steps
<1>6. Resume(s) => CallTypes'
  BY <1>2, <1>3 DEF Resume, Steps
<1> QED
  BY <1>2, <1>3, <1>4, <1>5, <1>6

\* What SCPreferencesSynchronize and the end of a session do to the copy.
Drops(s) ==
  /\ accessed' = accessed \ {s}
  /\ changed' = changed \ {s}
  /\ signature' = [signature EXCEPT ![s] = 0]
  /\ prefs' = [prefs EXCEPT ![s] = {}]
  /\ base' = [base EXCEPT ![s] = 0]

LEMMA DropsKeepsTypes ==
  ASSUME Types, NEW s \in Sessions, Drops(s), UNCHANGED fileInodes
  PROVE  CacheTypes'
<1>1. signature' \in [Sessions -> 0 .. fileInodes] /\ base' \in [Sessions -> 0 .. fileInodes]
  BY DEF Types, CacheTypes, DiskTypes, Drops
<1>2. prefs' \in [Sessions -> Documents]
  BY DEF Types, CacheTypes, Drops, Documents
<1> QED
  BY <1>1, <1>2 DEF Types, CacheTypes, Drops

\* The calls, before their first step.
LEMMA RequestTypes ==
  ASSUME TypeOK, NEW s \in Sessions, Request(s)
  PROVE  TypeOK'
<1> SUFFICES Types'
  BY TypesParts
<1>0. Types
  BY TypesParts
<1> USE <1>0, TypesKept DEF Types
<1>1. CASE SCPreferencesCreate(s)
  <2>1. CallTypes'
    <3>1. PICK step \in Steps : Goto(s, step) /\ UNCHANGED <<op, wasLocked>>
      BY <1>1 DEF SCPreferencesCreate, Steps
    <3> QED
      BY <3>1, CallsKeepTypes
  <2> QED
    BY <1>1, <2>1 DEF SCPreferencesCreate
<1>2. ASSUME Cache(s), changed' \subseteq Sessions,
             NEW d \in Documents, prefs' = [prefs EXCEPT ![s] = d]
      PROVE  Types'
  <2>1. CacheTypes'
    BY <1>2, Resolves DEF Cache, Access, CacheTypes
  <2> QED
    BY <1>2, <2>1 DEF Cache
<1>3. CASE SCPreferencesGetValue(s)
  <2>1. changed' \subseteq Sessions
    BY <1>3 DEF SCPreferencesGetValue, CacheTypes
  <2> QED
    BY <1>2, <1>3, <2>1, LoadsDocuments DEF SCPreferencesGetValue
<1>4. ASSUME NEW k \in setting.keys, SCPreferencesSetValue(s, k) PROVE Types'
  <2>1. changed' \subseteq Sessions
    BY <1>4 DEF SCPreferencesSetValue, CacheTypes
  <2>2. Loaded(s) \cup {k} \in Documents
    BY LoadsDocuments, PreferencesAssumption DEF Documents, BoundTypes
  <2> QED
    BY <1>2, <1>4, <2>1, <2>2 DEF SCPreferencesSetValue
<1>5. ASSUME NEW k \in setting.keys, SCPreferencesRemoveValue(s, k) PROVE Types'
  <2>1. changed' \subseteq Sessions
    BY <1>5 DEF SCPreferencesRemoveValue, CacheTypes
  <2>2. Loaded(s) \ {k} \in Documents
    BY LoadsDocuments DEF Documents
  <2> QED
    BY <1>2, <1>5, <2>1, <2>2 DEF SCPreferencesRemoveValue
<1>6. CASE AccessFails(s)
  <2>1. PICK i \in {0, Resolve(path[s])} :
          signature' = [signature EXCEPT ![s] = i] /\ base' = [base EXCEPT ![s] = i]
    BY <1>6 DEF AccessFails
  <2>2. i \in 0 .. fileInodes /\ UNCHANGED fileInodes
    BY <1>6, <2>1, Resolves DEF AccessFails, DiskTypes, diskVars
  <2>3. CacheTypes'
    BY <1>6, <2>1, <2>2 DEF AccessFails, CacheTypes
  <2> QED
    BY <1>6, <2>3 DEF AccessFails
<1>10. CASE SCPreferencesSynchronize(s)
  BY <1>10, DropsKeepsTypes DEF SCPreferencesSynchronize, Drops
<1>7. CASE SCPreferencesUnlock(s) \/ SCPreferencesRelease(s)
  <2>1. CallTypes'
    BY <1>7, CallsKeepTypes DEF SCPreferencesUnlock, SCPreferencesRelease, CallTypes,
       Steps, Operations
  <2> QED
    BY <1>7, <2>1 DEF SCPreferencesUnlock, SCPreferencesRelease
<1>8. ASSUME NEW o \in Operations, Acquire(s, o), Counted PROVE Types'
  <2>1. CallTypes'
    BY <1>8, CallsKeepTypes DEF Acquire, CallTypes, Steps
  <2>2. OtherTypes' /\ BoundTypes'
    BY <1>8 DEF Acquire, AddSession, Counted, OtherTypes, BoundTypes
  <2> QED
    BY <1>8, <2>1, <2>2 DEF Acquire
<1>9. ASSUME NEW o \in Operations, NEW step \in Steps, WithLock(s, o, step), Counted
      PROVE  Types'
  <2>1. CallTypes'
    BY <1>9, CallsKeepTypes DEF WithLock, CallTypes
  <2>2. OtherTypes' /\ BoundTypes'
    BY <1>9 DEF WithLock, Counted, OtherTypes, BoundTypes
  <2> QED
    BY <1>9, <2>1, <2>2 DEF WithLock
<1> QED
  BY <1>1, <1>3, <1>4, <1>5, <1>6, <1>7, <1>8, <1>9, <1>10 DEF Request,
     SCPreferencesLock,
     SCPreferencesCommitChanges, SCPreferencesApplyChanges, Operations, Steps

\* The steps that take the lock and give it back.
LEMMA LockTypesKept ==
  ASSUME TypeOK, NEW s \in Sessions,
         \/ CreateOld(s)
         \/ LockOpen(s) \/ LockOpenFails(s) \/ LockGranted(s) \/ LockBusy(s)
         \/ LockCheck(s) \/ LockFresh(s) \/ LockStale(s)
         \/ UnlockUnlink(s) \/ UnlockClose(s) \/ Die(s)
  PROVE  TypeOK'
<1> SUFFICES Types'
  BY TypesParts
<1>0. Types
  BY TypesParts
<1> USE <1>0, TypesKept DEF Types
<1>1. CASE CreateOld(s)
  <2>1. CallTypes'
    BY <1>1, CallsKeepTypes DEF CreateOld, Steps
  <2>2. OtherTypes'
    BY <1>1 DEF CreateOld, OtherTypes
  <2> QED
    BY <1>1, <2>1, <2>2 DEF CreateOld
<1>2. CASE LockOpen(s)
  <2>1. CallTypes'
    BY <1>2, CallsKeepTypes DEF LockOpen, Steps
  <2>2. LockFileTypes'
    <3>1. CASE readOnly
      BY <1>2, <3>1 DEF LockOpen, LockFileTypes
    <3>2. CASE ~readOnly
      <4>1. /\ lockInodes' \in Nat /\ LockInode \in 0 .. lockInodes'
            /\ 0 .. lockInodes \subseteq 0 .. lockInodes'
        BY <1>2, <3>2 DEF LockOpen, LockInode, LockFileTypes
      <4> QED
        BY <1>2, <3>2, <4>1 DEF LockOpen, LockFileTypes
    <3> QED
      BY <3>1, <3>2
  <2> QED
    BY <1>2, <2>1, <2>2 DEF LockOpen
<1>3. CASE LockOpenFails(s)
  <2>1. CallTypes'
    BY <1>3, CallsKeepTypes DEF LockOpenFails, Steps
  <2> QED
    BY <1>3, <2>1 DEF LockOpenFails
<1>4. CASE LockGranted(s) \/ LockBusy(s) \/ LockCheck(s) \/ LockFresh(s)
  <2>1. CallTypes'
    BY <1>4, CallsKeepTypes DEF LockGranted, LockBusy, LockCheck, LockFresh, Steps
  <2>2. LockFileTypes'
    BY <1>4 DEF LockGranted, LockBusy, LockCheck, LockFresh, LockFileTypes
  <2> QED
    BY <1>4, <2>1, <2>2 DEF LockGranted, LockBusy, LockCheck, LockFresh
<1>5. CASE LockStale(s) \/ UnlockUnlink(s)
  <2>1. CallTypes'
    BY <1>5, CallsKeepTypes DEF LockStale, UnlockUnlink, Steps
  <2>2. LockFileTypes'
    BY <1>5 DEF LockStale, UnlockUnlink, UnlinkLock, LockFileTypes
  <2> QED
    BY <1>5, <2>1, <2>2 DEF LockStale, UnlockUnlink
<1>6. CASE UnlockClose(s) \/ Die(s)
  <2>1. CallTypes'
    BY <1>6, CallsKeepTypes DEF UnlockClose, Die, Vanish, Steps
  <2>2. LockFileTypes'
    BY <1>6 DEF UnlockClose, Die, Vanish, LockFileTypes
  <2>6. BoundTypes'
    <3>1. CASE UnlockClose(s)
      BY <3>1 DEF UnlockClose
    <3>2. CASE Die(s)
      <4>1. torn' \in BOOLEAN
        BY <3>2, Zenon DEF Die
      <4> QED
        BY <3>2, <4>1 DEF Die, BoundTypes
    <3> QED
      BY <1>6, <3>1, <3>2
  <2>3. DiskTypes' /\ UNCHANGED fileInodes
    BY <1>6 DEF UnlockClose, Die, Vanish
  <2>4. CacheTypes'
    <3>1. CASE Forget(s)
      BY <2>3, <3>1, DropsKeepsTypes DEF Forget, Drops
    <3>2. CASE UNCHANGED cacheVars
      BY <2>3, <3>2
    <3> QED
      BY <1>6, <3>1, <3>2 DEF UnlockClose, Die, Vanish
  <2>5. OtherTypes'
    <3>1. tfd' \in [Sessions -> 0 .. fileInodes]
      BY <1>6 DEF UnlockClose, Die, Vanish, OtherTypes, DiskTypes
    <3>2. path' \in [Sessions -> {"old", "new"}] /\ store' \subseteq Sessions
      BY <1>6 DEF UnlockClose, Die, Vanish, Forget, OtherTypes
    <3> QED
      BY <2>3, <3>1, <3>2 DEF OtherTypes
  <2> QED
    BY <2>1, <2>2, <2>3, <2>4, <2>5, <2>6
<1> QED
  BY <1>1, <1>2, <1>3, <1>4, <1>5, <1>6

\* The steps of a commit or an apply.
LEMMA CommitTypesKept ==
  ASSUME TypeOK, NEW s \in Sessions,
         \/ CommitOpen(s) \/ CommitOpenFails(s) \/ CommitWrite(s) \/ CommitWriteFails(s)
         \/ CommitRename(s) \/ CommitRenameFails(s) \/ RetireOld(s) \/ LinkOld(s)
         \/ CommitSign(s) \/ CommitSignFails(s) \/ Notify(s) \/ NotifyFails(s)
  PROVE  TypeOK'
<1> SUFFICES Types'
  BY TypesParts
<1>0. Types
  BY TypesParts
<1> USE <1>0, TypesKept DEF Types
<1>1. CASE CommitOpen(s)
  <2>1. CallTypes'
    BY <1>1, CallsKeepTypes DEF CommitOpen, Steps
  <2>2. CASE s \notin changed
    BY <1>1, <2>1, <2>2 DEF CommitOpen, diskVars, nameVars
  <2>3. CASE s \in changed
    <3>1. /\ fileInodes' \in Nat /\ TmpInode \in 0 .. fileInodes'
          /\ 0 .. fileInodes \subseteq 0 .. fileInodes'
          /\ Link .. fileInodes \subseteq Link .. fileInodes'
          /\ \A i \in 1 .. fileInodes' : i # TmpInode => i \in 1 .. fileInodes
      BY <1>1, <2>3 DEF CommitOpen, TmpInode, DiskTypes, Link
    <3>2. DiskTypes'
      <4>1. data' \in [1 .. fileInodes' -> {Partial} \cup Documents]
        BY <1>1, <2>3, <3>1 DEF CommitOpen, DiskTypes
      <4> QED
        BY <1>1, <2>3, <3>1, <4>1 DEF CommitOpen, DiskTypes
    <3>3. CacheTypes' /\ OtherTypes'
      BY <1>1, <2>3, <3>1 DEF CommitOpen, CacheTypes, OtherTypes, cacheVars
    <3> QED
      BY <1>1, <2>1, <3>2, <3>3 DEF CommitOpen
  <2> QED
    BY <2>2, <2>3
<1>2. CASE CommitWrite(s)
  <2>1. CallTypes'
    BY <1>2, CallsKeepTypes DEF CommitWrite, Steps
  <2>2. DiskTypes'
    BY <1>2 DEF CommitWrite, DiskTypes, CacheTypes, nameVars
  <2> QED
    BY <1>2, <2>1, <2>2 DEF CommitWrite
<1>3. CASE CommitWriteFails(s) \/ CommitRenameFails(s)
  <2>1. CallTypes'
    BY <1>3, CallsKeepTypes DEF CommitWriteFails, CommitRenameFails
  <2>2. DiskTypes' /\ UNCHANGED fileInodes
    BY <1>3 DEF CommitWriteFails, CommitRenameFails, DiskTypes, diskVars, nameVars
  <2>3. OtherTypes'
    BY <1>3, <2>2 DEF CommitWriteFails, CommitRenameFails, DiskTypes, OtherTypes
  <2> QED
    BY <1>3, <2>1, <2>2, <2>3 DEF CommitWriteFails, CommitRenameFails
<1>4. CASE CommitRename(s)
  <2>1. CallTypes'
    BY <1>4, CallsKeepTypes DEF CommitRename, Steps
  <2>2. DiskTypes' /\ OtherTypes'
    BY <1>4 DEF CommitRename, DiskTypes, OtherTypes
  <2>3. CacheTypes'
    BY <1>4 DEF CommitRename, CacheTypes, DiskTypes
  <2> QED
    BY <1>4, <2>1, <2>2, <2>3 DEF CommitRename
<1>5. CASE RetireOld(s) \/ LinkOld(s)
  <2>1. CallTypes'
    BY <1>5, CallsKeepTypes DEF RetireOld, LinkOld, Steps
  <2>2. DiskTypes' /\ UNCHANGED fileInodes
    BY <1>5 DEF RetireOld, LinkOld, DiskTypes, Link
  <2>3. OtherTypes'
    BY <1>5, <2>2 DEF RetireOld, LinkOld, OtherTypes
  <2>4. BoundTypes'
    <3>1. LinkOld(s) => torn' \in BOOLEAN
      BY Zenon DEF LinkOld
    <3> QED
      BY <1>5, <3>1 DEF RetireOld, LinkOld, BoundTypes
  <2> QED
    BY <1>5, <2>1, <2>2, <2>3, <2>4 DEF RetireOld, LinkOld
<1>6. CASE CommitSign(s) \/ Notify(s)
  <2>1. CallTypes'
    BY <1>6, CallsKeepTypes DEF CommitSign, Notify, Steps
  <2>2. DiskTypes' /\ UNCHANGED fileInodes
    BY <1>6 DEF CommitSign, Notify
  <2>3. CacheTypes'
    BY <1>6, <2>2 DEF CommitSign, Notify, CacheTypes, DiskTypes
  <2> QED
    BY <1>6, <2>1, <2>2, <2>3 DEF CommitSign, Notify
<1>7. CASE CommitOpenFails(s) \/ CommitSignFails(s) \/ NotifyFails(s)
  <2>1. CallTypes'
    BY <1>7, CallsKeepTypes DEF CommitOpenFails, CommitSignFails, NotifyFails
  <2> QED
    BY <1>7, <2>1 DEF CommitOpenFails, CommitSignFails, NotifyFails
<1> QED
  BY <1>1, <1>2, <1>3, <1>4, <1>5, <1>6, <1>7

\* Every step keeps the types, also on a volume that is mounted late.
LEMMA NextTypes == TypeOK /\ [Next]_vars => TypeOK'
<1> SUFFICES ASSUME TypeOK, [Next]_vars PROVE TypeOK'
  OBVIOUS
<1>1. CASE UNCHANGED vars
  BY <1>1, TypesParts, TypesKept DEF vars, Types, callVars
<1>2. CASE Remount
  <2>1. DiskTypes'
    BY <1>2, TypesParts DEF Remount, nameVars, Types, DiskTypes
  <2> QED
    BY <1>2, <2>1, TypesParts, TypesKept DEF Remount, Types
<1>3. ASSUME NEW s \in Sessions, Request(s) \/ Step(s) \/ Die(s) PROVE TypeOK'
  BY <1>3, RequestTypes, LockTypesKept, CommitTypesKept DEF Step, Proceed
<1> QED
  BY <1>1, <1>2, <1>3 DEF Next

LEMMA InitTypes == Init => TypeOK
<1> SUFFICES ASSUME Init PROVE TypeOK
  OBVIOUS
<1>1. setting \in Settings /\ readOnly \in BOOLEAN
  BY PreferencesAssumption DEF Init
<1>2. /\ newFile \in 0 .. fileInodes /\ oldFile \in Link .. fileInodes
      /\ fileInodes \in Nat
  BY DEF Init, Link
<1>3. data \in [1 .. fileInodes -> {Partial} \cup Documents]
  BY DEF Init, Documents
<1>4. prefs \in [Sessions -> Documents]
  BY DEF Init, Documents
<1>5. torn \in BOOLEAN
  BY DEF Init
<1> QED
  BY <1>1, <1>2, <1>3, <1>4, <1>5 DEF Init, TypeOK, Steps, Operations

-----------------------------------------------------------------------------
(* The kinds of steps. *)

\* A session changes its own variables only.
Alone(s) ==
  \A t \in Sessions \ {s} :
    /\ pc'[t] = pc[t] /\ op'[t] = op[t] /\ tfd'[t] = tfd[t] /\ path'[t] = path[t]
    /\ signature'[t] = signature[t] /\ base'[t] = base[t] /\ prefs'[t] = prefs[t]
    /\ t \in accessed' <=> t \in accessed
    /\ t \in changed' <=> t \in changed
    /\ t \in locked' <=> t \in locked
    /\ t \in wasLocked' <=> t \in wasLocked

LEMMA Separate ==
  ASSUME TypeOK, NEW s \in Sessions, Request(s) \/ Step(s) \/ Die(s)
  PROVE  Alone(s)
<1> USE DEF diskVars, nameVars, lockVars, callVars, cacheVars, boundVars, Goto, Begin,
            Finish, Done
<1>1. CASE Request(s)
  <2>1. CASE \/ SCPreferencesCreate(s) \/ SCPreferencesUnlock(s)
             \/ SCPreferencesRelease(s) \/ SCPreferencesLock(s)
             \/ SCPreferencesCommitChanges(s) \/ SCPreferencesApplyChanges(s)
    BY <2>1 DEF Alone, TypeOK, SCPreferencesCreate, SCPreferencesUnlock,
       SCPreferencesRelease, SCPreferencesLock, SCPreferencesCommitChanges,
       SCPreferencesApplyChanges, Acquire, WithLock
  <2>2. CASE SCPreferencesGetValue(s) \/ AccessFails(s) \/ SCPreferencesSynchronize(s)
    BY <2>2 DEF Alone, TypeOK, SCPreferencesGetValue, AccessFails, Cache, Access,
       SCPreferencesSynchronize
  <2>3. CASE \E k \in setting.keys :
               SCPreferencesSetValue(s, k) \/ SCPreferencesRemoveValue(s, k)
    BY <2>3 DEF Alone, TypeOK, SCPreferencesSetValue, SCPreferencesRemoveValue, Cache,
       Access
  <2> QED
    BY <1>1, <2>1, <2>2, <2>3 DEF Request
<1>2. CASE \/ CreateOld(s) \/ LockOpen(s) \/ LockOpenFails(s) \/ LockGranted(s)
           \/ LockBusy(s) \/ LockCheck(s) \/ LockFresh(s) \/ LockStale(s)
           \/ UnlockUnlink(s)
  BY <1>2 DEF Alone, TypeOK, CreateOld, LockOpen, LockOpenFails, LockGranted, LockBusy,
     LockCheck, LockFresh, LockStale, UnlockUnlink, Resume
<1>3. CASE UnlockClose(s) \/ Die(s)
  <2>1. CASE Forget(s) /\ (UnlockClose(s) \/ Die(s))
    BY <2>1 DEF Alone, TypeOK, UnlockClose, Die, Vanish, Forget
  <2>2. CASE ~Forget(s) /\ UnlockClose(s)
    BY <2>2 DEF Alone, TypeOK, UnlockClose
  <2> QED
    BY <1>3, <2>1, <2>2 DEF Die, Vanish
<1>4. CASE \/ CommitOpen(s) \/ CommitOpenFails(s) \/ CommitWrite(s)
  BY <1>4 DEF Alone, TypeOK, CommitOpen, CommitOpenFails, CommitWrite
<1>6. CASE CommitWriteFails(s) \/ CommitRename(s) \/ CommitRenameFails(s)
  BY <1>6 DEF Alone, TypeOK, CommitWriteFails, CommitRename, CommitRenameFails
<1>5. CASE \/ RetireOld(s) \/ LinkOld(s) \/ CommitSign(s) \/ CommitSignFails(s)
           \/ Notify(s) \/ NotifyFails(s)
  BY <1>5 DEF Alone, TypeOK, RetireOld, LinkOld, CommitSign, CommitSignFails, Notify,
     NotifyFails
<1> QED
  BY <1>1, <1>2, <1>3, <1>4, <1>5, <1>6 DEF Step, Proceed

\* The files stay as they are, but for a "-new" file that is removed, and so do the
\* path and the copy of the session.
Quiet(s) ==
  /\ UNCHANGED <<newFile, oldFile, fileInodes, data, cacheVars, path, setting>>
  /\ tmpFile' = tmpFile \/ (tmpFile' = 0 /\ pc[s] = "write")
  /\ pc'[s] \notin Writing /\ pc[s] \notin {"retire", "link"}
  /\ pc'[s] = "notify" /\ op'[s] = "commit" => s \notin changed
  /\ s \in locked' /\ pc'[s] # "close" =>
       \/ s \in locked /\ pc[s] # "close"
       \/ pc[s] = "stale" /\ (s \in accessed => signature[s] = Resolve(path[s]))
  /\ pc[s] \in {"closed", "create"} => pc'[s] = "create" \/ newFile # 0

\* The session drops its copy, and may end.
Dropping(s) ==
  /\ Drops(s)
  /\ UNCHANGED <<newFile, oldFile, tmpFile, fileInodes, data, setting>>
  /\ \/ pc[s] = "idle" /\ UNCHANGED <<pc, path, locked>>
     \/ /\ pc'[s] = "closed" /\ path'[s] = "new" /\ s \notin locked'
        /\ pc[s] \in {"retire", "link"} => oldFile = Link \/ torn'

\* The session reads the preferences, unless it has a copy, and may change its copy.
Reading(s) ==
  /\ Cache(s)
  /\ \E d \in {Loaded(s)} \cup {Loaded(s) \cup {k} : k \in setting.keys}
                         \cup {Loaded(s) \ {k} : k \in setting.keys} :
       /\ prefs' = [prefs EXCEPT ![s] = d]
       /\ \/ changed' = changed \cup {s}
          \/ d = Loaded(s) /\ ~StartsFresh(s) /\ UNCHANGED changed

\* Any other step is one of a commit that works on the files.
LEMMA Kinds ==
  ASSUME TypeOK, Positions, NEW s \in Sessions,
         Request(s) \/ Step(s) \/ Die(s)
  PROVE  \/ Quiet(s) \/ Dropping(s) \/ Reading(s) \/ AccessFails(s) \/ CreateOld(s)
         \/ CommitOpen(s) /\ s \in changed
         \/ CommitWrite(s) \/ CommitRename(s) \/ RetireOld(s) \/ LinkOld(s)
         \/ CommitSign(s) \/ Notify(s)
<1> USE DEF diskVars, nameVars, lockVars, cacheVars, boundVars, Writing
<1>0. /\ pc \in [Sessions -> Steps] /\ op \in [Sessions -> Operations]
      /\ s \in locked => pc[s] \in Inside \cup {"close"}
      /\ pc[s] \in Committing => s \in locked
  BY DEF TypeOK, Positions
<1>1. CASE SCPreferencesCreate(s)
  <2>1. Quiet(s)
    BY <1>0, <1>1 DEF SCPreferencesCreate, Quiet, Goto, Inside, Committing
  <2> QED
    BY <2>1
<1>2. CASE SCPreferencesUnlock(s) \/ SCPreferencesRelease(s)
  <2>1. Quiet(s)
    BY <1>0, <1>2 DEF SCPreferencesUnlock, SCPreferencesRelease, Begin, Quiet, Goto
  <2> QED
    BY <2>1
<1>3. CASE /\ Counted
           /\ \/ SCPreferencesLock(s) \/ SCPreferencesCommitChanges(s)
              \/ SCPreferencesApplyChanges(s)
  <2>1. ASSUME NEW o \in Operations, Acquire(s, o), Counted PROVE Quiet(s)
    BY <1>0, <2>1 DEF Acquire, Begin, Counted, Quiet, Goto
  <2>2. ASSUME WithLock(s, "commit", "commit") \/ WithLock(s, "apply", "notify"), Counted
        PROVE  Quiet(s)
    BY <1>0, <2>2 DEF WithLock, Begin, Counted, Quiet, Goto
  <2> QED
    BY <1>3, <2>1, <2>2 DEF SCPreferencesLock, SCPreferencesCommitChanges,
       SCPreferencesApplyChanges, Operations
<1>4. CASE \/ SCPreferencesGetValue(s)
           \/ \E k \in setting.keys :
                SCPreferencesSetValue(s, k) \/ SCPreferencesRemoveValue(s, k)
  <2>1. CASE SCPreferencesGetValue(s)
    BY <2>1 DEF SCPreferencesGetValue, Reading
  <2>2. ASSUME NEW k \in setting.keys,
               SCPreferencesSetValue(s, k) \/ SCPreferencesRemoveValue(s, k)
        PROVE  Reading(s)
    BY <2>2 DEF SCPreferencesSetValue, SCPreferencesRemoveValue, Reading
  <2> QED
    BY <1>4, <2>1, <2>2
<1>5. CASE SCPreferencesSynchronize(s)
  <2>1. Dropping(s)
    BY <1>5 DEF SCPreferencesSynchronize, Drops, Dropping, callVars
  <2> QED
    BY <2>1
<1>6. CASE Die(s)
  <2>1. pc'[s] = "closed" /\ path'[s] = "new"
    BY <1>0, <1>6 DEF Die, Vanish, Finish, Forget, Goto, TypeOK
  <2> QED
    BY <1>6, <2>1 DEF Die, Vanish, Forget, Drops, Dropping
<1>7. CASE UnlockClose(s)
  <2>1. CASE op[s] = "release"
    <3>1. pc'[s] = "closed" /\ path'[s] = "new" /\ pc[s] = "close"
      BY <1>0, <1>7, <2>1 DEF UnlockClose, Finish, Forget, Goto, TypeOK
    <3>2. Dropping(s)
      BY <1>7, <2>1, <3>1 DEF UnlockClose, Forget, Drops, Dropping
    <3> QED
      BY <3>2
  <2>2. CASE op[s] # "release"
    <3>1. pc'[s] = "idle" /\ pc[s] = "close"
      BY <1>0, <1>7, <2>2 DEF UnlockClose, Finish, Goto
    <3>2. Quiet(s)
      BY <1>7, <2>2, <3>1 DEF UnlockClose, Quiet
    <3> QED
      BY <3>2
  <2> QED
    BY <2>1, <2>2
<1>8. CASE \/ LockOpen(s) \/ LockOpenFails(s) \/ LockGranted(s) \/ LockBusy(s)
           \/ LockCheck(s) \/ LockStale(s) \/ UnlockUnlink(s)
  <2>1. pc[s] \in {"open", "flock", "check", "stale", "unlock"}
    BY <1>8 DEF LockOpen, LockOpenFails, LockGranted, LockBusy, LockCheck, LockStale,
       UnlockUnlink
  <2>2. pc'[s] \in {"stale", "flock", "idle", "check", "open", "close"}
    BY <1>0, <1>8 DEF LockOpen, LockOpenFails, LockGranted, LockBusy, LockCheck,
       LockStale, UnlockUnlink, Goto, Finish
  <2>3. UNCHANGED <<newFile, oldFile, tmpFile, fileInodes, data, cacheVars, path, setting,
                    locked>>
    BY <1>8 DEF LockOpen, LockOpenFails, LockGranted, LockBusy, LockCheck, LockStale,
       UnlockUnlink
  <2>4. Quiet(s)
    BY <2>1, <2>2, <2>3 DEF Quiet
  <2> QED
    BY <2>4
<1>9. CASE LockFresh(s)
  <2>1. pc'[s] \in {"commit", "notify", "idle"} /\ (pc'[s] = "notify" => op'[s] = "apply")
    BY <1>0, <1>9 DEF LockFresh, Resume, Goto, Finish
  <2>2. Quiet(s)
    BY <1>9, <2>1 DEF LockFresh, Quiet
  <2> QED
    BY <2>2
<1>10. CASE CommitOpen(s) /\ s \notin changed
  <2>1. pc'[s] = "notify"
    BY <1>0, <1>10 DEF CommitOpen, Goto
  <2>2. Quiet(s)
    BY <1>0, <1>10, <2>1 DEF CommitOpen, Quiet, Committing
  <2> QED
    BY <2>2
<1>11. CASE \/ CommitOpenFails(s) \/ CommitWriteFails(s) \/ CommitRenameFails(s)
            \/ CommitSignFails(s) \/ NotifyFails(s)
  <2>1. pc'[s] \in {"idle", "unlock"}
    BY <1>0, <1>11 DEF CommitOpenFails, CommitWriteFails, CommitRenameFails,
       CommitSignFails, NotifyFails, Done, Finish, Goto
  <2>2. pc[s] \in {"commit", "write", "rename", "resign", "notify"} /\ s \in locked
    BY <1>0, <1>11 DEF CommitOpenFails, CommitWriteFails, CommitRenameFails,
       CommitSignFails, NotifyFails, Committing
  <2>3. /\ UNCHANGED <<newFile, oldFile, fileInodes, data, cacheVars, path, setting>>
        /\ tmpFile' = tmpFile \/ (tmpFile' = 0 /\ pc[s] = "write")
    BY <1>11 DEF CommitOpenFails, CommitWriteFails, CommitRenameFails,
       CommitSignFails, NotifyFails
  <2>4. Quiet(s)
    BY <2>1, <2>2, <2>3 DEF Quiet
  <2> QED
    BY <2>4
<1> QED
  BY <1>1, <1>2, <1>3, <1>4, <1>5, <1>6, <1>7, <1>8, <1>9, <1>10, <1>11
     DEF Request, Step, Proceed

-----------------------------------------------------------------------------
(* The files. *)

\* A path leads to a whole file that is not being written.
LEMMA PathsLeadToWholeFiles ==
  ASSUME TypeOK, Names, NEW p
  PROVE  /\ Resolve(p) \in 0 .. fileInodes
         /\ Resolve(p) # 0 => data[Resolve(p)] # Partial /\ Resolve(p) # tmpFile
BY DEF TypeOK, Names, Resolve, Link

\* A session that works on the files is the only one that holds the lock.
WritersAlone ==
  \A s, t \in Sessions : Holds(s) /\ pc[t] \in Writing => s = t

LEMMA LockKeepsWritersApart == LockInv /\ ~setting.readOnly => WritersAlone
BY OneAtATime DEF WritersAlone, Holds, Writing

\* What remains to be shown of a step that changes nothing but the "-new" file and,
\* by renaming it, the current file, and this with the lock held.
LEMMA FileStep ==
  ASSUME TypeOK, WritersAlone, FileInv, NEW s \in Sessions, Alone(s),
         \A i \in 1 .. fileInodes : data'[i] = data[i] \/ i = tmpFile,
         newFile' = newFile \/ (tmpFile # 0 /\ newFile' = tmpFile),
         Holds(s) \/ UNCHANGED <<newFile, tmpFile, data>>,
         Names', Copy(s)', Progress(s)'
  PROVE  FileInv'
<1> SUFFICES ASSUME NEW t \in Sessions, t # s PROVE Copy(t)' /\ Progress(t)'
  BY DEF FileInv
<1>1. /\ pc'[t] = pc[t] /\ op'[t] = op[t] /\ tfd'[t] = tfd[t] /\ path'[t] = path[t]
      /\ signature'[t] = signature[t] /\ base'[t] = base[t] /\ prefs'[t] = prefs[t]
      /\ t \in accessed' <=> t \in accessed
      /\ t \in changed' <=> t \in changed
  BY DEF Alone
<1>2. Names /\ Copy(t) /\ Progress(t)
  BY DEF FileInv
<1>3. signature[t] # 0 => data'[signature[t]] = data[signature[t]]
  <2>1. signature[t] # 0 => signature[t] \in 1 .. fileInodes /\ signature[t] # tmpFile
    BY <1>2 DEF TypeOK, Names
  <2> QED
    BY <2>1
<1>4. Saved(t) => Saved(t)'
  BY <1>1, <1>3 DEF Saved
<1>5. Copy(t)'
  <2>1. newFile' = tmpFile /\ tmpFile # 0 => newFile' # signature[t]
    BY <1>2 DEF Names
  <2> QED
    BY <1>1, <1>2, <1>4, <2>1 DEF Copy
<1>6. Progress(t)'
  <2>1. CASE Holds(s)
    <3>1. pc[t] \notin Writing
      BY <2>1 DEF WritersAlone
    <3> QED
      BY <1>1, <1>2, <1>4, <3>1 DEF Progress, Writing
  <2>2. CASE UNCHANGED <<newFile, tmpFile, data>>
    BY <1>1, <1>2, <1>4, <2>2 DEF Progress
  <2> QED
    BY <2>1, <2>2
<1> QED
  BY <1>5, <1>6

\* The steps that leave the files alone.
LEMMA QuietFiles ==
  ASSUME TypeOK, WritersAlone, FileInv, NEW s \in Sessions, Alone(s),
         Quiet(s)
  PROVE  FileInv'
<1>0. Names /\ Copy(s) /\ Progress(s)
  BY DEF FileInv
<1>1. /\ UNCHANGED <<newFile, oldFile, fileInodes, data, signature, base, prefs, accessed,
                     changed, path>>
      /\ tmpFile' \in {0, tmpFile}
      /\ Holds(s) \/ tmpFile' = tmpFile
  BY DEF Quiet, cacheVars, Holds
<1>2. Names'
  BY <1>0, <1>1 DEF Names
<1>3. Copy(s)'
  BY <1>0, <1>1 DEF Copy, Saved
<1>4. Progress(s)'
  <2>1. pc'[s] \notin Writing /\ (pc'[s] = "notify" /\ op'[s] = "commit" => s \notin changed)
    BY DEF Quiet
  <2> QED
    BY <1>0, <1>1, <2>1 DEF Progress, Copy, Saved, Writing
<1> QED
  BY <1>1, <1>2, <1>3, <1>4, FileStep

LEMMA DroppingFiles ==
  ASSUME TypeOK, WritersAlone, FileInv, NEW s \in Sessions, Alone(s),
         Dropping(s)
  PROVE  FileInv'
<1>0. Names /\ Copy(s) /\ Progress(s)
  BY DEF FileInv
<1>1. /\ UNCHANGED <<newFile, oldFile, tmpFile, fileInodes, data>>
      /\ pc'[s] \in {"idle", "closed"}
      /\ signature' = [signature EXCEPT ![s] = 0] /\ base' = [base EXCEPT ![s] = 0]
      /\ s \notin accessed' /\ s \notin changed'
  BY DEF Dropping, Drops
<1>2. Names'
  BY <1>0, <1>1 DEF Names, TypeOK
<1>3. Copy(s)' /\ Progress(s)'
  BY <1>1 DEF Copy, Progress, TypeOK, Writing
<1> QED
  BY <1>1, <1>2, <1>3, FileStep

LEMMA ReadingFiles ==
  ASSUME TypeOK, WritersAlone, FileInv, NEW s \in Sessions, Alone(s),
         Reading(s)
  PROVE  FileInv'
<1>0. Names /\ Copy(s) /\ Progress(s)
  BY DEF FileInv
<1> DEFINE i == Resolve(path[s])
<1>1. i \in 0 .. fileInodes /\ (i # 0 => data[i] # Partial /\ i # tmpFile)
  BY <1>0, PathsLeadToWholeFiles
<1>2. /\ UNCHANGED <<newFile, oldFile, tmpFile, fileInodes, data, pc, op>> /\ pc[s] = "idle"
      /\ accessed' = accessed \cup {s}
      /\ signature' = IF s \in accessed THEN signature ELSE [signature EXCEPT ![s] = i]
      /\ base' = IF s \in accessed THEN base ELSE [base EXCEPT ![s] = i]
  BY DEF Reading, Cache, Access, diskVars, nameVars, callVars
<1>3. PICK d : /\ prefs' = [prefs EXCEPT ![s] = d]
               /\ \/ changed' = changed \cup {s}
                  \/ d = Loaded(s) /\ ~StartsFresh(s) /\ UNCHANGED changed
  BY DEF Reading
<1>4. Names'
  BY <1>0, <1>1, <1>2 DEF Names, TypeOK
<1>5. Copy(s)'
  <2>1. CASE s \in changed'
    BY <1>0, <1>2, <2>1 DEF Copy, TypeOK
  <2>2. CASE s \notin changed'
    <3>1. prefs'[s] = Loaded(s) /\ ~StartsFresh(s) /\ UNCHANGED changed
      BY <1>3, <2>2 DEF TypeOK
    <3>2. Saved(s)'
      <4>1. CASE s \in accessed
        BY <1>0, <1>2, <2>2, <3>1, <4>1 DEF Copy, Saved, Loaded
      <4>2. CASE s \notin accessed
        <5>1. i # 0 /\ data[i] # Partial
          BY <3>1, <4>2 DEF StartsFresh
        <5>2. prefs'[s] = data[i] /\ signature'[s] = i
          BY <1>2, <3>1, <4>2, <5>1 DEF Loaded, TypeOK
        <5> QED
          BY <1>2, <5>1, <5>2 DEF Saved
      <4> QED
        BY <4>1, <4>2
    <3> QED
      BY <1>0, <1>2, <2>2, <3>1, <3>2 DEF Copy, TypeOK
  <2> QED
    BY <2>1, <2>2
<1>6. Progress(s)'
  BY <1>2 DEF Progress, Writing
<1> QED
  BY <1>2, <1>4, <1>5, <1>6, FileStep

LEMMA CreatingFiles ==
  ASSUME TypeOK, WritersAlone, FileInv, NEW s \in Sessions, Alone(s),
         AccessFails(s) \/ CreateOld(s)
  PROVE  FileInv'
<1>0. Names /\ Copy(s) /\ Progress(s)
  BY DEF FileInv
<1>1. UNCHANGED <<newFile, oldFile, tmpFile, fileInodes, data, prefs>> /\ pc'[s] = "idle"
  BY DEF AccessFails, CreateOld, Goto, diskVars, nameVars, callVars, cacheVars, TypeOK
<1>2. CASE CreateOld(s)
  <2>1. UNCHANGED <<accessed, changed, signature, base>>
    BY <1>2 DEF CreateOld, cacheVars
  <2>2. Names'
    BY <1>0, <1>1, <2>1 DEF Names
  <2>3. Copy(s)' /\ Progress(s)'
    BY <1>0, <1>1, <2>1 DEF Copy, Progress, Saved, Writing
  <2> QED
    BY <1>1, <2>1, <2>2, <2>3, FileStep
<1>3. CASE AccessFails(s)
  <2>1. PICK i \in {0, Resolve(path[s])} :
          signature' = [signature EXCEPT ![s] = i] /\ base' = [base EXCEPT ![s] = i]
    BY <1>3 DEF AccessFails
  <2>2. i \in 0 .. fileInodes /\ (i # 0 => data[i] # Partial /\ i # tmpFile)
    BY <1>0, <2>1, PathsLeadToWholeFiles DEF TypeOK
  <2>3. accessed' = accessed \cup {s} /\ changed' = changed \cup {s}
    BY <1>3 DEF AccessFails
  <2>4. Names'
    BY <1>0, <1>1, <2>1, <2>2 DEF Names, TypeOK
  <2>5. Copy(s)' /\ Progress(s)'
    BY <1>1, <2>1, <2>3 DEF Copy, Progress, Writing, TypeOK
  <2> QED
    BY <1>1, <2>1, <2>2, <2>3, <2>4, <2>5, FileStep
<1> QED
  BY <1>2, <1>3

\* A session at a step of a commit has the lock.
LEMMA CommittersHold ==
  ASSUME LockInv, ~setting.readOnly, NEW s \in Sessions, pc[s] \in Committing
  PROVE  Holds(s) /\ s \in locked
BY DEF LockInv, Positions, Holds, Committing

LEMMA CommitOpenFiles ==
  ASSUME TypeOK, WritersAlone, FileInv, NEW s \in Sessions, Alone(s),
         CommitOpen(s), s \in changed
  PROVE  FileInv'
<1>0. Names /\ Copy(s) /\ Progress(s) /\ Holds(s)
  BY DEF FileInv, CommitOpen, Holds
<1>1. /\ pc'[s] = "write" /\ tmpFile' = TmpInode /\ tfd'[s] = TmpInode
      /\ fileInodes' = IF tmpFile = 0 THEN fileInodes + 1 ELSE fileInodes
      /\ data' = [i \in 1 .. fileInodes' |-> IF i = TmpInode THEN Partial ELSE data[i]]
      /\ UNCHANGED <<newFile, oldFile, signature, base, prefs, accessed, changed>>
  BY DEF CommitOpen, Goto, cacheVars, TypeOK
<1>2. \A i \in 1 .. fileInodes :
        /\ i # tmpFile => i # TmpInode
        /\ i # TmpInode => data'[i] = data[i]
  BY <1>1 DEF TmpInode, TypeOK
<1>3. TmpInode # 0
  BY DEF TmpInode, TypeOK
<1>4. Names'
  <2>1. \A i \in Link .. fileInodes : (tmpFile # 0 => i # tmpFile) => i # TmpInode
    BY DEF TmpInode, TypeOK, Link
  <2>2. /\ TmpInode \notin {newFile, oldFile}
        /\ \A t \in Sessions : TmpInode \notin {signature[t], base[t]}
    <3>1. /\ newFile \in Link .. fileInodes /\ oldFile \in Link .. fileInodes
          /\ \A t \in Sessions : /\ signature[t] \in Link .. fileInodes
                                 /\ base[t] \in Link .. fileInodes
      BY DEF TypeOK, Link
    <3> QED
      BY <1>0, <2>1, <3>1 DEF Names
  <2>3. /\ newFile # 0 => data'[newFile] = data[newFile]
        /\ oldFile \notin {0, Link} => data'[oldFile] = data[oldFile]
    BY <1>2, <2>2 DEF TypeOK, Link
  <2> QED
    BY <1>0, <1>1, <2>2, <2>3 DEF Names
<1>5. Copy(s)' /\ Progress(s)'
  BY <1>0, <1>1, <1>3 DEF Copy, Progress
<1> QED
  BY <1>0, <1>1, <1>2, <1>4, <1>5, FileStep

LEMMA CommitWriteFiles ==
  ASSUME TypeOK, WritersAlone, FileInv, NEW s \in Sessions, Alone(s),
         CommitWrite(s)
  PROVE  FileInv'
<1>0. Names /\ Copy(s) /\ Progress(s) /\ Holds(s)
  BY DEF FileInv, CommitWrite, Holds
<1>1. /\ pc[s] = "write" /\ pc'[s] = "rename"
      /\ data' = [data EXCEPT ![tfd[s]] = prefs[s]]
      /\ UNCHANGED <<newFile, oldFile, tmpFile, fileInodes, signature, base, prefs, accessed,
                     changed, tfd>>
  BY DEF CommitWrite, Goto, nameVars, cacheVars, TypeOK
<1>2. tfd[s] = tmpFile /\ tmpFile # 0 /\ s \in changed
  BY <1>0, <1>1 DEF Progress, Writing
<1>3. /\ \A i \in 1 .. fileInodes : data'[i] = IF i = tmpFile THEN prefs[s] ELSE data[i]
      /\ data'[tmpFile] = prefs[s]
  BY <1>1, <1>2 DEF TypeOK
<1>4. Names'
  BY <1>0, <1>1, <1>2, <1>3 DEF Names, TypeOK, Link
<1>5. Copy(s)' /\ Progress(s)'
  BY <1>0, <1>1, <1>2, <1>3 DEF Copy, Progress
<1> QED
  BY <1>0, <1>1, <1>3, <1>4, <1>5, FileStep

LEMMA CommitRenameFiles ==
  ASSUME TypeOK, WritersAlone, FileInv, NEW s \in Sessions, Alone(s),
         CommitRename(s)
  PROVE  FileInv'
<1>0. Names /\ Copy(s) /\ Progress(s) /\ Holds(s)
  BY DEF FileInv, CommitRename, Holds
<1>1. /\ pc[s] = "rename" /\ pc'[s] = IF path[s] = "old" THEN "retire" ELSE "resign"
      /\ newFile' = tmpFile /\ tmpFile' = 0
      /\ base' = [base EXCEPT ![s] = tmpFile]
      /\ UNCHANGED <<oldFile, fileInodes, data, signature, prefs, accessed, changed, path>>
  BY DEF CommitRename, Goto, TypeOK
<1>2. tmpFile # 0 /\ data[tmpFile] = prefs[s] /\ s \in changed
  BY <1>0, <1>1 DEF Progress, Writing
<1>3. prefs[s] # Partial
  BY PreferencesAssumption DEF TypeOK, Documents
<1>4. Names'
  BY <1>0, <1>1, <1>2, <1>3 DEF Names
<1>5. Copy(s)'
  BY <1>0, <1>1, <1>2 DEF Copy, Names
<1>6. Progress(s)'
  BY <1>1, <1>2 DEF Progress, TypeOK
<1> QED
  BY <1>0, <1>1, <1>2, <1>4, <1>5, <1>6, FileStep

LEMMA MigratingFiles ==
  ASSUME TypeOK, WritersAlone, FileInv, NEW s \in Sessions, Alone(s),
         RetireOld(s) \/ LinkOld(s)
  PROVE  FileInv'
<1>0. Names /\ Copy(s) /\ Progress(s)
  BY DEF FileInv
<1>1. /\ \/ pc[s] = "retire" /\ pc'[s] = "link" /\ path' = path
         \/ pc[s] = "link" /\ pc'[s] = "resign"
      /\ oldFile' \in {0, Link, oldFile}
      /\ UNCHANGED <<newFile, tmpFile, fileInodes, data, signature, base, prefs, accessed,
                     changed>>
  BY DEF RetireOld, LinkOld, Goto, cacheVars, TypeOK
<1>2. Names'
  BY <1>0, <1>1 DEF Names, TypeOK, Link
<1>3. Copy(s)' /\ Progress(s)'
  BY <1>0, <1>1 DEF Copy, Progress, Saved, Writing
<1> QED
  BY <1>1, <1>2, <1>3, FileStep

LEMMA SigningFiles ==
  ASSUME TypeOK, WritersAlone, FileInv, NEW s \in Sessions, Alone(s),
         CommitSign(s) \/ Notify(s)
  PROVE  FileInv'
<1>0. Names /\ Copy(s) /\ Progress(s)
  BY DEF FileInv
<1>1. UNCHANGED <<newFile, oldFile, tmpFile, fileInodes, data, base, prefs, accessed>>
  BY DEF CommitSign, Notify, diskVars, nameVars
<1>2. CASE CommitSign(s)
  <2>1. /\ pc[s] = "resign" /\ pc'[s] = "notify" /\ UNCHANGED changed
        /\ signature' = [signature EXCEPT ![s] = newFile]
    BY <1>2 DEF CommitSign, Goto, TypeOK
  <2>2. Names'
    BY <1>0, <1>1, <2>1 DEF Names, TypeOK
  <2>3. signature'[s] = newFile /\ base[s] = newFile /\ Saved(s)'
    BY <1>0, <1>1, <2>1 DEF Progress, Saved, TypeOK
  <2>4. Copy(s)' /\ Progress(s)'
    BY <1>0, <1>1, <2>1, <2>3 DEF Copy, Progress, Writing
  <2> QED
    BY <1>1, <2>2, <2>4, FileStep
<1>3. CASE Notify(s)
  <2>1. /\ pc[s] = "notify" /\ pc'[s] \in {"idle", "unlock"} /\ UNCHANGED signature
        /\ changed' = IF op[s] = "commit" THEN changed \ {s} ELSE changed
    BY <1>3 DEF Notify, Done, Finish, Goto, TypeOK
  <2>2. Names'
    BY <1>0, <1>1, <2>1 DEF Names
  <2>3. Copy(s)' /\ Progress(s)'
    BY <1>0, <1>1, <2>1 DEF Copy, Progress, Saved, Writing
  <2> QED
    BY <1>1, <2>2, <2>3, FileStep
<1> QED
  BY <1>2, <1>3

LEMMA InitFiles == Init => FileInv
<1> SUFFICES ASSUME Init PROVE FileInv
  OBVIOUS
<1>1. {} # Partial
  BY PreferencesAssumption
<1>2. Names
  BY <1>1 DEF Init, Names, Link
<1>3. ASSUME NEW s \in Sessions PROVE Copy(s) /\ Progress(s)
  BY <1>3 DEF Init, Copy, Progress, Writing
<1> QED
  BY <1>2, <1>3 DEF FileInv

\* Every step of a session preserves what is said of the files, if nobody else works
\* on them.
LEMMA FilesKept ==
  ASSUME TypeOK, WritersAlone, Positions, FileInv, NEW s \in Sessions,
         Request(s) \/ Step(s) \/ Die(s)
  PROVE  FileInv'
BY Kinds, Separate, QuietFiles, DroppingFiles, ReadingFiles, CreatingFiles,
   CommitOpenFiles, CommitWriteFiles, CommitRenameFiles, MigratingFiles, SigningFiles

\* So does every step on a writable volume.
LEMMA NextFiles ==
  TypeOK /\ LockInv /\ ~setting.readOnly /\ FileInv /\ [Next]_vars => FileInv'
<1> SUFFICES ASSUME TypeOK, LockInv, ~setting.readOnly, FileInv, [Next]_vars
             PROVE  FileInv'
  OBVIOUS
<1>1. CASE UNCHANGED vars
  BY <1>1 DEF vars, diskVars, nameVars, cacheVars, callVars, FileInv, Names, Copy,
     Progress, Saved
<1>2. ASSUME NEW s \in Sessions, Request(s) \/ Step(s) \/ Die(s) PROVE FileInv'
  BY <1>2, FilesKept, LockKeepsWritersApart DEF LockInv
<1>3. ~Remount
  BY DEF LockInv, Remount
<1> QED
  BY <1>1, <1>2, <1>3 DEF Next

-----------------------------------------------------------------------------
(* Where the file is, and what a holder has. *)

\* The path of a session that has the lock leads to the current file, except while
\* the session itself replaces the file of the old directory.
LEMMA HoldersSeeTheFile ==
  ASSUME TypeOK, LockInv, ~setting.readOnly, Migration, NEW s \in Sessions, Holds(s),
         pc[s] \notin {"retire", "link"}
  PROVE  Resolve(path[s]) = Current
<1>1. path[s] \in {"old", "new"} /\ oldFile \in Link .. fileInodes
  BY DEF TypeOK
<1>2. CASE ~setting.legacy
  BY <1>2 DEF Migration, Resolve, Current, Link
<1>3. CASE setting.legacy
  <2>1. \A t \in Sessions : pc[t] \notin {"retire", "link"}
    <3> SUFFICES ASSUME NEW t \in Sessions, pc[t] \in {"retire", "link"} PROVE FALSE
      OBVIOUS
    <3>1. Holds(t)
      BY DEF Holds
    <3> QED
      BY <3>1, OneAtATime
  <2>2. oldFile # 0 /\ (oldFile > 0 => newFile = 0) /\ (oldFile = Link => newFile # 0)
    BY <1>3, <2>1 DEF Migration
  <2>3. path[s] = "new" => newFile # 0
    BY <1>3 DEF Migration, Holds
  <2> QED
    BY <1>1, <2>2, <2>3 DEF Resolve, Current, Link
<1> QED
  BY <1>2, <1>3

\* What remains to be shown of a step that changes no name.
LEMMA MigrationStep ==
  ASSUME Migration, NEW s \in Sessions, Alone(s),
         UNCHANGED <<newFile, oldFile, setting>>,
         ~setting.legacy => path'[s] = "new",
         setting.legacy =>
           /\ pc[s] \in {"retire", "link"} => pc'[s] = pc[s] \/ oldFile = Link
           /\ path'[s] = "new" /\ pc'[s] \notin {"closed", "create"} =>
                newFile # 0 \/ (path[s] = "new" /\ pc[s] \notin {"closed", "create"})
  PROVE  Migration'
<1>1. CASE ~setting.legacy
  BY <1>1 DEF Migration, Alone
<1>2. CASE setting.legacy
  <2>1. \A t \in Sessions :
          pc[t] \in {"retire", "link"} => pc'[t] = pc[t] \/ oldFile = Link
    BY <1>2 DEF Alone
  <2>2. \A t \in Sessions :
          path'[t] = "new" /\ pc'[t] \notin {"closed", "create"} => newFile # 0
    BY <1>2 DEF Alone, Migration
  <2> QED
    BY <1>2, <2>1, <2>2 DEF Migration, Link
<1> QED
  BY <1>1, <1>2

\* The steps that change no name.
LEMMA MigrationStays ==
  ASSUME TypeOK, LockInv, ~setting.readOnly, ~torn', FileInv, Migration,
         NEW s \in Sessions, Alone(s),
         \/ Quiet(s) \/ Dropping(s) \/ Reading(s) \/ CreateOld(s) \/ CommitOpen(s)
         \/ CommitWrite(s) \/ CommitSign(s) \/ Notify(s)
  PROVE  Migration'
<1>1. CASE Quiet(s)
  <2>1. /\ UNCHANGED <<newFile, oldFile, setting, path>>
        /\ pc[s] \notin {"retire", "link"}
        /\ pc[s] \in {"closed", "create"} => pc'[s] = "create" \/ newFile # 0
    BY <1>1 DEF Quiet
  <2> QED
    BY <2>1, MigrationStep DEF Migration
<1>2. CASE Dropping(s)
  <2>1. UNCHANGED <<newFile, oldFile, setting>>
    BY <1>2 DEF Dropping
  <2>2. \/ pc[s] = "idle" /\ UNCHANGED <<pc, path>>
        \/ /\ pc'[s] = "closed" /\ path'[s] = "new"
           /\ pc[s] \in {"retire", "link"} => oldFile = Link
    BY <1>2 DEF Dropping
  <2> QED
    BY <2>1, <2>2, MigrationStep DEF Migration
<1>3. CASE CreateOld(s)
  <2>1. /\ UNCHANGED <<newFile, oldFile, setting>> /\ pc[s] = "create" /\ pc'[s] = "idle"
        /\ path'[s] = IF Resolve("old") # 0 THEN "old" ELSE "new"
    BY <1>3 DEF CreateOld, diskVars, nameVars, boundVars, Goto, TypeOK
  <2>2. CASE ~setting.legacy
    <3>1. Resolve("old") = 0
      BY <2>2 DEF Migration, Resolve, Link
    <3> QED
      BY <2>1, <2>2, <3>1, MigrationStep
  <2>3. CASE setting.legacy
    <3>1. Resolve("old") = 0 => newFile # 0
      <4>1. oldFile = 0 => newFile # 0
        BY <2>3 DEF Migration, FileInv, Progress
      <4> QED
        BY <2>3, <4>1 DEF Migration, Resolve
    <3> QED
      BY <2>1, <2>3, <3>1, MigrationStep
  <2> QED
    BY <2>2, <2>3
<1>4. CASE \/ Reading(s) \/ CommitOpen(s) \/ CommitWrite(s) \/ CommitSign(s)
           \/ Notify(s)
  <2>1. UNCHANGED <<newFile, oldFile, setting, path>>
    BY <1>4 DEF Reading, Cache, CommitOpen, CommitWrite, CommitSign, Notify, diskVars,
       nameVars, boundVars
  <2>2. pc[s] \notin {"retire", "link", "closed", "create"}
    BY <1>4 DEF Reading, Cache, CommitOpen, CommitWrite, CommitSign, Notify
  <2> QED
    BY <2>1, <2>2, MigrationStep DEF Migration
<1> QED
  BY <1>1, <1>2, <1>3, <1>4

\* The steps that change names.
LEMMA MigrationMoves ==
  ASSUME TypeOK, LockInv, ~setting.readOnly, ~torn', FileInv, Migration,
         NEW s \in Sessions, Alone(s), CommitRename(s) \/ RetireOld(s) \/ LinkOld(s)
  PROVE  Migration' /\ setting' = setting
<1>1. CASE CommitRename(s)
  <2>1. /\ newFile' = tmpFile /\ tmpFile # 0 /\ UNCHANGED <<oldFile, path, setting>>
        /\ pc[s] = "rename" /\ (path[s] = "old" => pc'[s] = "retire")
    BY <1>1 DEF CommitRename, Goto, boundVars, TypeOK
  <2>2. CASE ~setting.legacy
    BY <2>1, <2>2 DEF Migration
  <2>3. CASE setting.legacy
    <3>1. Holds(s) /\ \A t \in Sessions : pc[t] \notin {"retire", "link"}
      <4>1. Holds(s)
        BY <2>1 DEF Holds
      <4>2. ASSUME NEW t \in Sessions, pc[t] \in {"retire", "link"} PROVE FALSE
        <5>1. Holds(t)
          BY <4>2 DEF Holds
        <5> QED
          BY <2>1, <4>1, <4>2, <5>1, OneAtATime
      <4> QED
        BY <4>1, <4>2
    <3>2. oldFile # 0 /\ (oldFile > 0 => newFile = 0)
      BY <2>3, <3>1 DEF Migration
    <3>3. path[s] = "new" => newFile # 0
      BY <2>1, <2>3 DEF Migration
    <3>4. oldFile > 0 => pc'[s] = "retire"
      BY <2>1, <3>2, <3>3 DEF TypeOK
    <3> QED
      BY <2>1, <2>3, <3>2, <3>4 DEF Migration
  <2> QED
    BY <2>1, <2>2, <2>3
<1>2. CASE RetireOld(s)
  <2>1. /\ UNCHANGED <<newFile, path, setting>> /\ oldFile' \in {0, oldFile}
        /\ pc[s] = "retire" /\ pc'[s] = "link"
    BY <1>2 DEF RetireOld, Goto, boundVars, TypeOK
  <2>2. newFile # 0 /\ path[s] = "old"
    BY <2>1 DEF FileInv, Progress
  <2> QED
    BY <2>1, <2>2 DEF Migration
<1>3. CASE LinkOld(s)
  <2>1. UNCHANGED <<newFile, setting>> /\ oldFile' = Link /\ pc[s] = "link"
    BY <1>3 DEF LinkOld
  <2>2. newFile # 0 /\ path[s] = "old"
    BY <2>1 DEF FileInv, Progress
  <2> QED
    BY <2>1, <2>2 DEF Migration, Link
<1> QED
  BY <1>1, <1>2, <1>3

\* What remains to be shown of a step that replaces the file with the lock held.
LEMMA HolderStep ==
  ASSUME LockInv, ~setting.readOnly, Protected, HolderIsCurrent, NEW s \in Sessions,
         Alone(s), Holds(s) \/ Current' = Current,
         s \in locked' \cap accessed' /\ Holds(s)' => base'[s] = Current',
         locked' \subseteq Sessions
  PROVE  HolderIsCurrent'
<1> SUFFICES ASSUME NEW t \in locked' \cap accessed', Holds(t)', t # s
             PROVE  base'[t] = Current'
  BY DEF HolderIsCurrent
<1>1. t \in Sessions /\ t \in locked /\ t \in accessed /\ base'[t] = base[t]
  BY DEF Alone
<1>2. Holds(t)
  BY <1>1 DEF Alone, Holds
<1>3. base[t] = Current
  BY <1>1, <1>2 DEF HolderIsCurrent
<1>4. ~Holds(s)
  BY <1>1, <1>2, OneAtATime
<1> QED
  BY <1>1, <1>3, <1>4

\* A session with the lock that has not begun to close its descriptor holds it.
LEMMA LockedHold ==
  ASSUME LockInv, ~setting.readOnly, NEW s \in Sessions, s \in locked, pc[s] # "close"
  PROVE  Holds(s)
BY DEF LockInv, Positions, Holds, Inside, Committing

\* A session whose signature is that of the current file has a copy of it.
LEMMA SignatureOfTheFile ==
  ASSUME NEW s \in accessed, Copy(s), signature[s] = Current
  PROVE  base[s] = Current
BY DEF Copy, Current

\* While names change in a migration, the file in the current directory stays.
LEMMA MigrationKeepsTheFile ==
  ASSUME FileInv, NEW s \in Sessions, RetireOld(s) \/ LinkOld(s)
  PROVE  newFile # 0 /\ newFile' = newFile /\ Current' = Current
<1>1. pc[s] \in {"retire", "link"} /\ newFile' = newFile
  BY DEF RetireOld, LinkOld
<1>2. newFile # 0
  BY <1>1 DEF FileInv, Progress
<1> QED
  BY <1>1, <1>2 DEF Current

\* Every kind of step preserves what is said of a holder.
LEMMA HolderKept ==
  ASSUME TypeOK, TypeOK', LockInv, ~setting.readOnly, Protected, FileInv, Migration,
         HolderIsCurrent, NEW s \in Sessions, Alone(s),
         \/ Quiet(s) \/ Dropping(s) \/ Reading(s) \/ CreateOld(s)
         \/ CommitOpen(s) \/ CommitWrite(s) \/ CommitRename(s) \/ RetireOld(s)
         \/ LinkOld(s) \/ CommitSign(s) \/ Notify(s)
  PROVE  HolderIsCurrent'
<1>0. /\ locked' \subseteq Sessions /\ Copy(s)
      /\ s \in locked /\ pc[s] # "close" /\ s \in accessed => base[s] = Current
  BY LockedHold DEF TypeOK, FileInv, HolderIsCurrent, Protected
<1>1. CASE Quiet(s)
  <2>1. Current' = Current /\ UNCHANGED <<base, accessed>>
    BY <1>1 DEF Quiet, Current, cacheVars
  <2>2. ASSUME s \in locked' \cap accessed', Holds(s)' PROVE base[s] = Current
    <3>1. pc'[s] # "close"
      BY <2>2 DEF Holds
    <3>2. CASE s \in locked /\ pc[s] # "close"
      BY <1>0, <2>1, <2>2, <3>2
    <3>3. CASE pc[s] = "stale" /\ (s \in accessed => signature[s] = Resolve(path[s]))
      <4>1. Holds(s)
        BY <3>3 DEF Holds
      <4>2. Resolve(path[s]) = Current
        BY <3>3, <4>1, HoldersSeeTheFile
      <4> QED
        BY <1>0, <2>1, <2>2, <3>3, <4>2, SignatureOfTheFile
    <3> QED
      BY <1>1, <2>2, <3>1, <3>2, <3>3 DEF Quiet
  <2> QED
    BY <1>0, <2>1, <2>2, HolderStep
<1>2. CASE Dropping(s)
  <2>1. Current' = Current /\ s \notin accessed'
    BY <1>2 DEF Dropping, Drops, Current
  <2> QED
    BY <1>0, <2>1, HolderStep
<1>3. CASE Reading(s)
  <2>1. /\ Current' = Current /\ UNCHANGED locked /\ pc[s] = "idle"
        /\ base'[s] = IF s \in accessed THEN base[s] ELSE Resolve(path[s])
    BY <1>3 DEF Reading, Cache, Access, Current, diskVars, nameVars, lockVars, TypeOK
  <2>2. s \in locked => Resolve(path[s]) = Current
    BY <2>1, HoldersSeeTheFile DEF Holds
  <2> QED
    BY <1>0, <2>1, <2>2, HolderStep
<1>4. CASE CreateOld(s)
  <2>1. Current' = Current /\ UNCHANGED locked /\ pc[s] = "create"
    BY <1>4 DEF CreateOld, Current, diskVars, nameVars, lockVars
  <2>2. s \notin locked
    BY <2>1 DEF LockInv, Positions, Inside, Committing
  <2> QED
    BY <1>0, <2>1, <2>2, HolderStep
<1>5. CASE CommitOpen(s) \/ CommitWrite(s) \/ CommitSign(s) \/ Notify(s)
  <2>1. Current' = Current /\ UNCHANGED <<base, accessed>> /\ pc[s] \in Committing
    BY <1>5 DEF CommitOpen, CommitWrite, CommitSign, Notify, Current, diskVars, nameVars,
       cacheVars, Committing
  <2>2. s \in locked /\ pc[s] # "close"
    BY <2>1, CommittersHold DEF Committing
  <2> QED
    BY <1>0, <2>1, <2>2, HolderStep
<1>6. CASE CommitRename(s)
  <2>1. newFile' = tmpFile /\ tmpFile # 0 /\ base'[s] = tmpFile /\ pc[s] = "rename"
    BY <1>6 DEF CommitRename, TypeOK
  <2>2. base'[s] = Current' /\ Holds(s)
    BY <2>1 DEF Current, Holds
  <2> QED
    BY <1>0, <2>2, HolderStep
<1>7. CASE RetireOld(s) \/ LinkOld(s)
  <2>1. Current' = Current
    BY <1>7, MigrationKeepsTheFile
  <2>2. UNCHANGED <<base, accessed>> /\ pc[s] \in Committing
    BY <1>7 DEF RetireOld, LinkOld, cacheVars, Committing
  <2>3. s \in locked /\ pc[s] # "close"
    BY <2>2, CommittersHold DEF Committing
  <2> QED
    BY <1>0, <2>1, <2>2, <2>3, HolderStep
<1> QED
  BY <1>1, <1>2, <1>3, <1>4, <1>5, <1>6, <1>7

-----------------------------------------------------------------------------
(* The theorems about the files. *)

LEMMA InitPrefs == Init => PrefsIInv
<1> SUFFICES ASSUME Init PROVE PrefsIInv
  OBVIOUS
<1>1. Migration
  BY DEF Init, Migration, Link
<1>2. HolderIsCurrent
  BY DEF Init, HolderIsCurrent
<1> QED
  BY <1>1, <1>2, InitTypes, InitLockInv, InitFiles DEF PrefsIInv

LEMMA NextPrefs == PrefsIInv /\ [Next]_vars => PrefsIInv'
<1> SUFFICES ASSUME PrefsIInv, [Next]_vars PROVE PrefsIInv'
  OBVIOUS
<1>1. TypeOK /\ TypeOK' /\ setting' = setting
  BY NextTypes, SettingFixed DEF PrefsIInv
<1> SUFFICES ASSUME ~setting.readOnly
             PROVE  LockInv' /\ FileInv' /\ (Protected' => Migration' /\ HolderIsCurrent')
  BY <1>1 DEF PrefsIInv, Protected
<1>2. LockInv /\ FileInv /\ (Protected => Migration /\ HolderIsCurrent)
  BY DEF PrefsIInv
<1>3. LockInv' /\ FileInv'
  BY <1>1, <1>2, NextLockInv, NextFiles
<1>4. ASSUME Protected' PROVE Migration' /\ HolderIsCurrent'
  <2>0. Protected /\ ~torn'
    BY <1>1, <1>4, TornStays DEF Protected
  <2>1. CASE UNCHANGED vars
    BY <1>2, <2>0, <2>1 DEF vars, diskVars, nameVars, lockVars, cacheVars, callVars,
       boundVars, Migration, HolderIsCurrent, Holds, Current, Protected
  <2>2. ASSUME NEW s \in Sessions, Request(s) \/ Step(s) \/ Die(s)
        PROVE  Migration' /\ HolderIsCurrent'
    <3>1. Alone(s) /\ ~AccessFails(s)
      BY <1>1, <2>0, <2>2, Separate DEF AccessFails, Protected
    <3>4. Positions
      BY <1>2 DEF LockInv
    <3>2. HolderIsCurrent'
      BY <1>1, <1>2, <2>0, <2>2, <3>1, <3>4, Kinds, HolderKept
    <3>3. Migration'
      BY <1>1, <1>2, <2>0, <2>2, <3>1, <3>4, Kinds, MigrationStays, MigrationMoves
    <3> QED
      BY <3>2, <3>3
  <2>3. ~Remount
    BY <1>2 DEF LockInv, Remount
  <2> QED
    BY <2>1, <2>2, <2>3 DEF Next
<1> QED
  BY <1>3, <1>4

LEMMA PrefsAlways == Spec => []PrefsIInv
BY InitPrefs, NextPrefs, PTL DEF Spec

\* The copy of a session that holds the lock is of the current file, and a session
\* without changes has the content of the file whose signature it has
\* (SCPLock.c, SCPCommit.c), with any number of sessions and whichever calls fail.
\* The first holds as long as the circumstances are those of Protected: calls that
\* fail include unlink() and symlink() of a migration, but once one of them has left
\* the old path without a link, nothing is claimed of what the sessions on it hold.
THEOREM BeliefsAreRight == Spec => []PrefsInv
<1>1. PrefsIInv => PrefsInv
  <2> SUFFICES ASSUME PrefsIInv PROVE PrefsInv
    OBVIOUS
  <2>1. CleanMeansSaved
    BY DEF PrefsIInv, FileInv, Copy, Saved, CleanMeansSaved, TypeOK
  <2>2. HolderIsCurrent
    BY DEF PrefsIInv, HolderIsCurrent, Protected
  <2> QED
    BY <2>1, <2>2 DEF PrefsIInv, PrefsInv
<1> QED
  BY <1>1, PrefsAlways, PTL

\* A path never leads to a file that is still being written, or whose writer has
\* died: the "-new" file has no other name before it is complete (SCPCommit.c).
THEOREM FilesAreWhole == Spec => []WholeFile
<1>1. PrefsIInv => WholeFile
  BY DEF PrefsIInv, FileInv, Names, WholeFile, Current
<1> QED
  BY <1>1, PrefsAlways, PTL

\* A rename with the lock held replaces the file that the session's copy is of.
LEMMA RenamesReplaceTheBase ==
  ASSUME PrefsIInv, ~setting.readOnly, Protected, NEW s \in Sessions, pc[s] = "rename"
  PROVE  s \in accessed /\ base[s] = Current
<1>1. s \in accessed
  BY DEF PrefsIInv, FileInv, Progress, Copy, Writing
<1>2. s \in locked /\ Holds(s)
  BY CommittersHold DEF PrefsIInv, Committing
<1> QED
  BY <1>1, <1>2 DEF PrefsIInv, HolderIsCurrent

\* No committed change is lost: whenever the current file changes it is by the
\* rename of a session (SCPCommit.c) whose copy was made from that file.  That holds
\* up to and including the step at which a migration fails to replace the old path
\* by a link, or its process dies (SCPCommit.c:267), and not beyond it.
THEOREM UpdatesAreKept == Spec => NoLostUpdate
<1> DEFINE A == Protected /\ Current' # Current =>
                  \E s \in Sessions : pc[s] = "rename" /\ s \in accessed /\ base[s] = Current
<1>1. PrefsIInv /\ [Next]_vars => A
  <2> SUFFICES ASSUME PrefsIInv, [Next]_vars, Protected, Current' # Current
               PROVE  \E s \in Sessions : /\ pc[s] = "rename" /\ s \in accessed
                                         /\ base[s] = Current
    OBVIOUS
  <2>1. ~setting.readOnly /\ TypeOK /\ LockInv /\ FileInv
    BY DEF Protected, PrefsIInv
  <2>2. ~UNCHANGED vars
    BY DEF vars, diskVars, nameVars, Current
  <2>3. ~Remount
    BY <2>1 DEF LockInv, Remount
  <2>4. PICK s \in Sessions : Request(s) \/ Step(s) \/ Die(s)
    BY <2>2, <2>3 DEF Next
  <2>5. ~(newFile' = newFile /\ oldFile' = oldFile)
    BY DEF Current
  <2>6. CommitRename(s)
    <3>1. ~(RetireOld(s) \/ LinkOld(s))
      BY <2>1, MigrationKeepsTheFile
    <3>2. ~(Quiet(s) \/ Dropping(s))
      BY <2>5 DEF Quiet, Dropping
    <3>3. ~(Reading(s) \/ AccessFails(s) \/ CreateOld(s) \/ CommitOpen(s)
            \/ CommitWrite(s) \/ CommitSign(s) \/ Notify(s))
      BY <2>5 DEF Reading, Cache, AccessFails, CreateOld, CommitOpen, CommitWrite,
         CommitSign, Notify, diskVars, nameVars
    <3>4. Positions
      BY <2>1 DEF LockInv
    <3> QED
      BY <2>1, <2>4, <3>1, <3>2, <3>3, <3>4, Kinds
  <2> QED
    BY <2>1, <2>6, RenamesReplaceTheBase DEF CommitRename
<1>2. PrefsIInv /\ [Next]_vars => [A]_vars
  BY <1>1
<1> QED
  BY <1>2, PrefsAlways, PTL DEF Spec, NoLostUpdate

-----------------------------------------------------------------------------
(* The refinement. *)

LEMMA InitRegister == Init => Register!Init
<1> SUFFICES ASSUME Init PROVE Register!Init
  OBVIOUS
<1>1. storedText = {}
  BY DEF Init, storedText, Current, Link
<1>2. freshSessions = {}
  BY DEF Init, freshSessions
<1> QED
  BY <1>1, <1>2 DEF Init, Register!Init

\* The kinds of steps that change neither the current file nor a copy.
LEMMA RegisterStutters ==
  ASSUME TypeOK, FileInv, NEW s \in Sessions,
         \/ Quiet(s) \/ CreateOld(s) \/ RetireOld(s) \/ LinkOld(s)
         \/ CommitSign(s) \/ Notify(s)
  PROVE  UNCHANGED <<storedText, prefs, freshSessions>>
<1>1. Current' = Current
  <2>1. CASE RetireOld(s) \/ LinkOld(s)
    BY <2>1, MigrationKeepsTheFile
  <2>2. CASE Quiet(s) \/ CreateOld(s) \/ CommitSign(s) \/ Notify(s)
    BY <2>2 DEF Quiet, CreateOld, CommitSign, Notify, diskVars, nameVars, Current
  <2> QED
    BY <2>1, <2>2
<1>2. UNCHANGED <<data, prefs, base, accessed>>
  BY DEF Quiet, CreateOld, RetireOld, LinkOld, CommitSign, Notify, diskVars, cacheVars
<1> QED
  BY <1>1, <1>2 DEF storedText, freshSessions

\* Nor does writing the "-new" file.
LEMMA RegisterUnwritten ==
  ASSUME TypeOK, LockInv, ~setting.readOnly, FileInv, NEW s \in Sessions,
         (CommitOpen(s) /\ s \in changed) \/ CommitWrite(s)
  PROVE  UNCHANGED <<storedText, prefs, freshSessions>>
<1>1. UNCHANGED <<newFile, oldFile, prefs, base, accessed>>
  BY DEF CommitOpen, CommitWrite, nameVars, cacheVars
<1>2. Current' = Current
  BY <1>1 DEF Current
<1>3. Current # 0 => Current \in 1 .. fileInodes /\ Current # tmpFile
  BY DEF FileInv, Names, Current, TypeOK, Link
<1>4. Current # 0 => data'[Current] = data[Current]
  <2>1. CASE CommitOpen(s) /\ s \in changed
    <3>1. /\ fileInodes' = IF tmpFile = 0 THEN fileInodes + 1 ELSE fileInodes
          /\ data' = [i \in 1 .. fileInodes' |-> IF i = TmpInode THEN Partial ELSE data[i]]
      BY <2>1 DEF CommitOpen
    <3>2. Current # 0 => Current \in 1 .. fileInodes' /\ Current # TmpInode
      BY <1>3, <3>1 DEF TmpInode, TypeOK
    <3> QED
      BY <3>1, <3>2
  <2>2. CASE CommitWrite(s)
    <3>1. tfd[s] = tmpFile /\ data' = [data EXCEPT ![tfd[s]] = prefs[s]]
      BY <2>2 DEF CommitWrite, FileInv, Progress
    <3> QED
      BY <1>3, <3>1 DEF TypeOK
  <2> QED
    BY <2>1, <2>2
<1>5. storedText' = storedText
  BY <1>2, <1>4 DEF storedText
<1> QED
  BY <1>1, <1>2, <1>5 DEF freshSessions

LEMMA RegisterDrops ==
  ASSUME TypeOK, NEW s \in Sessions, Dropping(s)
  PROVE  Register!Drop(s)
<1>1. /\ UNCHANGED <<newFile, oldFile, data>> /\ accessed' = accessed \ {s}
      /\ base' = [base EXCEPT ![s] = 0] /\ prefs' = [prefs EXCEPT ![s] = {}]
  BY DEF Dropping, Drops
<1>2. Current' = Current /\ storedText' = storedText
  BY <1>1 DEF Current, storedText
<1>3. \A t \in accessed \ {s} : base'[t] = base[t]
  BY <1>1 DEF TypeOK
<1>4. freshSessions' = freshSessions \ {s}
  BY <1>1, <1>2, <1>3 DEF freshSessions
<1> QED
  BY <1>1, <1>2, <1>4 DEF Register!Drop

LEMMA RegisterPublishes ==
  ASSUME PrefsIInv, ~setting.readOnly, Protected, NEW s \in Sessions, CommitRename(s)
  PROVE  Register!Publish(s)
<1>0. TypeOK /\ Names /\ Progress(s)
  BY DEF PrefsIInv, FileInv
<1>1. /\ newFile' = tmpFile /\ tmpFile # 0 /\ base' = [base EXCEPT ![s] = tmpFile]
      /\ UNCHANGED <<data, prefs, accessed>> /\ pc[s] = "rename"
  BY DEF CommitRename
<1>2. s \in accessed /\ base[s] = Current
  BY <1>1, RenamesReplaceTheBase
<1>3. Current' = tmpFile
  BY <1>1 DEF Current
<1>4. storedText' = prefs[s]
  BY <1>0, <1>1, <1>3 DEF storedText, Progress
<1>5. freshSessions' = {s}
  <2>1. base'[s] = tmpFile
    BY <1>0, <1>1 DEF TypeOK
  <2>2. \A t \in accessed \ {s} : base'[t] # tmpFile
    BY <1>0, <1>1 DEF TypeOK, Names
  <2> QED
    BY <1>1, <1>2, <1>3, <2>1, <2>2 DEF freshSessions
<1>6. s \in freshSessions
  BY <1>2 DEF freshSessions
<1> QED
  BY <1>1, <1>4, <1>5, <1>6 DEF Register!Publish

LEMMA RegisterReads ==
  ASSUME TypeOK, TypeOK', Names, NEW s \in Sessions, Reading(s)
  PROVE  Register!Read(s) \/ Register!ReadOld(s) \/ Register!Edit(s)
<1> DEFINE i == Resolve(path[s])
<1>1. /\ UNCHANGED <<newFile, oldFile, data>> /\ accessed' = accessed \cup {s}
      /\ base' = IF s \in accessed THEN base ELSE [base EXCEPT ![s] = i]
  BY DEF Reading, Cache, Access, diskVars, nameVars
<1>2. Current' = Current /\ storedText' = storedText
  BY <1>1 DEF Current, storedText
<1>3. PICK d \in Register!Edited(Loaded(s)) : prefs' = [prefs EXCEPT ![s] = d]
  <2>1. setting.keys \subseteq Keys
    BY PreferencesAssumption DEF TypeOK
  <2> QED
    BY <2>1 DEF Reading, Register!Edited
<1>4. CASE s \in accessed
  <2>1. freshSessions' = freshSessions
    BY <1>1, <1>2, <1>4 DEF freshSessions
  <2>2. Loaded(s) = prefs[s]
    BY <1>4 DEF Loaded
  <2> QED
    BY <1>2, <1>3, <2>1, <2>2 DEF Register!Edit
<1>5. CASE s \notin accessed
  <2>1. s \notin freshSessions
    BY <1>5 DEF freshSessions
  <2>2. base'[s] = i /\ \A t \in accessed : base'[t] = base[t]
    BY <1>1, <1>5 DEF TypeOK
  <2>3. CASE i = Current
    <3>1. freshSessions' = freshSessions \cup {s}
      BY <1>1, <1>2, <2>2, <2>3 DEF freshSessions
    <3>2. Loaded(s) = storedText
      BY <1>5, <2>3, PathsLeadToWholeFiles DEF Loaded, storedText
    <3> QED
      BY <1>2, <1>3, <2>1, <3>1, <3>2 DEF Register!Read
  <2>4. CASE i # Current
    <3>1. freshSessions' = freshSessions
      BY <1>1, <1>2, <2>2, <2>4 DEF freshSessions
    <3>2. d \in SUBSET Keys
      BY <1>3 DEF TypeOK, Documents
    <3> QED
      BY <1>2, <1>3, <2>1, <3>1, <3>2 DEF Register!ReadOld
  <2> QED
    BY <2>3, <2>4
<1> QED
  BY <1>4, <1>5

\* The sessions implement the register, with CommitRename as the step that publishes
\* a document: a client that holds the lock replaces the document its copy was
\* made from, as a whole, whatever fails and whoever dies, as long as no migration has
\* ended without a link on the old path (SCPOpen.c, SCPLock.c, SCPCommit.c).
THEOREM SessionsImplementRegister == Spec => ImplementsRegister
<1>1. PrefsIInv /\ PrefsIInv' /\ [Next]_vars
        => [Protected => Register!Next]_(Register!vars)
  <2> SUFFICES ASSUME PrefsIInv, PrefsIInv', [Next]_vars, Protected
               PROVE  Register!Next \/ UNCHANGED Register!vars
    OBVIOUS
  <2>1. ~setting.readOnly /\ TypeOK /\ TypeOK' /\ LockInv /\ FileInv /\ Names
    BY DEF Protected, PrefsIInv, FileInv
  <2>2. CASE UNCHANGED vars
    BY <2>2 DEF vars, diskVars, nameVars, cacheVars, Register!vars, storedText,
       freshSessions, Current
  <2>3. ~Remount
    BY <2>1 DEF LockInv, Remount
  <2>4. ASSUME NEW s \in Sessions, Request(s) \/ Step(s) \/ Die(s)
        PROVE  Register!Next \/ UNCHANGED Register!vars
    <3>1. ~AccessFails(s)
      BY DEF AccessFails, Protected
    <3>2. CASE \/ Quiet(s) \/ CreateOld(s) \/ RetireOld(s) \/ LinkOld(s)
               \/ CommitSign(s) \/ Notify(s)
      BY <2>1, <3>2, RegisterStutters DEF Register!vars
    <3>3. CASE (CommitOpen(s) /\ s \in changed) \/ CommitWrite(s)
      BY <2>1, <3>3, RegisterUnwritten DEF Register!vars
    <3>4. CASE Dropping(s)
      BY <2>1, <3>4, RegisterDrops DEF Register!Next
    <3>5. CASE CommitRename(s)
      BY <2>1, <3>5, RegisterPublishes DEF Register!Next
    <3>6. CASE Reading(s)
      BY <2>1, <3>6, RegisterReads DEF Register!Next
    <3>7. Positions
      BY <2>1 DEF LockInv
    <3> QED
      BY <2>1, <2>4, <3>1, <3>2, <3>3, <3>4, <3>5, <3>6, <3>7, Kinds
  <2> QED
    BY <2>2, <2>3, <2>4 DEF Next
<1> QED
  BY <1>1, InitRegister, PrefsAlways, PTL DEF Spec, ImplementsRegister

-----------------------------------------------------------------------------
(* The sessions of helpers: what the lock protects there. *)

\* Nothing is written on a read-only volume.
Frozen ==
  /\ readOnly = setting.readOnly
  /\ readOnly => \A s \in Sessions : pc[s] \notin Writing

\* All sessions use the current directory.
OneDirectory == oldFile = 0 /\ \A s \in Sessions : path[s] = "new"

\* What the proofs about privileged processes say of the sessions of helpers, too.
SessionsInv ==
  /\ TypeOK
  /\ Positions
  /\ FileInv
  /\ OneDirectory
  /\ Frozen
  /\ ~setting.readOnly => LockInv

\* The steps of a helper's session that are no steps of a privileged process: its
\* calls are not counted, and it may end without dying.
Uncounted(s) ==
  /\ UNCHANGED boundVars
  /\ \/ SCPreferencesLock(s) \/ SCPreferencesCommitChanges(s)
     \/ SCPreferencesApplyChanges(s)
     \/ pc[s] = "idle" /\ Vanish(s)

\* The copy is replaced by the client's.
Replaced(s) ==
  /\ pc[s] = "idle"
  /\ accessed' = accessed \cup {s}
  /\ changed' = changed \cup {s}
  /\ \E d \in Documents : prefs' = [prefs EXCEPT ![s] = d]
  /\ UNCHANGED <<diskVars, lockVars, callVars, signature, base, path, store, tfd,
                 boundVars>>

\* The client does something on its own.
Apart ==
  /\ UNCHANGED <<diskVars, lockVars, callVars, cacheVars, path, store, tfd, setting,
                 torn>>
  /\ calls' \in Nat /\ crashes' \in Nat

\* A step of a session.
Moved(s) == Request(s) \/ Step(s) \/ Die(s) \/ Uncounted(s)

\* The kinds of steps of Kinds.
OfKind(s) ==
  \/ Quiet(s) \/ Dropping(s) \/ Reading(s) \/ AccessFails(s) \/ CreateOld(s)
  \/ CommitOpen(s) /\ s \in changed
  \/ CommitWrite(s) \/ CommitRename(s) \/ RetireOld(s) \/ LinkOld(s)
  \/ CommitSign(s) \/ Notify(s)

LEMMA UncountedKinds ==
  ASSUME TypeOK, Positions, NEW s \in Sessions, Uncounted(s)
  PROVE  Alone(s) /\ (Quiet(s) \/ Dropping(s))
<1> USE DEF diskVars, nameVars, lockVars, callVars, cacheVars, boundVars, Writing
<1>0. /\ pc \in [Sessions -> Steps] /\ op \in [Sessions -> Operations]
      /\ s \in locked => pc[s] \in Inside \cup {"close"}
  BY DEF TypeOK, Positions
<1>1. ASSUME NEW o \in Operations, Acquire(s, o), UNCHANGED boundVars
      PROVE  Alone(s) /\ Quiet(s)
  <2>1. Quiet(s)
    BY <1>0, <1>1 DEF Acquire, Begin, Quiet, Goto
  <2>2. Alone(s)
    BY <1>0, <1>1 DEF Acquire, Begin, Alone, Goto
  <2> QED
    BY <2>1, <2>2
<1>2. ASSUME WithLock(s, "commit", "commit") \/ WithLock(s, "apply", "notify"),
             UNCHANGED boundVars
      PROVE  Alone(s) /\ Quiet(s)
  <2>1. Quiet(s)
    BY <1>0, <1>2 DEF WithLock, Begin, Quiet, Goto
  <2>2. Alone(s)
    BY <1>0, <1>2 DEF WithLock, Begin, Alone, Goto
  <2> QED
    BY <2>1, <2>2
<1>3. CASE pc[s] = "idle" /\ Vanish(s) /\ UNCHANGED boundVars
  <2>1. pc'[s] = "closed" /\ path'[s] = "new"
    BY <1>0, <1>3 DEF Vanish, Finish, Forget, Goto, TypeOK
  <2>2. Dropping(s)
    BY <1>3, <2>1 DEF Vanish, Forget, Drops, Dropping
  <2>3. Alone(s)
    BY <1>3 DEF Alone, TypeOK, Vanish, Forget, Finish, Goto
  <2> QED
    BY <2>2, <2>3
<1> QED
  BY <1>1, <1>2, <1>3 DEF Uncounted, SCPreferencesLock, SCPreferencesCommitChanges,
     SCPreferencesApplyChanges, Operations

\* A session changes its own variables only, in a step of one of the kinds.
LEMMA MovedKinds ==
  ASSUME TypeOK, Positions, NEW s \in Sessions, Moved(s)
  PROVE  Alone(s) /\ OfKind(s)
BY Separate, Kinds, UncountedKinds DEF Moved, OfKind

\* The circumstances do not change.
LEMMA MovedSettings ==
  ASSUME NEW s \in Sessions, Moved(s)
  PROVE  setting' = setting /\ readOnly' = readOnly
<1> USE DEF diskVars, boundVars
<1>1. setting' = setting
  <2>1. CASE Request(s) \/ Step(s) \/ Die(s)
    <3>1. Next
      BY <2>1 DEF Next
    <3> QED
      BY <3>1, SettingFixed
  <2>2. CASE Uncounted(s)
    BY <2>2 DEF Uncounted
  <2> QED
    BY <2>1, <2>2 DEF Moved
<1> SUFFICES readOnly' = readOnly
  BY <1>1
<1>2. CASE Request(s)
  BY <1>2 DEF Request, SCPreferencesCreate, SCPreferencesGetValue,
     AccessFails, SCPreferencesSetValue, SCPreferencesRemoveValue, Cache,
     SCPreferencesSynchronize, SCPreferencesUnlock, SCPreferencesRelease,
     SCPreferencesLock, SCPreferencesCommitChanges, SCPreferencesApplyChanges, Acquire,
     WithLock
<1>3. CASE Step(s)
  BY <1>3 DEF Step, Proceed, CreateOld, LockOpen, LockOpenFails, LockGranted,
     LockBusy, LockCheck, LockFresh, LockStale, UnlockUnlink, UnlockClose,
     CommitOpen, CommitOpenFails, CommitWrite, CommitWriteFails, CommitRename,
     CommitRenameFails, RetireOld, LinkOld, CommitSign, CommitSignFails, Notify,
     NotifyFails
<1>4. CASE Die(s) \/ Uncounted(s)
  BY <1>4 DEF Die, Vanish, Uncounted, SCPreferencesLock, SCPreferencesCommitChanges,
     SCPreferencesApplyChanges, Acquire, WithLock
<1> QED
  BY <1>2, <1>3, <1>4 DEF Moved

\* prefsPrivate->locked and the position agree on any volume.
LEMMA PositionsKept ==
  ASSUME TypeOK, Positions, NEW s \in Sessions, Moved(s)
  PROVE  Positions'
<1> USE DEF lockVars, callVars, boundVars
<1>0. /\ pc \in [Sessions -> Steps] /\ locked \subseteq Sessions
      /\ s \in locked => pc[s] \in Inside \cup {"close"}
      /\ pc[s] \in Committing => s \in locked
  BY DEF TypeOK, Positions
<1> SUFFICES /\ s \in locked' => pc'[s] \in Inside \cup {"close"}
             /\ pc'[s] \in Committing => s \in locked'
  BY MovedKinds DEF Alone, Positions
<1>1. CASE Request(s)
  BY <1>0, <1>1 DEF Request, SCPreferencesCreate, SCPreferencesGetValue,
     AccessFails, SCPreferencesSetValue, SCPreferencesRemoveValue, Cache,
     SCPreferencesSynchronize, SCPreferencesUnlock, SCPreferencesRelease,
     SCPreferencesLock, SCPreferencesCommitChanges, SCPreferencesApplyChanges, Acquire,
     WithLock, Begin, Goto, Inside, Committing
<1>2. CASE CreateOld(s) \/ LockOpen(s) \/ LockOpenFails(s) \/ LockGranted(s)
           \/ LockBusy(s) \/ LockCheck(s) \/ LockFresh(s) \/ LockStale(s)
           \/ UnlockUnlink(s)
  BY <1>0, <1>2 DEF CreateOld, LockOpen, LockOpenFails, LockGranted, LockBusy,
     LockCheck, LockFresh, LockStale, UnlockUnlink, Resume, Finish, Goto, Inside,
     Committing
<1>3. CASE CommitOpen(s) \/ CommitOpenFails(s) \/ CommitWrite(s) \/ CommitWriteFails(s)
           \/ CommitRename(s) \/ CommitRenameFails(s) \/ RetireOld(s) \/ LinkOld(s)
           \/ CommitSign(s) \/ CommitSignFails(s) \/ Notify(s) \/ NotifyFails(s)
  BY <1>0, <1>3 DEF CommitOpen, CommitOpenFails, CommitWrite, CommitWriteFails,
     CommitRename, CommitRenameFails, RetireOld, LinkOld, CommitSign, CommitSignFails,
     Notify, NotifyFails, Done, Finish, Goto, Inside, Committing
<1>4. CASE UnlockClose(s) \/ Die(s)
  BY <1>0, <1>4 DEF UnlockClose, Die, Vanish, Finish, Goto, Committing
<1>5. CASE Uncounted(s)
  BY <1>0, <1>5 DEF Uncounted, SCPreferencesLock, SCPreferencesCommitChanges,
     SCPreferencesApplyChanges, Acquire, WithLock, Begin, Vanish, Finish, Goto, Inside,
     Committing
<1> QED
  BY <1>1, <1>2, <1>3, <1>4, <1>5 DEF Moved, Step, Proceed

\* Types and the lock.
LEMMA UncountedTypes ==
  ASSUME TypeOK, NEW s \in Sessions, Uncounted(s)
  PROVE  TypeOK'
<1> SUFFICES Types'
  BY TypesParts
<1>0. Types
  BY TypesParts
<1> USE <1>0, TypesKept DEF Types
<1>1. BoundTypes'
  BY DEF Uncounted
<1>2. ASSUME NEW o \in Operations, Acquire(s, o) PROVE Types'
  <2>1. CallTypes'
    BY <1>2, CallsKeepTypes DEF Acquire, CallTypes, Steps
  <2>2. OtherTypes'
    BY <1>2 DEF Acquire, AddSession, OtherTypes
  <2> QED
    BY <1>1, <1>2, <2>1, <2>2 DEF Acquire
<1>3. ASSUME NEW o \in Operations, NEW step \in Steps, WithLock(s, o, step)
      PROVE  Types'
  <2>1. CallTypes'
    BY <1>3, CallsKeepTypes DEF WithLock, CallTypes
  <2> QED
    BY <1>1, <1>3, <2>1 DEF WithLock
<1>4. CASE Vanish(s)
  <2>1. CallTypes'
    BY <1>4, CallsKeepTypes DEF Vanish, Steps
  <2>2. LockFileTypes'
    BY <1>4 DEF Vanish, LockFileTypes
  <2>3. DiskTypes' /\ UNCHANGED fileInodes
    BY <1>4 DEF Vanish
  <2>4. CacheTypes'
    BY <1>4, <2>3, DropsKeepsTypes DEF Vanish, Forget, Drops
  <2>5. OtherTypes'
    <3>1. tfd' \in [Sessions -> 0 .. fileInodes]
      BY <1>4 DEF Vanish, OtherTypes, DiskTypes
    <3>2. path' \in [Sessions -> {"old", "new"}] /\ store' \subseteq Sessions
      BY <1>4 DEF Vanish, Forget, OtherTypes
    <3> QED
      BY <2>3, <3>1, <3>2 DEF OtherTypes
  <2> QED
    BY <1>1, <2>1, <2>2, <2>3, <2>4, <2>5
<1> QED
  BY <1>2, <1>3, <1>4 DEF Uncounted, SCPreferencesLock, SCPreferencesCommitChanges,
     SCPreferencesApplyChanges, Operations, Steps

LEMMA UncountedLockInv ==
  ASSUME LockInv, ~setting.readOnly, NEW s \in Sessions, Uncounted(s)
  PROVE  LockInv'
<1> USE DEF diskVars, boundVars, Begin
<1>1. ASSUME NEW o, Acquire(s, o) PROVE LockInv'
  <2>1. /\ Goto(s, "open") /\ pc[s] = "idle" /\ s \notin locked
        /\ UNCHANGED <<lockVars, setting, readOnly>>
    BY <1>1 DEF Acquire, Uncounted
  <2> QED
    BY <2>1, Moves DEF Outside, Steps
<1>2. ASSUME NEW o, NEW step \in {"commit", "notify"}, WithLock(s, o, step)
      PROVE  LockInv'
  <2>1. /\ Goto(s, step) /\ pc[s] = "idle" /\ s \in locked
        /\ UNCHANGED <<lockVars, setting, readOnly>>
    BY <1>2 DEF WithLock, Uncounted
  <2> QED
    BY <2>1, Moves DEF Inside, Committing, Steps
<1>3. CASE Vanish(s)
  <2>0. ~readOnly /\ LockTypes
    BY DEF LockInv
  <2>1. /\ pc' = [pc EXCEPT ![s] = "closed"] /\ fd' = [fd EXCEPT ![s] = 0]
        /\ flocked' = flocked \ {s} /\ locked' = locked \ {s}
        /\ UNCHANGED <<lockFile, lockInodes, setting, readOnly>>
    BY <1>3 DEF Vanish, Finish, Goto, Uncounted
  <2>2. LockTypes' /\ Others(s) /\ pc'[s] = "closed" /\ fd'[s] = 0
    BY <2>0, <2>1 DEF LockTypes, Steps, Others
  <2> QED
    BY <2>1, <2>2, LockStep DEF Holds, Inside, Outside, Committing
<1> QED
  BY <1>1, <1>2, <1>3 DEF Uncounted, SCPreferencesLock, SCPreferencesCommitChanges,
     SCPreferencesApplyChanges

LEMMA MovedTypes ==
  ASSUME TypeOK, NEW s \in Sessions, Moved(s)
  PROVE  TypeOK'
<1>1. CASE Uncounted(s)
  BY <1>1, UncountedTypes
<1>2. CASE Request(s) \/ Step(s) \/ Die(s)
  <2>1. Next
    BY <1>2 DEF Next
  <2> QED
    BY <2>1, NextTypes
<1> QED
  BY <1>1, <1>2 DEF Moved

LEMMA MovedLockInv ==
  ASSUME LockInv, ~setting.readOnly, NEW s \in Sessions, Moved(s)
  PROVE  LockInv'
<1>1. CASE Uncounted(s)
  BY <1>1, UncountedLockInv
<1>2. CASE Request(s) \/ Step(s) \/ Die(s)
  <2>1. Next
    BY <1>2 DEF Next
  <2> QED
    BY <2>1, NextLockInv
<1> QED
  BY <1>1, <1>2 DEF Moved

\* With the lock, or on a volume on which nothing is written, nobody else writes.
LEMMA WritersApart == SessionsInv => WritersAlone
<1> SUFFICES ASSUME SessionsInv PROVE WritersAlone
  OBVIOUS
<1>1. CASE setting.readOnly
  BY <1>1 DEF SessionsInv, Frozen, WritersAlone
<1>2. CASE ~setting.readOnly
  BY <1>2, LockKeepsWritersApart DEF SessionsInv
<1> QED
  BY <1>1, <1>2

\* Without a file in the old directory nothing is migrated.
LEMMA NoMigration ==
  ASSUME SessionsInv, NEW s \in Sessions
  PROVE  pc[s] \notin {"retire", "link"} /\ ~RetireOld(s) /\ ~LinkOld(s)
<1>1. pc[s] \notin {"retire", "link"}
  BY DEF SessionsInv, FileInv, Progress, OneDirectory
<1> QED
  BY <1>1 DEF RetireOld, LinkOld

LEMMA MovedSessions ==
  ASSUME SessionsInv, NEW s \in Sessions, Moved(s)
  PROVE  SessionsInv'
<1>0. TypeOK /\ Positions /\ FileInv /\ WritersAlone /\ OneDirectory /\ Frozen
  BY WritersApart DEF SessionsInv
<1>1. TypeOK' /\ Positions'
  BY <1>0, MovedTypes, PositionsKept
<1>2. setting' = setting /\ readOnly' = readOnly
  BY MovedSettings
<1>3. Alone(s) /\ OfKind(s)
  BY <1>0, MovedKinds
<1>4. FileInv'
  BY <1>0, <1>3, QuietFiles, DroppingFiles, ReadingFiles, CreatingFiles,
     CommitOpenFiles, CommitWriteFiles, CommitRenameFiles, MigratingFiles, SigningFiles
     DEF OfKind
<1>5. OneDirectory'
  <2>1. oldFile' = 0
    BY <1>0, <1>3, NoMigration DEF OfKind, Quiet, Dropping, Reading, Cache, AccessFails,
       CreateOld, CommitOpen, CommitWrite, CommitRename, CommitSign, Notify, diskVars,
       nameVars, OneDirectory
  <2>2. path'[s] = "new"
    <3>1. CASE CreateOld(s)
      <4>1. Resolve("old") = 0
        BY <1>0 DEF OneDirectory, Resolve, Link
      <4> QED
        BY <1>0, <3>1, <4>1 DEF CreateOld, TypeOK
    <3>2. CASE Dropping(s)
      BY <1>0, <3>2 DEF Dropping, OneDirectory
    <3>3. CASE ~CreateOld(s) /\ ~Dropping(s)
      BY <1>0, <1>3, <3>3, NoMigration DEF OfKind, Quiet, Reading, Cache, AccessFails,
         CommitOpen, CommitWrite, CommitRename, CommitSign, Notify, OneDirectory
    <3> QED
      BY <3>1, <3>2, <3>3
  <2> QED
    BY <1>0, <1>3, <2>1, <2>2 DEF OneDirectory, Alone
<1>6. Frozen'
  <2>1. readOnly /\ pc'[s] \in Writing => pc[s] \in Writing
    BY <1>0, <1>3, NoMigration DEF OfKind, Quiet, Dropping, Reading, Cache, AccessFails,
       CreateOld, CommitOpen, CommitWrite, CommitRename, CommitSign, Notify, Goto,
       Done, Finish, TypeOK, Writing, callVars
  <2> QED
    BY <1>0, <1>2, <1>3, <2>1 DEF Frozen, Alone
<1>7. ~setting.readOnly => LockInv'
  BY MovedLockInv DEF SessionsInv
<1> QED
  BY <1>1, <1>2, <1>4, <1>5, <1>6, <1>7 DEF SessionsInv

\* The other steps: the client's own, and those that replace a helper's copy.
LEMMA ApartSessions ==
  ASSUME SessionsInv, Apart
  PROVE  SessionsInv'
<1> USE DEF diskVars, nameVars, lockVars, callVars, cacheVars
<1>1. TypeOK'
  BY DEF SessionsInv, TypeOK, Apart
<1>2. Positions' /\ OneDirectory' /\ Frozen'
  BY DEF SessionsInv, Positions, OneDirectory, Frozen, Apart
<1>3. FileInv'
  BY DEF SessionsInv, FileInv, Names, Copy, Progress, Saved, Apart
<1>4. ~setting.readOnly => LockInv'
  BY Elsewhere DEF SessionsInv, Apart
<1> QED
  BY <1>1, <1>2, <1>3, <1>4 DEF SessionsInv, Apart

LEMMA ReplacedSessions ==
  ASSUME SessionsInv, NEW s \in Sessions, Replaced(s)
  PROVE  SessionsInv' /\ Alone(s)
<1> USE DEF diskVars, nameVars, lockVars, callVars, boundVars
<1>0. TypeOK /\ FileInv /\ WritersAlone
  BY WritersApart DEF SessionsInv
<1>1. TypeOK'
  BY <1>0 DEF TypeOK, Replaced
<1>2. Positions' /\ OneDirectory' /\ Frozen'
  BY DEF SessionsInv, Positions, OneDirectory, Frozen, Replaced
<1>3. Alone(s)
  BY <1>0 DEF Alone, TypeOK, Replaced
<1>4. Names' /\ Copy(s)' /\ Progress(s)'
  BY <1>0 DEF FileInv, Names, Copy, Progress, Writing, Replaced
<1>5. FileInv'
  <2>1. UNCHANGED <<newFile, tmpFile, data, fileInodes>>
    BY DEF Replaced
  <2> QED
    BY <1>0, <1>3, <1>4, <2>1, FileStep
<1>6. ~setting.readOnly => LockInv'
  BY Elsewhere DEF SessionsInv, Replaced
<1> QED
  BY <1>1, <1>2, <1>3, <1>5, <1>6 DEF SessionsInv, Replaced

-----------------------------------------------------------------------------
(* The clients and their helpers: the inductive invariant. *)

ClientTypes ==
  /\ clientOpen \subseteq Clients /\ helper \subseteq Clients
  /\ clientLocked \subseteq Clients /\ clientWasLocked \subseteq Clients
  /\ clientAccessed \subseteq Clients /\ clientChanged \subseteq Clients
  /\ clientSignature \in [Clients -> 0 .. fileInodes]
  /\ clientPrefs \in [Clients -> Documents]
  /\ clientBase \in [Clients -> 0 .. fileInodes]
  /\ request \in [Clients -> Messages]
  /\ command \in [Clients -> Messages]
  /\ reply \in [Clients -> {"none", "sent", "loaded", "running", "denying", "ok",
                            "error"}]
  /\ alive \subseteq Clients /\ saved \subseteq Clients

\* The call that the client is in and the message that it has sent for it.
Conversation(s) ==
  /\ command[s] = "none" <=> reply[s] = "none"
  /\ s \in clientOpen =>
       /\ request[s] = "none" <=> reply[s] = "none"
       /\ command[s] = "open" =>
            request[s] \in {"lock", "trylock", "commit", "apply", "access"}
       /\ command[s] = "lock" => request[s] \in {"lock", "commit", "apply"}
       /\ command[s] = "unlock" => request[s] \in {"unlock", "commit", "apply"}
       /\ command[s] \in {"trylock", "commit", "apply", "synchronize", "access"} =>
            request[s] = command[s]
       /\ command[s] \in {"commit", "apply", "unlock"} => s \in clientLocked
       /\ request[s] \in {"lock", "trylock"} => s \notin clientLocked
       /\ request[s] \in {"commit", "apply"} /\ command[s] \in {"open", "lock"} =>
            s \notin clientLocked
       /\ request[s] \in {"access", "synchronize"} => s \notin clientAccessed
       /\ request[s] = "access" => ~setting.readable
       /\ s \notin helper => s \notin alive /\ reply[s] = "none"
       /\ reply[s] \in {"ok", "error"} => s \in alive
  /\ s \notin clientOpen => /\ request[s] = "none"
                           /\ s \notin helper \cup clientLocked \cup clientWasLocked
  /\ s \in clientWasLocked => s \in clientLocked /\ command[s] \in {"commit", "apply"}
  /\ s \in clientChanged => s \in clientAccessed
  /\ s \notin alive => pc[s] = "closed"
  /\ crashes = 0 => /\ s \in helper => s \in alive
                    /\ s \in clientLocked => s \in helper

\* The call of its own that the helper is in.
Place(s) ==
  /\ pc[s] = "closed" => s \notin accessed
  /\ pc[s] \in {"closed", "create", "idle"} => op[s] = "none"
  /\ s \in wasLocked => s \in locked /\ op[s] \in {"commit", "apply"}
  /\ pc[s] \in {"closed", "create", "idle", "open", "flock", "check", "stale", "unlock",
                "close"} => s \notin wasLocked
  /\ pc[s] \in {"open", "flock", "check", "stale"} => s \notin locked

\* How far it is with the message that it serves.
Service(s) ==
  /\ reply[s] \in {"none", "ok", "error"} =>
       \/ pc[s] = "idle"
       \/ /\ s \notin clientOpen
          /\ \/ pc[s] = "closed"
             \/ pc[s] \in {"unlock", "close"} /\ op[s] = "release"
  /\ reply[s] = "sent" => pc[s] = IF command[s] = "open" THEN "closed" ELSE "idle"
  /\ reply[s] = "loaded" => command[s] = "commit" /\ pc[s] = "idle"
  /\ reply[s] = "denying" =>
       /\ command[s] \in {"lock", "trylock"}
       /\ \/ pc[s] = "idle"
          \/ pc[s] \in {"unlock", "close"} /\ op[s] = "unlock"
  /\ reply[s] = "running" =>
       /\ command[s] \in {"open", "lock", "trylock", "commit", "apply", "unlock"}
       /\ command[s] = "open" => pc[s] \in {"create", "idle"}
       /\ command[s] = "unlock" =>
            \/ pc[s] = "idle"
            \/ pc[s] \in {"unlock", "close"} /\ op[s] = "unlock"
       /\ command[s] \in {"lock", "trylock"} =>
            \/ pc[s] = "idle"
            \/ /\ pc[s] \in {"open", "flock", "check", "stale", "close"}
               /\ op[s] = command[s]
       /\ command[s] \in {"commit", "apply"} =>
            \/ pc[s] = "idle"
            \/ pc[s] \notin {"closed", "create"} /\ op[s] = command[s]
       /\ command[s] \in {"commit", "apply"} /\ s \in saved =>
            pc[s] \in {"idle", "unlock", "close"}
       /\ command[s] = "apply" => pc[s] # "commit" /\ pc[s] \notin Writing

\* No helper with the lock of a client can have been replaced by another.
Faithful == crashes = 0 \/ setting.readable

\* What the helper's lock has to do with the client's.
SharedLock(s) ==
  /\ command[s] = "open" => s \notin locked
  /\ command[s] \in {"lock", "trylock"} =>
       /\ reply[s] \in {"sent", "error"} => s \notin locked
       /\ reply[s] = "ok" /\ s \in clientOpen => s \in locked
       /\ reply[s] = "running" /\ pc[s] # "idle" => s \notin locked
  /\ command[s] = "unlock" =>
       /\ reply[s] \in {"ok", "error"} => s \notin locked
       /\ reply[s] = "running" => (s \in locked <=> pc[s] # "idle")
  /\ s \in clientOpen /\ command[s] \in {"none", "synchronize", "access"} =>
       (s \in locked => s \in clientLocked)
  /\ Faithful =>
       /\ s \in clientOpen \cap clientLocked
            /\ command[s] \in {"none", "open", "synchronize", "access"} => s \in locked
       /\ command[s] = "unlock" => reply[s] # "error" /\ (reply[s] = "sent" => s \in locked)
       /\ command[s] \in {"commit", "apply"}
            /\ (reply[s] \in {"sent", "loaded", "running"} \/ s \in clientOpen) =>
            s \in locked /\ (pc[s] # "idle" => s \in wasLocked)

\* The content of a file, or of none.
Content(i) == IF i = 0 THEN {} ELSE data[i]

\* The client's copy.
ClientCopy(s) ==
  /\ tmpFile # 0 => tmpFile \notin {clientSignature[s], clientBase[s]}
  /\ s \in clientAccessed \ clientChanged => clientPrefs[s] = Content(clientSignature[s])
  /\ s \in clientAccessed /\ clientSignature[s] # clientBase[s] =>
       newFile \notin {0, clientSignature[s]}

\* The helper's copy, as long as the client has none.
HelperCopy(s) ==
  /\ s \in clientOpen /\ command[s] = "access" /\ reply[s] = "ok" => s \in accessed
  /\ s \in accessed /\ s \in clientOpen \ clientAccessed
       /\ ~(command[s] = "synchronize" /\ reply[s] = "sent") =>
       /\ prefs[s] = Content(signature[s])
       /\ s \in locked /\ Holds(s) => base[s] = newFile

\* A commit of the client's copy.
Commits(s) ==
  command[s] = "commit" /\ s \in clientChanged =>
    /\ reply[s] = "loaded" => s \in accessed \cap changed /\ prefs[s] = clientPrefs[s]
    /\ reply[s] = "running" =>
         /\ s \in accessed /\ prefs[s] = clientPrefs[s]
         /\ s \notin saved => s \in changed
         /\ s \in saved \/ pc[s] = "notify" => Saved(s) /\ signature[s] = clientBase[s]
         /\ pc[s] = "resign" => clientBase[s] = newFile
    /\ reply[s] = "ok" /\ s \in clientOpen =>
         Saved(s) /\ prefs[s] = clientPrefs[s] /\ signature[s] = clientBase[s]

\* The client has not been refused the file by its helper.
Claims(s) == setting.readable \/ clientBase[s] # 0

Comparing(s) == command[s] \in {"lock", "trylock"} /\ reply[s] \in {"running", "denying"}

\* The call of the helper gets the lock for itself only.
Own(s) == op[s] \in {"commit", "apply"} /\ s \notin wasLocked

\* A client that has the lock through its helper has a copy of the current file.
LockedCopy(s) ==
  /\ command[s] \in {"lock", "trylock"} /\ reply[s] = "running" /\ pc[s] = "idle"
       /\ s \in locked \cap accessed => signature[s] = newFile
  /\ s \in locked \cap clientAccessed /\ Holds(s) /\ Claims(s) /\ ~Comparing(s)
       /\ (Own(s) => s \in clientChanged /\ op[s] = "commit") => clientBase[s] = newFile

\* The client believes that it has the lock, and its helper does not have it: the one
\* that had it was killed.  Then the client has its copy from the helper it has now.
Detached(s) ==
  \/ /\ s \in clientOpen \cap clientLocked /\ s \notin locked
     /\ ~(command[s] = "unlock" /\ reply[s] \in {"running", "ok"})
  \/ /\ command[s] \in {"commit", "apply"} /\ reply[s] \in {"sent", "loaded", "running"}
     /\ s \notin wasLocked /\ (s \notin locked \/ op[s] \in {"commit", "apply"})

DetachedCopy(s) ==
  s \in clientAccessed /\ Claims(s) /\ Detached(s) =>
    ~setting.readable /\ s \in accessed /\ base[s] = clientBase[s]

\* What holds of a client and its helper.
Copies(s) ==
  /\ ClientCopy(s)
  /\ s \in alive => HelperCopy(s) /\ Commits(s) /\ LockedCopy(s) /\ DetachedCopy(s)

Agreement(s) ==
  /\ Conversation(s)
  /\ Place(s)
  /\ s \in alive => Service(s) /\ SharedLock(s)
  /\ Copies(s)

HelperIInv ==
  /\ ClientTypes
  /\ SessionsInv
  /\ Opens => \A s \in Clients : Agreement(s)

-----------------------------------------------------------------------------
(* What a step leaves alone. *)

SameSession(t) ==
  /\ pc'[t] = pc[t] /\ op'[t] = op[t]
  /\ signature'[t] = signature[t] /\ base'[t] = base[t] /\ prefs'[t] = prefs[t]
  /\ t \in accessed' <=> t \in accessed
  /\ t \in changed' <=> t \in changed
  /\ t \in locked' <=> t \in locked
  /\ t \in wasLocked' <=> t \in wasLocked

SameDoor(t) ==
  /\ t \in clientOpen' <=> t \in clientOpen
  /\ t \in helper' <=> t \in helper
  /\ t \in clientLocked' <=> t \in clientLocked
  /\ t \in clientWasLocked' <=> t \in clientWasLocked
  /\ request'[t] = request[t]

SameCopy(t) ==
  /\ t \in clientAccessed' <=> t \in clientAccessed
  /\ t \in clientChanged' <=> t \in clientChanged
  /\ clientSignature'[t] = clientSignature[t]
  /\ clientPrefs'[t] = clientPrefs[t]
  /\ clientBase'[t] = clientBase[t]

SameTalk(t) ==
  /\ command'[t] = command[t] /\ reply'[t] = reply[t]
  /\ t \in alive' <=> t \in alive
  /\ t \in saved' <=> t \in saved

\* No file changes that has a name other than the "-new" file's, and no name of a
\* file that t may count on.
KeepsFiles(t) ==
  /\ setting' = setting /\ (crashes' = 0 => crashes = 0)
  /\ \A i \in 1 .. fileInodes : data'[i] = data[i] \/ i = tmpFile
  /\ \/ newFile' = newFile
     \/ newFile' = tmpFile /\ tmpFile # 0 /\ ~Holds(t)
  /\ tmpFile' \in {0, tmpFile, fileInodes + 1}

\* A client is a session.
LEMMA ClientsAreSessions == \A s \in Clients : s \in Sessions
BY HelperAssumption

\* The content of a file that is not being written stays.
LEMMA ContentKept ==
  ASSUME SessionsInv, NEW t \in Sessions, KeepsFiles(t), NEW i \in 0 .. fileInodes,
         tmpFile # 0 => i # tmpFile
  PROVE  /\ Content(i)' = Content(i)
         /\ i # 0 => data'[i] = data[i]
         /\ tmpFile' # 0 => i # tmpFile'
         /\ newFile' \in {0, i} => newFile' = newFile
<1>0. fileInodes \in Nat /\ tmpFile \in 0 .. fileInodes
  BY DEF SessionsInv, TypeOK
<1>1. i # 0 => data'[i] = data[i]
  <2> SUFFICES ASSUME i # 0 PROVE data'[i] = data[i]
    OBVIOUS
  <2>1. i \in 1 .. fileInodes /\ i # tmpFile
    BY <1>0
  <2> QED
    BY <2>1 DEF KeepsFiles
<1>2. tmpFile' # 0 => i # tmpFile'
  BY <1>0 DEF KeepsFiles
<1>3. newFile' \in {0, i} => newFile' = newFile
  BY DEF KeepsFiles
<1> QED
  BY <1>1, <1>2, <1>3 DEF Content

\* A client that is not concerned.
LEMMA Bystander ==
  ASSUME SessionsInv, ClientTypes, NEW t \in Clients, Agreement(t), SameSession(t),
         SameDoor(t), SameCopy(t), SameTalk(t), KeepsFiles(t)
  PROVE  Agreement(t)'
<1>0. t \in Sessions /\ UNCHANGED setting /\ (crashes' = 0 => crashes = 0)
  BY ClientsAreSessions DEF KeepsFiles
<1>1. Conversation(t)'
  BY <1>0 DEF Agreement, Conversation, SameSession, SameDoor, SameCopy, SameTalk
<1>2. Place(t)' /\ (t \in alive' => Service(t)')
  BY DEF Agreement, Place, Service, SameSession, SameDoor, SameTalk
<1>3. t \in alive' => SharedLock(t)'
  BY <1>0 DEF Agreement, SharedLock, Faithful, SameSession, SameDoor, SameTalk
<1>4. \A i \in {signature[t], clientSignature[t], clientBase[t]} :
        i \in 0 .. fileInodes /\ (tmpFile # 0 => i # tmpFile)
  BY <1>0 DEF SessionsInv, TypeOK, FileInv, Names, ClientTypes, Agreement, Copies,
     ClientCopy
<1>5. \A i \in {signature[t], clientSignature[t], clientBase[t]} :
         /\ Content(i)' = Content(i)
         /\ i # 0 => data'[i] = data[i]
         /\ tmpFile' # 0 => i # tmpFile'
         /\ newFile' \in {0, i} => newFile' = newFile
  BY <1>0, <1>4, ContentKept
<1>6. (Holds(t)' <=> Holds(t)) /\ (Holds(t) => newFile' = newFile)
  BY DEF SameSession, KeepsFiles, Holds
<1>7. ClientCopy(t)'
  BY <1>5 DEF Agreement, Copies, ClientCopy, SameCopy, Content
<1>8. ASSUME t \in alive' PROVE HelperCopy(t)'
  BY <1>5, <1>6, <1>8 DEF Agreement, Copies, HelperCopy, SameSession, SameDoor, SameCopy,
     SameTalk, Content
<1>9. ASSUME t \in alive' PROVE Commits(t)'
  <2>1. pc[t] = "resign" => newFile' = newFile
    BY <1>6 DEF Holds
  <2> QED
    BY <1>5, <1>9, <2>1 DEF Agreement, Copies, Commits, Saved, SameSession, SameDoor,
       SameCopy, SameTalk
<1>10. ASSUME t \in alive' PROVE LockedCopy(t)'
  <2>1. t \in locked /\ pc[t] = "idle" => newFile' = newFile
    BY <1>6 DEF Holds
  <2> QED
    BY <1>0, <1>6, <1>10, <2>1 DEF Agreement, Copies, LockedCopy, Claims, Comparing, Own,
       SameSession, SameCopy, SameTalk
<1>11. ASSUME t \in alive' PROVE DetachedCopy(t)'
  BY <1>0, <1>11 DEF Agreement, Copies, DetachedCopy, Detached, Claims, SameSession,
     SameDoor, SameCopy, SameTalk
<1> QED
  BY <1>1, <1>2, <1>3, <1>7, <1>8, <1>9, <1>10, <1>11 DEF Agreement, Copies

\* What a step of a session leaves to the others.
LEMMA MovedFiles ==
  ASSUME SessionsInv, NEW s \in Sessions, Moved(s), NEW t \in Sessions, t # s
  PROVE  SameSession(t) /\ KeepsFiles(t)
<1>0. TypeOK /\ Alone(s) /\ OfKind(s) /\ WritersAlone /\ setting' = setting
  BY MovedKinds, MovedSettings, WritersApart DEF SessionsInv
<1>1. SameSession(t)
  BY <1>0 DEF Alone, SameSession
<1>2. crashes' = 0 => crashes = 0
  <2>1. CASE UNCHANGED crashes
    BY <2>1
  <2>2. CASE Die(s)
    BY <1>0, <2>2 DEF Die, TypeOK
  <2>3. CASE Request(s) \/ Uncounted(s)
    BY <2>3 DEF Request, Counted, Uncounted, SCPreferencesCreate, SCPreferencesGetValue,
       AccessFails, SCPreferencesSetValue, SCPreferencesRemoveValue, Cache,
       SCPreferencesSynchronize, SCPreferencesUnlock, SCPreferencesRelease, boundVars
  <2>4. CASE Step(s)
    BY <2>4 DEF Step, Proceed, CreateOld, LockOpen, LockOpenFails, LockGranted,
       LockBusy, LockCheck, LockFresh, LockStale, UnlockUnlink, UnlockClose,
       CommitOpen, CommitOpenFails, CommitWrite, CommitWriteFails, CommitRename,
       CommitRenameFails, RetireOld, LinkOld, CommitSign, CommitSignFails, Notify,
       NotifyFails, boundVars
  <2> QED
    BY <2>2, <2>3, <2>4 DEF Moved
<1>3. CASE CommitRename(s)
  <2>1. /\ newFile' = tmpFile /\ tmpFile # 0 /\ tmpFile' = 0 /\ UNCHANGED data
        /\ pc[s] \in Writing
    BY <1>3 DEF CommitRename, Writing
  <2>2. ~Holds(t)
    BY <1>0, <2>1 DEF WritersAlone
  <2> QED
    BY <1>0, <1>1, <1>2, <2>1, <2>2 DEF KeepsFiles
<1>4. CASE CommitOpen(s) /\ s \in changed
  <2>1. \A i \in 1 .. fileInodes : data'[i] = data[i] \/ i = tmpFile
    BY <1>0, <1>4 DEF CommitOpen, TmpInode, TypeOK
  <2> QED
    BY <1>0, <1>1, <1>2, <1>4, <2>1 DEF KeepsFiles, CommitOpen, TmpInode
<1>5. CASE CommitWrite(s)
  <2>1. tfd[s] = tmpFile
    BY <1>5 DEF CommitWrite, SessionsInv, FileInv, Progress
  <2>2. \A i \in 1 .. fileInodes : data'[i] = data[i] \/ i = tmpFile
    BY <1>0, <1>5, <2>1 DEF CommitWrite, TypeOK
  <2> QED
    BY <1>0, <1>1, <1>2, <1>5, <2>2 DEF KeepsFiles, CommitWrite, nameVars
<1>6. CASE \/ Quiet(s) \/ Dropping(s) \/ Reading(s) \/ AccessFails(s) \/ CreateOld(s)
           \/ CommitSign(s) \/ Notify(s)
  <2>1. UNCHANGED <<newFile, data>> /\ tmpFile' \in {0, tmpFile}
    BY <1>6 DEF Quiet, Dropping, Reading, Cache, AccessFails, CreateOld, CommitSign,
       Notify, diskVars, nameVars
  <2> QED
    BY <1>0, <1>1, <1>2, <2>1 DEF KeepsFiles
<1> QED
  BY <1>0, <1>3, <1>4, <1>5, <1>6, NoMigration DEF OfKind

-----------------------------------------------------------------------------
(* The steps of the client. *)

\* A step of a client concerns no other one.
Personal(s) == \A t \in Clients \ {s} : SameDoor(t) /\ SameCopy(t) /\ SameTalk(t)

\* The sessions, the files and their content stay.
Still(s) ==
  /\ UNCHANGED <<newFile, tmpFile, fileInodes, data, setting>>
  /\ crashes' = 0 => crashes = 0
  /\ SameSession(s)
  /\ Holds(s)' <=> Holds(s)
  /\ \A i : Content(i)' = Content(i)
  /\ Saved(s)' <=> Saved(s)

LEMMA ApartStill ==
  ASSUME Apart, crashes' = 0 => crashes = 0, NEW s \in Sessions
  PROVE  Still(s) /\ KeepsFiles(s)
<1> USE DEF diskVars, nameVars, lockVars, callVars, cacheVars
<1>1. UNCHANGED <<newFile, tmpFile, fileInodes, data, setting>> /\ SameSession(s)
  BY DEF Apart, SameSession
<1>2. (Holds(s)' <=> Holds(s)) /\ (Saved(s)' <=> Saved(s))
  BY <1>1 DEF SameSession, Holds, Saved
<1>3. \A i : Content(i)' = Content(i)
  BY <1>1 DEF Content
<1>4. KeepsFiles(s)
  BY <1>1 DEF KeepsFiles
<1> QED
  BY <1>1, <1>2, <1>3, <1>4 DEF Still

\* What remains to be shown of a step of a client.
LEMMA ClientStep ==
  ASSUME HelperIInv, NEW s \in Clients, Apart, crashes' = 0 => crashes = 0,
         Personal(s), ClientTypes', Opens => Agreement(s)'
  PROVE  HelperIInv'
<1>0. SessionsInv' /\ (Opens' <=> Opens)
  BY ApartSessions DEF HelperIInv, Opens, Apart
<1>1. ASSUME Opens, NEW t \in Clients, t # s PROVE Agreement(t)'
  <2>1. SameSession(t) /\ KeepsFiles(t)
    BY ApartStill, ClientsAreSessions DEF Still
  <2>2. SameDoor(t) /\ SameCopy(t) /\ SameTalk(t) /\ Agreement(t)
    BY <1>1 DEF Personal, HelperIInv
  <2> QED
    BY <2>1, <2>2, Bystander DEF HelperIInv
<1> QED
  BY <1>0, <1>1 DEF HelperIInv

\* What a client and its helper say to each other, and do with it.
LEMMA CallsAgree ==
  ASSUME SessionsInv, ClientTypes, NEW s \in Clients, Agreement(s), Still(s),
         ClientCalls(s) \/ ClientDies(s)
  PROVE  Agreement(s)'
<1> USE DEF copyVars, talkVars, Ready, Still, SameSession, Agreement, Conversation, Place,
            Service, SharedLock, Faithful, Copies, ClientCopy, HelperCopy, Commits,
            LockedCopy, Claims, Comparing, Own, DetachedCopy, Detached, ClientTypes
<1>1. CASE ClientCreate(s)
  BY <1>1 DEF ClientCreate, DropCopy, Content
<1>2. CASE ClientReads(s)
  <2>1. /\ s \in clientAccessed' /\ clientSignature'[s] = newFile /\ clientBase'[s] = newFile
        /\ clientPrefs'[s] = Content(newFile)
    BY <1>2 DEF ClientReads, Content, SessionsInv, FileInv, Names
  <2> QED
    BY <1>2, <2>1 DEF ClientReads, SessionsInv, FileInv, Names
<1>3. CASE ClientEdits(s)
  BY <1>3 DEF ClientEdits
<1>4. ASSUME NEW r \in {"lock", "trylock", "commit", "apply", "access"}, ClientAsks(s, r)
      PROVE  Agreement(s)'
  <2>1. /\ s \in clientLocked => r = "access"
        /\ r = "access" => ~setting.readable /\ s \notin clientAccessed
        /\ request'[s] = r /\ reply'[s] = "sent" /\ s \in clientOpen /\ reply[s] = "none"
        /\ UNCHANGED <<clientOpen, clientLocked, clientWasLocked, copyVars, saved>>
    BY <1>4 DEF ClientAsks, Ask, Send
  <2>2. CASE s \in helper
    <3>1. /\ command'[s] = IF r \in {"commit", "apply"} THEN "lock" ELSE r
          /\ UNCHANGED <<helper, alive>>
      BY <1>4, <2>2 DEF ClientAsks, Ask, Send, FirstMessage
    <3> QED
      BY <2>1, <2>2, <3>1
  <2>3. CASE s \notin helper
    <3>1. /\ command'[s] = "open" /\ s \in helper' /\ s \in alive'
      BY <1>4, <2>3 DEF ClientAsks, Ask, Send
    <3>2. pc[s] = "closed" /\ s \notin locked
      BY <2>1, <2>3, ClientsAreSessions DEF SessionsInv, Positions, Inside, Committing
    <3> QED
      BY <2>1, <2>3, <3>1, <3>2
  <2> QED
    BY <2>2, <2>3
<1>5. ASSUME NEW r \in {"commit", "apply"}, ClientHasLock(s, r) PROVE Agreement(s)'
  BY <1>5 DEF ClientHasLock, Send
<1>6. CASE ClientUnlocks(s)
  BY <1>6 DEF ClientUnlocks, Send
<1>7. CASE ClientSynchronizes(s)
  BY <1>7 DEF ClientSynchronizes, Send, DropCopy
<1>8. CASE ClientCloses(s) \/ ClientDies(s)
  BY <1>8 DEF ClientCloses, ClientDies, ClientEnds, DropCopy
<1> QED
  BY <1>1, <1>2, <1>3, <1>4, <1>5, <1>6, <1>7, <1>8 DEF ClientCalls

LEMMA RepliesAgree ==
  ASSUME SessionsInv, ClientTypes, NEW s \in Clients, Agreement(s), Still(s),
         ClientContinues(s)
  PROVE  Agreement(s)'
<1> USE DEF copyVars, talkVars, Ready, Still, SameSession, Agreement, Conversation, Place,
            Service, SharedLock, Faithful, Copies, ClientCopy, HelperCopy, Commits,
            LockedCopy, Claims, Comparing, Own, DetachedCopy, Detached, ClientTypes,
            Answered, NoReply
<1>0. /\ tmpFile # 0 => tmpFile \notin {signature[s], base[s]}
      /\ s \in accessed /\ signature[s] # base[s] => newFile \notin {0, signature[s]}
  BY ClientsAreSessions DEF SessionsInv, FileInv, Names, Copy
<1>1. CASE Opened(s)
  BY <1>1 DEF Opened, Send, FirstMessage
<1>2. CASE Locked(s)
  BY <1>2 DEF Locked, Send, Return
<1>3. CASE Worked(s)
  <2>1. CASE command[s] = "commit" /\ s \in clientChanged
    <3>1. /\ clientSignature'[s] = signature[s] /\ s \notin clientChanged'
          /\ clientPrefs[s] = Content(signature[s]) /\ signature[s] = clientBase[s]
      BY <1>3, <2>1 DEF Worked, Saved, Content
    <3>2. /\ UNCHANGED <<clientOpen, alive, saved, helper, clientLocked, clientAccessed,
                         clientPrefs, clientBase>>
          /\ request[s] = "commit" /\ s \in clientOpen /\ reply[s] = "ok"
      BY <1>3, <2>1 DEF Worked
    <3>3. CASE s \in clientWasLocked
      <4>1. /\ request'[s] = "none" /\ s \notin clientWasLocked'
            /\ command'[s] = "none" /\ reply'[s] = "none"
        BY <1>3, <3>3 DEF Worked, ClientDone, Return
      <4>2. Conversation(s)' /\ Place(s)' /\ (s \in alive => Service(s)' /\ SharedLock(s)')
        BY <2>1, <3>1, <3>2, <3>3, <4>1
      <4> QED
        BY <1>0, <2>1, <3>1, <3>2, <3>3, <4>1, <4>2
    <3>4. CASE s \notin clientWasLocked
      <4>1. /\ request'[s] = "commit" /\ s \notin clientWasLocked'
            /\ command'[s] = "unlock" /\ reply'[s] = "sent"
        BY <1>3, <3>2, <3>4 DEF Worked, ClientDone, Send
      <4>2. Conversation(s)' /\ Place(s)' /\ (s \in alive => Service(s)' /\ SharedLock(s)')
        BY <2>1, <3>1, <3>2, <3>4, <4>1
      <4> QED
        BY <1>0, <2>1, <3>1, <3>2, <3>4, <4>1, <4>2
    <3> QED
      BY <3>3, <3>4
  <2>2. CASE ~(command[s] = "commit" /\ s \in clientChanged)
    BY <1>3, <2>2 DEF Worked, ClientDone, Send, Return
  <2> QED
    BY <2>1, <2>2
<1>4. CASE Unlocked(s)
  BY <1>4 DEF Unlocked, Return
<1>5. CASE Accessed(s)
  <2>1. s \in accessed /\ prefs[s] = Content(signature[s])
    BY <1>5 DEF Accessed, HasCopy
  <2> QED
    BY <1>0, <1>5, <2>1 DEF Accessed, HasCopy, Return
<1>6. ASSUME NEW r \in {"error", "gone"}, OpenFailed(s, r) PROVE Agreement(s)'
  BY <1>6 DEF OpenFailed, Hangup, Return, StartEmpty
<1>7. ASSUME NEW r \in {"error", "gone"}, LockFailed(s, r) \/ UnlockFailed(s, r)
      PROVE  Agreement(s)'
  <2>1. CASE LockFailed(s, r) /\ r = "error"
    BY <1>7, <2>1 DEF LockFailed, Hangup, Return
  <2>2. CASE UnlockFailed(s, r) /\ r = "error"
    BY <1>7, <2>2 DEF UnlockFailed, Hangup, Return
  <2>3. CASE r = "gone"
    BY <1>7, <2>3 DEF LockFailed, UnlockFailed, Hangup, Return
  <2> QED
    BY <1>7, <2>1, <2>2, <2>3
<1>8. ASSUME NEW r \in {"error", "gone"}, WorkFailed(s, r) PROVE Agreement(s)'
  BY <1>8 DEF WorkFailed, ClientDone, Hangup, Return, Send
<1>9. ASSUME NEW r \in {"ok", "error", "gone"}, Synchronized(s, r) PROVE Agreement(s)'
  BY <1>9 DEF Synchronized, Hangup, Return
<1>10. ASSUME NEW r \in {"ok", "error", "gone"}, AccessFailed(s, r) PROVE Agreement(s)'
  BY <1>10 DEF AccessFailed, HasCopy, StartEmpty, Return
<1> QED
  BY <1>1, <1>2, <1>3, <1>4, <1>5, <1>6, <1>7, <1>8, <1>9, <1>10 DEF ClientContinues

-----------------------------------------------------------------------------
(* The steps of the helper. *)

\* A helper runs an ordinary session.
LEMMA HelperMoves ==
  ASSUME ClientTypes, NEW s \in Clients, HelperContinues(s) \/ HelperDies(s)
  PROVE  UNCHANGED vars \/ Moved(s) \/ Replaced(s)
<1> USE DEF Moved, Request, Step, Uncounted, SCPreferencesLock
<1>1. CASE \/ HelperRefuses(s) \/ HelperOpens(s) \/ HelperOpenFails(s) \/ HelperHasNone(s)
           \/ HelperDenies(s) \/ HelperUnlocks(s) \/ HelperAccesses(s)
           \/ HelperSynchronizes(s) \/ HelperReleases(s)
  BY <1>1 DEF HelperRefuses, HelperOpens, HelperOpenFails, HelperHasNone, HelperDenies,
     HelperUnlocks, HelperAccesses, HelperSynchronizes, HelperReleases
<1>2. CASE HelperLocks(s)
  BY <1>2 DEF HelperLocks, Serving
<1>3. CASE HelperCompares(s) \/ HelperReplies(s)
  BY <1>3 DEF HelperCompares, HelperReplies
<1>4. CASE HelperLoads(s)
  BY <1>4 DEF HelperLoads, Replaced, ClientTypes
<1>5. CASE HelperWorks(s) \/ HelperRuns(s)
  BY <1>5 DEF HelperWorks, HelperRuns
<1>6. CASE HelperExits(s) \/ HelperDies(s)
  BY <1>6 DEF HelperExits, HelperDies
<1> QED
  BY <1>1, <1>2, <1>3, <1>4, <1>5, <1>6 DEF HelperContinues

\* What remains to be shown of a step of a client or its helper.
LEMMA OwnStep ==
  ASSUME HelperIInv, NEW s \in Clients, UNCHANGED vars \/ Moved(s) \/ Replaced(s),
         Personal(s), ClientTypes', Opens => Agreement(s)'
  PROVE  HelperIInv'
<1>0. s \in Sessions /\ SessionsInv
  BY ClientsAreSessions DEF HelperIInv
<1>1. CASE UNCHANGED vars
  <2>1. Apart /\ UNCHANGED crashes
    BY <1>0, <1>1 DEF Apart, vars, boundVars, SessionsInv, TypeOK
  <2> QED
    BY <2>1, ClientStep
<1>2. ASSUME Moved(s) \/ Replaced(s) PROVE HelperIInv'
  <2>1. SessionsInv'
    BY <1>0, <1>2, MovedSessions, ReplacedSessions
  <2>2. Opens' <=> Opens
    BY <1>2, MovedSettings, <1>0 DEF Opens, Replaced, boundVars
  <2>3. ASSUME NEW t \in Clients, t # s PROVE SameSession(t) /\ KeepsFiles(t)
    <3>0. t \in Sessions
      BY ClientsAreSessions
    <3>1. CASE Moved(s)
      BY <1>0, <2>3, <3>0, <3>1, MovedFiles
    <3>2. CASE Replaced(s)
      <4>1. Alone(s)
        BY <1>0, <3>2, ReplacedSessions
      <4> QED
        BY <2>3, <3>0, <3>2, <4>1 DEF Replaced, Alone, SameSession, KeepsFiles, diskVars,
           nameVars, boundVars
    <3> QED
      BY <1>2, <3>1, <3>2
  <2>4. ASSUME Opens, NEW t \in Clients, t # s PROVE Agreement(t)'
    BY <2>3, <2>4, Bystander DEF Personal, HelperIInv
  <2> QED
    BY <2>1, <2>2, <2>4 DEF HelperIInv
<1> QED
  BY <1>1, <1>2

\* The messages that the helper answers at once.
LEMMA AnswersAgree ==
  ASSUME SessionsInv, ClientTypes, Opens, NEW s \in Clients, Agreement(s), Still(s),
         UNCHANGED vars,
         \/ HelperRefuses(s) \/ HelperOpenFails(s) \/ HelperHasNone(s) \/ HelperLocks(s)
         \/ HelperCompares(s) /\ s \notin clientAccessed
         \/ HelperUnlocks(s) /\ s \notin locked
         \/ HelperReplies(s)
         \/ HelperExits(s) /\ pc[s] = "closed"
  PROVE  Agreement(s)'
<1> USE DEF clientVars, doorVars, copyVars, Still, SameSession, Agreement, Conversation,
            Place, Service, SharedLock, Faithful, Copies, ClientCopy, HelperCopy, Commits,
            LockedCopy, Claims, Comparing, Own, DetachedCopy, Detached, ClientTypes, Serving,
            Answer, Opens
<1>1. CASE HelperRefuses(s)
  BY <1>1 DEF HelperRefuses
<1>2. CASE HelperOpenFails(s) \/ HelperHasNone(s)
  BY <1>2 DEF HelperOpenFails, HelperHasNone
<1>3. CASE HelperLocks(s)
  BY <1>3 DEF HelperLocks
<1>4. CASE HelperCompares(s) /\ s \notin clientAccessed
  BY <1>4 DEF HelperCompares
<1>5. CASE HelperUnlocks(s) /\ s \notin locked
  BY <1>5 DEF HelperUnlocks
<1>6. CASE HelperReplies(s)
  BY <1>6 DEF HelperReplies
<1>7. CASE HelperExits(s) /\ pc[s] = "closed"
  BY <1>7 DEF HelperExits, talkVars
<1> QED
  BY <1>1, <1>2, <1>3, <1>4, <1>5, <1>6, <1>7

\* The messages that make the helper read the preferences.
LEMMA ReadsAgree ==
  ASSUME SessionsInv, ClientTypes, NEW s \in Clients, Agreement(s),
         SCPreferencesGetValue(s),
         \/ HelperAccesses(s)
         \/ HelperCompares(s) /\ s \in clientAccessed
         \/ HelperReplies(s) /\ command[s] = "commit" /\ s \in saved
  PROVE  Agreement(s)'
<1>0. /\ s \in Sessions /\ Copy(s) /\ Names /\ Resolve(path[s]) = newFile
      /\ signature \in [Sessions -> 0 .. fileInodes] /\ base \in [Sessions -> 0 .. fileInodes]
      /\ prefs \in [Sessions -> Documents]
  BY ClientsAreSessions DEF SessionsInv, FileInv, OneDirectory, Resolve, TypeOK
<1>1. /\ UNCHANGED <<newFile, tmpFile, fileInodes, data, setting, crashes, pc, op, locked,
                     wasLocked>>
      /\ s \in accessed' /\ pc[s] = "idle"
  BY DEF SCPreferencesGetValue, Cache, Access, diskVars, nameVars, lockVars, callVars,
     boundVars
<1>2. s \in accessed => /\ signature'[s] = signature[s] /\ base'[s] = base[s]
                        /\ prefs'[s] = prefs[s]
                        /\ s \in changed' <=> s \in changed
  BY <1>0 DEF SCPreferencesGetValue, Cache, Access, Loaded, StartsFresh
<1>3. s \notin accessed => /\ signature'[s] = newFile /\ base'[s] = newFile
                           /\ prefs'[s] = Content(newFile)
  BY <1>0 DEF SCPreferencesGetValue, Cache, Access, Loaded, Content, Names
<1>4. (\A i : Content(i)' = Content(i)) /\ (Holds(s)' <=> Holds(s))
  BY <1>1 DEF Content, Holds
<1>5. s \in accessed => (Saved(s)' <=> Saved(s))
  BY <1>1, <1>2 DEF Saved
<1>6. tmpFile # 0 => tmpFile \notin {signature'[s], base'[s]}
  BY <1>0, <1>2, <1>3 DEF Names
<1> USE DEF clientVars, doorVars, copyVars, Agreement, Conversation,
            Place, Service, SharedLock, Faithful, Copies, ClientCopy, HelperCopy, Commits,
            LockedCopy, Claims, Comparing, Own, DetachedCopy, Detached, ClientTypes, Serving,
            Answer
<1>7. CASE HelperAccesses(s)
  BY <1>0, <1>1, <1>2, <1>3, <1>4, <1>5, <1>7 DEF HelperAccesses
<1>8. CASE HelperCompares(s) /\ s \in clientAccessed
  <2>1. signature'[s] = newFile
    BY <1>1, <1>2, <1>3, <1>8 DEF HelperCompares
  <2>2. CASE signature'[s] = clientSignature[s]
    <3>1. clientBase[s] = newFile
      BY <1>8, <2>1, <2>2
    <3> QED
      BY <1>0, <1>1, <1>2, <1>3, <1>4, <1>5, <1>8, <2>2, <3>1 DEF HelperCompares
  <2>3. CASE signature'[s] # clientSignature[s]
    BY <1>0, <1>1, <1>2, <1>3, <1>4, <1>5, <1>8, <2>3 DEF HelperCompares
  <2> QED
    BY <2>2, <2>3
<1>9. CASE HelperReplies(s) /\ command[s] = "commit" /\ s \in saved
  BY <1>0, <1>1, <1>2, <1>3, <1>4, <1>5, <1>9 DEF HelperReplies
<1> QED
  BY <1>7, <1>8, <1>9

\* The messages for which the helper makes a call.
LEMMA BeginningsAgree ==
  ASSUME SessionsInv, ClientTypes, NEW s \in Clients, Agreement(s),
         \/ HelperOpens(s) \/ HelperDenies(s) \/ HelperWorks(s) \/ HelperReleases(s)
         \/ HelperLocks(s) /\ s \notin locked
         \/ HelperUnlocks(s) /\ s \in locked
  PROVE  Agreement(s)'
<1>0. /\ s \in Sessions /\ Copy(s) /\ Names
      /\ pc \in [Sessions -> Steps] /\ op \in [Sessions -> Operations]
      /\ s \in locked => pc[s] \in Inside \cup {"close"}
  BY ClientsAreSessions DEF SessionsInv, FileInv, TypeOK, Positions
<1> USE DEF Inside, Committing, Writing
<1>1. /\ UNCHANGED <<newFile, tmpFile, fileInodes, data, setting, crashes, locked,
                     cacheVars, clientVars, command, alive>>
      /\ s \in alive
  BY DEF HelperOpens, HelperDenies, HelperWorks, HelperReleases, HelperLocks,
     HelperUnlocks, Serving, Answer, talkVars, SCPreferencesCreate, SCPreferencesUnlock,
     SCPreferencesCommitChanges, SCPreferencesApplyChanges, SCPreferencesRelease, Acquire,
     WithLock, diskVars, nameVars, lockVars, boundVars
<1>2. (\A i : Content(i)' = Content(i)) /\ (Saved(s)' <=> Saved(s))
  BY <1>1 DEF Content, Saved, cacheVars
<1> USE DEF clientVars, doorVars, copyVars, cacheVars, Agreement, Conversation,
            Place, Service, SharedLock, Faithful, Copies, ClientCopy, HelperCopy, Commits,
            LockedCopy, Claims, Comparing, Own, DetachedCopy, Detached, ClientTypes, Serving,
            Answer, Begin, Goto, Holds
<1>3. CASE HelperOpens(s)
  <2>1. /\ pc'[s] \in {"create", "idle"} /\ UNCHANGED <<op, wasLocked, saved>>
        /\ command[s] = "open" /\ reply[s] = "sent" /\ reply'[s] = "running"
        /\ pc[s] = "closed"
    BY <1>0, <1>3 DEF HelperOpens, SCPreferencesCreate
  <2> QED
    BY <1>0, <1>1, <1>2, <2>1
<1>4. CASE HelperDenies(s)
  <2>1. /\ pc'[s] = "unlock" /\ op'[s] = "unlock" /\ UNCHANGED <<wasLocked, saved, reply>>
        /\ reply[s] = "denying" /\ pc[s] = "idle" /\ s \in locked
    BY <1>0, <1>4 DEF HelperDenies, SCPreferencesUnlock, talkVars
  <2> QED
    BY <1>0, <1>1, <1>2, <2>1
<1>5. CASE HelperReleases(s)
  <2>1. /\ pc'[s] = "unlock" /\ op'[s] = "release" /\ UNCHANGED <<wasLocked, saved, reply>>
        /\ reply[s] \in {"none", "ok", "error"} /\ pc[s] = "idle" /\ s \notin clientOpen
    BY <1>0, <1>5 DEF HelperReleases, SCPreferencesRelease, talkVars
  <2> QED
    BY <1>0, <1>1, <1>2, <2>1
<1>6. CASE HelperLocks(s) /\ s \notin locked
  <2>1. /\ pc'[s] = "open" /\ op'[s] = command[s] /\ UNCHANGED <<wasLocked, saved>>
        /\ command[s] \in {"lock", "trylock"}
        /\ reply[s] = "sent" /\ reply'[s] = "running" /\ pc[s] = "idle"
    BY <1>0, <1>6 DEF HelperLocks, Acquire
  <2> QED
    BY <1>0, <1>1, <1>2, <1>6, <2>1
<1>7. CASE HelperUnlocks(s) /\ s \in locked
  <2>1. /\ pc'[s] = "unlock" /\ op'[s] = "unlock" /\ UNCHANGED <<wasLocked, saved>>
        /\ command[s] = "unlock"
        /\ reply[s] = "sent" /\ reply'[s] = "running" /\ pc[s] = "idle"
    BY <1>0, <1>7 DEF HelperUnlocks, SCPreferencesUnlock
  <2> QED
    BY <1>0, <1>1, <1>2, <1>7, <2>1
<1>8. CASE HelperWorks(s)
  <2>1. /\ command[s] \in {"commit", "apply"} /\ op'[s] = command[s] /\ s \notin saved'
        /\ reply[s] \in {"sent", "loaded"} /\ reply'[s] = "running" /\ pc[s] = "idle"
        /\ reply[s] = "sent" /\ command[s] = "commit" => s \notin clientChanged
        /\ s \in locked => /\ s \in wasLocked'
                           /\ pc'[s] = IF command[s] = "commit" THEN "commit" ELSE "notify"
        /\ s \notin locked => pc'[s] = "open" /\ s \notin wasLocked'
    BY <1>0, <1>8 DEF HelperWorks, SCPreferencesCommitChanges, SCPreferencesApplyChanges,
       Acquire, WithLock
  <2> QED
    BY <1>0, <1>1, <1>2, <2>1
<1> QED
  BY <1>3, <1>4, <1>5, <1>6, <1>7, <1>8

\* The copy of the client, or none, in place of the helper's.
LEMMA CopyingAgrees ==
  ASSUME SessionsInv, ClientTypes, NEW s \in Clients, Agreement(s),
         HelperLoads(s) \/ HelperSynchronizes(s)
  PROVE  Agreement(s)'
<1>0. /\ s \in Sessions /\ Copy(s) /\ Names
      /\ signature \in [Sessions -> 0 .. fileInodes] /\ base \in [Sessions -> 0 .. fileInodes]
      /\ prefs \in [Sessions -> Documents]
  BY ClientsAreSessions DEF SessionsInv, FileInv, TypeOK
<1>1. /\ UNCHANGED <<newFile, tmpFile, fileInodes, data, setting, crashes, locked, pc, op,
                     wasLocked, clientVars, command, alive, saved>>
      /\ s \in alive
  BY DEF HelperLoads, HelperSynchronizes, Serving, Answer, SCPreferencesSynchronize,
     diskVars, nameVars, lockVars, callVars, boundVars
<1>2. (\A i : Content(i)' = Content(i)) /\ (Holds(s)' <=> Holds(s))
  BY <1>1 DEF Content, Holds
<1> USE DEF clientVars, doorVars, copyVars, Agreement, Conversation,
            Place, Service, SharedLock, Faithful, Copies, ClientCopy, HelperCopy, Commits,
            LockedCopy, Claims, Comparing, Own, DetachedCopy, Detached, ClientTypes, Serving,
            Answer
<1>3. CASE HelperLoads(s)
  BY <1>0, <1>1, <1>2, <1>3 DEF HelperLoads
<1>4. CASE HelperSynchronizes(s)
  BY <1>0, <1>1, <1>2, <1>4 DEF HelperSynchronizes, SCPreferencesSynchronize
<1> QED
  BY <1>3, <1>4

\* The helper ends.
LEMMA EndingsAgree ==
  ASSUME SessionsInv, ClientTypes, NEW s \in Clients, Agreement(s),
         \/ HelperExits(s) /\ pc[s] = "idle"
         \/ HelperDies(s)
  PROVE  Agreement(s)'
<1>0. s \in Sessions /\ TypeOK
  BY ClientsAreSessions DEF SessionsInv
<1>1. /\ UNCHANGED <<newFile, tmpFile, fileInodes, data, setting, clientVars, command, reply>>
      /\ s \in alive /\ s \notin alive'
      /\ crashes' = 0 => crashes = 0 /\ HelperExits(s)
  BY <1>0 DEF HelperExits, HelperDies, Die, Vanish, talkVars, boundVars, diskVars, nameVars,
     TypeOK
<1>2. /\ pc'[s] = "closed" /\ op'[s] = "none" /\ s \notin wasLocked' \cup locked' \cup accessed'
  BY <1>0 DEF HelperExits, HelperDies, Die, Vanish, Forget, Finish, Goto, TypeOK
<1>3. \A i : Content(i)' = Content(i)
  BY <1>1 DEF Content
<1> USE DEF clientVars, doorVars, copyVars, Agreement, Conversation,
            Place, Copies, ClientCopy, ClientTypes
<1>4. CASE HelperExits(s)
  BY <1>1, <1>2, <1>3, <1>4 DEF HelperExits
<1>5. CASE HelperDies(s) /\ ~HelperExits(s)
  BY <1>1, <1>2, <1>3, <1>5 DEF HelperDies
<1> QED
  BY <1>4, <1>5

\* The steps of a call that leave the files and the helper's copy alone.
LEMMA WaitingAgrees ==
  ASSUME SessionsInv, ClientTypes, NEW s \in Clients, Agreement(s), HelperRuns(s),
         UNCHANGED <<newFile, tmpFile, fileInodes, data, cacheVars, saved>>,
         \/ CreateOld(s) \/ LockOpen(s) \/ LockOpenFails(s) \/ LockGranted(s) \/ LockBusy(s)
         \/ LockCheck(s) \/ LockFresh(s) \/ LockStale(s) \/ UnlockUnlink(s)
         \/ UnlockClose(s) /\ op[s] # "release"
         \/ CommitOpen(s) /\ s \notin changed
         \/ CommitOpenFails(s) \/ CommitRenameFails(s) \/ CommitSignFails(s)
         \/ NotifyFails(s)
  PROVE  Agreement(s)'
<1>0. /\ s \in Sessions /\ Copy(s) /\ Progress(s) /\ Names /\ Resolve(path[s]) = newFile
      /\ pc \in [Sessions -> Steps] /\ op \in [Sessions -> Operations]
      /\ s \in locked => pc[s] \in Inside \cup {"close"}
      /\ pc[s] \in Committing => s \in locked
  BY ClientsAreSessions DEF SessionsInv, FileInv, TypeOK, Positions, OneDirectory, Resolve
<1>1. /\ UNCHANGED <<clientVars, command, reply, alive, setting, crashes>>
      /\ s \in alive 
  BY DEF HelperRuns, talkVars, clientVars, doorVars, copyVars, CreateOld, LockOpen,
     LockOpenFails, LockGranted, LockBusy, LockCheck, LockFresh, LockStale, UnlockUnlink,
     UnlockClose, CommitOpen, CommitOpenFails, CommitRenameFails, CommitSignFails,
     NotifyFails, boundVars
<1>2. (\A i : Content(i)' = Content(i)) /\ (Saved(s)' <=> Saved(s))
  BY DEF Content, Saved, cacheVars
<1> USE DEF clientVars, doorVars, copyVars, cacheVars, Agreement, Conversation,
            Place, Service, SharedLock, Faithful, Copies, ClientCopy, HelperCopy, Commits,
            LockedCopy, Claims, Comparing, Own, DetachedCopy, Detached, ClientTypes,
            Finish, Goto, Holds, Inside, Committing, Writing
<1>3. CASE CreateOld(s)
  BY <1>0, <1>1, <1>2, <1>3 DEF CreateOld, lockVars
<1>4. CASE LockOpen(s) \/ LockOpenFails(s) \/ LockGranted(s) \/ LockBusy(s) \/ LockCheck(s)
  <2>1. /\ pc[s] \in {"open", "flock", "check"} /\ UNCHANGED <<locked, saved>>
        /\ \/ /\ pc'[s] \in {"open", "flock", "check", "stale"} /\ UNCHANGED <<op, wasLocked>>
           \/ pc'[s] = "idle" /\ op'[s] = "none" /\ wasLocked' = wasLocked \ {s}
    BY <1>0, <1>1, <1>4 DEF LockOpen, LockOpenFails, LockGranted, LockBusy, LockCheck,
       lockVars, callVars
  <2> QED
    BY <1>0, <1>1, <1>2, <2>1
<1>5. CASE LockFresh(s)
  <2>1. /\ pc[s] = "stale" /\ s \in locked' /\ UNCHANGED saved
        /\ s \in accessed => signature[s] = newFile
        /\ op[s] \in {"commit", "apply"} =>
             /\ pc'[s] = IF op[s] = "commit" THEN "commit" ELSE "notify"
             /\ UNCHANGED <<op, wasLocked>>
        /\ op[s] \notin {"commit", "apply"} =>
             pc'[s] = "idle" /\ op'[s] = "none" /\ s \notin wasLocked'
    BY <1>0, <1>1, <1>5 DEF LockFresh, Resume
  <2>2. s \in accessed => base[s] = newFile
    BY <1>0, <2>1 DEF Copy
  <2>3. CASE op[s] \in {"commit", "apply"}
    <3>1. /\ command[s] = op[s] /\ reply[s] = "running" /\ ~Faithful /\ s \notin locked
          /\ s \notin wasLocked
      BY <1>0, <1>1, <2>1, <2>3
    <3>2. Conversation(s)' /\ Place(s)' /\ Service(s)' /\ SharedLock(s)'
      BY <1>0, <1>1, <2>1, <2>3, <3>1
    <3> QED
      BY <1>0, <1>1, <1>2, <2>1, <2>2, <2>3, <3>1, <3>2
  <2>4. CASE op[s] \notin {"commit", "apply"}
    <3>1. command[s] \in {"lock", "trylock"} /\ reply[s] = "running"
      BY <1>0, <1>1, <2>1, <2>4
    <3>2. Conversation(s)' /\ Place(s)' /\ Service(s)' /\ SharedLock(s)'
      BY <1>0, <1>1, <2>1, <2>4, <3>1
    <3> QED
      BY <1>0, <1>1, <1>2, <2>1, <2>2, <2>4, <3>1, <3>2
  <2> QED
    BY <2>3, <2>4
<1>6. CASE LockStale(s) \/ UnlockUnlink(s)
  <2>1. /\ pc[s] \in {"stale", "unlock"} /\ pc'[s] = "close"
        /\ UNCHANGED <<op, wasLocked, locked, saved>>
    BY <1>0, <1>1, <1>6 DEF LockStale, UnlockUnlink
  <2> QED
    BY <1>0, <1>1, <1>2, <2>1
<1>7. CASE UnlockClose(s) /\ op[s] # "release"
  <2>1. /\ pc[s] = "close" /\ s \notin locked' \cup wasLocked' /\ op'[s] = "none"
        /\ pc'[s] = "idle" /\ UNCHANGED saved
    BY <1>0, <1>1, <1>7 DEF UnlockClose
  <2> QED
    BY <1>0, <1>1, <1>2, <1>7, <2>1
<1>8. CASE CommitOpen(s) /\ s \notin changed
  <2>1. /\ pc[s] = "commit" /\ pc'[s] = "notify" /\ s \notin changed
        /\ UNCHANGED <<op, wasLocked, locked, saved>>
    BY <1>0, <1>1, <1>8 DEF CommitOpen, lockVars
  <2>2. command[s] = "commit" /\ reply[s] = "running" /\ op[s] = "commit"
    BY <1>0, <1>1, <2>1
  <2>3. Conversation(s)' /\ Place(s)' /\ Service(s)' /\ SharedLock(s)'
    BY <1>0, <1>1, <2>1, <2>2
  <2>4. s \in clientChanged => Saved(s) /\ signature[s] = clientBase[s]
    BY <1>0, <1>1, <2>1, <2>2
  <2> QED
    BY <1>0, <1>1, <1>2, <2>1, <2>2, <2>3, <2>4
<1>9. CASE \/ CommitOpenFails(s) \/ CommitRenameFails(s) \/ CommitSignFails(s)
           \/ NotifyFails(s)
  <2>1. /\ pc[s] \in {"commit", "rename", "resign", "notify"} /\ UNCHANGED <<locked, saved>>
        /\ s \in wasLocked => pc'[s] = "idle" /\ op'[s] = "none" /\ s \notin wasLocked'
        /\ s \notin wasLocked => pc'[s] = "unlock" /\ UNCHANGED <<op, wasLocked>>
    BY <1>0, <1>1, <1>9 DEF CommitOpenFails, CommitRenameFails, CommitSignFails,
       NotifyFails, Done, lockVars
  <2> QED
    BY <1>0, <1>1, <1>2, <2>1
<1> QED
  BY <1>3, <1>4, <1>5, <1>6, <1>7, <1>8, <1>9

\* The steps of a commit that work on the files, and those that change the helper's
\* copy.
LEMMA CommittingAgrees ==
  ASSUME SessionsInv, ClientTypes, NEW s \in Clients, Agreement(s), HelperRuns(s),
         \/ CommitOpen(s) /\ s \in changed
         \/ CommitWrite(s) \/ CommitWriteFails(s) \/ CommitRename(s) \/ CommitSign(s)
  PROVE  Agreement(s)'
<1>0. /\ s \in Sessions /\ Copy(s) /\ Progress(s) /\ Names /\ path[s] = "new"
      /\ pc \in [Sessions -> Steps] /\ op \in [Sessions -> Operations]
      /\ signature \in [Sessions -> 0 .. fileInodes] /\ base \in [Sessions -> 0 .. fileInodes]
      /\ prefs \in [Sessions -> Documents]
      /\ fileInodes \in Nat /\ tmpFile \in 0 .. fileInodes /\ newFile \in 0 .. fileInodes
      /\ data \in [1 .. fileInodes -> {Partial} \cup Documents]
      /\ pc[s] \in Committing => s \in locked
  BY ClientsAreSessions DEF SessionsInv, FileInv, TypeOK, Positions, OneDirectory
<1> USE DEF Committing, Writing
<1>1. /\ pc[s] \in {"commit", "write", "rename", "resign"} /\ s \in changed \cap accessed
      /\ s \in locked /\ s \in alive
      /\ pc[s] \in {"write", "rename"} => tmpFile # 0 /\ tfd[s] = tmpFile
  BY <1>0 DEF CommitOpen, CommitWrite, CommitWriteFails, CommitRename, CommitSign, Progress,
     Copy, HelperRuns
<1>2. UNCHANGED <<locked, accessed, changed, prefs, setting, crashes, doorVars,
                  clientAccessed, clientChanged, clientSignature, clientPrefs, command,
                  reply, alive>>
  BY DEF CommitOpen, CommitWrite, CommitWriteFails, CommitRename, CommitSign, HelperRuns,
     lockVars, cacheVars, boundVars, talkVars
<1>3. \A i \in {signature[s], clientSignature[s], clientBase[s]} :
        i \in 0 .. fileInodes /\ (tmpFile # 0 => i # tmpFile)
  BY <1>0 DEF Names, ClientTypes, Agreement, Copies, ClientCopy
<1>4. \A i \in 1 .. fileInodes : data'[i] = data[i] \/ i = tmpFile
  <2>1. CASE CommitOpen(s) /\ s \in changed
    BY <1>0, <2>1 DEF CommitOpen, TmpInode
  <2>2. CASE CommitWrite(s)
    BY <1>0, <1>1, <2>2 DEF CommitWrite
  <2>3. CASE CommitWriteFails(s) \/ CommitRename(s) \/ CommitSign(s)
    BY <2>3 DEF CommitWriteFails, CommitRename, CommitSign, diskVars
  <2> QED
    BY <2>1, <2>2, <2>3
<1>5. \A i \in {signature[s], clientSignature[s], clientBase[s]} :
        /\ i # 0 => data'[i] = data[i]
        /\ Content(i)' = Content(i)
  <2> SUFFICES ASSUME NEW i \in {signature[s], clientSignature[s], clientBase[s]}
               PROVE  i # 0 => data'[i] = data[i]
    BY DEF Content
  <2> QED
    BY <1>0, <1>3, <1>4
<1>6. /\ command[s] = "commit" /\ reply[s] = "running" /\ op[s] = "commit"
      /\ s \notin saved
      /\ s \notin wasLocked => ~Faithful
  BY <1>1 DEF Agreement, Service, SharedLock, ClientTypes
<1> USE DEF doorVars, Agreement, Conversation,
            Place, Service, SharedLock, Faithful, Copies, ClientCopy, HelperCopy, Commits,
            LockedCopy, Claims, Comparing, Own, DetachedCopy, Detached, ClientTypes, Holds
<1>7. CASE CommitOpen(s) \/ CommitWrite(s)
  <2>1. /\ pc'[s] \in {"write", "rename"}
        /\ UNCHANGED <<op, wasLocked, signature, base, newFile, clientBase, saved>>
        /\ tmpFile' \in {tmpFile, fileInodes + 1} /\ pc[s] \in {"commit", "write"}
    BY <1>0, <1>1, <1>6, <1>7 DEF CommitOpen, CommitWrite, HelperRuns, Goto, TmpInode, Notify,
       cacheVars, nameVars
  <2>2. tmpFile' \notin {clientSignature[s], clientBase[s]} \/ tmpFile' = 0
    BY <1>0, <1>3, <2>1
  <2> QED
    BY <1>0, <1>1, <1>2, <1>5, <1>6, <2>1, <2>2
<1>8. CASE CommitWriteFails(s)
  <2>1. /\ UNCHANGED <<data, signature, base, newFile, clientBase, saved>>
        /\ tmpFile' \in {tmpFile, 0} /\ pc[s] = "write"
        /\ s \in wasLocked => pc'[s] = "idle" /\ op'[s] = "none" /\ s \notin wasLocked'
        /\ s \notin wasLocked => pc'[s] = "unlock" /\ UNCHANGED <<op, wasLocked>>
    BY <1>0, <1>8 DEF CommitWriteFails, HelperRuns, Done, Finish, Goto, cacheVars, Notify
  <2> QED
    BY <1>0, <1>1, <1>2, <1>5, <1>6, <2>1
<1>9. CASE CommitRename(s)
  <2>1. /\ newFile' = tmpFile /\ tmpFile # 0 /\ tmpFile' = 0 /\ base'[s] = tmpFile
        /\ clientBase'[s] = tmpFile /\ pc'[s] = "resign" /\ pc[s] = "rename"
        /\ UNCHANGED <<data, op, wasLocked, signature, saved>>
    BY <1>0, <1>9 DEF CommitRename, HelperRuns, Names, Goto, Notify
  <2>2. tmpFile # clientSignature[s]
    BY <1>3, <2>1
  <2> QED
    BY <1>0, <1>1, <1>2, <1>5, <1>6, <2>1, <2>2
<1>10. CASE CommitSign(s)
  <2>1. /\ UNCHANGED <<data, newFile, tmpFile, base, op, wasLocked, saved, clientBase>>
        /\ signature'[s] = newFile /\ pc'[s] = "notify" /\ pc[s] = "resign"
    BY <1>0, <1>10 DEF CommitSign, HelperRuns, Goto, Notify, diskVars, nameVars
  <2>2. newFile # 0 /\ prefs[s] = data[newFile] /\ base[s] = newFile
    BY <1>0, <2>1 DEF Progress
  <2>3. Saved(s)' /\ prefs[s] = Content(newFile)'
    BY <1>2, <1>5, <2>1, <2>2 DEF Saved, Content
  <2> QED
    BY <1>0, <1>1, <1>2, <1>5, <1>6, <2>1, <2>2, <2>3
<1> QED
  BY <1>7, <1>8, <1>9, <1>10

\* The last step of a commit, and that of a release.
LEMMA ReturnsAgree ==
  ASSUME SessionsInv, ClientTypes, NEW s \in Clients, Agreement(s), HelperRuns(s),
         \/ Notify(s) /\ saved' = saved \cup {s}
         \/ UnlockClose(s) /\ op[s] = "release" /\ saved' = saved
  PROVE  Agreement(s)'
<1>0. /\ s \in Sessions /\ Copy(s) /\ Progress(s) /\ TypeOK
      /\ pc[s] \in Committing => s \in locked
  BY ClientsAreSessions DEF SessionsInv, FileInv, Positions
<1>1. /\ UNCHANGED <<newFile, tmpFile, fileInodes, data, setting, crashes, clientVars,
                     command, reply, alive>>
      /\ s \in alive
  BY DEF HelperRuns, talkVars, clientVars, copyVars, Notify, UnlockClose, boundVars,
     diskVars, nameVars
<1>2. \A i : Content(i)' = Content(i)
  BY <1>1 DEF Content
<1> USE DEF clientVars, doorVars, copyVars, Agreement, Conversation,
            Place, Service, SharedLock, Faithful, Copies, ClientCopy, HelperCopy, Commits,
            LockedCopy, Claims, Comparing, Own, DetachedCopy, Detached, ClientTypes, Holds,
            Committing, Writing
<1>3. CASE Notify(s) /\ saved' = saved \cup {s}
  <2>1. /\ pc[s] = "notify" /\ s \in locked /\ s \in saved'
        /\ UNCHANGED <<locked, accessed, signature, prefs, base>>
        /\ s \in wasLocked => pc'[s] = "idle" /\ op'[s] = "none" /\ s \notin wasLocked'
        /\ s \notin wasLocked => pc'[s] = "unlock" /\ UNCHANGED <<op, wasLocked>>
    BY <1>0, <1>3 DEF Notify, Done, Finish, Goto, lockVars, TypeOK
  <2>2. Saved(s)' <=> Saved(s)
    BY <1>1, <2>1 DEF Saved
  <2>3. command[s] \in {"commit", "apply"} /\ reply[s] = "running" /\ op[s] = command[s]
    BY <1>1, <2>1
  <2> QED
    BY <1>0, <1>1, <1>2, <2>1, <2>2, <2>3
<1>4. CASE UnlockClose(s) /\ op[s] = "release" /\ saved' = saved
  <2>1. /\ pc[s] = "close" /\ pc'[s] = "closed" /\ op'[s] = "none"
        /\ s \notin locked' \cup wasLocked' \cup accessed'
    BY <1>0, <1>4 DEF UnlockClose, Finish, Goto, Forget, TypeOK
  <2>2. s \notin clientOpen /\ reply[s] \in {"none", "ok", "error"}
    BY <1>1, <1>4, <2>1
  <2> QED
    BY <1>0, <1>1, <1>2, <1>4, <2>1, <2>2
<1> QED
  BY <1>3, <1>4

LEMMA RunsAgree ==
  ASSUME SessionsInv, ClientTypes, NEW s \in Clients, Agreement(s), HelperRuns(s)
  PROVE  Agreement(s)'
<1> USE DEF diskVars, nameVars
<1>0. s \in Sessions /\ ~RetireOld(s) /\ ~LinkOld(s)
  BY ClientsAreSessions, NoMigration
<1>1. CASE Notify(s) /\ saved' = saved \cup {s}
  BY <1>1, ReturnsAgree
<1>2. CASE Proceed(s) /\ saved' = saved
  <2>1. CASE \/ CreateOld(s) \/ LockOpen(s) \/ LockOpenFails(s) \/ LockGranted(s)
             \/ LockBusy(s) \/ LockCheck(s) \/ LockFresh(s) \/ LockStale(s)
             \/ UnlockUnlink(s)
             \/ UnlockClose(s) /\ op[s] # "release"
             \/ CommitOpen(s) /\ s \notin changed
             \/ CommitOpenFails(s) \/ CommitRenameFails(s) \/ CommitSignFails(s)
             \/ NotifyFails(s)
    <3>1. UNCHANGED <<newFile, tmpFile, fileInodes, data, cacheVars, saved>>
      BY <1>2, <2>1 DEF CreateOld, LockOpen, LockOpenFails, LockGranted, LockBusy, LockCheck,
         LockFresh, LockStale, UnlockUnlink, UnlockClose, CommitOpen, CommitOpenFails,
         CommitRenameFails, CommitSignFails, NotifyFails
    <3> QED
      BY <2>1, <3>1, WaitingAgrees
  <2>2. CASE \/ CommitOpen(s) /\ s \in changed
             \/ CommitWrite(s) \/ CommitWriteFails(s) \/ CommitRename(s) \/ CommitSign(s)
    BY <2>2, CommittingAgrees
  <2>3. CASE UnlockClose(s) /\ op[s] = "release"
    BY <1>2, <2>3, ReturnsAgree
  <2> QED
    BY <1>0, <1>2, <2>1, <2>2, <2>3 DEF Proceed
<1> QED
  BY <1>1, <1>2 DEF HelperRuns

\* A step of the helper.
LEMMA HelpersAgree ==
  ASSUME SessionsInv, ClientTypes, Opens, NEW s \in Clients, Agreement(s),
         HelperContinues(s) \/ HelperDies(s)
  PROVE  Agreement(s)'
<1>0. s \in Sessions
  BY ClientsAreSessions
<1>1. ASSUME UNCHANGED vars PROVE Still(s)
  <2>1. Apart /\ UNCHANGED crashes
    BY <1>1 DEF Apart, vars, boundVars, SessionsInv, TypeOK
  <2> QED
    BY <1>0, <2>1, ApartStill
<1>2. CASE HelperRefuses(s) \/ HelperOpenFails(s) \/ HelperHasNone(s)
  <2>1. UNCHANGED vars
    BY <1>2 DEF HelperRefuses, HelperOpenFails, HelperHasNone
  <2> QED
    BY <1>1, <1>2, <2>1, AnswersAgree
<1>3. CASE HelperLocks(s)
  <2>1. s \in locked => UNCHANGED vars
    BY <1>3 DEF HelperLocks
  <2> QED
    BY <1>1, <1>3, <2>1, AnswersAgree, BeginningsAgree
<1>4. CASE HelperCompares(s)
  <2>1. s \notin clientAccessed => UNCHANGED vars
    BY <1>4 DEF HelperCompares
  <2>2. s \in clientAccessed => SCPreferencesGetValue(s)
    BY <1>4 DEF HelperCompares
  <2> QED
    BY <1>1, <1>4, <2>1, <2>2, AnswersAgree, ReadsAgree
<1>5. CASE HelperUnlocks(s)
  <2>1. s \notin locked => UNCHANGED vars
    BY <1>5 DEF HelperUnlocks
  <2> QED
    BY <1>1, <1>5, <2>1, AnswersAgree, BeginningsAgree
<1>6. CASE HelperOpens(s) \/ HelperDenies(s) \/ HelperWorks(s) \/ HelperReleases(s)
  BY <1>6, BeginningsAgree
<1>7. CASE HelperLoads(s) \/ HelperSynchronizes(s)
  BY <1>7, CopyingAgrees
<1>8. CASE HelperAccesses(s)
  <2>1. SCPreferencesGetValue(s)
    BY <1>8 DEF HelperAccesses
  <2> QED
    BY <1>8, <2>1, ReadsAgree
<1>9. CASE HelperReplies(s)
  <2>1. UNCHANGED vars \/ (command[s] = "commit" /\ s \in saved /\ SCPreferencesGetValue(s))
    BY <1>9 DEF HelperReplies
  <2> QED
    BY <1>1, <1>9, <2>1, AnswersAgree, ReadsAgree
<1>10. CASE HelperExits(s)
  <2>1. \/ pc[s] = "closed" /\ UNCHANGED vars
        \/ pc[s] = "idle"
    BY <1>10 DEF HelperExits
  <2> QED
    BY <1>1, <1>10, <2>1, AnswersAgree, EndingsAgree
<1>11. CASE HelperDies(s)
  BY <1>11, EndingsAgree
<1>12. CASE HelperRuns(s)
  BY <1>12, RunsAgree
<1> QED
  BY <1>2, <1>3, <1>4, <1>5, <1>6, <1>7, <1>8, <1>9, <1>10, <1>11, <1>12
     DEF HelperContinues

-----------------------------------------------------------------------------
(* The types of the clients' variables, and whose they are. *)

Talk == {"none", "sent", "loaded", "running", "denying", "ok", "error"}

DoorTypes ==
  /\ clientOpen \subseteq Clients /\ helper \subseteq Clients
  /\ clientLocked \subseteq Clients /\ clientWasLocked \subseteq Clients
  /\ request \in [Clients -> Messages]

CopyTypes ==
  /\ clientAccessed \subseteq Clients /\ clientChanged \subseteq Clients
  /\ clientSignature \in [Clients -> 0 .. fileInodes]
  /\ clientPrefs \in [Clients -> Documents]
  /\ clientBase \in [Clients -> 0 .. fileInodes]

TalkTypes ==
  /\ command \in [Clients -> Messages] /\ reply \in [Clients -> Talk]
  /\ alive \subseteq Clients /\ saved \subseteq Clients

LEMMA ClientTypesParts ==
  /\ ClientTypes <=> DoorTypes /\ CopyTypes /\ TalkTypes
  /\ ClientTypes' <=> DoorTypes' /\ CopyTypes' /\ TalkTypes'
BY DEF ClientTypes, DoorTypes, CopyTypes, TalkTypes, Talk

DoorsKept(s) == DoorTypes' /\ \A t \in Clients \ {s} : SameDoor(t)
CopiesKept(s) == CopyTypes' /\ \A t \in Clients \ {s} : SameCopy(t)
TalksKept(s) == TalkTypes' /\ \A t \in Clients \ {s} : SameTalk(t)

\* No file loses its number.
LEMMA InodesStay ==
  ASSUME SessionsInv, NEW s \in Sessions, Moved(s)
  PROVE  fileInodes' \in Nat /\ fileInodes <= fileInodes'
<1>1. TypeOK /\ Positions
  BY DEF SessionsInv
<1>2. OfKind(s) /\ TypeOK'
  BY <1>1, MovedKinds, MovedTypes
<1>3. fileInodes' \in {fileInodes, fileInodes + 1}
  BY <1>2, NoMigration DEF OfKind, Quiet, Dropping, Reading, Cache, AccessFails, CreateOld,
     CommitOpen, CommitWrite, CommitRename, CommitSign, Notify, diskVars
<1> QED
  BY <1>1, <1>2, <1>3 DEF TypeOK

LEMMA ClientsKeepTypes ==
  ASSUME SessionsInv, ClientTypes, NEW s \in Clients, UNCHANGED fileInodes,
         ClientCalls(s) \/ ClientDies(s) \/ ClientContinues(s)
  PROVE  ClientTypes' /\ Personal(s)
<1>0. DoorTypes /\ CopyTypes /\ TalkTypes
  BY ClientTypesParts
<1>a. /\ s \in Sessions /\ setting \in Settings
      /\ fileInodes \in Nat /\ newFile \in 0 .. fileInodes
      /\ data \in [1 .. fileInodes -> {Partial} \cup Documents]
      /\ signature[s] \in 0 .. fileInodes /\ base[s] \in 0 .. fileInodes
      /\ prefs[s] \in Documents
  BY ClientsAreSessions DEF SessionsInv, TypeOK
<1>b. request[s] \in Messages /\ FirstMessage(request[s]) \in Messages
  BY <1>0 DEF DoorTypes, FirstMessage, Messages
<1>c. /\ UNCHANGED doorVars => DoorsKept(s)
      /\ UNCHANGED copyVars => CopiesKept(s)
      /\ UNCHANGED <<talkVars, alive, saved>> => TalksKept(s)
  BY <1>0 DEF DoorsKept, CopiesKept, TalksKept, DoorTypes, CopyTypes, TalkTypes, SameDoor,
     SameCopy, SameTalk, doorVars, copyVars, talkVars
<1>d. /\ DropCopy(s) => CopiesKept(s)
      /\ StartEmpty(s) => CopiesKept(s)
  <2>1. {} \in Documents /\ 0 \in 0 .. fileInodes
    BY <1>a DEF Documents
  <2>2. ASSUME DropCopy(s) \/ StartEmpty(s) PROVE CopiesKept(s)
    <3>1. CopyTypes'
      BY <1>0, <2>1, <2>2 DEF DropCopy, StartEmpty, CopyTypes
    <3>2. \A t \in Clients \ {s} : SameCopy(t)
      BY <1>0, <2>2 DEF DropCopy, StartEmpty, CopyTypes, SameCopy
    <3> QED
      BY <3>1, <3>2 DEF CopiesKept
  <2> QED
    BY <2>2
<1> USE DEF doorVars, talkVars
<1> SUFFICES DoorsKept(s) /\ CopiesKept(s) /\ TalksKept(s)
  BY ClientTypesParts DEF Personal, DoorsKept, CopiesKept, TalksKept
<1>1. CASE ClientCreate(s)
  <2>1. DoorsKept(s) /\ TalksKept(s)
    BY <1>0, <1>1 DEF ClientCreate, DoorsKept, TalksKept, DoorTypes, TalkTypes, SameDoor,
       SameTalk, Talk, Messages
  <2> QED
    BY <1>1, <1>d, <2>1 DEF ClientCreate
<1>2. CASE ClientReads(s)
  <2>1. CopiesKept(s)
    <3>1. newFile = 0 \/ data[newFile] = Partial \/ data[newFile] \in Documents
      BY <1>a
    <3>2. clientPrefs' \in [Clients -> Documents]
      BY <1>0, <1>2, <3>1 DEF ClientReads, CopyTypes, Documents
    <3> QED
      BY <1>0, <1>2, <1>a, <3>2 DEF ClientReads, CopiesKept, CopyTypes, SameCopy
  <2> QED
    BY <1>2, <1>c, <2>1 DEF ClientReads
<1>3. CASE ClientEdits(s)
  <2>1. CopiesKept(s)
    <3>1. setting.keys \subseteq Keys
      BY <1>a, PreferencesAssumption
    <3>2. clientPrefs' \in [Clients -> Documents] /\ \A t \in Clients \ {s} :
             clientPrefs'[t] = clientPrefs[t]
      BY <1>0, <1>3, <3>1 DEF ClientEdits, CopyTypes, Documents
    <3> QED
      BY <1>0, <1>3, <3>2 DEF ClientEdits, CopiesKept, CopyTypes, SameCopy
  <2> QED
    BY <1>3, <1>c, <2>1 DEF ClientEdits
<1>4. ASSUME NEW r \in {"lock", "trylock", "commit", "apply", "access"}, ClientAsks(s, r)
      PROVE  DoorsKept(s) /\ CopiesKept(s) /\ TalksKept(s)
  <2>1. FirstMessage(r) \in Messages /\ r \in Messages
    BY DEF FirstMessage, Messages
  <2>2. DoorsKept(s)
    BY <1>0, <1>4, <2>1 DEF ClientAsks, Ask, DoorsKept, DoorTypes, SameDoor
  <2>3. TalksKept(s)
    BY <1>0, <1>4, <2>1 DEF ClientAsks, Ask, Send, TalksKept, TalkTypes, SameTalk, Talk,
       Messages
  <2> QED
    BY <1>4, <1>c, <2>2, <2>3 DEF ClientAsks
<1>5. ASSUME NEW r \in {"commit", "apply"}, ClientHasLock(s, r)
      PROVE  DoorsKept(s) /\ CopiesKept(s) /\ TalksKept(s)
  <2>1. DoorsKept(s)
    BY <1>0, <1>5 DEF ClientHasLock, DoorsKept, DoorTypes, SameDoor, Messages
  <2>2. TalksKept(s)
    BY <1>0, <1>5 DEF ClientHasLock, Send, TalksKept, TalkTypes, SameTalk, Talk, Messages
  <2> QED
    BY <1>5, <1>c, <2>1, <2>2 DEF ClientHasLock
<1>6. CASE ClientUnlocks(s)
  BY <1>0, <1>6, <1>c DEF ClientUnlocks, Send, DoorsKept, DoorTypes, SameDoor, TalksKept,
     TalkTypes, SameTalk, Talk, Messages
<1>7. CASE ClientSynchronizes(s)
  <2>1. DoorsKept(s)
    BY <1>0, <1>7 DEF ClientSynchronizes, DoorsKept, DoorTypes, SameDoor, Messages
  <2>2. TalksKept(s)
    BY <1>0, <1>7 DEF ClientSynchronizes, Send, TalksKept, TalkTypes, SameTalk, Talk,
       Messages
  <2> QED
    BY <1>7, <1>d, <2>1, <2>2 DEF ClientSynchronizes
<1>8. CASE ClientCloses(s) \/ ClientDies(s)
  <2>1. DoorsKept(s)
    BY <1>0, <1>8 DEF ClientCloses, ClientDies, ClientEnds, DoorsKept, DoorTypes, SameDoor,
       Messages
  <2> QED
    BY <1>8, <1>c, <1>d, <2>1 DEF ClientCloses, ClientDies
<1>9. ASSUME Return(s), UNCHANGED <<clientOpen, alive, saved>>, helper' \subseteq helper,
             \A t \in Clients \ {s} : t \in helper' <=> t \in helper,
             clientLocked' \in {clientLocked, clientLocked \cup {s}, clientLocked \ {s}}
      PROVE  DoorsKept(s) /\ TalksKept(s)
  BY <1>0, <1>9 DEF Return, DoorsKept, DoorTypes, SameDoor, TalksKept, TalkTypes, SameTalk,
     Talk, Messages
<1>10. ASSUME NEW m \in Messages, Send(s, m), UNCHANGED <<clientOpen, alive, saved>>,
              UNCHANGED <<request, clientWasLocked>>, helper' \subseteq helper,
              \A t \in Clients \ {s} : t \in helper' <=> t \in helper,
              clientLocked' \in {clientLocked, clientLocked \cup {s}, clientLocked \ {s}}
       PROVE  DoorsKept(s) /\ TalksKept(s)
  BY <1>0, <1>10 DEF Send, DoorsKept, DoorTypes, SameDoor, TalksKept, TalkTypes, SameTalk,
     Talk
<1>11. CASE Opened(s)
  BY <1>b, <1>c, <1>10, <1>11 DEF Opened, Answered
<1>12. CASE Locked(s)
  BY <1>b, <1>c, <1>9, <1>10, <1>12 DEF Locked, Answered
<1>13. CASE Worked(s)
  <2>1. CopiesKept(s)
    BY <1>0, <1>a, <1>13 DEF Worked, CopiesKept, CopyTypes, SameCopy
  <2>2. "unlock" \in Messages
    BY DEF Messages
  <2> QED
    BY <1>9, <1>10, <1>13, <2>1, <2>2 DEF Worked, ClientDone, Answered
<1>14. CASE Unlocked(s)
  BY <1>c, <1>9, <1>14 DEF Unlocked, Answered
<1>15. CASE Accessed(s)
  <2>1. CopiesKept(s)
    BY <1>0, <1>a, <1>15 DEF Accessed, CopiesKept, CopyTypes, SameCopy
  <2> QED
    BY <1>9, <1>15, <2>1 DEF Accessed, Answered
<1>16. ASSUME NEW r \in {"ok", "error", "gone"},
              \/ OpenFailed(s, r) \/ LockFailed(s, r) \/ UnlockFailed(s, r)
              \/ Synchronized(s, r) \/ AccessFailed(s, r)
       PROVE  DoorsKept(s) /\ CopiesKept(s) /\ TalksKept(s)
  <2>1. CopiesKept(s)
    BY <1>16, <1>c, <1>d DEF OpenFailed, LockFailed, UnlockFailed, Synchronized, AccessFailed
  <2>2. /\ Return(s) /\ UNCHANGED <<clientOpen, alive, saved, clientLocked>>
        /\ helper' \in {helper, helper \ {s}}
    BY <1>16 DEF OpenFailed, LockFailed, UnlockFailed, Synchronized, AccessFailed, Hangup,
       Answered
  <2> QED
    BY <1>9, <2>1, <2>2
<1>17. ASSUME NEW r \in {"error", "gone"}, WorkFailed(s, r)
       PROVE  DoorsKept(s) /\ CopiesKept(s) /\ TalksKept(s)
  <2>1. "unlock" \in Messages
    BY DEF Messages
  <2>2. helper' \in {helper, helper \ {s}}
    BY <1>17 DEF WorkFailed, Hangup
  <2> QED
    BY <1>c, <1>9, <1>10, <1>17, <2>1, <2>2 DEF WorkFailed, ClientDone, Answered
<1> QED
  BY <1>1, <1>2, <1>3, <1>4, <1>5, <1>6, <1>7, <1>8, <1>11, <1>12, <1>13, <1>14, <1>15,
     <1>16, <1>17 DEF ClientCalls, ClientContinues

LEMMA HelpersKeepTypes ==
  ASSUME SessionsInv, SessionsInv', ClientTypes, NEW s \in Clients,
         fileInodes <= fileInodes', HelperContinues(s) \/ HelperDies(s)
  PROVE  ClientTypes' /\ Personal(s)
<1>0. DoorTypes /\ CopyTypes /\ TalkTypes
  BY ClientTypesParts
<1>a. /\ fileInodes \in Nat /\ fileInodes' \in Nat /\ newFile' \in 0 .. fileInodes'
      /\ \A i : i \in 0 .. fileInodes => i \in 0 .. fileInodes'
  BY DEF SessionsInv, TypeOK
<1> USE DEF talkVars
<1>1. DoorsKept(s)
  <2>1. UNCHANGED doorVars
    BY DEF HelperContinues, HelperRefuses, HelperOpens, HelperOpenFails, HelperHasNone,
       HelperLocks, HelperCompares, HelperDenies, HelperLoads, HelperWorks, HelperUnlocks,
       HelperAccesses, HelperSynchronizes, HelperRuns, HelperReplies, HelperReleases,
       HelperExits, HelperDies, Answer, clientVars
  <2> QED
    BY <1>0, <2>1 DEF DoorsKept, DoorTypes, SameDoor, doorVars
<1>2. CopiesKept(s)
  <2>1. /\ UNCHANGED <<clientAccessed, clientChanged, clientSignature, clientPrefs>>
        /\ clientBase' \in {clientBase, [clientBase EXCEPT ![s] = newFile']}
    BY DEF HelperContinues, HelperRefuses, HelperOpens, HelperOpenFails, HelperHasNone,
       HelperLocks, HelperCompares, HelperDenies, HelperLoads, HelperWorks, HelperUnlocks,
       HelperAccesses, HelperSynchronizes, HelperRuns, HelperReplies, HelperReleases,
       HelperExits, HelperDies, Answer, clientVars, copyVars
  <2>2. /\ clientSignature \in [Clients -> 0 .. fileInodes']
        /\ clientBase \in [Clients -> 0 .. fileInodes']
    BY <1>0, <1>a DEF CopyTypes
  <2>3. clientBase' \in [Clients -> 0 .. fileInodes']
    BY <1>a, <2>1, <2>2
  <2> QED
    BY <1>0, <2>1, <2>2, <2>3 DEF CopiesKept, CopyTypes, SameCopy
<1>3. TalksKept(s)
  <2>1. /\ UNCHANGED command
        /\ reply' = reply \/ \E r \in Talk : reply' = [reply EXCEPT ![s] = r]
    BY DEF HelperContinues, HelperRefuses, HelperOpens, HelperOpenFails, HelperHasNone,
       HelperLocks, HelperCompares, HelperDenies, HelperLoads, HelperWorks, HelperUnlocks,
       HelperAccesses, HelperSynchronizes, HelperRuns, HelperReplies, HelperReleases,
       HelperExits, HelperDies, Answer, Talk
  <2>2. /\ alive' \in {alive, alive \ {s}} /\ saved' \in {saved, saved \ {s}, saved \cup {s}}
    BY DEF HelperContinues, HelperRefuses, HelperOpens, HelperOpenFails, HelperHasNone,
       HelperLocks, HelperCompares, HelperDenies, HelperLoads, HelperWorks, HelperUnlocks,
       HelperAccesses, HelperSynchronizes, HelperRuns, HelperReplies, HelperReleases,
       HelperExits, HelperDies
  <2>3. reply' \in [Clients -> Talk] /\ \A t \in Clients \ {s} : reply'[t] = reply[t]
    BY <1>0, <2>1 DEF TalkTypes
  <2> QED
    BY <1>0, <2>1, <2>2, <2>3 DEF TalksKept, TalkTypes, SameTalk
<1> QED
  BY <1>1, <1>2, <1>3, ClientTypesParts DEF Personal, DoorsKept, CopiesKept, TalksKept

-----------------------------------------------------------------------------
(* The invariant. *)

LEMMA ClientsAreApart ==
  ASSUME SessionsInv, NEW s \in Clients,
         ClientCalls(s) \/ ClientDies(s) \/ ClientContinues(s)
  PROVE  Apart /\ (crashes' = 0 => crashes = 0)
<1> USE DEF vars, boundVars, Apart
<1>0. calls \in Nat /\ crashes \in Nat
  BY DEF SessionsInv, TypeOK
<1>1. CASE UNCHANGED vars
  BY <1>0, <1>1
<1>2. ASSUME NEW r \in {"lock", "trylock", "commit", "apply", "access"}, ClientAsks(s, r)
      PROVE  Apart /\ UNCHANGED crashes
  <2>1. Counted \/ UNCHANGED boundVars
    BY <1>2 DEF ClientAsks
  <2> QED
    BY <1>0, <1>2, <2>1 DEF ClientAsks, Counted
<1>3. ASSUME NEW r \in {"commit", "apply"}, ClientHasLock(s, r)
      PROVE  Apart /\ UNCHANGED crashes
  BY <1>0, <1>3 DEF ClientHasLock, Counted
<1>4. CASE ClientDies(s)
  BY <1>0, <1>4 DEF ClientDies
<1>5. CASE \/ ClientCreate(s) \/ ClientReads(s) \/ ClientEdits(s) \/ ClientUnlocks(s)
           \/ ClientSynchronizes(s) \/ ClientCloses(s)
  <2>1. UNCHANGED vars
    BY <1>5 DEF ClientCreate, ClientReads, ClientEdits, ClientUnlocks, ClientSynchronizes,
       ClientCloses
  <2> QED
    BY <1>1, <2>1
<1>6. CASE ClientContinues(s)
  <2>1. UNCHANGED vars
    BY <1>6 DEF ClientContinues, Opened, Locked, Worked, Unlocked, Accessed, OpenFailed,
       LockFailed, WorkFailed, UnlockFailed, Synchronized, AccessFailed, Answered
  <2> QED
    BY <1>1, <2>1
<1> QED
  BY <1>2, <1>3, <1>4, <1>5, <1>6 DEF ClientCalls

LEMMA ClientsKeepInv ==
  ASSUME HelperIInv, NEW s \in Clients,
         ClientCalls(s) \/ ClientDies(s) \/ ClientContinues(s)
  PROVE  HelperIInv'
<1>0. SessionsInv /\ ClientTypes /\ s \in Sessions
  BY ClientsAreSessions DEF HelperIInv
<1>1. Apart /\ (crashes' = 0 => crashes = 0)
  BY <1>0, ClientsAreApart
<1>2. ClientTypes' /\ Personal(s)
  <2>1. UNCHANGED fileInodes
    BY <1>1 DEF Apart, diskVars
  <2> QED
    BY <1>0, <2>1, ClientsKeepTypes
<1>3. ASSUME Opens PROVE Agreement(s)'
  <2>1. Still(s) /\ Agreement(s)
    BY <1>0, <1>1, <1>3, ApartStill DEF HelperIInv
  <2> QED
    BY <1>0, <2>1, CallsAgree, RepliesAgree
<1> QED
  BY <1>1, <1>2, <1>3, ClientStep

LEMMA HelpersKeepInv ==
  ASSUME HelperIInv, NEW s \in Clients, HelperContinues(s) \/ HelperDies(s)
  PROVE  HelperIInv'
<1>0. SessionsInv /\ ClientTypes /\ s \in Sessions
  BY ClientsAreSessions DEF HelperIInv
<1>1. UNCHANGED vars \/ Moved(s) \/ Replaced(s)
  BY <1>0, HelperMoves
<1>2. SessionsInv' /\ fileInodes <= fileInodes'
  <2>0. fileInodes \in Nat /\ calls \in Nat /\ crashes \in Nat
    BY <1>0 DEF SessionsInv, TypeOK
  <2>1. CASE UNCHANGED vars
    <3>1. Apart /\ UNCHANGED fileInodes
      BY <2>0, <2>1 DEF Apart, vars, diskVars, boundVars
    <3> QED
      BY <1>0, <2>0, <3>1, ApartSessions
  <2>2. CASE Moved(s)
    BY <1>0, <2>2, MovedSessions, InodesStay
  <2>3. CASE Replaced(s)
    <3>1. UNCHANGED fileInodes
      BY <2>3 DEF Replaced, diskVars
    <3> QED
      BY <1>0, <2>0, <2>3, <3>1, ReplacedSessions
  <2> QED
    BY <1>1, <2>1, <2>2, <2>3
<1>3. ClientTypes' /\ Personal(s)
  BY <1>0, <1>2, HelpersKeepTypes
<1>4. Opens => Agreement(s)'
  BY <1>0, HelpersAgree DEF HelperIInv
<1> QED
  BY <1>1, <1>3, <1>4, OwnStep

\* A step of a privileged process concerns no client.
LEMMA OthersKeepInv ==
  ASSUME HelperIInv, NEW s \in Sessions \ Clients, Privileged(s)
  PROVE  HelperIInv'
<1>0. SessionsInv /\ ClientTypes /\ Moved(s)
  BY DEF HelperIInv, Moved, Privileged
<1>1. SessionsInv' /\ fileInodes <= fileInodes' /\ (Opens' <=> Opens)
  BY <1>0, MovedSessions, InodesStay, MovedSettings DEF Opens
<1>2. UNCHANGED <<clientVars, talkVars, alive, saved>>
  BY DEF Privileged
<1>3. ClientTypes'
  <2>1. \A i : i \in 0 .. fileInodes => i \in 0 .. fileInodes'
    BY <1>0, <1>1 DEF SessionsInv, TypeOK
  <2>2. /\ clientSignature \in [Clients -> 0 .. fileInodes']
        /\ clientBase \in [Clients -> 0 .. fileInodes']
    BY <1>0, <2>1 DEF ClientTypes
  <2> QED
    BY <1>0, <1>2, <2>2 DEF ClientTypes, clientVars, doorVars, copyVars, talkVars
<1>4. ASSUME Opens, NEW t \in Clients PROVE Agreement(t)'
  <2>1. SameSession(t) /\ KeepsFiles(t)
    BY <1>0, MovedFiles, ClientsAreSessions
  <2>2. SameDoor(t) /\ SameCopy(t) /\ SameTalk(t)
    BY <1>2 DEF SameDoor, SameCopy, SameTalk, clientVars, doorVars, copyVars, talkVars
  <2> QED
    BY <1>0, <1>4, <2>1, <2>2, Bystander DEF HelperIInv
<1> QED
  BY <1>1, <1>3, <1>4 DEF HelperIInv

LEMMA NextHelperIInv == HelperIInv /\ [HelperNext]_hvars => HelperIInv'
<1> SUFFICES ASSUME HelperIInv, [HelperNext]_hvars PROVE HelperIInv'
  OBVIOUS
<1>1. CASE UNCHANGED hvars
  <2>0. SessionsInv /\ ClientTypes
    BY DEF HelperIInv
  <2>1. UNCHANGED <<vars, clientVars, talkVars, alive, saved>>
    BY <1>1 DEF hvars
  <2>2. Apart /\ UNCHANGED <<crashes, setting, fileInodes>>
    BY <2>0, <2>1 DEF Apart, SessionsInv, TypeOK, vars, boundVars, diskVars
  <2>3. SessionsInv' /\ (Opens' <=> Opens)
    BY <2>0, <2>2, ApartSessions DEF Opens
  <2>4. ClientTypes'
    BY <2>0, <2>1, <2>2 DEF ClientTypes, clientVars, doorVars, copyVars, talkVars
  <2>5. ASSUME Opens, NEW t \in Clients PROVE Agreement(t)'
    <3>1. SameSession(t) /\ KeepsFiles(t)
      BY <2>2, ApartStill, ClientsAreSessions DEF Still
    <3>2. SameDoor(t) /\ SameCopy(t) /\ SameTalk(t)
      BY <2>1 DEF SameDoor, SameCopy, SameTalk, clientVars, doorVars, copyVars, talkVars
    <3> QED
      BY <2>0, <2>5, <3>1, <3>2, Bystander DEF HelperIInv
  <2> QED
    BY <2>3, <2>4, <2>5 DEF HelperIInv
<1>2. CASE HelperNext
  BY <1>2, ClientsKeepInv, HelpersKeepInv, OthersKeepInv DEF HelperNext
<1> QED
  BY <1>1, <1>2

LEMMA InitHelperIInv == HelperInit => HelperIInv
<1> SUFFICES ASSUME HelperInit PROVE HelperIInv
  OBVIOUS
<1>0. Init
  BY DEF HelperInit
<1>1. SessionsInv
  <2>1. TypeOK /\ FileInv /\ LockInv
    BY <1>0, InitTypes, InitFiles, InitLockInv
  <2>2. Positions
    BY <1>0 DEF Init, Positions, Committing
  <2>3. OneDirectory
    BY <1>0, HelperAssumption DEF Init, OneDirectory
  <2>4. Frozen
    BY <1>0 DEF Init, Frozen, Writing
  <2> QED
    BY <2>1, <2>2, <2>3, <2>4 DEF SessionsInv
<1>2. ClientTypes
  <2>1. 0 \in 0 .. fileInodes /\ {} \in Documents
    BY <1>1 DEF SessionsInv, TypeOK, Documents
  <2> QED
    BY <2>1 DEF HelperInit, ClientTypes, Messages
<1>3. ASSUME NEW s \in Clients PROVE Agreement(s)
  <2>1. /\ s \notin clientOpen \cup helper \cup clientLocked \cup clientWasLocked
        /\ s \notin clientAccessed \cup clientChanged \cup alive
        /\ clientSignature[s] = 0 /\ clientBase[s] = 0 /\ request[s] = "none"
        /\ command[s] = "none" /\ reply[s] = "none"
    BY DEF HelperInit
  <2>2. /\ pc[s] = "closed" /\ op[s] = "none" /\ s \notin accessed \cup wasLocked
        /\ tmpFile = 0
    BY <1>0, ClientsAreSessions DEF Init
  <2> QED
    BY <2>1, <2>2 DEF Agreement, Conversation, Place, Copies, ClientCopy
<1> QED
  BY <1>1, <1>2, <1>3 DEF HelperIInv

LEMMA HelperAlways == HelperSpec => []HelperIInv
BY InitHelperIInv, NextHelperIInv, PTL DEF HelperSpec

\* What a client was told is saved is in the file that its signature names, and the
\* variables of clients and helpers have their types: the client takes over the
\* signature that the helper's commit left (SCPCommit.c).
THEOREM HelperBeliefsAreRight == HelperSpec => []HelperInv
<1>1. HelperIInv => HelperInv
  <2> SUFFICES ASSUME HelperIInv PROVE HelperInv
    OBVIOUS
  <2>1. HelperTypeOK
    BY DEF HelperIInv, SessionsInv, ClientTypes, HelperTypeOK
  <2>2. ClientSaved
    BY DEF HelperIInv, Agreement, Copies, ClientCopy, Content, ClientSaved
  <2> QED
    BY <2>1, <2>2 DEF HelperInv
<1> QED
  BY <1>1, HelperAlways, PTL

\* Between two calls the client and its helper agree on who has the lock
\* (SCHelper_server.c, SCPLock.c and SCPUnlock.c).
THEOREM ClientAndHelperAgree == HelperSpec => []LocksAgree
<1>1. HelperIInv => LocksAgree
  <2> SUFFICES ASSUME HelperIInv, Opens, NEW s \in Clients, Ready(s)
               PROVE  /\ s \in locked => s \in clientLocked
                      /\ /\ s \in clientLocked \cap helper
                         /\ crashes = 0 \/ (setting.readable /\ s \in alive)
                         => s \in locked
    BY DEF LocksAgree
  <2>1. Agreement(s) /\ Positions /\ s \in Sessions
    BY ClientsAreSessions DEF HelperIInv, SessionsInv
  <2>2. command[s] = "none" /\ s \in clientOpen
    BY <2>1 DEF Ready, Agreement, Conversation
  <2>3. s \in locked => s \in alive
    BY <2>1 DEF Agreement, Conversation, Positions, Inside, Committing
  <2>4. crashes = 0 /\ s \in helper => s \in alive
    BY <2>1 DEF Agreement, Conversation
  <2> QED
    BY <2>1, <2>2, <2>3, <2>4 DEF Agreement, SharedLock, Faithful
<1> QED
  BY <1>1, HelperAlways, PTL

\* A commit through a helper replaces the file that the client's copy was made from,
\* although the client read it before the helper had the lock (SCHelper_server.c).
THEOREM ClientUpdatesAreKept == HelperSpec => ClientLosesNothing
<1> DEFINE A == \A s \in Clients :
                  /\ Opens
                  /\ pc[s] = "rename" /\ newFile' # newFile
                  /\ s \in clientChanged
                  /\ setting.readable \/ clientBase[s] # 0
                  => clientBase[s] = newFile
<1>1. HelperIInv => A
  <2> SUFFICES ASSUME HelperIInv, NEW s \in Clients, Opens, pc[s] = "rename",
                      s \in clientChanged, Claims(s)
               PROVE  clientBase[s] = newFile
    BY DEF Claims
  <2>1. Agreement(s) /\ Positions /\ s \in Sessions /\ ClientTypes
    BY ClientsAreSessions DEF HelperIInv, SessionsInv
  <2>2. s \in locked /\ s \in alive /\ s \in clientAccessed
    BY <2>1 DEF Positions, Committing, Agreement, Conversation
  <2>3. command[s] = "commit" /\ op[s] = "commit"
    BY <2>1, <2>2 DEF Agreement, Service, ClientTypes, Writing
  <2> QED
    BY <2>1, <2>2, <2>3 DEF Agreement, Copies, LockedCopy, Holds, Comparing, Own
<1>2. HelperSpec => [][A]_hvars
  BY <1>1, HelperAlways, PTL DEF HelperSpec
<1> QED
  BY <1>2 DEF ClientLosesNothing
=============================================================================
