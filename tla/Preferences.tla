---------------------------- MODULE Preferences ----------------------------
(***************************************************************************)
(* SCPreferences sessions of privileged processes over one preferences     *)
(* file (SystemConfiguration.fproj, SCP*.c): the lock file with its        *)
(* re-creation check, the stale check, and the commit that writes a "-new" *)
(* file and renames it.                                                    *)
(*                                                                         *)
(* Every system call that another process can observe is a step of its     *)
(* own.  A process may die between any two of them: the kernel then closes *)
(* its descriptors, and its files stay as they are.                        *)
(*                                                                         *)
(* Inodes are numbered in the order of their creation and never reused, as *)
(* on the HFS+ volume this code runs on; the signature (device, inode,     *)
(* modification time, size) of a file is therefore its inode number, and 0 *)
(* is the signature of a file that does not exist.                         *)
(***************************************************************************)
EXTENDS Integers, FiniteSets

CONSTANTS
  Sessions,      \* the preferences sessions, one process each
  Keys,          \* the top level keys of the preferences
  Partial,       \* the content of a file that is not a complete property list
  Settings       \* the circumstances in which the sessions may run

\* Those circumstances:
\*   legacy    the file is still in the directory of older systems;
\*   readOnly  the volume is read-only until it is mounted again;
\*   faults    what can fail: changing files and directories ("io"), opening or
\*             reading the preferences file ("read"), talking to configd ("store");
\*   sessions  the sessions that are created;
\*   keys      the keys that they set and remove;
\*   calls     a bound on the calls that use the lock;
\*   crashes   a bound on the processes that die.
ASSUME PreferencesAssumption ==
  /\ \A d \in SUBSET Keys : d # Partial
  /\ \A w \in Settings :
       /\ w.legacy \in BOOLEAN
       /\ w.readOnly \in BOOLEAN
       /\ w.faults \subseteq {"io", "read", "store"}
       /\ w.sessions \subseteq Sessions
       /\ w.keys \subseteq Keys
       /\ w.calls \in Nat
       /\ w.crashes \in Nat

VARIABLES
  setting,    \* one of Settings
  readOnly,   \* the volume is mounted read-only
  lockFile,   \* the inode that lockPath names
  newFile,    \* the inode that the path in the current directory names
  oldFile,    \* the inode, or Link, that the path in the old directory names
  tmpFile,    \* the inode that the path with the suffix "-new" names
  lockInodes, \* how many lock files have been created
  fileInodes, \* how many preferences files have been created
  data,       \* the content of each preferences file
  flocked,    \* the sessions whose lockFD has the exclusive lock of its inode
  fd,         \* lockFD
  locked,     \* the sessions with prefsPrivate->locked
  pc,         \* where the session is in its current call
  op,         \* that call
  wasLocked,  \* the local variable of Commit and Apply
  path,       \* "old" when newPath is set, else "new"
  store,      \* the sessions with prefsPrivate->session
  accessed,   \* the sessions with prefsPrivate->accessed
  changed,    \* the sessions with prefsPrivate->changed
  signature,  \* prefsPrivate->signature
  prefs,      \* prefsPrivate->prefs
  base,       \* history: the file that these are a copy of, or were written to
  tfd,        \* the inode of the "-new" file that a commit has opened
  calls,      \* how many calls of Lock, Commit and Apply have begun
  crashes,    \* how many processes have died
  torn        \* history: a migration has failed, or died, before the link was made

nameVars  == <<newFile, oldFile, tmpFile>>
diskVars  == <<readOnly, nameVars, fileInodes, data>>
lockVars  == <<lockFile, lockInodes, flocked, fd, locked>>
callVars  == <<pc, op, wasLocked>>
cacheVars == <<accessed, changed, signature, prefs, base>>
boundVars == <<calls, crashes, setting, torn>>

vars == <<diskVars, lockVars, callVars, cacheVars, path, store, tfd, boundVars>>

Link == -1
Documents == SUBSET Keys

\* The system calls at which a session can be, by the step that comes next.
Steps == {"closed", "create", "idle", "open", "flock", "check", "stale",
          "commit", "write", "rename", "retire", "link", "resign", "notify",
          "unlock", "close"}
Operations == {"none", "lock", "trylock", "commit", "apply", "unlock", "release"}

TypeOK ==
  /\ setting \in Settings
  /\ readOnly \in BOOLEAN
  /\ lockInodes \in Nat /\ fileInodes \in Nat
  /\ lockFile \in 0 .. lockInodes
  /\ newFile \in 0 .. fileInodes
  /\ oldFile \in Link .. fileInodes
  /\ tmpFile \in 0 .. fileInodes
  /\ data \in [1 .. fileInodes -> {Partial} \cup Documents]
  /\ flocked \subseteq Sessions
  /\ fd \in [Sessions -> 0 .. lockInodes]
  /\ locked \subseteq Sessions
  /\ pc \in [Sessions -> Steps]
  /\ op \in [Sessions -> Operations]
  /\ wasLocked \subseteq Sessions
  /\ path \in [Sessions -> {"old", "new"}]
  /\ store \subseteq Sessions
  /\ accessed \subseteq Sessions
  /\ changed \subseteq Sessions
  /\ signature \in [Sessions -> 0 .. fileInodes]
  /\ prefs \in [Sessions -> Documents]
  /\ base \in [Sessions -> 0 .. fileInodes]
  /\ tfd \in [Sessions -> 0 .. fileInodes]
  /\ calls \in Nat /\ crashes \in Nat
  /\ torn \in BOOLEAN

-----------------------------------------------------------------------------
(* The file system. *)

\* The inode that a session's path leads to, through the symbolic link that
\* a migrated file leaves behind.
Resolve(p) == IF p = "old" /\ oldFile # Link THEN oldFile ELSE newFile

\* The inode that a process which starts now would read.
Current == IF newFile # 0 THEN newFile ELSE IF oldFile = Link THEN 0 ELSE oldFile

\* Creating a file, or opening the one that has the name.
LockInode == IF lockFile = 0 THEN lockInodes + 1 ELSE lockFile
TmpInode == IF tmpFile = 0 THEN fileInodes + 1 ELSE tmpFile

\* unlink(lockPath)
UnlinkLock == lockFile' = IF readOnly THEN lockFile ELSE 0
-----------------------------------------------------------------------------
(* Calls. *)

Goto(s, step) == pc' = [pc EXCEPT ![s] = step]

Begin(s, o, step) ==
  /\ pc[s] = "idle"
  /\ op' = [op EXCEPT ![s] = o]
  /\ Goto(s, step)

Finish(s, step) ==
  /\ Goto(s, step)
  /\ op' = [op EXCEPT ![s] = "none"]
  /\ wasLocked' = wasLocked \ {s}

\* The label done: of Commit and Apply.
Done(s) ==
  IF s \in wasLocked THEN Finish(s, "idle")
                     ELSE Goto(s, "unlock") /\ UNCHANGED <<op, wasLocked>>

\* What a process that ends forgets.
Forget(s) ==
  /\ path' = [path EXCEPT ![s] = "new"]
  /\ store' = store \ {s}
  /\ accessed' = accessed \ {s}
  /\ changed' = changed \ {s}
  /\ signature' = [signature EXCEPT ![s] = 0]
  /\ prefs' = [prefs EXCEPT ![s] = {}]
  /\ base' = [base EXCEPT ![s] = 0]

-----------------------------------------------------------------------------
(* Creating a session, and its copy of the preferences. *)

\* The current directory is searched first ...
SCPreferencesCreate(s) ==
  /\ s \in setting.sessions
  /\ pc[s] = "closed"
  /\ Goto(s, IF newFile # 0 THEN "idle" ELSE "create")
  /\ UNCHANGED <<diskVars, lockVars, op, wasLocked, cacheVars, path, store, tfd,
                 boundVars>>

\* ... then the old one.  When neither has the file it will be a new one.
CreateOld(s) ==
  /\ pc[s] = "create"
  /\ Goto(s, "idle")
  /\ path' = [path EXCEPT ![s] = IF Resolve("old") # 0 THEN "old" ELSE "new"]
  /\ UNCHANGED <<diskVars, lockVars, op, wasLocked, cacheVars, store, tfd,
                 boundVars>>

\* The preferences that __SCPreferencesAccess leaves, and whether it had to
\* start with empty ones because the file is missing or not a property list.
Loaded(s) ==
  LET i == Resolve(path[s])
  IN  IF s \in accessed THEN prefs[s]
      ELSE IF i # 0 /\ data[i] # Partial THEN data[i] ELSE {}

StartsFresh(s) ==
  LET i == Resolve(path[s])
  IN  s \notin accessed /\ (i = 0 \/ data[i] = Partial)

\* The file is read through one descriptor, so that the signature and the
\* content are those of the same inode.
Access(s) ==
  /\ accessed' = accessed \cup {s}
  /\ signature' = IF s \in accessed THEN signature
                  ELSE [signature EXCEPT ![s] = Resolve(path[s])]
  /\ base' = IF s \in accessed THEN base ELSE [base EXCEPT ![s] = Resolve(path[s])]

Cache(s) ==
  /\ pc[s] = "idle"
  /\ Access(s)
  /\ UNCHANGED <<diskVars, lockVars, callVars, path, store, tfd, boundVars>>

\* Also SCPreferencesCopyKeyList and SCPreferencesGetSignature.
SCPreferencesGetValue(s) ==
  /\ Cache(s)
  /\ prefs' = [prefs EXCEPT ![s] = Loaded(s)]
  /\ changed' = IF StartsFresh(s) THEN changed \cup {s} ELSE changed

\* The file is there but cannot be opened or read: an error is logged, and the
\* session goes on with empty preferences and the signature of a missing file, or,
\* when only the reading failed, of the file that it could not read.
AccessFails(s) ==
  /\ "read" \in setting.faults
  /\ pc[s] = "idle" /\ s \notin accessed
  /\ accessed' = accessed \cup {s}
  /\ changed' = changed \cup {s}
  /\ \E i \in {0, Resolve(path[s])} :
       /\ signature' = [signature EXCEPT ![s] = i]
       /\ base' = [base EXCEPT ![s] = i]
  /\ UNCHANGED <<prefs, diskVars, lockVars, callVars, path, store, tfd, boundVars>>

\* Also SCPreferencesAddValue, which refuses a key that exists.
SCPreferencesSetValue(s, k) ==
  /\ Cache(s)
  /\ prefs' = [prefs EXCEPT ![s] = Loaded(s) \cup {k}]
  /\ changed' = changed \cup {s}

SCPreferencesRemoveValue(s, k) ==
  /\ k \in Loaded(s)
  /\ Cache(s)
  /\ prefs' = [prefs EXCEPT ![s] = Loaded(s) \ {k}]
  /\ changed' = changed \cup {s}

SCPreferencesSynchronize(s) ==
  /\ pc[s] = "idle"
  /\ accessed' = accessed \ {s}
  /\ changed' = changed \ {s}
  /\ signature' = [signature EXCEPT ![s] = 0]
  /\ prefs' = [prefs EXCEPT ![s] = {}]
  /\ base' = [base EXCEPT ![s] = 0]
  /\ UNCHANGED <<diskVars, lockVars, callVars, path, store, tfd, boundVars>>

-----------------------------------------------------------------------------
(* SCPreferencesLock. *)

\* The session with configd is opened on first use; that may fail.
AddSession(s) ==
  \/ store' = store \cup {s}
  \/ "store" \in setting.faults /\ s \notin store /\ UNCHANGED store

\* The part of a call that needs the lock and does not have it yet.
Acquire(s, o) ==
  /\ s \notin locked
  /\ Begin(s, o, "open")
  /\ AddSession(s)
  /\ UNCHANGED <<diskVars, lockVars, wasLocked, cacheVars, path, tfd>>

\* wait is TRUE for "lock" and FALSE for "trylock".
SCPreferencesLock(s) == Acquire(s, "lock") \/ Acquire(s, "trylock")

\* open(lockPath, O_CREAT|O_EXLOCK): the name is looked up or created first.
\* On a read-only volume the session goes on without a lock file.
LockOpen(s) ==
  /\ pc[s] = "open"
  /\ IF readOnly
     THEN Goto(s, "stale") /\ UNCHANGED <<fd, lockFile, lockInodes>>
     ELSE /\ Goto(s, "flock")
          /\ fd' = [fd EXCEPT ![s] = LockInode]
          /\ lockFile' = LockInode
          /\ lockInodes' = IF lockFile = 0 THEN lockInodes + 1 ELSE lockInodes
  /\ UNCHANGED <<diskVars, flocked, locked, op, wasLocked, cacheVars, path, store,
                 tfd, boundVars>>

LockOpenFails(s) ==
  /\ "io" \in setting.faults
  /\ pc[s] = "open" /\ ~readOnly
  /\ Finish(s, "idle")
  /\ UNCHANGED <<diskVars, lockVars, cacheVars, path, store, tfd, boundVars>>

\* ... then the kernel grants the exclusive lock of the inode, once it is free ...
Free(i) == \A t \in flocked : fd[t] # i

LockGranted(s) ==
  /\ pc[s] = "flock"
  /\ Free(fd[s])
  /\ flocked' = flocked \cup {s}
  /\ Goto(s, "check")
  /\ UNCHANGED <<diskVars, lockFile, lockInodes, fd, locked, op, wasLocked,
                 cacheVars, path, store, tfd, boundVars>>

\* ... or refuses it to a caller that does not wait (EWOULDBLOCK).
LockBusy(s) ==
  /\ pc[s] = "flock" /\ op[s] = "trylock"
  /\ ~Free(fd[s])
  /\ fd' = [fd EXCEPT ![s] = 0]
  /\ Finish(s, "idle")
  /\ UNCHANGED <<diskVars, lockFile, lockInodes, flocked, locked, cacheVars, path,
                 store, tfd, boundVars>>

\* Mutant of LockCheck: the name is not compared with the descriptor.
LockCheck_none(s) ==
  /\ pc[s] = "check"
  /\ Goto(s, "stale")
  /\ UNCHANGED <<diskVars, lockVars, op, wasLocked, cacheVars, path, store, tfd,
                 boundVars>>

\* Mutant of LockCheck: a lock file without a name is accepted.
LockCheck_missing(s) ==
  /\ pc[s] = "check"
  /\ IF lockFile \in {0, fd[s]}
     THEN Goto(s, "stale") /\ UNCHANGED <<fd, flocked>>
     ELSE /\ Goto(s, "open")
          /\ fd' = [fd EXCEPT ![s] = 0]
          /\ flocked' = flocked \ {s}
  /\ UNCHANGED <<diskVars, lockFile, lockInodes, locked, op, wasLocked, cacheVars,
                 path, store, tfd, boundVars>>

\* Mutant of LockCheck: the descriptor of a re-created lock file is not closed
\* before the file is opened again.
LockCheck_leak(s) ==
  /\ pc[s] = "check"
  /\ Goto(s, IF lockFile = fd[s] THEN "stale" ELSE "open")
  /\ UNCHANGED <<diskVars, lockVars, op, wasLocked, cacheVars, path, store, tfd,
                 boundVars>>

\* If the lock file was unlinked or re-created meanwhile, try again.
LockCheck(s) ==
  /\ pc[s] = "check"
  /\ IF lockFile = fd[s]
     THEN Goto(s, "stale") /\ UNCHANGED <<fd, flocked>>
     ELSE /\ Goto(s, "open")
          /\ fd' = [fd EXCEPT ![s] = 0]
          /\ flocked' = flocked \ {s}
  /\ UNCHANGED <<diskVars, lockFile, lockInodes, locked, op, wasLocked, cacheVars,
                 path, store, tfd, boundVars>>

\* Where a call goes on once it has the lock.
Resume(s) ==
  IF op[s] \in {"commit", "apply"}
  THEN /\ Goto(s, IF op[s] = "commit" THEN "commit" ELSE "notify")
       /\ UNCHANGED <<op, wasLocked>>
  ELSE Finish(s, "idle")

\* Mutant of LockFresh: the signature is not compared.
LockFresh_unchecked(s) ==
  /\ pc[s] = "stale"
  /\ locked' = locked \cup {s}
  /\ Resume(s)
  /\ UNCHANGED <<diskVars, lockFile, lockInodes, flocked, fd, cacheVars, path,
                 store, tfd, boundVars>>

\* The lock is granted to a session whose copy is of the current file, or that
\* has none.
LockFresh(s) ==
  /\ pc[s] = "stale"
  /\ s \in accessed => signature[s] = Resolve(path[s])
  /\ locked' = locked \cup {s}
  /\ Resume(s)
  /\ UNCHANGED <<diskVars, lockFile, lockInodes, flocked, fd, cacheVars, path,
                 store, tfd, boundVars>>

\* Otherwise it is denied, as it is when the file cannot be examined: the name is
\* unlinked, then the descriptor closed.
LockStale(s) ==
  /\ pc[s] = "stale"
  /\ s \in accessed
  /\ signature[s] # Resolve(path[s]) \/ "io" \in setting.faults
  /\ UnlinkLock
  /\ Goto(s, "close")
  /\ UNCHANGED <<diskVars, lockInodes, flocked, fd, locked, op, wasLocked,
                 cacheVars, path, store, tfd, boundVars>>

-----------------------------------------------------------------------------
(* Releasing the lock: SCPreferencesUnlock and the release of the session. *)

SCPreferencesUnlock(s) ==
  /\ s \in locked
  /\ Begin(s, "unlock", "unlock")
  /\ UNCHANGED <<diskVars, lockVars, wasLocked, cacheVars, path, store, tfd,
                 boundVars>>

SCPreferencesRelease(s) ==
  /\ Begin(s, "release", "unlock")
  /\ UNCHANGED <<diskVars, lockVars, wasLocked, cacheVars, path, store, tfd,
                 boundVars>>

\* The name goes first, while the inode is still locked.
UnlockUnlink(s) ==
  /\ pc[s] = "unlock"
  /\ IF fd[s] # 0 THEN UnlinkLock ELSE UNCHANGED lockFile
  /\ Goto(s, "close")
  /\ UNCHANGED <<diskVars, lockInodes, flocked, fd, locked, op, wasLocked,
                 cacheVars, path, store, tfd, boundVars>>

UnlockClose(s) ==
  /\ pc[s] = "close"
  /\ fd' = [fd EXCEPT ![s] = 0]
  /\ flocked' = flocked \ {s}
  /\ locked' = locked \ {s}
  /\ IF op[s] = "release"
     THEN Finish(s, "closed") /\ Forget(s)
     ELSE Finish(s, "idle") /\ UNCHANGED <<cacheVars, path, store>>
  /\ UNCHANGED <<diskVars, lockFile, lockInodes, tfd, boundVars>>

-----------------------------------------------------------------------------
(* SCPreferencesCommitChanges and SCPreferencesApplyChanges. *)

\* With the lock held already, a call starts where the acquisition would end.
WithLock(s, o, step) ==
  /\ s \in locked
  /\ Begin(s, o, step)
  /\ wasLocked' = wasLocked \cup {s}
  /\ UNCHANGED <<diskVars, lockVars, cacheVars, path, store, tfd>>

SCPreferencesCommitChanges(s) ==
  Acquire(s, "commit") \/ WithLock(s, "commit", "commit")

SCPreferencesApplyChanges(s) ==
  Acquire(s, "apply") \/ WithLock(s, "apply", "notify")

\* open(thePath, O_WRONLY|O_CREAT): a "-new" file that a dead process has left
\* is opened as it is.  From here on it holds less than a property list.
CommitOpen(s) ==
  /\ pc[s] = "commit"
  /\ IF s \notin changed
     THEN Goto(s, "notify") /\ UNCHANGED <<tmpFile, tfd, fileInodes, data>>
     ELSE /\ ~readOnly
          /\ Goto(s, "write")
          /\ tmpFile' = TmpInode
          /\ tfd' = [tfd EXCEPT ![s] = TmpInode]
          /\ fileInodes' = IF tmpFile = 0 THEN fileInodes + 1 ELSE fileInodes
          /\ data' = [i \in 1 .. fileInodes' |-> IF i = TmpInode THEN Partial
                                                ELSE data[i]]
  /\ UNCHANGED <<readOnly, newFile, oldFile, lockVars, op, wasLocked, cacheVars,
                 path, store, boundVars>>

CommitOpenFails(s) ==
  /\ pc[s] = "commit" /\ s \in changed
  /\ readOnly \/ "io" \in setting.faults
  /\ Done(s)
  /\ UNCHANGED <<diskVars, lockVars, cacheVars, path, store, tfd, boundVars>>

\* Mutant of CommitWrite: a short write is taken for the whole.
CommitWrite_short(s) ==
  /\ pc[s] = "write"
  /\ Goto(s, "rename")
  /\ UNCHANGED <<diskVars, lockVars, op, wasLocked, cacheVars, path, store, tfd,
                 boundVars>>

\* The whole property list is written and synchronized.  What an older "-new"
\* file holds beyond it is ignored by the property list parser.
CommitWrite(s) ==
  /\ pc[s] = "write"
  /\ data' = [data EXCEPT ![tfd[s]] = prefs[s]]
  /\ Goto(s, "rename")
  /\ UNCHANGED <<readOnly, nameVars, fileInodes, lockVars, op, wasLocked, cacheVars,
                 path, store, tfd, boundVars>>

\* The "-new" file is unlinked when it cannot be written, synchronized or
\* closed, but stays when the preferences cannot be made into a property list.
CommitWriteFails(s) ==
  /\ "io" \in setting.faults
  /\ pc[s] = "write"
  /\ tmpFile' \in {0, tmpFile}
  /\ tfd' = [tfd EXCEPT ![s] = 0]
  /\ Done(s)
  /\ UNCHANGED <<readOnly, newFile, oldFile, fileInodes, data, lockVars, cacheVars,
                 path, store, boundVars>>

\* rename("-new", path): always into the current directory.
CommitRename(s) ==
  /\ pc[s] = "rename"
  /\ tmpFile # 0
  /\ newFile' = tmpFile
  /\ tmpFile' = 0
  /\ tfd' = [tfd EXCEPT ![s] = 0]
  /\ base' = [base EXCEPT ![s] = tmpFile]
  /\ Goto(s, IF path[s] = "old" THEN "retire" ELSE "resign")
  /\ UNCHANGED <<readOnly, oldFile, fileInodes, data, lockVars, op, wasLocked,
                 accessed, changed, signature, prefs, path, store, boundVars>>

CommitRenameFails(s) ==
  /\ pc[s] = "rename"
  /\ tmpFile = 0 \/ "io" \in setting.faults
  /\ tfd' = [tfd EXCEPT ![s] = 0]
  /\ Done(s)
  /\ UNCHANGED <<diskVars, lockVars, cacheVars, path, store, boundVars>>

\* The file of the old directory is replaced by a symbolic link.  A failure of
\* unlink() is ignored: the old path stays as it is ...
RetireOld(s) ==
  /\ pc[s] = "retire"
  /\ oldFile' \in {0} \cup (IF "io" \in setting.faults THEN {oldFile} ELSE {})
  /\ Goto(s, "link")
  /\ UNCHANGED <<readOnly, newFile, tmpFile, fileInodes, data, lockVars, op,
                 wasLocked, cacheVars, path, store, tfd, boundVars>>

\* Mutant of LinkOld: the old path is removed and no link left in its place.
LinkOld_none(s) ==
  /\ pc[s] = "link"
  /\ path' = [path EXCEPT ![s] = "new"]
  /\ Goto(s, "resign")
  /\ UNCHANGED <<diskVars, lockVars, op, wasLocked, cacheVars, store, tfd, boundVars>>

\* ... and so is one of symlink(), which fails where unlink() did because the name
\* exists.  The session takes the new path all the same.
LinkOld(s) ==
  /\ pc[s] = "link"
  /\ oldFile' \in IF oldFile # 0 THEN {oldFile}
                 ELSE {Link} \cup (IF "io" \in setting.faults THEN {0} ELSE {})
  /\ torn' = (torn \/ oldFile' # Link)
  /\ path' = [path EXCEPT ![s] = "new"]
  /\ Goto(s, "resign")
  /\ UNCHANGED <<readOnly, newFile, tmpFile, fileInodes, data, lockVars, op,
                 wasLocked, cacheVars, store, tfd, calls, crashes, setting>>

\* The signature of the session becomes that of the new file.
CommitSign(s) ==
  /\ pc[s] = "resign"
  /\ signature' = [signature EXCEPT ![s] = newFile]
  /\ Goto(s, "notify")
  /\ UNCHANGED <<diskVars, lockVars, op, wasLocked, accessed, changed, prefs, base,
                 path, store, tfd, boundVars>>

\* The new file cannot be examined: the commit fails although it is in place, and
\* the session keeps the signature of the file that it has replaced.
CommitSignFails(s) ==
  /\ "io" \in setting.faults
  /\ pc[s] = "resign"
  /\ Done(s)
  /\ UNCHANGED <<diskVars, lockVars, cacheVars, path, store, tfd, boundVars>>

\* The notification through configd.  A session without one has nobody to tell.
Notify(s) ==
  /\ pc[s] = "notify"
  /\ changed' = IF op[s] = "commit" THEN changed \ {s} ELSE changed
  /\ Done(s)
  /\ UNCHANGED <<diskVars, lockVars, accessed, signature, prefs, base, path, store,
                 tfd, boundVars>>

NotifyFails(s) ==
  /\ "store" \in setting.faults
  /\ pc[s] = "notify" /\ s \in store
  /\ Done(s)
  /\ UNCHANGED <<diskVars, lockVars, cacheVars, path, store, tfd, boundVars>>

-----------------------------------------------------------------------------
(* The environment. *)

\* The process dies: its descriptors are closed, no name is unlinked.
Vanish(s) ==
  /\ Finish(s, "closed")
  /\ Forget(s)
  /\ fd' = [fd EXCEPT ![s] = 0]
  /\ flocked' = flocked \ {s}
  /\ locked' = locked \ {s}
  /\ tfd' = [tfd EXCEPT ![s] = 0]
  /\ UNCHANGED <<diskVars, lockFile, lockInodes>>

Die(s) ==
  /\ pc[s] # "closed"
  /\ crashes < setting.crashes
  /\ crashes' = crashes + 1
  /\ torn' = (torn \/ (pc[s] \in {"retire", "link"} /\ oldFile # Link))
  /\ Vanish(s)
  /\ UNCHANGED <<calls, setting>>

Remount ==
  /\ readOnly
  /\ readOnly' = FALSE
  /\ UNCHANGED <<nameVars, fileInodes, data, lockVars, callVars, cacheVars, path,
                 store, tfd, boundVars>>

-----------------------------------------------------------------------------

Init ==
  /\ setting \in Settings
  /\ readOnly = setting.readOnly
  /\ lockFile = 0 /\ lockInodes = 0 /\ tmpFile = 0
  /\ newFile \in (IF setting.legacy THEN {0} ELSE {0, 1})
  /\ oldFile = IF setting.legacy THEN 1 ELSE 0
  /\ fileInodes = newFile + oldFile
  /\ data = [i \in 1 .. fileInodes |-> {}]
  /\ flocked = {} /\ locked = {} /\ wasLocked = {} /\ store = {}
  /\ accessed = {} /\ changed = {}
  /\ fd = [s \in Sessions |-> 0]
  /\ pc = [s \in Sessions |-> "closed"]
  /\ op = [s \in Sessions |-> "none"]
  /\ path = [s \in Sessions |-> "new"]
  /\ signature = [s \in Sessions |-> 0]
  /\ prefs = [s \in Sessions |-> {}]
  /\ base = [s \in Sessions |-> 0]
  /\ tfd = [s \in Sessions |-> 0]
  /\ calls = 0 /\ crashes = 0 /\ torn = FALSE

Counted ==
  /\ calls < setting.calls
  /\ calls' = calls + 1
  /\ UNCHANGED <<crashes, setting, torn>>

\* The calls that a client makes ...
Request(s) ==
  \/ SCPreferencesCreate(s)
  \/ SCPreferencesGetValue(s) \/ AccessFails(s)
  \/ \E k \in setting.keys : SCPreferencesSetValue(s, k) \/ SCPreferencesRemoveValue(s, k)
  \/ SCPreferencesSynchronize(s)
  \/ SCPreferencesUnlock(s)
  \/ SCPreferencesRelease(s)
  \/ SCPreferencesLock(s) /\ Counted
  \/ SCPreferencesCommitChanges(s) /\ Counted
  \/ SCPreferencesApplyChanges(s) /\ Counted

\* ... and the steps that these calls take.
Proceed(s) ==
  \/ CreateOld(s)
  \/ LockOpen(s) \/ LockOpenFails(s)
  \/ LockGranted(s) \/ LockBusy(s)
  \/ LockCheck(s)
  \/ LockFresh(s) \/ LockStale(s)
  \/ UnlockUnlink(s) \/ UnlockClose(s)
  \/ CommitOpen(s) \/ CommitOpenFails(s)
  \/ CommitWrite(s) \/ CommitWriteFails(s)
  \/ CommitRename(s) \/ CommitRenameFails(s)
  \/ RetireOld(s) \/ LinkOld(s)
  \/ CommitSign(s) \/ CommitSignFails(s)
  \/ NotifyFails(s)

Step(s) == Proceed(s) \/ Notify(s)

Next ==
  \/ \E s \in Sessions : Request(s) \/ Step(s) \/ Die(s)
  \/ Remount

Spec == Init /\ [][Next]_vars
-----------------------------------------------------------------------------
(* Properties. *)

\* The session has passed the check for a re-created lock file and has not yet
\* begun to give the lock back.
Holds(s) ==
  \/ pc[s] \in {"stale", "commit", "write", "rename", "retire", "link", "resign",
                "notify"}
  \/ pc[s] = "idle" /\ s \in locked
  \/ pc[s] = "unlock" /\ s \in locked

\* The circumstances in which the lock and the signature protect the file.  On a
\* volume that was mounted read-only a lock is no lock (SCPLock.c:269); a file that
\* cannot be read counts as missing or empty (SCPOpen.c:471); where the old path
\* could not be replaced by a link, or the process died before it was, the sessions
\* on that path see an old file or none (SCPCommit.c:267).
Protected ==
  /\ ~setting.readOnly
  /\ "read" \notin setting.faults
  /\ ~torn

\* Lock files come and go, processes die, and waiters may get the lock of an
\* inode that has lost its name: still at most one session at a time believes
\* that it has the lock.
OneHolder ==
  ~setting.readOnly =>
    \A s, t \in Sessions : Holds(s) /\ Holds(t) => s = t

\* The copy of a session that holds the lock is of the current file, even when a
\* commit has failed after its rename: the comparison of signatures let it in, and
\* nobody else replaces the file until the lock is given back.
HolderIsCurrent ==
  Protected =>
    \A s \in locked \cap accessed : Holds(s) => base[s] = Current

\* Whoever opens the preferences, at any time and after any crash, finds a whole
\* property list.
WholeFile == ~setting.readOnly /\ Current # 0 => data[Current] # Partial

\* A session that has nothing left to commit has the content of the file whose
\* signature it has: what SCPreferencesCommitChanges reported as saved was saved.
CleanMeansSaved ==
  ~setting.readOnly =>
    \A s \in accessed \ changed :
      /\ signature[s] # 0
      /\ prefs[s] = data[signature[s]]

\* What sessions believe of the file is right: that of a holder is the current
\* one, that of a session without changes has what the session has.
PrefsInv == TypeOK /\ HolderIsCurrent /\ CleanMeansSaved

\* The current file is only ever replaced by a session whose copy is of that
\* file, so that no committed change is lost.
NoLostUpdate ==
  [][Protected /\ Current' # Current =>
       \E s \in Sessions : pc[s] = "rename" /\ s \in accessed /\ base[s] = Current]_vars
=============================================================================
