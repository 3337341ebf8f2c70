# A TLA+ model of the Darwin 9 sources in hexley9k

The repository holds the sources from which a PureDarwin (Darwin 9) system image
is assembled: Apple's system daemons, libraries and tools, a few third-party
libraries, and the scripts that build and assemble the image. This project models
the part in which concurrency and failure matter most and which the rest of the
system depends on: `configd` with its dynamic store, its plug-in loader and three
of its plug-ins, the child processes that plug-ins start, and the preferences of
the SystemConfiguration framework with the helper of unprivileged clients.

## Inventory

| Part | State it keeps | Operations and partners | What makes it hard |
|---|---|---|---|
| configd: dynamic store server (`source/apple/configd/configd.tproj`) | the store of keys and values, patterns with cached matches, sessions, one lock with a saved copy of the store, pending notifications | MIG requests of clients, the no-senders notification of the kernel, kicks to clients by Mach port, socket or signal | transactions undone when a client dies, cached matches and reference counts, values that belong to a session, lost wakeups, a run loop mode in which only the lock holder is heard |
| configd: plug-in loader (`plugin_support.c`, `configd.m`) | list of bundles, what was called of each, the bundles still to stop | sorts by `Requires`, loads, calls load, start, prime and stop; SIGTERM | two threads, SIGTERM at any time, plug-ins that never stop |
| SystemConfiguration: store client (`SCD*.c`) | session, notifier run loop source | requests to configd, callbacks to the program | cancellation against a late kick, restart of the server |
| SystemConfiguration: preferences (`SCP*.c`) | lock file, preferences file and its "-new" file; in each session a copy and the signature of the file it is of | lock, unlock, commit, apply, synchronize; notifies through the store | inodes without a name, stale copies, deaths between any two system calls, migration |
| SystemConfiguration: preferences helper (`helper/SCHelper_*.c`) | a session of its own for one client | messages over a socket | two copies of one state, either side may die |
| SystemConfiguration: children of plug-ins (`SCDPlugin.c`) | list of active children | fork, SIGCHLD, wait4, callouts | signals coalesce, a child may be gone before it is listed |
| configd plug-in Kicker | targets with changed keys, active and needs-kick marks | store callbacks, scripts | changes during a script, failures |
| configd plug-in ATconfig | copy of the configuration, signed state number, retry count | store callbacks, `appletalk` commands, timers | changes, commands and retries overtake each other |
| configd plug-in LinkConfiguration | wanted and original settings of each interface | store callbacks, ioctl, `ifconfig` | interfaces come and go, `ifconfig` is asynchronous |
| network configuration, reachability (`SCNetwork*.c`) | objects over preferences and store | accessors, one notifier | two stores that change independently |
| other configd plug-ins (IPMonitor, PreferencesMonitor, KernelEventMonitor, ...) | derived network state | clients of the store within configd | the order of events |
| dnsinfo | one flattened buffer | one RPC | none |
| launchd (`launchd_258.18`, older copy `launchd_258.1`) | jobs, services, timers | fork, kevent, Mach and socket requests | restart throttling, demand against keepalive |
| kext_tools | kext load queue, watched volumes | locks for other processes, rebuild of caches | lock owners that die |
| mDNSResponder | record lists, cache, questions | multicast packets, timers | probing conflicts, cache expiry |
| CF, IOKitUser, IOHIDFamily, IOAudioFamily, dtrace, security libraries, libdwarf, libelf, command line tools | data structures or driver state | library calls | outside of what a model of this size can say anything about |
| image assembly scripts (`setup`, `scripts`) | disk image on the host | sequential shell | I/O only |

`PROJECT.json` lists the same parts with their sources and status, and the
hazards at the lines where they bite.

### How the store server works

`server_loop` takes one event from its run loop and then calls
`pushNotifications`. An event is a MIG request on the port of a session, an open
request on the server's port, or the kernel's message that a session's port has no
senders left. While the store is locked the loop runs in the mode "locked", which
contains only the server's port and the port of the lock holder; all other
sessions wait. A handler that changes the store claims the lock recursively, so
that a request outside of a transaction is a transaction of its own.

`__SCDynamicStoreLock` copies the five objects `storeData`, `patternData`,
`changedKeys`, `deferredRemovals` and `removedSessionKeys`. Within the
transaction handlers change the originals. `__SCDynamicStoreUnlock` tells the
watchers of every changed key, takes removed keys off the patterns, takes keys off
the lists of the sessions that owned them, and empties the copies. When the holder
dies, `cleanupSession` swaps originals and copies before it closes the session.

Within the server the parts interact through shared state only: the values carry
the watcher counts, `patternData` carries the sessions that watch a pattern,
`sessionData` carries the changes that a session has not fetched and the keys that
it owns, and `storePrivate` carries what the session itself believes to watch. The
correctness properties below say that these views agree.

### How the other parts work

A preferences session reads the file once and remembers its signature. To change
it, `SCPreferencesLock` creates a lock file, takes an exclusive `flock` on it,
checks that the name still belongs to that inode, and refuses if the file is not
the one the copy was made from. `SCPreferencesCommitChanges` writes a file with the
suffix "-new", renames it over the old one and takes the new signature; for a file
still in the directory of older systems it then replaces the old path by a link. An
unprivileged client keeps its copy and lets a helper process do what needs
privileges: client and helper are two sessions, whose locks and signatures have to agree.

Plug-ins run on one run loop in one thread of `configd`. `_SCDPluginExecCommand`
forks under a mutex and enters the child in a list; the SIGCHLD handler sends a
message to a port with room for one; the run loop waits for all zombies, moves them
to a second list and then calls out. Kicker, ATconfig and LinkConfiguration are
state machines between store callbacks and such callouts.

The loader places a bundle behind those it requires, loads all, and calls each
entry point for all bundles before the next. SIGTERM reaches the main thread as a
message, unless the store is locked; that thread asks the plug-in thread to call
the `stop()` functions one after the other, and the process ends when all plug-ins
have signalled or 20 seconds after the last of these functions has returned.

## Modules

| Module | Content |
|---|---|
| `StoreData` | The store as a record of the five objects and the pure operations on it (`_SCD.c`, `pattern.c`, the value operations, the commit). |
| `DynamicStore` | The server: 18 variables, one action per request, kernel message and client step, fairness, all properties. Extends `StoreData`. |
| `PubSubStore` | Abstract specification: a transactional key-value store with exact change notifications and owned values. No counts, caches, deferred removals or copies. |
| `StoreRefinement` | The mapping from `DynamicStore` to `PubSubStore`. |
| `StoreDataProofs` | Lemmas: what each operation on a store returns, and that it keeps counts, patterns and owners in agreement with what sessions watch and own. |
| `DynamicStoreProofs` | The theorems about the server, with the refinement. |
| `Preferences` | Sessions of privileged processes over one file; every system call another process can see is a step. |
| `PreferencesRegister` | Abstract specification: one document, replaced as a whole and only by a client whose draft was made from it. |
| `PreferencesRefinement` | The mapping from `Preferences` to `PreferencesRegister`. |
| `PreferencesHelper` | Unprivileged clients and their helpers, composed with the privileged sessions. Extends `Preferences`. |
| `ExecService` | Abstract specification of child processes: started once, reported at most once, after the exit. |
| `PluginExec` | `SCDPlugin.c`, with the mapping to `ExecService`. |
| `Kicker`, `ATconfig`, `LinkConfiguration` | The three plug-ins, composed with `ExecService` (they extend it). |
| `PluginLoader` | Sorting, loading, calling and stopping plug-ins, the signal handler and the two threads. |
| `PreferencesProofs` | The theorems about `Preferences`, with the refinement, and about `PreferencesHelper`. |
| `PluginExecProofs`, `KickerProofs`, `ATconfigProofs`, `LinkConfigurationProofs`, `PluginLoaderProofs` | The theorems about the module each is named after. |
| `MC...` | Model values and settings for TLC. |

### The dynamic store

State. `cur` and `sav` are the current and saved five objects. An entry merges the
arrays `kSCDWatchers` and `kSCDWatcherRefs` into one count per session (a session
is in the array iff its count is not 0). A pattern that is not in the dictionary
is `NoPattern`; `regex = "freed"` says that `regfree` was called on an expression
to which the dictionary still refers. `keys` and `patterns` are the lists of
`storePrivate`, `changes` and `sessionKeys` the ones of `sessionData`. `handle`
stands for `notifyPort`, `notifyFile` or `notifySignalTask`: none, live, or stale
when the other end is gone. `kicked` and `awake` are the client's end of the
notification channel. `fault` is set where the code would follow a NULL pointer, index an array with
`kCFNotFound` or use a freed expression; the server does nothing after that.

Actions. Every action stands for a whole handler, with the recursive lock and
unlock around its change (`Finish`). A request that is refused changes nothing and
is a stuttering step; so is a request that only reads (get, get multiple, list,
snapshot). Operators named `X_...` that a comment calls a mutant are wrong
variants of `X`; no specification uses them. They are there to show that the properties notice the
difference.

Abstractions.

- Keys, patterns and data are model values; `Matches` is `regexec`. Only whether
  data is a date is told apart, because touch depends on it.
- `__SCDynamicStoreSetMultiple` has one key in each of its three lists. Its lists
  are processed one key after the other under one lock; one set, one removal and
  one notification in a row, on equal or different keys, show every pair of
  neighbouring steps, and the lock holder can perform longer sequences anyway.
- `SCDynamicStoreSetNotificationKeys` is one action with any result that the loop
  can stop at.
- A Mach port name is not used again for a new session while an entry of the
  store still mentions it (`fresh`): port names carry a generation number. It
  restricts nothing in the runs with `Allow = {}`, by `ClosedLeavesNoTrace`,
  `PatternLists` and `SessionKeyOwners`.
- `MaxRefs` bounds the watcher count at which a session may add a watch. With
  `Allow = {}` counts are at most 1 plus the number of patterns, so that
  `MaxRefs = 3` restricts nothing; under `WatchUnderLock` stale counts could grow without end.

`Allow` holds what clients or the kernel may do beyond the usual: change watches
under the lock (`scutil` can), create a session key again in the transaction that
removed it, register a second notifier (the framework refuses it first), and fail
to request the no-senders notification.

### Preferences and their helper

State. `lockFile`, `newFile`, `oldFile` and `tmpFile` are directory entries; inodes
are numbers that are never used again, as on HFS+, so that the signature (device,
inode, time, size) of a file is its inode. `fd` and `flocked` are a session's
descriptor and lock; `accessed`, `changed`, `signature` and `prefs` its copy. `base`
is a history variable: the file that the copy was made from or was last written to;
`torn` is another: a migration has ended without a link on the old path. A session is one thread; `pc` says before which system call of `op` it is. The helper
adds the client's half of the same fields, with `clientBase` as its history variable, and
the message between both.

Actions. A call begins with `Request` and goes on with one action per system call;
each may fail where `faults` says so, also the `unlink()` and `symlink()` of a
migration, whose results the code ignores (`RetireOld`, `LinkOld`). `Die` ends a process anywhere: the kernel
closes its descriptors. `Remount` makes a read-only volume writable. In
`PreferencesHelper` a message waits for its handler to run a whole call of
`Preferences`, in the same steps, and either process may die on the way.

`setting`, chosen in `Init` from `Settings`, holds the circumstances of one
behaviour (migration, read-only volume, faults, sessions, bounds), so that one run
covers several small combinations and properties can say in which they hold.

Abstractions: the content of a file is a set of keys, or `Partial`; a "-new" file
that an earlier process left behind is overwritten and not truncated, and the
property list parser ignores the bytes that follow the closing tag, so that the
content is what was written last. Nested paths (`SCPPath.c`) edit the copy and
are edits of a key here.

### Child processes, Kicker, ATconfig, LinkConfiguration

`PluginExec` has the kernel's view of each child, the mutex, both lists and the
state of signal, mask and port. Process identifiers are not used again while
they are listed (in `PluginExec`, not at all). Whether the mask that the signal
handler sets survives its return depends on the system; both are allowed.

The plug-ins use children through `ExecService`. `reported` (Kicker), `told`
(ATconfig, LinkConfiguration) are changes that the store has and the plug-in has
not seen yet; further ones merge into them, as notifications do. A callback that
ends by starting a command is two steps, with nothing of the run loop between them.

- `Kicker`: which keys a target watches, whether it posts a notification and
  whether it has a script are fixed by its property list.
- `ATconfig`: what is written to the configuration file and the arguments is one
  value, `conf`; `stack` is what the stack was started with. A command may fail,
  find the stack running or not running, or be killed after it has done its
  work. Two configurations without an interface are told apart, because a change
  from one to the other is a change. `gaveUp` is a history variable for the properties.
  A configd that starts again may find the stack up, with any configuration; as the
  state number says that it is down, `gaveUp` is "blind" then, as after a failed ioctl.
- `LinkConfiguration`: the default build, without `USE_SIOCSIFMTU`. A callback copies
  the changed requests and the list of interfaces (`linkConfigChangedCallback`) and
  then works on the copies, while requests change and interfaces go and come.
  Reading and setting the media options can fail, also because options that are not
  available are wanted, and so can reading the MTU, its range, `fork` and `ifconfig`.
  `missed` is a history variable: the settings that one of these failures, a request
  during a running `ifconfig` or an interface that came back unseen excuses.

### Plug-in loader

`orig` and `new` are the arrays of `sortBundles`, `phase` and `next` the position
of `plugin_exec` (`PassDone` goes on to the next pass), `exiting` the set of `stopBundles`, `called` a history variable.
`inStop` says whether `stopBundles` is between two bundles or inside a `stop()`
function, which may never return; the run loop serves nothing meanwhile, and the timer is
set when the last has returned (`StopsCalled`). A `start()` that `callStartFunction`
does not call because of the name of its bundle is one that the bundle does not have. The search for bundles and the options `-t`, `-b` and `-v` are left out.

## Runs

| Run | Module, instance | Checks |
|---|---|---|
| `transactions` | `MCDynamicStore`: 2 superuser sessions, 1 key, 2 patterns that match it, 2 data | types, owners of session keys, cached matches, watcher counts, nothing left of closed sessions, no fault, rollback, refinement of `PubSubStore` |
| `liberties` | `MCDynamicStore`: superuser and ordinary session, 1 key, all notifiers, everything in `Allow` | the lock has one owner and transactions end, whatever clients do |
| `liveness` | `MCDynamicStore`: superuser and ordinary session, 1 key, port notifier | no lost wakeup, a dead holder releases, the dead are reaped, changes are fetched |
| `temporary_value` | `MCDynamicStore`: 1 session, 1 key | violated, see below |
| `preferences` | `MCPreferences`: 2 or 3 sessions, 0 or 1 key, 6 settings | one holder, whole files, copies that are what they seem, no lost update, refinement of `PreferencesRegister` |
| `helper_calls` | `MCPreferencesHelper`: 1 client with helper, 1 privileged session, 5 settings | client and helper agree on the lock; nothing overwritten or taken for saved |
| `helper_leaves` | the same without edits, fairness | acquiring the lock ends, and a helper without a client releases the lock and exits |
| `exec` | `MCPluginExec`: 2 threads, 3 children, fairness | lists, no zombie overlooked, refinement of `ExecService`, all callouts made |
| `kicker` | `MCKicker`: 3 kinds of target, 2 keys, 2 children, 5 changes, fairness | one script per target, no target used after release, no kick without keys, no kick lost |
| `atconfig` | `MCATconfig`: 2 configurations with an interface and 2 without, 2 children, 3 attempts, 3 changes, all faults, a stack that is up or down at first, shutdown, fairness | at rest the stack is what the configuration says and the sign of the state is right; one command; retries end |
| `link` | `MCLinkConfiguration`: 2 interfaces, 2 children, 2 requests (media options with and without the MTU), 4 changes, all faults | at rest each interface has what is requested, or what it had before |
| `loader` | `MCPluginLoader`: 3 bundles, 4 kinds of list, 1 lock, 2 signals, fairness | order of bundles and of calls, the end of the process |

Composite invariants (`PrefsInv`, `HelperInv`, `ExecInv`, `KickerInv`, `ATInv`,
`LinkInv`, `LoaderInv`) join the type invariant of a module with the named parts
that make its state consistent.

Bounds. Two sessions are enough for every interaction in the store: a lock holder
and another one, two watchers of one pattern (`patternRemoveSession` treats more
than one alike). One key with two patterns reaches counts from 0 to 3. No operation
on one key reads the entry of another one except through the patterns, so one key
per instance is enough; `MaxRefs = 0` in `liberties` lets a session add a watch
while no count of it is left.

In `preferences` the bound counts calls of lock, commit and apply of all sessions
together: two let two sessions that read the same file commit against each other,
the three of the migration also let one of them lock first and commit later, and the
migration with failing calls and a death has two; reads, edits and unlocks are not
bounded. Three sessions are needed to have an unlinked
inode with a waiter, a new lock file and a third one that opens it, and get three
calls and no keys. Four calls by two sessions in the usual setting also pass (1.9
million states) and show nothing new. A crash may hit any step of a call by one of two
sessions; with three sessions a crash passes too (0.8 million states) and takes the
run beyond a few minutes. The settings of `helper_calls` are the two ways to read the
file, each with two calls, as two are needed for a client and a privileged session to
commit against each other, and each with a crash (one call where the helper reads; two
calls, 1.7 million states, also pass); and commits of a client alone that fail half way,
where the third call is what the client does after a failure. Three children let one exit
while a second is being entered and a third is being called out. Kicker's five
changes are one to start a script, two during it, and two for another target.
ATconfig's three changes with three attempts let a change overtake a command, its
retry, and the give-up (four changes, 1.4 million states, also pass). `link` has four
changes: request, detach, attach, request (one interface with six changes, 0.2 million
states, and a third request, for the MTU alone, also pass); two children let one `ifconfig` run beside the one of the other
interface or beside an older one of its own. Three bundles
form chains of length three, cycles of length two beside a third bundle, and
requirements that are not installed. Deadlock is checked wherever the system
never stops: in the runs of the store without `Allow`, of the preferences, the
helper and the children; the other instances end when their bounds are used up.

Symmetry between sessions, interfaces or children is used where the specification
and the settings treat them alike and no liveness is checked.

Fairness.

- Store: `pushNotifications` runs before the loop waits again (weak). Each run loop
  mode serves its ports in turn, so that a death message which can be taken again
  and again is taken (strong, because the port drops out of the mode whenever
  somebody else locks the store). Clients take a kick from their channel and ask for
  the changes (weak and strong, the latter for the same reason). Nothing makes a
  live client unlock the store: `DeadSessionsReaped` and `ChangesFetched` are
  conditional on the store being unlocked again and again.
- Helper: a call that has begun goes on (weak). Nothing makes a client call or
  unlock: `LockEnds` and `HelperLeaves` excuse a session that waits for the lock while
  another one, of a privileged process or of a live client that is between two calls,
  keeps it. A helper whose client is gone is no excuse, neither for itself nor for others.
- Children: signals are delivered, a thread with the mutex releases it (weak), the
  run loop gets the mutex although others compete for it (strong). Children need not exit.
- Kicker, ATconfig: scripts and commands exit, the run loop serves its sources,
  timers fire (weak).
- Loader: both threads run, the timer fires (weak), and the main thread takes the
  request from a port that is again and again in its mode (strong). Plug-ins need not
  signal, a `stop()` function need not return and a client need not unlock the store:
  `TermExits` is conditional on the latter two.

Operators named `X_...` that a comment calls a mutant are plausible bugs of `X`,
one for each property of each run; `PROJECT.json` pairs them.

## Where the code departs from what it promises

One run shows a case, `temporary_value`: a lock holder that removes one of its
temporary values and creates it again before it unlocks loses the list entry of the
new value at unlock; the value outlives the session. `SCDynamicStore.h:255` promises its removal.

The following were met on the way. The properties exclude them by a stated
condition; dropping the condition, or allowing the circumstance named, makes TLC
show the behaviour.

- Loader: a `stop()` function that does not return delays the shut down for ever, as the
  timer is set after all have returned (`plugin_support.c:641`), against the "no more
  than 30 seconds" of `SCDPlugin.h:108` (`TermExits` without its second condition).
- Store: when the no-senders notification cannot be requested, the session is cleaned up
  before it has an entry (`_configopen.c:218`, action `configopen_refused`), and
  `__SCDynamicStoreSetMultiple` ignores what it is told of each key, so that a refused
  request may be half applied (`_configset.c:356`, `configset_m`); no property is about these.
- Store, `Allow = {"WatchUnderLock"}`. Under the lock, remove a key, watch a pattern that matches it,
  set the key: the pattern never lists the key (`PatternLists`; the comment at
  `_configset.c:190` assumes that all patterns are older than the removal). The
  rollback restores `patternData` but not the session's own lists; the close that
  follows drops a pattern of another session, indexes with `kCFNotFound`, or
  leaves a freed expression (`NoFault`, `RollbackRestores`; `session.c:197`).
- Store: within a transaction the list for a watched pattern still has the keys
  that the transaction removed (`PatternLists` without `storeLocked = 0` in its last
  conjunct); `SCDynamicStore.h:220` says "current".
- Preferences, `legacy` with a crash or the fault "io": when `unlink()` or `symlink()`
  fails, or the process dies between the rename into the new directory and the link in
  the old one, an old file or none is left on the old path, and a session on that path
  is granted the lock with an old copy (`HolderIsCurrent`, `NoLostUpdate` and
  `ImplementsRegister` without `~torn` in `Protected`, `SCPCommit.c:267`).
- Preferences, `readOnly`: on a read-only volume the lock is granted to everyone
  (`OneHolder`, `NoLostUpdate`, `SCPLock.c:269`); `SCPreferences.h:197` says "exclusive access".
- Preferences, fault "read": a file that cannot be opened counts as missing, one that
  cannot be read as empty, with its right signature, and the holder's commit replaces it (`NoLostUpdate`, `SCPOpen.c:471`).
- Preferences, fault "io": when the new file is in place and cannot be opened for its
  signature, the commit reports failure though it has happened, and the session
  keeps the old signature; its next lock is refused as stale (`SCPCommit.c:275`).
  No update is lost by it. A proof by way of the signature alone fails here; the
  history variable `base` tells the two cases apart.
- Helper, fault "open": handlers of a helper without preferences answer with the
  status "ok", and the client believes to have the lock (`Opens` in `LocksAgree`,
  `ClientLosesNothing` and `HelperInv`, `SCHelper_server.c:393`).
- Helper that is killed: a client that had the lock through it and reads the preferences
  again starts another helper, which does not have the lock; the client still takes
  itself for the holder (`LocksAgree` without its condition on `crashes`, `SCPOpen.c:263`).
  Its next commit makes the new helper take the lock for that commit alone and compare
  its own signature, so that no update is lost.
- Helper, fault "io": after a commit that failed with its file in place the client
  keeps its old signature; when it commits again under the same lock it replaces
  its own file. `ClientLosesNothing` therefore speaks of the file that the copy was
  made from or written to. Both were found by attempts to prove stronger forms of
  the two properties, which TLC then refuted.
- Kicker, fault "fork": the target stays marked active and is never kicked again
  (`KicksHappen` without `Stranded`, `kicker.c:224`).
- ATconfig, fault "fork": `execCommand` becomes -1 and every later change is skipped
  (`atconfig.c:1425`); fault "ioctl": the sign of the state is lost (`Settled`
  with `gaveUp = "blind"`, `atconfig.c:1217`); fault "convert": a retry that cannot
  convert its arguments ends in silence and may leave the stack up with a state that
  says it is down (`SignIsRight`, `atconfig.c:1399`; found when the invariant below
  turned out not to be inductive); `stop_ATconfig` releases what a
  running command's callback will read (`atconfig.c:1475`).
- LinkConfiguration: a request that changes during its own `ifconfig` is compared
  with the MTU that is about to change (`linkconfig.c:276`), and an interface that
  goes and comes back unseen does not get its settings (`linkconfig.c:391`). A failure to
  set or to read media options or MTU is not looked at (`linkconfig.c:467`): a setting
  is not tried again, and one that was not remembered is not restored. All are in `missed`.
- Loader: a bundle that requires one that is not installed is reported as a cycle
  and appended in directory order (`RequiredFirst` by way of `Unordered`,
  `plugin_support.c:781`). The request to end the process is not looked at while the store is
  locked (`TermExits` without its first condition, `configd_server.c:434`).

## Proofs

Theorems hold for every value of the constants that the assumptions at the end of
this section admit: any sessions, keys, files, children, bundles, and any bounds.
Each comes from an inductive invariant whose proof has one step per action; TLC
finds the invariants true on the instances of the runs, too.

### The dynamic store

`StoreDataProofs` proves which fields each operation on a store changes, and that
it maps stores to stores. `DynamicStoreProofs` proves:

| Theorem | States | Liberties that it excludes |
|---|---|---|
| `TypeCorrect` | `[]TypeOK` | none |
| `LockHasOneOwner` | `[]LockOwner` | none |
| `TransactionsEnd` | `[]NothingLeftOver` | none |
| `WakeupsArrive` | `[]NoLostWakeup` | `RegisterTwice` |
| `PatternsAreRight` | `[]PatternLists` | `WatchUnderLock` |
| `CountsAreExact` | `[]WatcherRefs` | `WatchUnderLock` |
| `NothingKeptForClosed` | `[]ClosedLeavesNoTrace` | `WatchUnderLock` |
| `ServerStaysUp` | `[]NoFault` | `WatchUnderLock`, `NoPortNotification` |
| `SessionKeysAreOwned` | `[]SessionKeyOwners` | `RecreateSessionKey` |
| `DeathRollsBack` | `RollbackRestores` | `WatchUnderLock`, `RecreateSessionKey` |
| `ServerImplementsPubSub` | `ImplementsPubSub` | `WatchUnderLock`, `RecreateSessionKey` |

With each of the excluded liberties TLC finds the property violated on a small instance,
so no theorem asks for more than it needs; all other liberties may be taken.

The first three come from one inductive invariant, their conjunction `Inv`.
`NothingLeftOver` is not inductive alone: a close commits the current store and
empties the saved one, which would be wrong while another session is inside a
transaction, and only `LockOwner` together with the run loop mode excludes that.
`LockOwner` in turn needs the types for the range of the lock count.

`WakeupsArrive` needs `Channels`: a live client with a notifier has a live handle
(so `pushNotifications` reaches it), and a closed session has no notifier (so an
open does not inherit one).

Books. `PatternLists` and `WatcherRefs` talk about two dictionaries that the same
operations change, and neither is inductive without the other: a pattern adds a count
to exactly the keys it lists, and `patternRemoveKey` finds whose count to take from
the pattern's sessions. `Agree(c, keys, patterns)` (in `StoreDataProofs`) says both of
one store `c`, together with what makes a deferred removal safe: a key that is
still to be removed has no data, and is still in the patterns that match it. One
lemma per operation (`AgreeAdd`, `AgreeRemove`, `AgreeSet`, `AgreeRemoveValues`,
`AgreeNotify`, `AgreeCommitted`) shows that it keeps the agreement; counts are
cardinalities of sets of patterns, hence the assumption that these are finite. `Books` claims `Agree` for the current store and, during a
transaction, for the saved one: a rollback makes that the current one, and the
lists of the sessions are not rolled back. This is the step that fails under
`WatchUnderLock`. `ClosedEmpty` says that closed sessions have empty lists.
`BookInv == Inv /\ Books /\ ClosedEmpty` is inductive and gives four theorems;
`NotifiedAgree` adds that a commit tells a session about exactly the changed keys
that it watches.

Owners. `Owned` ties the session of a value to `kSCDSessionKeys`, and forbids that
the removal of that entry is still to come. It also needs that owners run as the
superuser: only then can a close, which claims the lock to remove the session's
values, succeed (`Close` skips the removal otherwise).

Refinement. `RefInv` joins both with `SavedClean` (the saved store has no changed
keys, so that the end of a dead holder publishes nothing of its transaction). Each
handler is mapped to a step of `PubSubStore`: lock to `Begin`, unlock to `Commit`, a
request that changes values to `Write` inside and to `Single` outside of a
transaction, with `Touches` (whatever value changed is among the changed keys);
close to `Close`, a death to `Die` and its cleanup to `Abort`, with `CloseAbstract`
(exactly the values that the session owns go); the rest to stuttering.

### Preferences

`PreferencesProofs` proves for any sessions, keys and settings:

- `LockIsExclusive`: `Spec => []OneHolder`.
- `BeliefsAreRight`: `Spec => []PrefsInv`.
- `FilesAreWhole`: `Spec => []WholeFile`.
- `UpdatesAreKept`: `Spec => NoLostUpdate`.
- `SessionsImplementRegister`: `Spec => ImplementsRegister`.

That two descriptors never have the lock of one inode (`Exclusive`) says nothing of
two inodes that had the name one after the other. `LockInv` adds
`HoldersHaveTheName`: a holder's inode is the one the name leads to. The comparison
of the two inodes after `flock` establishes it. `SCPreferencesUnlock` preserves it
because it unlinks the name while it still has the lock, so that it removes its own
lock file and not that of the next holder. `Positions` ties
`prefsPrivate->locked` to the step a session is at. The invariant is about writable
volumes only; on the others no lock file is made (`SCPLock.c:269`), and `OneHolder`
is not claimed.

The other four come from `PrefsIInv`, which adds what the lock protects. `Names`: the
"-new" file is nobody's copy and has no other name. `Copy`: what a session knows about
its copy, also after a commit that failed with the file in place. `Progress`: what each
step of a commit may rely on. `Migration`: the two directories hold one file, but for
the time between the rename and the link of one session that has the lock, also when
`unlink()` has failed in between; a failure of the link, or a death before it, sets `torn`,
and `torn` is never reset (`TornStays`), so that it need not be shown any more. With
these `HolderIsCurrent`, which the exclusive lock and the comparison of signatures
establish, is inductive under the condition `Protected` of the properties. In the
refinement `CommitRename` publishes the document and all other system calls stutter
or change one client's draft.

The same module proves for any clients, each with its helper, beside any privileged
sessions:

- `HelperBeliefsAreRight`: `HelperSpec => []HelperInv`.
- `ClientAndHelperAgree`: `HelperSpec => []LocksAgree`.
- `ClientUpdatesAreKept`: `HelperSpec => ClientLosesNothing`.

A helper runs an ordinary session, but its calls are not counted, it may end without
dying, and its copy may be replaced by the client's; so `Spec` does not cover it.
`SessionsInv` restates for all sessions what the proofs above say of one step at a time
(types, lock, `Names`, `Copy`, `Progress`), and `Moved`, `Replaced` and `Apart` are the only
three things that a step of `HelperNext` does to sessions. `HelperIInv` adds, for each
client, `Agreement`: which message is under way for which call (`Conversation`), which
step of its own call the helper has reached for it (`Place`, `Service`), what its lock has
to do with the client's (`SharedLock`), and what the two copies have to do with the files
and with each other (`Copies`). Four parts carry the argument.

- `LockedCopy`: while the helper has the lock and the comparison is over, the client's copy
  is of the current file. The comparison of signatures establishes it, together with
  `ClientCopy` (a signature that is not the copy's own is never that of the current file),
  and the exclusive lock keeps it.
- `Commits`: what the helper writes is what the client sent, and the signature in the
  reply is that of the file which holds it.
- `Detached` with `DetachedCopy`: a client that takes itself for the holder while its helper
  has no lock lost a helper, and can only have its copy from the helper that it has now; the
  comparison that this helper makes on its own protects the client's copy, too.
- `Faithful`: without a crash, or with a client that reads the file itself, the previous case
  does not arise, which is what `LocksAgree` claims.

A step of one session or client leaves all others what they rely on (`Bystander`: no file
changes that has a name other than the "-new" file's, and nobody else renames while a
session holds the lock), so that each action is only looked at for its own client.
Two conjuncts were missing from the first form of `Agreement`, which TLC had found
invariant: that the answer to an unlock of a faithful client is never an error, and
that whoever answered a waiting client is still alive.

### Child processes and plug-ins

`PluginExecProofs` proves for any threads and children:

- `ListsAreSound`: `Spec => []ExecInv`.
- `ZombiesAreNoticed`: `Spec => []ZombieIsNoticed`.
- `PluginExecImplementsService`: `Spec => ImplementsService`.

The first two come from one inductive invariant: `Windows` (who is between fork and
entry holds the mutex, and what `wait4` has returned is gone), `Active` and
`Reaped` (what is on each list, without repetition), `Complete` (whoever wants a
callout and has not had it is on a list or about to be), and `BlockedIsServed`
(SIGCHLD is blocked only while a message is there or `wait4` is to come). A zombie is noticed because
each of the three stages on the way to `wait4` hands over to the next in one step,
and a message that the full port drops is one that is already there. For the
refinement each step is mapped: fork to start, the exit to exit, the callout to
report, all others to a stutter.

`KickerProofs` proves for any targets, keys and children, whatever fails:

- `MemoryIsSound`: `Spec => []KickerInv`.
- `ScriptsRunAlone`: `Spec => []OneScript`.

`booter` frees a target that is not active. That no child has it as its context is
`Owned` (each child that is waited for has an active target of its own), and that no kick
waits for it is `QueuedBehindScript`; with both `KickerInv` is inductive.

`ATconfigProofs` proves for any configurations, changes and attempts:

- `StateIsConsistent`: `Spec => []ATInv`.
- `SignTellsTheStack`: `Spec => []SignIsRight`.
- `LatestConfigurationRuns`: `Spec => []Settled`.

What the plug-in believes is only right once nothing is in progress, so the
invariant says at each moment that it is right or that something is `Pending` that will
correct it (`Signs`): a call, a command or a timer. `Numbered` says that a
command with the current sequence number was started for the current
configuration, so that the comparison in the callouts can be trusted; `Results` what
the exit status of a command says about the stack; `Copied` and `Single` that
there is one command and one copy of the configuration. `Types` bounds the sequence
number by the changes so far: a number is never used twice.

`LinkConfigurationProofs` proves for any interfaces, settings and children:

- `MediaOptionsSettle`: `Spec => []LinkInv`.
- `MTUsSettle`: `Spec => []MTUSettles`.

`MediaKept` and `MTUKept` say that the settings remembered as the original ones are
the original ones, which is what a removed request restores; for the MTU, that a
running `ifconfig` is about to set what is wanted. All are said of the settings that are
not in `missed`, to which each failing step adds its own. `Seen` relates what the plug-in has
seen to what is there, with the callbacks that are due.

`PluginLoaderProofs` proves for any finite set of bundles:

- `RequirementsComeFirst`: `Spec => []RequiredFirst`.
- `CallsAreOrdered`: `Spec => []LoaderInv`.

`Split` says that `sortBundles` loses and repeats no bundle, `Ordered` that as long as
it places bundles each follows all that it requires and none of those is one that
never can be ordered; the remaining ones are exactly those when nothing can be placed
any more. `Passes`, `Stops` and `Stopping` say what has been called at each position of
`plugin_exec` and of `stopBundles` and who is still waited for. An empty list of bundles was where the
first version of the model got stuck; `PassDone` ends a pass as `CFArrayApplyFunction` does.

### Assumptions on constants

`StoreAssumption` (finitely many patterns, the special values are no members of the
sets, some data is a date because touch writes one), `ServerAssumption` (the
constants are subsets of what they stand for), `PreferencesAssumption` (the fields
of a setting), `HelperAssumption` (clients are sessions; migration is modelled without
helpers), `PluginExecAssumption`, `KickerAssumption`, `ATconfigAssumption` and
`LinkAssumption` (the null values are no members of the sets, the default settings
are settings, there is at least one attempt), `LoaderAssumption` (finitely many
bundles).

### Only model-checked

Liveness and everything that depends on fairness, which is beyond the prover:
`DeadHolderReleases`, `DeadSessionsReaped`, `ChangesFetched`, `HelperLeaves`, `LockEnds`,
`ChildrenCalledBack`, `KicksHappen`, `RetriesEnd`, `TermExits`. Every invariant and every
other action property that a passing run checks is also a theorem.

## Plan

Done: the modules above, their runs and theorems. Next:

1. `StoreClient`: the notifier of the client library (`SCDNotifierInformViaCallback.c`,
   `SCDNotifierCancel.c`, `SCDNotifierWait.c`).
2. `KextLocks`: volume lock and load queue of kextd (`watchvol.c`) with dead owners.
3. The primary election of IPMonitor.

## Not modelled

The repository is an assembly of many projects, most of them larger than `configd`.

- launchd and mDNSResponder are concurrent systems of their own, each with a core
  file of some 7000 lines in which the state is spread over the whole file; a
  faithful model of a part would have to leave out most of what its
  handlers change.
- CF, IOKitUser, libdwarf, libelf, the security libraries: data structures and
  computation without protocol state. Their share of the source is most of it.
- IOHIDFamily, IOAudioFamily: bound to hardware and to a kernel runtime that is
  not in the repository.
- dnsinfo, scutil, scselect, SCMonitor, command line tools: no state between requests.
- Snapshots of the store write a file and change nothing.
- `SCNetwork*.c`: accessors of the preferences schema; reachability needs a model of
  the routing table, which is in the kernel.
- Image assembly scripts: sequential input and output.
- Of the modelled parts: tracing, serialization, the bundle search, the keychain and
  interface messages of the helper, and the run loop callbacks of `SCPOpen.c`.
