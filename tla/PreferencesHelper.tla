------------------------- MODULE PreferencesHelper -------------------------
(***************************************************************************)
(* SCPreferences sessions of unprivileged processes that hold an           *)
(* authorization.  The client keeps its copy of the preferences; what needs *)
(* privileges it asks of SCHelper, a process of its own that serves one     *)
(* client through a socket and runs an ordinary preferences session.        *)
(*                                                                          *)
(* Session s of module Preferences is the session of the helper of client s *)
(* when s is a client, and that of a privileged process otherwise.          *)
(***************************************************************************)
EXTENDS Preferences

CONSTANTS
  Clients        \* the sessions that are run by a helper

\* Two more circumstances:
\*   readable      clients may read the preferences file themselves;
\*   helperFaults  the helper cannot open the preferences ("open"), or the
\*                 client's rights have expired ("auth").
ASSUME HelperAssumption ==
  /\ Clients \subseteq Sessions
  /\ \A w \in Settings :
       /\ w.readable \in BOOLEAN
       /\ w.helperFaults \subseteq {"open", "auth"}
       /\ ~w.legacy

VARIABLES
  clientOpen,      \* the clients that have a session
  helper,          \* the clients with prefsPrivate->helper != -1
  clientLocked,    \* prefsPrivate->locked, ... of the client's session
  clientWasLocked,
  clientAccessed,
  clientChanged,
  clientSignature,
  clientPrefs,
  clientBase,      \* history: the file that these are a copy of, or were written to
  request,         \* the call that the client is in
  command,         \* the message it has sent to the helper
  reply,           \* how far that message has come
  alive,           \* the helper processes
  saved            \* the helpers whose last commit or apply succeeded

copyVars   == <<clientAccessed, clientChanged, clientSignature, clientPrefs, clientBase>>
doorVars   == <<clientOpen, helper, clientLocked, clientWasLocked, request>>
clientVars == <<doorVars, copyVars>>
talkVars   == <<command, reply>>
hvars      == <<vars, clientVars, talkVars, alive, saved>>

Messages == {"none", "open", "lock", "trylock", "commit", "apply", "unlock",
             "synchronize", "access"}

HelperTypeOK ==
  /\ TypeOK
  /\ clientOpen \subseteq Clients
  /\ helper \subseteq Clients
  /\ clientLocked \subseteq Clients
  /\ clientWasLocked \subseteq Clients
  /\ clientAccessed \subseteq Clients
  /\ clientChanged \subseteq Clients
  /\ clientSignature \in [Clients -> 0 .. fileInodes]
  /\ clientPrefs \in [Clients -> Documents]
  /\ clientBase \in [Clients -> 0 .. fileInodes]
  /\ request \in [Clients -> Messages]
  /\ command \in [Clients -> Messages]
  /\ reply \in [Clients -> {"none", "sent", "loaded", "running", "denying", "ok",
                            "error"}]
  /\ alive \subseteq Clients
  /\ saved \subseteq Clients

-----------------------------------------------------------------------------
(* The client. *)

\* A client that is not waiting for its helper.
Ready(s) == s \in clientOpen /\ request[s] = "none"

\* _SCHelperExec: the message is written, then the reply awaited.
Send(s, m) ==
  /\ command' = [command EXCEPT ![s] = m]
  /\ reply' = [reply EXCEPT ![s] = "sent"]

Return(s) ==
  /\ request' = [request EXCEPT ![s] = "none"]
  /\ clientWasLocked' = clientWasLocked \ {s}
  /\ command' = [command EXCEPT ![s] = "none"]
  /\ reply' = [reply EXCEPT ![s] = "none"]

\* __SCPreferencesCreate_helper: without a helper one is started and told to
\* open the preferences before it gets the message itself.
Ask(s, m) ==
  IF s \in helper
  THEN Send(s, m) /\ UNCHANGED <<helper, alive>>
  ELSE Send(s, "open") /\ helper' = helper \cup {s} /\ alive' = alive \cup {s}

\* The message that asks for what the client's call needs first.
FirstMessage(r) == IF r \in {"commit", "apply"} THEN "lock" ELSE r

DropCopy(s) ==
  /\ clientAccessed' = clientAccessed \ {s}
  /\ clientChanged' = clientChanged \ {s}
  /\ clientSignature' = [clientSignature EXCEPT ![s] = 0]
  /\ clientPrefs' = [clientPrefs EXCEPT ![s] = {}]
  /\ clientBase' = [clientBase EXCEPT ![s] = 0]

ClientCreate(s) ==
  /\ s \notin clientOpen
  /\ s \notin alive
  /\ clientOpen' = clientOpen \cup {s}
  /\ DropCopy(s)
  /\ command' = [command EXCEPT ![s] = "none"]
  /\ reply' = [reply EXCEPT ![s] = "none"]
  /\ UNCHANGED <<vars, helper, clientLocked, clientWasLocked, request, alive, saved>>

\* Reading a file that the client may read itself.
ClientReads(s) ==
  /\ Ready(s) /\ setting.readable /\ s \notin clientAccessed
  /\ clientAccessed' = clientAccessed \cup {s}
  /\ clientSignature' = [clientSignature EXCEPT ![s] = newFile]
  /\ clientBase' = [clientBase EXCEPT ![s] = newFile]
  /\ clientPrefs' = [clientPrefs EXCEPT ![s] =
                       IF newFile = 0 \/ data[newFile] = Partial THEN {}
                       ELSE data[newFile]]
  /\ clientChanged' = IF newFile = 0 \/ data[newFile] = Partial
                      THEN clientChanged \cup {s} ELSE clientChanged
  /\ UNCHANGED <<vars, clientOpen, helper, clientLocked, clientWasLocked, request,
                 talkVars, alive, saved>>

\* Setting or removing a value of the copy.
ClientEdits(s) ==
  /\ Ready(s) /\ s \in clientAccessed
  /\ \E k \in setting.keys :
       clientPrefs' \in {[clientPrefs EXCEPT ![s] = @ \cup {k}],
                         [clientPrefs EXCEPT ![s] = @ \ {k}]}
  /\ clientChanged' = clientChanged \cup {s}
  /\ UNCHANGED <<vars, clientOpen, helper, clientLocked, clientWasLocked,
                 clientAccessed, clientSignature, clientBase, request, talkVars, alive,
                 saved>>

\* A call that begins with a message which starts a helper if need be: Lock,
\* Commit and Apply without the lock, and reading through the helper.
ClientAsks(s, r) ==
  /\ Ready(s)
  /\ CASE r \in {"lock", "trylock", "commit", "apply"} -> s \notin clientLocked /\ Counted
       [] r = "access" -> /\ ~setting.readable /\ s \notin clientAccessed
                          /\ UNCHANGED boundVars
  /\ request' = [request EXCEPT ![s] = r]
  /\ Ask(s, FirstMessage(r))
  /\ UNCHANGED <<diskVars, lockVars, callVars, cacheVars, path, store, tfd,
                 clientOpen, clientLocked, clientWasLocked, copyVars, saved>>

\* Commit and Apply with the lock: without a helper they fail at once.
ClientHasLock(s, r) ==
  /\ Ready(s) /\ s \in clientLocked /\ s \in helper
  /\ Counted
  /\ clientWasLocked' = clientWasLocked \cup {s}
  /\ request' = [request EXCEPT ![s] = r]
  /\ Send(s, r)
  /\ UNCHANGED <<diskVars, lockVars, callVars, cacheVars, path, store, tfd,
                 clientOpen, helper, clientLocked, copyVars, alive, saved>>

\* Unlock fails without a helper, and the session stays locked.
ClientUnlocks(s) ==
  /\ Ready(s) /\ s \in clientLocked /\ s \in helper
  /\ request' = [request EXCEPT ![s] = "unlock"]
  /\ Send(s, "unlock")
  /\ UNCHANGED <<vars, clientOpen, helper, clientLocked, clientWasLocked, copyVars,
                 alive, saved>>

\* The copy is dropped, and the helper, if there is one, told to drop its own.
ClientSynchronizes(s) ==
  /\ Ready(s)
  /\ IF s \in helper
     THEN Send(s, "synchronize") /\ request' = [request EXCEPT ![s] = "synchronize"]
     ELSE UNCHANGED <<request, talkVars>>
  /\ DropCopy(s)
  /\ UNCHANGED <<vars, clientOpen, helper, clientLocked, clientWasLocked, alive,
                 saved>>

\* The session is released, or its process dies: the socket is closed.  The
\* messages CLOSE and EXIT of a release do what the end of file does.
ClientEnds(s) ==
  /\ s \in clientOpen
  /\ clientOpen' = clientOpen \ {s}
  /\ helper' = helper \ {s}
  /\ clientLocked' = clientLocked \ {s}
  /\ clientWasLocked' = clientWasLocked \ {s}
  /\ request' = [request EXCEPT ![s] = "none"]

ClientCloses(s) ==
  /\ Ready(s)
  /\ ClientEnds(s)
  /\ DropCopy(s)
  /\ UNCHANGED <<vars, talkVars, alive, saved>>

\* A message that has been written stays in the socket.
ClientDies(s) ==
  /\ request[s] # "none"
  /\ crashes < setting.crashes
  /\ crashes' = crashes + 1
  /\ ClientEnds(s)
  /\ UNCHANGED <<diskVars, lockVars, callVars, cacheVars, path, store, tfd, calls,
                 setting, torn, copyVars, talkVars, alive, saved>>

-----------------------------------------------------------------------------
(* What the client does with the reply to its message. *)

\* The helper has died before it replied: the socket is at its end.
NoReply(s) == s \notin alive /\ reply[s] \notin {"none", "ok", "error"}

Answered(s, m, r) ==
  /\ s \in clientOpen
  /\ command[s] \in m
  /\ IF r = "gone" THEN NoReply(s) ELSE reply[s] = r
  /\ UNCHANGED <<vars, clientOpen, alive, saved>>

\* The client closes its end when the helper does not answer, not when it
\* answers with an error.
Hangup(s, r) == helper' = IF r = "gone" THEN helper \ {s} ELSE helper

\* Without the helper's copy the client starts with empty preferences.
StartEmpty(s) ==
  /\ clientAccessed' = clientAccessed \cup {s}
  /\ clientChanged' = clientChanged \cup {s}
  /\ clientSignature' = [clientSignature EXCEPT ![s] = 0]
  /\ clientPrefs' = [clientPrefs EXCEPT ![s] = {}]
  /\ clientBase' = [clientBase EXCEPT ![s] = 0]

Opened(s) ==
  /\ Answered(s, {"open"}, "ok")
  /\ Send(s, FirstMessage(request[s]))
  /\ UNCHANGED <<helper, clientLocked, clientWasLocked, copyVars, request>>

OpenFailed(s, r) ==
  /\ Answered(s, {"open"}, r)
  /\ Hangup(s, r)
  /\ Return(s)
  /\ IF request[s] = "access" THEN StartEmpty(s) ELSE UNCHANGED copyVars
  /\ UNCHANGED clientLocked

Locked(s) ==
  /\ Answered(s, {"lock", "trylock"}, "ok")
  /\ clientLocked' = clientLocked \cup {s}
  /\ IF request[s] \in {"commit", "apply"}
     THEN Send(s, request[s]) /\ UNCHANGED <<request, clientWasLocked>>
     ELSE Return(s)
  /\ UNCHANGED <<helper, copyVars>>

LockFailed(s, r) ==
  /\ Answered(s, {"lock", "trylock"}, r)
  /\ Hangup(s, r)
  /\ Return(s)
  /\ UNCHANGED <<clientLocked, copyVars>>

\* The label done: of Commit and Apply.  Unlocking fails without a helper.
ClientDone(s, r) ==
  IF s \in clientWasLocked \/ r = "gone"
  THEN Return(s)
  ELSE Send(s, "unlock") /\ UNCHANGED <<request, clientWasLocked>>

\* Mutant of Worked: the signature in the reply is not taken over.
Worked_unsigned(s) ==
  /\ Answered(s, {"commit", "apply"}, "ok")
  /\ clientChanged' = IF command[s] = "commit" THEN clientChanged \ {s}
                      ELSE clientChanged
  /\ ClientDone(s, "ok")
  /\ UNCHANGED <<helper, clientLocked, clientAccessed, clientSignature, clientPrefs,
                 clientBase>>

Worked(s) ==
  /\ Answered(s, {"commit", "apply"}, "ok")
  /\ IF command[s] = "commit" /\ s \in clientChanged
     THEN /\ clientSignature' = [clientSignature EXCEPT ![s] = signature[s]]
          /\ clientChanged' = clientChanged \ {s}
     ELSE UNCHANGED <<clientSignature, clientChanged>>
  /\ ClientDone(s, "ok")
  /\ UNCHANGED <<helper, clientLocked, clientAccessed, clientPrefs, clientBase>>

WorkFailed(s, r) ==
  /\ Answered(s, {"commit", "apply"}, r)
  /\ Hangup(s, r)
  /\ ClientDone(s, r)
  /\ UNCHANGED <<clientLocked, copyVars>>

Unlocked(s) ==
  /\ Answered(s, {"unlock"}, "ok")
  /\ clientLocked' = clientLocked \ {s}
  /\ Return(s)
  /\ UNCHANGED <<helper, copyVars>>

UnlockFailed(s, r) ==
  /\ Answered(s, {"unlock"}, r)
  /\ Hangup(s, r)
  /\ Return(s)
  /\ UNCHANGED <<clientLocked, copyVars>>

Synchronized(s, r) ==
  /\ Answered(s, {"synchronize"}, r)
  /\ Hangup(s, r)
  /\ Return(s)
  /\ UNCHANGED <<clientLocked, copyVars>>

\* A helper without preferences answers without a copy.
HasCopy(s) == s \in alive

Accessed(s) ==
  /\ Answered(s, {"access"}, "ok")
  /\ HasCopy(s)
  /\ clientAccessed' = clientAccessed \cup {s}
  /\ clientSignature' = [clientSignature EXCEPT ![s] = signature[s]]
  /\ clientBase' = [clientBase EXCEPT ![s] = base[s]]
  /\ clientPrefs' = [clientPrefs EXCEPT ![s] = prefs[s]]
  /\ Return(s)
  /\ UNCHANGED <<helper, clientLocked, clientChanged>>

AccessFailed(s, r) ==
  /\ Answered(s, {"access"}, r)
  /\ r = "ok" => ~HasCopy(s)
  /\ helper' = IF r = "error" THEN helper ELSE helper \ {s}
  /\ StartEmpty(s)
  /\ Return(s)
  /\ UNCHANGED clientLocked

-----------------------------------------------------------------------------
(* The helper. *)

Serving(s, m) == s \in alive /\ command[s] \in m /\ reply[s] = "sent"

Answer(s, r) ==
  /\ reply' = [reply EXCEPT ![s] = r]
  /\ UNCHANGED <<clientVars, command>>

HelperRefuses(s) ==
  /\ "auth" \in setting.helperFaults
  /\ Serving(s, {"access", "lock", "trylock", "commit", "apply"})
  /\ Answer(s, "error")
  /\ UNCHANGED <<vars, alive, saved>>

HelperOpens(s) ==
  /\ Serving(s, {"open"})
  /\ SCPreferencesCreate(s)
  /\ Answer(s, "running")
  /\ UNCHANGED <<alive, saved>>

HelperOpenFails(s) ==
  /\ "open" \in setting.helperFaults
  /\ Serving(s, {"open"})
  /\ Answer(s, "error")
  /\ UNCHANGED <<vars, alive, saved>>

\* A handler that finds no preferences returns FALSE: that ends the loop, but
\* only after a reply whose status is still kSCStatusOK.
HelperHasNone(s) ==
  /\ s \in alive /\ reply[s] = "sent" /\ command[s] # "open"
  /\ pc[s] = "closed"
  /\ Answer(s, "ok")
  /\ alive' = alive \ {s}
  /\ UNCHANGED <<vars, saved>>

HelperLocks(s) ==
  /\ Serving(s, {"lock", "trylock"})
  /\ pc[s] = "idle"
  /\ IF s \in locked THEN Answer(s, "error") /\ UNCHANGED vars
     ELSE Acquire(s, command[s]) /\ UNCHANGED boundVars /\ Answer(s, "running")
  /\ UNCHANGED <<alive, saved>>

\* Mutant of HelperCompares: the client's signature is ignored.
HelperCompares_none(s) ==
  /\ s \in alive /\ command[s] \in {"lock", "trylock"} /\ reply[s] = "running"
  /\ s \in locked
  /\ pc[s] = "idle" /\ Answer(s, "ok") /\ UNCHANGED vars
  /\ UNCHANGED <<alive, saved>>

\* Mutant of HelperCompares: the lock is denied but not given back.
HelperCompares_keeps(s) ==
  /\ s \in alive /\ command[s] \in {"lock", "trylock"} /\ reply[s] = "running"
  /\ s \in locked
  /\ IF s \in clientAccessed
     THEN /\ SCPreferencesGetValue(s)
          /\ Answer(s, IF signature'[s] = clientSignature[s] THEN "ok" ELSE "error")
     ELSE pc[s] = "idle" /\ Answer(s, "ok") /\ UNCHANGED vars
  /\ UNCHANGED <<alive, saved>>

\* The client's signature is compared with that of the helper's own copy, which
\* is read under the lock unless the helper has one already.
HelperCompares(s) ==
  /\ s \in alive /\ command[s] \in {"lock", "trylock"} /\ reply[s] = "running"
  /\ s \in locked
  /\ IF s \in clientAccessed
     THEN /\ SCPreferencesGetValue(s)
          /\ Answer(s, IF signature'[s] = clientSignature[s] THEN "ok" ELSE "denying")
     ELSE pc[s] = "idle" /\ Answer(s, "ok") /\ UNCHANGED vars
  /\ UNCHANGED <<alive, saved>>

HelperDenies(s) ==
  /\ s \in alive /\ reply[s] = "denying"
  /\ SCPreferencesUnlock(s)
  /\ UNCHANGED <<clientVars, talkVars, alive, saved>>

\* A commit with changes first replaces the helper's copy by the client's.
HelperLoads(s) ==
  /\ Serving(s, {"commit"})
  /\ pc[s] = "idle" /\ s \in clientChanged
  /\ prefs' = [prefs EXCEPT ![s] = clientPrefs[s]]
  /\ accessed' = accessed \cup {s}
  /\ changed' = changed \cup {s}
  /\ Answer(s, "loaded")
  /\ UNCHANGED <<diskVars, lockVars, callVars, signature, base, path, store, tfd,
                 boundVars, alive, saved>>

HelperWorks(s) ==
  /\ \/ Serving(s, {"commit"}) /\ s \notin clientChanged /\ SCPreferencesCommitChanges(s)
     \/ s \in alive /\ reply[s] = "loaded" /\ SCPreferencesCommitChanges(s)
     \/ Serving(s, {"apply"}) /\ SCPreferencesApplyChanges(s)
  /\ UNCHANGED boundVars
  /\ saved' = saved \ {s}
  /\ Answer(s, "running")
  /\ UNCHANGED alive

HelperUnlocks(s) ==
  /\ Serving(s, {"unlock"})
  /\ \/ s \in locked /\ SCPreferencesUnlock(s) /\ Answer(s, "running")
     \/ s \notin locked /\ pc[s] = "idle" /\ Answer(s, "error") /\ UNCHANGED vars
  /\ UNCHANGED <<alive, saved>>

HelperAccesses(s) ==
  /\ Serving(s, {"access"})
  /\ SCPreferencesGetValue(s)
  /\ Answer(s, "ok")
  /\ UNCHANGED <<alive, saved>>

HelperSynchronizes(s) ==
  /\ Serving(s, {"synchronize"})
  /\ SCPreferencesSynchronize(s)
  /\ Answer(s, "ok")
  /\ UNCHANGED <<alive, saved>>

\* The steps of the call that the helper is in.  A rename makes a file of the
\* client's copy.
HelperRuns(s) ==
  /\ s \in alive
  /\ \/ Proceed(s) /\ UNCHANGED saved
     \/ Notify(s) /\ saved' = saved \cup {s}
  /\ clientBase' = IF newFile' = newFile THEN clientBase
                   ELSE [clientBase EXCEPT ![s] = newFile']
  /\ UNCHANGED <<doorVars, clientAccessed, clientChanged, clientSignature, clientPrefs,
                 talkVars, alive>>

\* The call has returned.
HelperReplies(s) ==
  /\ s \in alive /\ reply[s] \in {"running", "denying"}
  /\ pc[s] = "idle"
  /\ \/ command[s] \in {"open", "unlock"} /\ Answer(s, "ok") /\ UNCHANGED vars
     \/ /\ command[s] \in {"lock", "trylock"} /\ s \notin locked
        /\ Answer(s, "error") /\ UNCHANGED vars
     \/ /\ command[s] = "commit" /\ s \in saved
        /\ SCPreferencesGetValue(s)
        /\ Answer(s, "ok")
     \/ command[s] = "apply" /\ s \in saved /\ Answer(s, "ok") /\ UNCHANGED vars
     \/ /\ command[s] \in {"commit", "apply"} /\ s \notin saved
        /\ Answer(s, "error") /\ UNCHANGED vars
  /\ UNCHANGED <<alive, saved>>

\* Mutant of HelperReleases: a session that has the lock only drops its copy.
HelperReleases_kept(s) ==
  /\ s \in alive \ clientOpen
  /\ reply[s] \in {"none", "ok", "error"}
  /\ IF s \in locked THEN SCPreferencesSynchronize(s) ELSE SCPreferencesRelease(s)
  /\ UNCHANGED <<clientVars, talkVars, alive, saved>>

\* At the end of file the helper releases its session and exits.  Writing to a
\* socket whose other end is closed kills it.
HelperReleases(s) ==
  /\ s \in alive \ clientOpen
  /\ reply[s] \in {"none", "ok", "error"}
  /\ SCPreferencesRelease(s)
  /\ UNCHANGED <<clientVars, talkVars, alive, saved>>

HelperExits(s) ==
  /\ s \in alive \ clientOpen
  /\ reply[s] \in {"none", "ok", "error"}
  /\ \/ pc[s] = "closed" /\ UNCHANGED vars
     \/ /\ reply[s] \in {"ok", "error"} /\ pc[s] = "idle"
        /\ Vanish(s) /\ UNCHANGED boundVars
  /\ alive' = alive \ {s}
  /\ saved' = saved \ {s}
  /\ UNCHANGED <<clientVars, talkVars>>

\* A death after the reply has been written is one after it has been read.
HelperDies(s) ==
  /\ s \in alive
  /\ reply[s] \notin {"ok", "error"}
  /\ Die(s)
  /\ alive' = alive \ {s}
  /\ saved' = saved \ {s}
  /\ UNCHANGED <<clientVars, talkVars>>

-----------------------------------------------------------------------------

HelperInit ==
  /\ Init
  /\ clientOpen = {} /\ helper = {} /\ clientLocked = {} /\ clientWasLocked = {}
  /\ clientAccessed = {} /\ clientChanged = {}
  /\ clientSignature = [s \in Clients |-> 0]
  /\ clientPrefs = [s \in Clients |-> {}]
  /\ clientBase = [s \in Clients |-> 0]
  /\ request = [s \in Clients |-> "none"]
  /\ command = [s \in Clients |-> "none"]
  /\ reply = [s \in Clients |-> "none"]
  /\ alive = {} /\ saved = {}

ClientCalls(s) ==
  \/ ClientCreate(s) \/ ClientReads(s) \/ ClientEdits(s)
  \/ \E r \in {"lock", "trylock", "commit", "apply", "access"} : ClientAsks(s, r)
  \/ \E r \in {"commit", "apply"} : ClientHasLock(s, r)
  \/ ClientUnlocks(s) \/ ClientSynchronizes(s) \/ ClientCloses(s)

ClientContinues(s) ==
  \/ Opened(s) \/ Locked(s) \/ Worked(s) \/ Unlocked(s) \/ Accessed(s)
  \/ \E r \in {"error", "gone"} :
       OpenFailed(s, r) \/ LockFailed(s, r) \/ WorkFailed(s, r) \/ UnlockFailed(s, r)
  \/ \E r \in {"ok", "error", "gone"} : Synchronized(s, r) \/ AccessFailed(s, r)

HelperContinues(s) ==
  \/ HelperRefuses(s)
  \/ HelperOpens(s) \/ HelperOpenFails(s) \/ HelperHasNone(s)
  \/ HelperLocks(s) \/ HelperCompares(s) \/ HelperDenies(s)
  \/ HelperLoads(s) \/ HelperWorks(s) \/ HelperUnlocks(s)
  \/ HelperAccesses(s) \/ HelperSynchronizes(s)
  \/ HelperRuns(s) \/ HelperReplies(s)
  \/ HelperReleases(s) \/ HelperExits(s)

Privileged(s) ==
  /\ Request(s) \/ Step(s) \/ Die(s)
  /\ UNCHANGED <<clientVars, talkVars, alive, saved>>

HelperNext ==
  \/ \E s \in Sessions \ Clients : Privileged(s)
  \/ \E s \in Clients : \/ ClientCalls(s) \/ ClientDies(s) \/ ClientContinues(s)
                        \/ HelperContinues(s) \/ HelperDies(s)

HelperSpec == HelperInit /\ [][HelperNext]_hvars

\* A call that has begun is carried on: helpers, waiting clients and the processes
\* of the other sessions are runnable, and the kernel wakes a waiter of a lock that
\* has become free.  Nothing makes a client call.
HelperFairSpec ==
  /\ HelperSpec
  /\ \A s \in Sessions \ Clients :
       WF_hvars(Step(s) /\ UNCHANGED <<clientVars, talkVars, alive, saved>>)
  /\ \A s \in Clients : WF_hvars(ClientContinues(s)) /\ WF_hvars(HelperContinues(s))

-----------------------------------------------------------------------------
(* Properties. *)

\* The circumstances in which a helper has preferences.  One that could not open
\* them still answers with success (SCHelper_server.c:393).
Opens == "open" \notin setting.helperFaults

\* Between two calls no helper has a lock that its client does not know of, so that
\* none is kept for ever; and as long as no process was killed a client that has the
\* lock has it through its helper.  After that only a client that reads the file
\* itself never talks to another helper than the one that has its lock: reading
\* through the helper starts a new one without it (SCPOpen.c:263).
LocksAgree ==
  Opens =>
    \A s \in Clients : Ready(s) =>
      /\ s \in locked => s \in clientLocked
      /\ s \in clientLocked \cap helper /\ (crashes = 0 \/ (setting.readable /\ s \in alive))
           => s \in locked

\* The preferences that a client gave to its helper replace the file that the
\* client made them from or wrote them to, although it was the helper that compared
\* signatures.  A client that was refused the file by its helper has no such file and
\* takes the preferences for empty, as in SCPOpen.c:471.
ClientLosesNothing ==
  [][\A s \in Clients :
       /\ Opens
       /\ pc[s] = "rename" /\ newFile' # newFile
       /\ s \in clientChanged
       /\ setting.readable \/ clientBase[s] # 0
       => clientBase[s] = newFile]_hvars

\* What a client was told is saved is in the file that its signature names.  A
\* client without a file has nothing.
ClientSaved ==
  Opens =>
    \A s \in Clients :
      Ready(s) /\ s \in clientAccessed \ clientChanged =>
        clientPrefs[s] = IF clientSignature[s] = 0 THEN {} ELSE data[clientSignature[s]]

\* The same, with the types.
HelperInv == HelperTypeOK /\ ClientSaved

\* The session keeps the lock because nobody asks for anything else: a privileged
\* process that is between two calls, or a helper whose client is.  The helper of a
\* client that has gone is not excused.
Keeps(t) == t \in locked /\ pc[t] = "idle" /\ (t \in Clients => Ready(t))

\* A client that goes away, even while its helper waits for the lock or has it,
\* leaves no helper behind, unless somebody else keeps that lock.
HelperLeaves ==
  \A s \in Clients :
    s \in alive \ clientOpen ~>
      \/ s \notin alive \ clientOpen
      \/ \E t \in Sessions \ {s} : Keeps(t)

Acquiring(s) == pc[s] \in {"open", "flock", "check", "stale"}

\* Acquiring the lock ends, unless somebody else keeps it: neither a dead holder,
\* nor the file it left behind, nor the helper of a client that has gone blocks
\* anyone.
LockEnds ==
  \A s \in Sessions :
    Acquiring(s) ~> \/ ~Acquiring(s)
                    \/ \E t \in Sessions \ {s} : Keeps(t)
=============================================================================
