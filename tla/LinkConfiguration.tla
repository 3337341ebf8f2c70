------------------------- MODULE LinkConfiguration -------------------------
(***************************************************************************)
(* The link configuration plug-in of configd                               *)
(* (Plugins/LinkConfiguration/linkconfig.c): it applies the media options  *)
(* and the MTU that the store requests for an interface, remembers what    *)
(* the interface had before, and restores that when the request is gone.   *)
(* Media options are set with an ioctl, the MTU by running ifconfig, a     *)
(* child of the ExecService, which PluginExec implements.                  *)
(***************************************************************************)
EXTENDS ExecService, Integers, FiniteSets

CONSTANTS
  Interfaces,
  Media, MTUs,   \* the media options and the MTUs there are
  Default,       \* the media options and the MTU of an interface that attaches
  Unset,         \* a setting that is not part of a request
  Nothing,       \* no request, no remembered settings
  Faults,        \* what can fail: reading or setting the media options ("media"),
                 \* reading the MTU or a valid range for it ("mtu"), starting
                 \* ifconfig ("fork") and ifconfig itself ("ifconfig")
  Options,       \* the requests that are made
  MaxChanges     \* a bound on the changes of requests and interfaces

Requests == [media : Media \cup {Unset}, mtu : MTUs \cup {Unset}]

ASSUME LinkAssumption ==
  /\ Default \in Media \cap MTUs
  /\ Unset \notin Media \cup MTUs
  /\ Nothing \notin Requests
  /\ \A S \in SUBSET Interfaces : S # Nothing
  /\ Faults \subseteq {"media", "mtu", "fork", "ifconfig"}
  /\ Options \subseteq Requests
  /\ MaxChanges \in Nat

VARIABLES
  setup,          \* the request for each interface in the store
  told,           \* the interfaces whose request has changed
  attached,       \* the interfaces that exist: the list in the store
  toldList,       \* that list has changed
  keys, info,     \* the callback: the requests it has yet to apply, as copied
  newInterfaces,  \* the callback: the list it has yet to work on, as copied; or Nothing
  oldInterfaces,  \* the list as the plug-in last saw it
  wantSettings, baseSettings,
  media, mtu,     \* the settings of the interfaces in the kernel
  request,        \* the interface and the MTU of each ifconfig
  missed,         \* history: the interfaces and their settings that could not be
                  \* remembered or set once, or whose request was overtaken
  changes         \* how many changes there have been

store == <<setup, told, attached, toldList>>
callback == <<keys, info, newInterfaces>>
kept == <<oldInterfaces, wantSettings, baseSettings>>
vars == <<child, wanted, store, callback, kept, media, mtu, request, missed, changes>>

NoRequest == [if |-> Nothing, mtu |-> Unset]

TypeOK ==
  /\ child \in [Pids -> Stages]
  /\ setup \in [Interfaces -> Requests \cup {Nothing}]
  /\ told \subseteq Interfaces
  /\ attached \subseteq Interfaces
  /\ keys \subseteq Interfaces
  /\ info \in [Interfaces -> Requests \cup {Nothing}]
  /\ newInterfaces # Nothing => newInterfaces \subseteq Interfaces
  /\ oldInterfaces \subseteq Interfaces
  /\ wantSettings \in [Interfaces -> Requests \cup {Nothing}]
  /\ baseSettings \in [Interfaces -> Requests \cup {Nothing}]
  /\ media \in [Interfaces -> Media]
  /\ mtu \in [Interfaces -> MTUs]
  /\ request \in [Pids -> [if : Interfaces, mtu : MTUs] \cup {NoRequest}]
  /\ missed \subseteq Interfaces \X {"media", "mtu"}

\* load_LinkConfiguration, with the interfaces there and the list about to be
\* reported.
Init ==
  /\ ExecInit
  /\ setup = [i \in Interfaces |-> Nothing]
  /\ told = {}
  /\ attached = Interfaces
  /\ toldList = TRUE
  /\ keys = {} /\ info = [i \in Interfaces |-> Nothing] /\ newInterfaces = Nothing
  /\ oldInterfaces = {}
  /\ wantSettings = [i \in Interfaces |-> Nothing]
  /\ baseSettings = [i \in Interfaces |-> Nothing]
  /\ media = [i \in Interfaces |-> Default]
  /\ mtu = [i \in Interfaces |-> Default]
  /\ request = [p \in Pids |-> NoRequest]
  /\ missed = {}
  /\ changes = 0

---------------------------------------------------------------------------
(* The world                                                               *)

Changed == changes < MaxChanges /\ changes' = changes + 1

\* A request is set, changed or removed in the store.
Ask(i, options) ==
  /\ Changed
  /\ setup[i] # options
  /\ setup' = [setup EXCEPT ![i] = options]
  /\ told' = told \cup {i}
  /\ UNCHANGED <<child, wanted, attached, toldList, callback, kept, media, mtu,
                 request, missed>>

Detach(i) ==
  /\ Changed
  /\ i \in attached
  /\ attached' = attached \ {i}
  /\ toldList' = TRUE
  /\ media' = [media EXCEPT ![i] = Default]
  /\ mtu' = [mtu EXCEPT ![i] = Default]
  /\ UNCHANGED <<child, wanted, setup, told, callback, kept, request, missed>>

\* The plug-in will have the interface in its old list when it next gets a new one.
Known(i) == i \in oldInterfaces /\ (newInterfaces # Nothing => i \in newInterfaces)

\* An interface may be back before the plug-in has seen it go: it is in the old
\* list and in the new one, and its request is not applied again.
Attach(i) ==
  /\ Changed
  /\ i \notin attached
  /\ attached' = attached \cup {i}
  /\ toldList' = TRUE
  /\ missed' = missed \cup ({j \in {i} : Known(j)} \X {"media", "mtu"})
  /\ UNCHANGED <<child, wanted, setup, told, callback, kept, media, mtu, request>>

\* ifconfig sets the MTU of an interface that exists.
ifconfig(p, ok) ==
  LET i == request[p].if IN
  /\ Exit(p)
  /\ IF ok /\ i \in attached
     THEN mtu' = [mtu EXCEPT ![i] = request[p].mtu] /\ UNCHANGED missed
     ELSE UNCHANGED mtu /\ missed' = missed \cup ((attached \cap {i}) \X {"mtu"})
  /\ UNCHANGED <<store, callback, kept, media, request, changes>>

\* The exit status is only logged.
ifconfig_exit(p) ==
  /\ Callout(p)
  /\ request' = [request EXCEPT ![p] = NoRequest]
  /\ UNCHANGED <<store, callback, kept, media, mtu, missed, changes>>

---------------------------------------------------------------------------
(* updateLink                                                              *)

\* The value to be set: what is requested, else what was there before any
\* request, else what is there now.
Chosen(options, base, field, current) ==
  IF options # Nothing /\ options[field] # Unset THEN options[field]
  ELSE IF base # Nothing /\ base[field] # Unset THEN base[field] ELSE current

\* _SCNetworkInterfaceSetMediaOptions: nothing if they are the current ones, if they
\* cannot be read, if those wanted are not available or the ioctl fails.
SetMediaOptions(i, value) ==
  \/ i \in attached /\ media' = [media EXCEPT ![i] = value]
  \/ (i \in attached => "media" \in Faults) /\ UNCHANGED media

\* An ifconfig of the interface is running.
Pending(i) == \E p \in Pids : child[p] = "running" /\ request[p].if = i

\* _SCNetworkInterfaceSetMTU, in the build without USE_SIOCSIFMTU: nothing if the
\* MTU is the current one, cannot be read or is out of range, else an ifconfig that
\* will set it.  What else was missed is lost.
SetMTU(i, value, lost) ==
  LET overtaken == IF Pending(i) THEN {<<i, "mtu">>} ELSE {} IN
  \/ /\ i \notin attached \/ value = mtu[i]
     /\ missed' = missed \cup lost \cup overtaken
     /\ UNCHANGED <<child, wanted, request>>
  \/ /\ i \in attached /\ value # mtu[i]
     /\ \E p \in Pids :
          /\ Start(p, TRUE)
          /\ request' = [request EXCEPT ![p] = [if |-> i, mtu |-> value]]
     /\ missed' = missed \cup lost \cup overtaken
  \/ /\ Faults \cap {"mtu", "fork"} # {}
     /\ i \in attached /\ value # mtu[i]
     /\ missed' = missed \cup lost \cup {<<i, "mtu">>}
     /\ UNCHANGED <<child, wanted, request>>

\* The settings of an interface as far as they can be read.
Readable(i) ==
  LET read == [media : {media[i]} \cup {m \in {Unset} : "media" \in Faults},
               mtu : {mtu[i]} \cup {m \in {Unset} : "mtu" \in Faults}] IN
  {IF r.media = Unset /\ r.mtu = Unset THEN Nothing ELSE r : r \in read}

\* Mutant of BaseFor: the settings are remembered again at each request.
BaseFor_again(i, options) ==
  IF options # Nothing /\ i \in attached THEN Readable(i) ELSE {baseSettings[i]}

\* The settings before the first request, which is when they are remembered.
BaseFor(i, options) ==
  IF options # Nothing /\ i \in attached /\ baseSettings[i] = Nothing
  THEN Readable(i) ELSE {baseSettings[i]}

\* The settings of an interface with a request for which nothing is remembered.
Unread(i, options, base) ==
  IF options = Nothing \/ i \notin attached THEN {}
  ELSE {i} \X {field \in {"media", "mtu"} : base = Nothing \/ base[field] = Unset}

\* An interface that is not there keeps neither settings nor request, and what
\* was remembered of it is forgotten with the request.  No failure is looked at.
updateLink(i, options) ==
  \E base \in BaseFor(i, options) :
    LET wish == Chosen(options, base, "media", media[i])
        unset == {f \in {"media"} : i \in attached /\ media'[i] # wish} IN
    /\ wantSettings' = [wantSettings EXCEPT ![i] = options]
    /\ baseSettings' = [baseSettings EXCEPT
                          ![i] = IF options = Nothing THEN Nothing ELSE base]
    /\ SetMediaOptions(i, wish)
    /\ SetMTU(i, Chosen(options, base, "mtu", mtu[i]),
              Unread(i, options, base) \cup ({i} \X unset))
    /\ UNCHANGED mtu

---------------------------------------------------------------------------
(* linkConfigChangedCallback                                               *)

\* The callback copies what has changed, and works on that.
linkConfigChangedCallback ==
  /\ keys = {} /\ newInterfaces = Nothing
  /\ told # {} \/ toldList
  /\ keys' = told
  /\ info' = [i \in Interfaces |-> IF i \in told THEN setup[i] ELSE Nothing]
  /\ newInterfaces' = IF toldList THEN attached ELSE Nothing
  /\ told' = {} /\ toldList' = FALSE
  /\ UNCHANGED <<child, wanted, setup, attached, kept, media, mtu, request, missed,
                 changes>>

\* Mutant of RequestChanged: only requests are applied, a removal is noted.
RequestChanged_keeps(i) ==
  /\ i \in keys
  /\ keys' = keys \ {i} /\ info' = [info EXCEPT ![i] = Nothing]
  /\ IF info[i] # Nothing THEN updateLink(i, info[i])
     ELSE /\ wantSettings' = [wantSettings EXCEPT ![i] = Nothing]
          /\ UNCHANGED <<child, wanted, baseSettings, media, mtu, request, missed>>
  /\ UNCHANGED <<store, newInterfaces, oldInterfaces, changes>>

\* It comes to the key of an interface.
RequestChanged(i) ==
  /\ i \in keys
  /\ keys' = keys \ {i} /\ info' = [info EXCEPT ![i] = Nothing]
  /\ updateLink(i, info[i])
  /\ UNCHANGED <<store, newInterfaces, oldInterfaces, changes>>

\* It comes to the list of interfaces: updateInterfaces applies the request for one
\* that is new, even if it is gone by now.  A further one is the next step.
InterfaceIsNew(i) ==
  /\ newInterfaces # Nothing
  /\ i \in newInterfaces \ oldInterfaces
  /\ oldInterfaces' = oldInterfaces \cup {i}
  /\ updateLink(i, wantSettings[i])
  /\ UNCHANGED <<store, callback, changes>>

ListIsSeen ==
  /\ newInterfaces # Nothing
  /\ newInterfaces \subseteq oldInterfaces
  /\ oldInterfaces' = newInterfaces
  /\ newInterfaces' = Nothing
  /\ UNCHANGED <<child, wanted, store, keys, info, wantSettings, baseSettings, media,
                 mtu, request, missed, changes>>

---------------------------------------------------------------------------
Next ==
  \/ \E i \in Interfaces :
       \/ \E options \in Options \cup {Nothing} : Ask(i, options)
       \/ Detach(i)
       \/ Attach(i)
       \/ RequestChanged(i)
       \/ InterfaceIsNew(i)
  \/ linkConfigChangedCallback
  \/ ListIsSeen
  \/ \E p \in Pids :
       \/ ifconfig(p, TRUE)
       \/ "ifconfig" \in Faults /\ ifconfig(p, FALSE)
       \/ ifconfig_exit(p)

Spec == Init /\ [][Next]_vars

---------------------------------------------------------------------------
(* Properties                                                              *)

\* No change is left to be handed out or worked on and no ifconfig runs.
Quiet == told = {} /\ ~toldList /\ keys = {} /\ newInterfaces = Nothing /\ wanted = {}

\* What an interface should have: what is requested for it, and otherwise what it
\* had before anything was.
Due(i, field) ==
  IF setup[i] # Nothing /\ setup[i][field] # Unset THEN setup[i][field]
  ELSE Default

Settles(field, current) ==
  Quiet => \A i \in attached : <<i, field>> \notin missed => current[i] = Due(i, field)

\* At rest every interface has the MTU that is requested for it, or the one it
\* had before the first request ("restore original settings", linkconfig.c:473).
\* Not so once reading or setting it has failed, which is logged at most, nor one
\* whose request was applied while an ifconfig for it was running: the
\* current MTU that linkconfig.c:276 compares is about to change.
MTUSettles == Settles("mtu", mtu)

\* At rest every interface has the media options that are requested for it, or
\* those it had before the first request, in whatever order requests and interfaces
\* came and went.  Not so once reading or setting them has failed, which nobody
\* looks at (linkconfig.c:467), nor for an interface that was back before it was
\* seen to go (linkconfig.c:391).
MediaSettle == Settles("media", media)

\* Media options, which are set without a child process, with the types.
LinkInv == TypeOK /\ MediaSettle
=============================================================================
