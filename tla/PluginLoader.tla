--------------------------- MODULE PluginLoader ---------------------------
(***************************************************************************)
(* The plug-in thread of configd (configd.tproj/plugin_support.c) from its *)
(* start to the end of the process.  It sorts the bundles by their         *)
(* Requires lists, loads them, calls their load(), start() and prime()     *)
(* functions and enters its run loop.  SIGTERM (configd.m) reaches the     *)
(* main thread as a message; that thread asks the plug-in thread to call   *)
(* the stop() functions and the process ends when every plug-in has        *)
(* signalled or 20 seconds have passed.                                    *)
(***************************************************************************)
EXTENDS Naturals, Sequences, SequencesExt, FiniteSets

CONSTANTS
  Bundles,
  Missing,        \* the identifier of a bundle that is not installed
  NULL,           \* exiting, before the first request to stop
  Requirements,   \* the Requires lists a bundle can have
  Entries,        \* the sets of entry points a bundle can have
  MaxLocks,       \* a bound on how often clients lock the store
  MaxTerms        \* a bound on the signals

ASSUME LoaderAssumption ==
  /\ IsFiniteSet(Bundles)
  /\ Missing \notin Bundles
  /\ \A S \in SUBSET Bundles : S # NULL
  /\ Requirements \subseteq SUBSET (Bundles \cup {Missing})
  /\ Entries \subseteq SUBSET {"load", "start", "prime", "stop"}
  /\ MaxLocks \in Nat /\ MaxTerms \in Nat

VARIABLES
  requires,       \* kSCBundleRequiresKey of each bundle, {} without the key
  keyed,          \* the bundles with that key in their Info.plist
  entry,          \* the functions of a bundle; its start() counts only if
                  \* callStartFunction accepts the name of the bundle
  orig, new,      \* sortBundles: the bundles still to place, the placed ones
  circular,       \* sortBundles has reported a circular dependency
  phase,          \* what plugin_exec is doing
  next,           \* the position in allBundles it has reached
  loaded,
  called,         \* history: the functions of each bundle called so far
  exiting,        \* the bundles whose stop() has yet to complete; or NULL
  termRls,        \* stopBundles is signalled to run on the plug-in run loop
  inStop,         \* stopBundles runs: "between" two bundles, "inside" a stop()
  timer,          \* the 20 second timer is set
  signalled,      \* the bundles that have signalled their stopRls
  termRequested,  \* a message waits on the port of the signal handler
  storeLocked,    \* a client holds the lock of the store
  exited,         \* how the process has ended
  locks, terms

sorting == <<requires, keyed, entry, orig, new, circular>>
calling == <<phase, next, loaded, called>>
stopping == <<exiting, termRls, inStop, timer, signalled>>
main == <<termRequested, storeLocked>>
counters == <<locks, terms>>
vars == <<sorting, calling, stopping, main, exited, counters>>

Position(s, e) == CHOOSE i \in DOMAIN s : s[i] = e

\* The passes of plugin_exec in their order.
Phases == <<"sort", "loadBundle", "load", "start", "prime", "run">>
After(p) == Phases[Position(Phases, p) + 1]

TypeOK ==
  /\ requires \in [Bundles -> Requirements \cup {{}}]
  /\ keyed \subseteq Bundles
  /\ entry \in [Bundles -> Entries]
  /\ orig \in Seq(Bundles) /\ new \in Seq(Bundles)
  /\ Len(orig) + Len(new) = Cardinality(Bundles)
  /\ Cardinality(Range(orig) \cup Range(new)) = Cardinality(Bundles)
  /\ phase \in Range(Phases)
  /\ next \in 1 .. Cardinality(Bundles) + 1
  /\ loaded \subseteq Bundles
  /\ called \in [Bundles -> SUBSET {"load", "start", "prime", "stop"}]
  /\ exiting # NULL => exiting \subseteq loaded
  /\ inStop \in {"no", "between", "inside"}
  /\ signalled \subseteq loaded
  /\ exited \in {"no", "loading", "complete", "delayed"}

\* addBundle for every bundle of the directory; no bundle has been sorted.
Init ==
  /\ keyed \in SUBSET Bundles
  /\ requires \in [Bundles -> Requirements \cup {{}}]
  /\ \A b \in Bundles \ keyed : requires[b] = {}
  /\ entry \in [Bundles -> Entries]
  /\ orig = SetToSeq(Bundles) /\ new = <<>> /\ circular = FALSE
  /\ phase = "sort" /\ next = 1 /\ loaded = {}
  /\ called = [b \in Bundles |-> {}]
  /\ exiting = NULL /\ termRls = FALSE /\ inStop = "no" /\ timer = FALSE /\ signalled = {}
  /\ termRequested = FALSE /\ storeLocked = FALSE
  /\ exited = "no"
  /\ locks = 0 /\ terms = 0

Running == exited = "no"

---------------------------------------------------------------------------
(* The plug-in thread: sortBundles.                                        *)

\* A bundle without a Requires list, or with one whose bundles are placed.
Placeable(b) == b \in keyed => requires[b] \subseteq Range(new)

\* Mutant of Place: a bundle whose requirements are met goes to the front too.
Place_front ==
  /\ Running /\ phase = "sort"
  /\ \E i \in DOMAIN orig :
       /\ Placeable(orig[i])
       /\ \A j \in 1 .. i - 1 : ~ Placeable(orig[j])
       /\ new' = <<orig[i]>> \o new
       /\ orig' = RemoveAt(orig, i)
  /\ UNCHANGED <<requires, keyed, entry, circular, calling, stopping, main,
                 exited, counters>>

\* One round of the sort: the first bundle that can be placed leaves the list,
\* to the front when it has no Requires list, otherwise to the end.
Place ==
  /\ Running /\ phase = "sort"
  /\ \E i \in DOMAIN orig :
       /\ Placeable(orig[i])
       /\ \A j \in 1 .. i - 1 : ~ Placeable(orig[j])
       /\ new' = IF orig[i] \in keyed THEN Append(new, orig[i])
                                      ELSE <<orig[i]>> \o new
       /\ orig' = RemoveAt(orig, i)
  /\ UNCHANGED <<requires, keyed, entry, circular, calling, stopping, main,
                 exited, counters>>

\* The sort ends; bundles that could not be placed follow in their old order.
Sorted ==
  /\ Running /\ phase = "sort"
  /\ \A i \in DOMAIN orig : ~ Placeable(orig[i])
  /\ circular' = (orig # <<>>)
  /\ new' = new \o orig
  /\ orig' = <<>>
  /\ phase' = After("sort")
  /\ UNCHANGED <<requires, keyed, entry, next, loaded, called, stopping, main,
                 exited, counters>>

---------------------------------------------------------------------------
(* The plug-in thread: the passes over allBundles.                         *)

\* One bundle of a pass is done.
Advance ==
  /\ next <= Len(new)
  /\ next' = next + 1

\* A pass is done with the last bundle, at once if there is none.
PassDone ==
  /\ Running /\ phase \notin {"sort", "run"}
  /\ next > Len(new)
  /\ phase' = After(phase) /\ next' = 1
  /\ UNCHANGED <<sorting, loaded, called, stopping, main, exited, counters>>

\* An enabled bundle that is not excluded is loaded, or cannot be.
loadBundle ==
  /\ Running /\ phase = "loadBundle"
  /\ Advance
  /\ loaded' \in {loaded, loaded \cup {new[next]}}
  /\ UNCHANGED <<sorting, phase, called, stopping, main, exited, counters>>

\* callLoadFunction, callStartFunction, callPrimeFunction.
callFunction ==
  /\ Running /\ phase \in {"load", "start", "prime"}
  /\ Advance
  /\ LET b == new[next] IN
       called' = IF b \in loaded THEN [called EXCEPT ![b] = @ \cup ({phase} \cap entry[b])]
                                 ELSE called
  /\ UNCHANGED <<sorting, phase, loaded, stopping, main, exited, counters>>

---------------------------------------------------------------------------
(* The plug-in thread: shut down, on its run loop.                         *)

Stoppable == {b \in loaded : "stop" \in entry[b]}

\* The run loop can serve a source: no callback is running.
RunLoopIdle == phase = "run" /\ inStop = "no"

\* stopBundles is entered.
stopBundles ==
  /\ Running /\ RunLoopIdle /\ termRls
  /\ termRls' = FALSE
  /\ inStop' = "between" /\ next' = 1
  /\ UNCHANGED <<sorting, phase, loaded, called, exiting, timer, signalled, main,
                 exited, counters>>

\* The stop() function of the next bundle is called with a source to signal.
stopBundle ==
  /\ Running /\ inStop = "between" /\ next <= Len(new)
  /\ LET b == new[next] IN
       IF b \in Stoppable
       THEN /\ exiting' = exiting \cup {b}
            /\ called' = [called EXCEPT ![b] = @ \cup {"stop"}]
            /\ inStop' = "inside"
            /\ UNCHANGED next
       ELSE Advance /\ UNCHANGED <<exiting, called, inStop>>
  /\ UNCHANGED <<sorting, phase, loaded, termRls, timer, signalled, main, exited,
                 counters>>

\* It returns, or never does.
stopReturns ==
  /\ Running /\ inStop = "inside"
  /\ Advance
  /\ inStop' = "between"
  /\ UNCHANGED <<sorting, phase, loaded, called, exiting, termRls, timer, signalled,
                 main, exited, counters>>

\* Mutant of StopsCalled: no timer limits how long the plug-ins may take.
StopsCalled_waits ==
  /\ Running /\ inStop = "between" /\ next > Len(new)
  /\ inStop' = "no"
  /\ exited' = IF exiting = {} THEN "complete" ELSE exited
  /\ UNCHANGED <<sorting, calling, exiting, termRls, timer, signalled, main, counters>>

\* The rest of stopBundles, once every stop() function has returned: without any the
\* process ends, else the timer is set.
StopsCalled ==
  /\ Running /\ inStop = "between" /\ next > Len(new)
  /\ inStop' = "no"
  /\ exited' = IF exiting = {} THEN "complete" ELSE exited
  /\ timer' = (exiting # {})
  /\ UNCHANGED <<sorting, calling, exiting, termRls, signalled, main, counters>>

\* A plug-in signals its source, in stop() or later.
PluginReady(b) ==
  /\ Running
  /\ "stop" \in called[b] /\ b \notin signalled
  /\ signalled' = signalled \cup {b}
  /\ UNCHANGED <<sorting, calling, exiting, termRls, inStop, timer, main, exited,
                 counters>>

\* Mutant of stopComplete: the first plug-in that is ready ends the process.
stopComplete_first(b) ==
  /\ Running /\ RunLoopIdle
  /\ exiting # NULL /\ b \in exiting \cap signalled
  /\ exiting' = exiting \ {b}
  /\ exited' = "complete"
  /\ UNCHANGED <<sorting, calling, termRls, inStop, timer, signalled, main, counters>>

\* The source of a plug-in has been signalled; the last one ends the process.
stopComplete(b) ==
  /\ Running /\ RunLoopIdle
  /\ exiting # NULL /\ b \in exiting \cap signalled
  /\ exiting' = exiting \ {b}
  /\ exited' = IF exiting' = {} THEN "complete" ELSE exited
  /\ UNCHANGED <<sorting, calling, termRls, inStop, timer, signalled, main, counters>>

\* The timer fires.
stopDelayed ==
  /\ Running /\ RunLoopIdle /\ timer
  /\ exited' = "delayed"
  /\ UNCHANGED <<sorting, calling, stopping, main, counters>>

---------------------------------------------------------------------------
(* The signal handler and the main thread.                                 *)

\* catcher: the port has room for one message, a second one is dropped.
catcher ==
  /\ Running /\ terms < MaxTerms
  /\ termRequested' = TRUE
  /\ terms' = terms + 1
  /\ UNCHANGED <<sorting, calling, stopping, storeLocked, exited, locks>>

\* plugin_term: without plug-ins on their run loop the process ends at once;
\* a second request changes nothing.
plugin_term ==
  IF phase # "run" THEN exited' = "loading" /\ UNCHANGED <<exiting, termRls>>
  ELSE IF exiting # NULL THEN UNCHANGED <<exiting, termRls, exited>>
  ELSE exiting' = {} /\ termRls' = TRUE /\ UNCHANGED exited

\* term: the main thread takes the message.  Its port is in the default mode of
\* the run loop only, which server_loop leaves while the store is locked.
term ==
  /\ Running /\ termRequested /\ ~ storeLocked
  /\ termRequested' = FALSE
  /\ plugin_term
  /\ UNCHANGED <<sorting, calling, inStop, timer, signalled, storeLocked, counters>>

\* A client locks the store; a client that holds the lock may give it back or die.
Lock ==
  /\ Running /\ ~ storeLocked /\ locks < MaxLocks
  /\ storeLocked' = TRUE /\ locks' = locks + 1
  /\ UNCHANGED <<sorting, calling, stopping, termRequested, exited, terms>>

Unlock ==
  /\ Running /\ storeLocked
  /\ storeLocked' = FALSE
  /\ UNCHANGED <<sorting, calling, stopping, termRequested, exited, counters>>

plugin_exec == Place \/ Sorted \/ loadBundle \/ callFunction \/ PassDone

Next ==
  \/ Place \/ Sorted \/ loadBundle \/ callFunction \/ PassDone
  \/ stopBundles \/ stopBundle \/ stopReturns \/ StopsCalled \/ stopDelayed
  \/ \E b \in Bundles : PluginReady(b) \/ stopComplete(b)
  \/ catcher \/ term \/ Lock \/ Unlock

Spec == Init /\ [][Next]_vars

\* Both threads run, and the timer fires.  In each mode the run loop of the main
\* thread takes from all ports in turn, so that a message which can be taken again
\* and again is taken.  Nothing makes a plug-in signal, a stop() function return or a
\* live client give its lock back.
FairSpec ==
  /\ Spec
  /\ WF_vars(plugin_exec)
  /\ WF_vars(stopBundles) /\ WF_vars(stopBundle) /\ WF_vars(StopsCalled)
  /\ WF_vars(stopDelayed)
  /\ \A b \in Bundles : WF_vars(stopComplete(b))
  /\ SF_vars(term)

---------------------------------------------------------------------------
(* Properties.                                                             *)

\* The bundles that can never be ordered: each one of a set needs a bundle of
\* the same set or one that is not installed.
Unordered ==
  UNION {S \in SUBSET Bundles :
           \A b \in S : requires[b] \cap (S \cup {Missing}) # {}}

Before(a, b) == Position(new, a) < Position(new, b)

\* sortBundles puts every bundle behind the bundles it requires, as far as those
\* can be ordered at all, and it complains exactly when some bundle cannot be:
\* a bundle without a list that goes to the front, and the bundles left over at
\* the end, disturb no order already made.  What it calls a circular dependency
\* (plugin_support.c:787) may be a bundle that is not installed.
RequiredFirst ==
  phase # "sort" =>
    /\ \A b \in Bundles : \A r \in requires[b] \cap (Bundles \ Unordered) : Before(r, b)
    /\ circular <=> Unordered # {}

\* The entry points are called in order across all plug-ins, whenever SIGTERM
\* arrives: no prime() while a loaded plug-in has yet to install its handlers in
\* load() or start(), no stop() while one has yet to be primed.
Owed(f) == {b \in loaded : f \in entry[b] \ called[b]}
Has(f) == \E b \in Bundles : f \in called[b]

CallsInOrder ==
  /\ Has("prime") => Owed("load") = {} /\ Owed("start") = {}
  /\ Has("stop") => Owed("prime") = {}

\* A process that ends through stopComplete or stopBundles has waited for every
\* plug-in with a stop() function.
CompleteIsComplete == exited = "complete" => Stoppable \subseteq signalled

\* Plug-ins are called in order and waited for, whenever SIGTERM arrives.
LoaderInv == TypeOK /\ CallsInOrder /\ CompleteIsComplete

Ends == termRequested ~> ~ Running

\* A request to end the process is served, whenever it arrives, however many follow
\* it and whether or not the plug-ins signal, as long as two things are so.  The store
\* is unlocked again and again: while it is locked the main thread does not look at
\* the request (configd_server.c:434).  And stop() functions return, as plug-ins are
\* told to wait "only in its a private thread" (plugin_support.c:956).
TermExits == []<>(~ storeLocked) /\ []<>(inStop # "inside") => Ends
=============================================================================
