------------------------ MODULE MCPreferencesHelper ------------------------
(* Instances of PreferencesHelper for TLC. *)
EXTENDS PreferencesHelper

CONSTANTS a, b, k1

Usual == [legacy |-> FALSE, readOnly |-> FALSE, faults |-> {}, sessions |-> {a, b},
          keys |-> {k1}, calls |-> 2, crashes |-> 0, readable |-> TRUE,
          helperFaults |-> {"auth"}]

\* A client that reads the file itself, while processes die; one that needs its
\* helper for that, also when processes die; commits that fail.
Circumstances ==
  {[Usual EXCEPT !.crashes = 1],
   [Usual EXCEPT !.readable = FALSE],
   [Usual EXCEPT !.readable = FALSE, !.crashes = 1, !.calls = 1]}
  \cup {[Usual EXCEPT !.faults = {"io", "store"}, !.sessions = {a}, !.calls = 3,
                      !.readable = r] : r \in BOOLEAN}

\* Nothing is ever set; the helper may fail to open the preferences.
Leaving == {[Usual EXCEPT !.keys = {}, !.crashes = 1, !.readable = FALSE,
                          !.helperFaults = {"open"}]}
=============================================================================
