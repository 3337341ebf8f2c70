--------------------------- MODULE MCPreferences ---------------------------
(* Instances of Preferences for TLC. *)
EXTENDS PreferencesRefinement, TLC

CONSTANTS a, b, c, k1

Usual == [legacy |-> FALSE, readOnly |-> FALSE, faults |-> {}, sessions |-> {a, b},
          keys |-> {k1}, calls |-> 2, crashes |-> 0]

\* Files and the store cannot be reached; writing fails and a process dies; three
\* sessions compete for the lock; the file is migrated, without and with failures;
\* the volume is mounted late.
Circumstances ==
  {[Usual EXCEPT !.faults = {"read", "store"}],
   [Usual EXCEPT !.faults = {"io"}, !.crashes = 1],
   [Usual EXCEPT !.sessions = {a, b, c}, !.keys = {}, !.calls = 3],
   [Usual EXCEPT !.legacy = TRUE, !.calls = 3],
   [Usual EXCEPT !.legacy = TRUE, !.faults = {"io"}, !.crashes = 1],
   [Usual EXCEPT !.readOnly = TRUE]}

SessionSymmetry == Permutations(Sessions)
=============================================================================
