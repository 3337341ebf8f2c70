------------------------ MODULE PreferencesRegister ------------------------
(***************************************************************************)
(* What SCPreferences promises its clients: one document that is replaced  *)
(* as a whole, and only by a client whose draft was made from the document *)
(* it replaces.                                                            *)
(***************************************************************************)
CONSTANTS Sessions, Keys

VARIABLES
  text,   \* the stored preferences
  draft,  \* each client's copy of them
  fresh   \* the clients whose copy was made from the stored preferences

vars == <<text, draft, fresh>>

Init ==
  /\ text = {}
  /\ draft = [s \in Sessions |-> {}]
  /\ fresh = {}

\* A document with at most one key set or removed.
Edited(d) == {d} \cup {d \cup {k} : k \in Keys} \cup {d \ {k} : k \in Keys}

\* A client reads the stored preferences, and may change its copy at once.
Read(s) ==
  /\ s \notin fresh
  /\ fresh' = fresh \cup {s}
  /\ \E d \in Edited(text) : draft' = [draft EXCEPT ![s] = d]
  /\ UNCHANGED text

\* A client that reads while the document moves may see something older.  It
\* must read again before it can publish.
ReadOld(s) ==
  /\ s \notin fresh
  /\ \E d \in SUBSET Keys : draft' = [draft EXCEPT ![s] = d]
  /\ UNCHANGED <<text, fresh>>

Edit(s) ==
  /\ \E d \in Edited(draft[s]) : draft' = [draft EXCEPT ![s] = d]
  /\ UNCHANGED <<text, fresh>>

\* A client drops its copy, or ends.
Drop(s) ==
  /\ draft' = [draft EXCEPT ![s] = {}]
  /\ fresh' = fresh \ {s}
  /\ UNCHANGED text

\* All other copies are out of date afterwards.
Publish(s) ==
  /\ s \in fresh
  /\ text' = draft[s]
  /\ fresh' = {s}
  /\ UNCHANGED draft

Next ==
  \E s \in Sessions : Read(s) \/ ReadOld(s) \/ Edit(s) \/ Drop(s) \/ Publish(s)

Spec == Init /\ [][Next]_vars
=============================================================================
