---------------------------- MODULE PubSubStore ----------------------------
(***************************************************************************)
(* What the dynamic store promises its clients, without watcher counts,    *)
(* pattern lists, deferred removals or saved copies: a key-value store     *)
(* with one transaction at a time, whose commit tells every session about  *)
(* exactly the touched keys that it watches, by name or by pattern, and    *)
(* with values that go away together with the session that owns them.      *)
(***************************************************************************)
CONSTANTS Sessions, Keys, Patterns, Matches, NoData, NoSession

VARIABLES
  data,      \* the committed value and owner of every key
  work,      \* what the transaction in progress has made of it
  holder,    \* the session of the transaction, NoSession between transactions
  touched,   \* the keys that the transaction has changed or flagged
  watched,   \* the keys that each session watches by name
  matching,  \* the patterns that each session watches
  news,      \* the changes that each session has not fetched yet
  dead       \* the sessions whose client is gone

vars == <<data, work, holder, touched, watched, matching, news, dead>>

Absent == [data |-> NoData, session |-> NoSession]

Init ==
  /\ data = [k \in Keys |-> Absent]
  /\ work = data
  /\ holder = NoSession
  /\ touched = {}
  /\ watched = [s \in Sessions |-> {}]
  /\ matching = [s \in Sessions |-> {}]
  /\ news = [s \in Sessions |-> {}]
  /\ dead = {}

Watches(t, k) == k \in watched[t] \/ \E p \in matching[t] : <<p, k>> \in Matches

\* The store w, in which the keys of ks were touched, becomes the committed
\* one; the sessions other than those of gone learn about it.
Publish(w, ks, gone) ==
  /\ data' = w
  /\ work' = w
  /\ holder' = NoSession
  /\ touched' = {}
  /\ news' = [t \in Sessions |->
                IF t \in gone THEN {} ELSE news[t] \cup {k \in ks : Watches(t, k)}]

Begin(s) ==
  /\ holder = NoSession
  /\ holder' = s
  /\ UNCHANGED <<data, work, touched, watched, matching, news, dead>>

\* A step of the transaction; other sessions see nothing of it.
Write ==
  /\ holder # NoSession
  /\ touched \subseteq touched'
  /\ \A k \in Keys \ touched' : work'[k] = work[k]
  /\ UNCHANGED <<data, holder, watched, matching, news, dead>>

Commit ==
  /\ holder # NoSession
  /\ Publish(work, touched, {})
  /\ UNCHANGED <<watched, matching, dead>>

\* A request outside of a transaction is a transaction of its own.
Single ==
  /\ holder = NoSession
  /\ \E ks \in SUBSET Keys :
       /\ \A k \in Keys \ ks : data'[k] = data[k]
       /\ Publish(data', ks, {})
  /\ UNCHANGED <<watched, matching, dead>>

\* A session changes what it watches, between transactions.
Watch(s) ==
  /\ holder = NoSession
  /\ \A t \in Sessions \ {s} : watched'[t] = watched[t] /\ matching'[t] = matching[t]
  /\ UNCHANGED <<data, work, holder, touched, news, dead>>

Fetch(s) ==
  /\ news' = [news EXCEPT ![s] = {}]
  /\ UNCHANGED <<data, work, holder, touched, watched, matching, dead>>

\* Session s ends, with the store w of its own transaction (touched by it in
\* ks) or of nobody's: the values that it owns go.
End(s, w, ks) ==
  LET own == {k \in Keys : w[k].session = s}
  IN  /\ Publish([k \in Keys |-> IF k \in own THEN Absent ELSE w[k]], ks \cup own, {s})
      /\ watched' = [watched EXCEPT ![s] = {}]
      /\ matching' = [matching EXCEPT ![s] = {}]
      /\ dead' = dead \ {s}

\* The orderly end commits the transaction of the session.
Close(s) ==
  /\ s \notin dead
  /\ \/ holder = s /\ End(s, work, touched)
     \/ holder = NoSession /\ End(s, data, {})

\* Death is noticed later, and discards it.
Die(s) ==
  /\ dead' = dead \cup {s}
  /\ UNCHANGED <<data, work, holder, touched, watched, matching, news>>

Abort(s) == s \in dead /\ holder \in {s, NoSession} /\ End(s, data, {})

Next ==
  \/ Write
  \/ Commit
  \/ Single
  \/ \E s \in Sessions :
       Begin(s) \/ Watch(s) \/ Fetch(s) \/ Close(s) \/ Die(s) \/ Abort(s)

Spec == Init /\ [][Next]_vars
=============================================================================
