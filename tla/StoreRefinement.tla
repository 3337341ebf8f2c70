-------------------------- MODULE StoreRefinement --------------------------
(***************************************************************************)
(* The dynamic store server implements PubSubStore.                        *)
(***************************************************************************)
EXTENDS DynamicStore

\* The value and the owner of every key of store c.
Contents(c) == [k \in Keys |-> [data |-> c.storeData[k].data,
                                session |-> c.storeData[k].session]]

\* What is not part of a transaction in progress, and who is in one.
settled == Contents(IF storeLocked > 0 THEN sav ELSE cur)
lockHolder == IF locked = {} THEN NoSession ELSE CHOOSE s \in Sessions : s \in locked

Abstract == INSTANCE PubSubStore WITH
  data     <- settled,
  work     <- Contents(cur),
  holder   <- lockHolder,
  touched  <- cur.changedKeys,
  watched  <- keys,
  matching <- patterns,
  news     <- changes

\* Clients that take no liberties see a transactional store with exact change
\* notifications: every handler of the server, with its watcher counts, cached
\* pattern matches, deferred removals and saved copies, is a step of
\* PubSubStore or changes nothing that a client can observe.
ImplementsPubSub == Abstract!Spec
=============================================================================
