-------------------------- MODULE StoreRefinement --------------------------
(***************************************************************************)
(* EmbeddedStore implements AtomicStore: `apply`, with its threads, lock,  *)
(* phases and early returns, is the trait's one indivisible step.          *)
(***************************************************************************)
EXTENDS EmbeddedStore

(* The threads, the lock, the three phases and the announcement implement  *)
(* the trait's contract: from begin_write to the commit a handler has only *)
(* been called, and what it will be told is settled at the commit.         *)
PhaseAt(at) ==
  CASE at = "idle" -> "reading"
    [] at \in {"publish", "done"} -> "answered"
    [] OTHER -> "called"

Phases == [p \in Proc |-> PhaseAt(pc[p])]

Contract == INSTANCE AtomicStore WITH phase <- Phases

(* Every behaviour of the store is one of the contract's: a transaction is *)
(* one indivisible step or nothing, whatever the threads and the crashes.  *)
ImplementsContract == Contract!Spec
=============================================================================
