----------------------------- MODULE MCHostTxn -----------------------------
(***************************************************************************)
(* HostTxn on small instances: one counter, one list, two or three threads *)
(* and requests of every shape the dispatcher accepts or refuses.          *)
(***************************************************************************)
EXTENDS HostTxn

CONSTANTS n, l, p1, p2

Call(verb, key, arg) == [verb |-> verb, key |-> key, arg |-> arg]

Command(call) == [shape |-> "command", calls |-> <<call>>]
Batch(calls) == [shape |-> "batch", calls |-> calls]
Value(calls) == [shape |-> "value", calls |-> calls]

MCInvocations ==
  {Command(Call("incr", n, 1)),
   Command(Call("append", l, p1)),
   Batch(<<Call("append", l, p2), Call("incr", n, -1), Call("append", l, p1)>>),
   Batch(<<Call("set", n, 1), Call("incr", n, 1)>>),
   Batch(<<Call("delete", l, None), Call("append", l, p1)>>),
   Command(Call("remove", l, p1)),
   Value(<<Call("get", n, None), Call("get", l, None)>>),
   Batch(<<Call("incr", n, 1), Call("unknown", n, None)>>),
   Batch(<<Call("incr", n, 1), Call("get", n, None)>>),
   Batch(<<>>)}

\* Requests that conflict: list writes, and a blind write beside them.
MCContention ==
  {Command(Call("append", l, p1)),
   Batch(<<Call("set", n, 1), Call("incr", n, -1)>>),
   Batch(<<Call("append", l, p2), Call("incr", n, 1)>>)}
=============================================================================
