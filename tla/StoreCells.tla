----------------------------- MODULE StoreCells -----------------------------
(***************************************************************************)
(* The durable store of a deployed program                                 *)
(* (src/crates/zdc-deploy/js: cells.js and the four *-store.js).           *)
(*                                                                         *)
(* A durable signal is one cell, or one cell per index; a cell holds a     *)
(* number, a list, or a record whose fields are written one at a time.     *)
(* Each request performs one of the five verbs.  How much of it is one     *)
(* step depends on the platform underneath:                                *)
(*   deno        read, then commit only if nobody else did; ATTEMPTS tries *)
(*   cloudflare  one step, inside the Durable Object's input gate          *)
(*   lambda      a native add for incr and decr of a whole cell,           *)
(*   vercel      read, then write back, for everything else                *)
(***************************************************************************)
EXTENDS Integers, Sequences, Lists

CONSTANTS
  Adapters,  \* the platforms of a run
  Request,   \* the requests, one operation each; one that has not begun to
             \*   read has, to the others, not arrived
  Cell,      \* the cells,
  Shape,     \*   and what the program declares each to hold
  Field,     \* the fields of a record
  Whole,     \* the empty path: the cell itself
  Item,      \* the elements of lists
  Delta,     \* what counters are moved by
  ATTEMPTS   \* how often deno-store.js tries

VARIABLES
  adapter,   \* the platform, chosen by the deployment
  cells,     \* cells[c]: the value the store holds
  stamp,     \* stamp[c]: its versionstamp, 0 for a cell never written
  req,       \* req[p]: the operation p performs
  pc,        \* pc[p]: how far it is
  entry,     \* entry[p]: what it read, and under which versionstamp
  tries,     \* tries[p]: commits refused so far
  committed, \* history: how often p wrote the store
  overtaken  \* history: writes of others to p's cell between its reads and commits

cellsVars == <<adapter, cells, stamp, req, pc, entry, tries, committed, overtaken>>

Null == [kind |-> "null"]
Num(n) == [kind |-> "number", n |-> n]
List(items) == [kind |-> "list", items |-> items]
Rec(fields) == [kind |-> "record", fields |-> fields]

\* What the compiler emits for a cell of each shape: a typed verb on the
\* whole cell, or a counter verb on one field of a record.
Operation ==
  [verb : {"set"}, cell : {c \in Cell : Shape[c] = "number"}, path : {Whole},
   arg : {Num(0)}]
  \cup [verb : {"incr", "decr"}, cell : {c \in Cell : Shape[c] = "number"},
        path : {Whole}, arg : {Num(d) : d \in Delta}]
  \cup [verb : {"append", "remove"}, cell : {c \in Cell : Shape[c] = "list"},
        path : {Whole}, arg : {[kind |-> "item", item |-> i] : i \in Item}]
  \cup [verb : {"set", "incr"}, cell : {c \in Cell : Shape[c] = "record"},
        path : Field, arg : {Num(d) : d \in Delta}]

ASSUME CellsAssumption ==
  /\ Adapters \subseteq {"deno", "cloudflare", "lambda", "vercel"}
  /\ Shape \in [Cell -> {"number", "list", "record"}]
  /\ Whole \notin Field
  /\ Delta \subseteq Int
  /\ ATTEMPTS \in Nat \ {0}

-----------------------------------------------------------------------------
(* cells.js                                                                *)

\* number(): anything that is not one counts from zero.
NumberOf(v) == IF v.kind = "number" THEN v.n ELSE 0

Produce(op, current) ==
  CASE op.verb = "set"  -> op.arg
    [] op.verb = "incr" -> Num(NumberOf(current) + op.arg.n)
    [] op.verb = "decr" -> Num(NumberOf(current) - op.arg.n)
    [] op.verb = "append" ->
         List(IF current.kind = "list" THEN Append(current.items, op.arg.item)
                                       ELSE <<op.arg.item>>)
    [] op.verb = "remove" ->
         IF current.kind = "list"
           THEN List(Pick(current.items, {i \in 1 .. Len(current.items) :
                                            current.items[i] # op.arg.item}))
           ELSE current

Fields(v) == IF v.kind = "record" THEN v.fields ELSE [f \in Field |-> Null]

\* Mutant: the path is forgotten.
WrittenWhole(op, current) == Produce(op, current)

\* replace(): a field is written by rewriting the record that holds it.
Written(op, current) ==
  IF op.path = Whole
    THEN Produce(op, current)
    ELSE Rec([Fields(current) EXCEPT ![op.path] = Produce(op, @)])

-----------------------------------------------------------------------------
(* One request.                                                            *)

Counts(op) == op.verb \in {"incr", "decr"} /\ op.path = Whole

\* The verbs the platform performs in one step.
OneStep(op) ==
  \/ adapter = "cloudflare"
  \/ adapter \in {"lambda", "vercel"} /\ Counts(op)

Store(p, next) ==
  LET c == req[p].cell
  IN /\ cells' = [cells EXCEPT ![c] = next]
     /\ stamp' = [stamp EXCEPT ![c] = @ + 1]
     /\ committed' = [committed EXCEPT ![p] = @ + 1]
     /\ overtaken' = [q \in Request |->
          IF q # p /\ pc[q] = "held" /\ req[q].cell = c
            THEN overtaken[q] + 1 ELSE overtaken[q]]

Perform(p) ==
  /\ pc[p] = "begin" /\ OneStep(req[p])
  /\ Store(p, Written(req[p], cells[req[p].cell]))
  /\ pc' = [pc EXCEPT ![p] = "done"]
  /\ UNCHANGED <<adapter, req, entry, tries>>

Fetch(p) ==
  /\ pc[p] = "begin" /\ ~OneStep(req[p])
  /\ entry' = [entry EXCEPT ![p] = [value |-> cells[req[p].cell],
                                    stamp |-> stamp[req[p].cell]]]
  /\ pc' = [pc EXCEPT ![p] = "held"]
  /\ UNCHANGED <<adapter, cells, stamp, req, tries, committed, overtaken>>

\* Mutant: the commit carries no check.
Unchecked(p) == TRUE

\* check(entry): the versionstamp is the one that was read.
Checked(p) == adapter = "deno" => entry[p].stamp = stamp[req[p].cell]

\* The read value is computed with and written back.
WriteBack(p) ==
  /\ pc[p] = "held" /\ Checked(p)
  /\ Store(p, Written(req[p], entry[p].value))
  /\ pc' = [pc EXCEPT ![p] = "done"]
  /\ UNCHANGED <<adapter, req, entry, tries>>

\* Mutants: running out of tries is answered like a success; it comes one
\* try early.
RefuseSilently(p) ==
  /\ pc[p] = "held" /\ ~Checked(p)
  /\ tries' = [tries EXCEPT ![p] = @ + 1]
  /\ pc' = [pc EXCEPT ![p] = IF tries[p] + 1 = ATTEMPTS THEN "done" ELSE "begin"]
  /\ UNCHANGED <<adapter, cells, stamp, req, entry, committed, overtaken>>

RefuseEarly(p) ==
  /\ pc[p] = "held" /\ ~Checked(p)
  /\ tries' = [tries EXCEPT ![p] = @ + 1]
  /\ pc' = [pc EXCEPT ![p] = IF tries[p] + 2 >= ATTEMPTS THEN "lost" ELSE "begin"]
  /\ UNCHANGED <<adapter, cells, stamp, req, entry, committed, overtaken>>

\* Somebody else committed: read again, or give up after ATTEMPTS.
Refuse(p) ==
  /\ pc[p] = "held" /\ ~Checked(p)
  /\ tries' = [tries EXCEPT ![p] = @ + 1]
  /\ pc' = [pc EXCEPT ![p] = IF tries[p] + 1 = ATTEMPTS THEN "lost" ELSE "begin"]
  /\ UNCHANGED <<adapter, cells, stamp, req, entry, committed, overtaken>>

\* The function is stopped, or its request to the store fails, before it
\* wrote: the page is told that the write failed.  (It is told the same when
\* the answer to a finished write does not arrive.  Nothing sends either again:
\* neither is idempotent.)
Die(p) ==
  /\ pc[p] \in {"begin", "held"}
  /\ pc' = [pc EXCEPT ![p] = "failed"]
  /\ UNCHANGED <<adapter, cells, stamp, req, entry, tries, committed, overtaken>>

CellsInit ==
  /\ adapter \in Adapters
  /\ cells = [c \in Cell |-> Null]
  /\ stamp = [c \in Cell |-> 0]
  /\ req \in [Request -> Operation]
  /\ pc = [p \in Request |-> "begin"]
  /\ entry = [p \in Request |-> [value |-> Null, stamp |-> 0]]
  /\ tries = [p \in Request |-> 0]
  /\ committed = [p \in Request |-> 0]
  /\ overtaken = [p \in Request |-> 0]

CellsNext ==
  \E p \in Request : Perform(p) \/ Fetch(p) \/ WriteBack(p) \/ Refuse(p) \/ Die(p)

CellsSpec == CellsInit /\ [][CellsNext]_cellsVars

-----------------------------------------------------------------------------

Value ==
  {Null} \cup [kind : {"number"}, n : Int] \cup [kind : {"list"}, items : Seq(Item)]
  \cup [kind : {"record"}, fields : [Field -> {Null} \cup [kind : {"number"}, n : Int]]]

CellsTypeOK ==
  /\ adapter \in Adapters
  /\ cells \in [Cell -> Value]
  /\ stamp \in [Cell -> Nat]
  /\ req \in [Request -> Operation]
  /\ pc \in [Request -> {"begin", "held", "done", "lost", "failed"}]
  /\ entry \in [Request -> [value : Value, stamp : Nat]]
  /\ tries \in [Request -> 0 .. ATTEMPTS]
  /\ \A c \in Cell : cells[c].kind \in {"null", Shape[c]}

(* Nobody's write is lost where the adapter promises that none is: the     *)
(* value that replaces another is one request's operation applied to       *)
(* exactly the value it replaces.  Deno and Cloudflare promise it of every *)
(* write, Lambda and Vercel of incr and decr of a whole cell               *)
(* (capability.rs: "`incr` and `decr` are atomic as reported above").      *)
Promised(op) == adapter \in {"deno", "cloudflare"} \/ Counts(op)

PromisedWritesAreAtomic ==
  [][\A p \in Request :
       committed'[p] # committed[p] /\ Promised(req[p])
         => cells' = [cells EXCEPT ![req[p].cell] = Written(req[p], @)]]_cellsVars

(* No request writes twice, a request that is told "done" wrote once, and  *)
(* one that lost ATTEMPTS times wrote nothing.                             *)
AnswersAreTrue ==
  \A p \in Request :
    /\ committed[p] <= 1
    /\ pc[p] = "done" => committed[p] = 1
    /\ pc[p] = "lost" => committed[p] = 0

(* A request is told that it lost only after ATTEMPTS others succeeded on  *)
(* its cell: contention refuses nobody unless somebody else gets through.  *)
LossesAreOthersProgress ==
  \A p \in Request : pc[p] = "lost" => overtaken[p] >= ATTEMPTS

=============================================================================
