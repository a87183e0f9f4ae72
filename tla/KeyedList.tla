----------------------------- MODULE KeyedList -----------------------------
(***************************************************************************)
(* Keyed list reconciliation in the browser                                *)
(* (src/crates/zdc-runtime/runtime/list.js): what stands between two       *)
(* anchors after any sequence of lists, with rows that fail to render.     *)
(*                                                                         *)
(* A node is a row's key and a part of that row; the parts a row was       *)
(* rendered with are recorded with it and never again.  A list is its keys *)
(* and an edition, which stands for what the items hold besides.           *)
(***************************************************************************)
EXTENDS Integers, SequencesExt, Lists

CONSTANTS
  Key,          \* the keys items may have
  Editions,     \* versions of the items
  MaxLength,    \* rows of a list
  Twofold,      \* keys whose row has two roots
  MaxFailures   \* renders that throw

VARIABLES
  region,       \* the nodes between the anchors, in document order
  mounted,      \* the rows, in the order of the map that holds them
  scopes,       \* how many renders of rows are still subscribed
  outcome,      \* what became of the last list: ok, duplicate, thrown
  list,         \* the last list that was accepted
  failures,     \* renders that threw so far
  moved,        \* history: the rows the last list inserted, if it was accepted
  orphans       \* history: rows rendered for a list that then threw

listVars == <<region, mounted, scopes, outcome, list, failures, moved, orphans>>

ASSUME ListAssumption ==
  /\ Twofold \subseteq Key
  /\ MaxLength \in Nat /\ MaxFailures \in Nat

\* A list with a duplicate is refused whatever else it holds: the short ones
\* stand for all.
Supplies ==
  [keys : {s \in SeqOf(Key, MaxLength) : IsInjective(s) \/ Len(s) <= 2}, edition : Editions]

\* The lists that may come next: the items of each are new.
Successors == {items \in Supplies : Editions = {list.edition} \/ items.edition # list.edition}

-----------------------------------------------------------------------------
(* settledPositions: the rows that can stay where they are.                *)

New == -1

\* Patience: tails[n] ends the run of length n that ends lowest, previous[i]
\* is what precedes i in the run that ends there.
Placed(from, state, i) ==
  IF from[i] = New THEN state
  ELSE LET low == Cardinality({n \in DOMAIN state.tails : from[state.tails[n]] < from[i]})
       IN [tails |-> IF low = Len(state.tails) THEN Append(state.tails, i)
                                               ELSE [state.tails EXCEPT ![low + 1] = i],
           previous |-> [state.previous EXCEPT ![i] = IF low = 0 THEN 0 ELSE state.tails[low]]]

\* Mutant: whatever continues the run at hand is kept.
SettledGreedily(from) ==
  {i \in DOMAIN from : from[i] # New /\ \A j \in 1 .. i - 1 : from[j] < from[i]}

\* Mutant: the last row of every run is kept, in order or not.
SettledLoosely(from) ==
  {i \in DOMAIN from : from[i] # New /\ (i = Len(from) \/ from[i + 1] < from[i])}

Patience(from) ==
  LET run[i \in 0 .. Len(from)] ==
        IF i = 0 THEN [tails |-> <<>>, previous |-> [j \in DOMAIN from |-> 0]]
                 ELSE Placed(from, run[i - 1], i)
  IN run[Len(from)]

\* Back along previous, from the end of the longest run.
Back(previous, walk) ==
  IF walk.at = 0 THEN walk
  ELSE [at |-> previous[walk.at], kept |-> walk.kept \cup {walk.at}]

SettledRows(from) ==
  LET runs == Patience(from)
      last == IF runs.tails = <<>> THEN 0 ELSE Last(runs.tails)
      walk[n \in 0 .. Len(from)] ==
        IF n = 0 THEN [at |-> last, kept |-> {}] ELSE Back(runs.previous, walk[n - 1])
  IN walk[Len(from)].kept

-----------------------------------------------------------------------------
(* Rows and nodes.                                                         *)

Node(k, part) == [key |-> k, part |-> part]

Rendered(k) ==
  IF k \in Twofold THEN <<Node(k, "first"), Node(k, "second")>>
  ELSE <<Node(k, "first")>>

Kept(nodes, away) == Pick(nodes, {i \in DOMAIN nodes : nodes[i] \notin away})

\* insertBefore, node by node: each leaves where it is and stands before the
\* cursor, the first node of the row after it or the end of the region.
Inserted(nodes, row, cursor) ==
  LET rest == Kept(nodes, ToSet(row))
      at == IF cursor = <<>> THEN Len(rest) + 1
                             ELSE CHOOSE i \in DOMAIN rest : rest[i] = cursor[1]
  IN SubSeq(rest, 1, at - 1) \o row \o SubSeq(rest, at, Len(rest))

\* Pass 3: from the last row to the first, those not settled are inserted.
PlacedRow(rows, settled, i, after) ==
  [nodes |-> IF i \in settled THEN after.nodes
             ELSE Inserted(after.nodes, rows[i].nodes, after.cursor),
   cursor |-> <<rows[i].nodes[1]>>]

PlacedNodes(nodes, rows, settled) ==
  LET place[n \in 0 .. Len(rows)] ==
        IF n = 0 THEN [nodes |-> nodes, cursor |-> <<>>]
        ELSE PlacedRow(rows, settled, Len(rows) + 1 - n, place[n - 1])
  IN place[Len(rows)].nodes

-----------------------------------------------------------------------------
(* The list's effect.                                                      *)

KeysOf(rows) == {rows[i].key : i \in DOMAIN rows}
RowOf(rows, k) == rows[CHOOSE i \in DOMAIN rows : rows[i].key = k]

\* Pass 1 keys every item first: a duplicate is refused before anything moves.
Refuse(items) ==
  /\ ~IsInjective(items.keys)
  /\ outcome' = "duplicate" /\ moved' = {}
  /\ UNCHANGED <<region, mounted, scopes, list, failures, orphans>>

\* Pass 1: rows whose key left are removed and their bindings released.
Gone(items) ==
  Pick(mounted, {i \in DOMAIN mounted : mounted[i].key \notin ToSet(items.keys)})
Surviving(items) ==
  Pick(mounted, {i \in DOMAIN mounted : mounted[i].key \in ToSet(items.keys)})
Retired(items) ==
  Kept(region, UNION {ToSet(Gone(items)[i].nodes) : i \in DOMAIN Gone(items)})

\* Pass 2: what becomes of each item, up to the n-th.
RowFor(items, k) ==
  IF k \in KeysOf(mounted) THEN [RowOf(mounted, k) EXCEPT !.edition = items.edition]
  ELSE [key |-> k, nodes |-> Rendered(k), edition |-> items.edition]

BuiltUpTo(items, n) == {items.keys[i] : i \in 1 .. n} \ KeysOf(mounted)

\* Mutant: removing a row's nodes does not dispose of it.
ScopesKept(items, n) == scopes + Cardinality(BuiltUpTo(items, n))

Scopes(items, n) == scopes - Len(Gone(items)) + Cardinality(BuiltUpTo(items, n))

Position(rows, k) == IF k \in KeysOf(rows) THEN CHOOSE i \in DOMAIN rows : rows[i].key = k ELSE New

Reconcile(items) ==
  /\ IsInjective(items.keys)
  /\ LET rows == [i \in DOMAIN items.keys |-> RowFor(items, items.keys[i])]
         from == [i \in DOMAIN items.keys |-> Position(Surviving(items), items.keys[i])]
         settled == SettledRows(from)
     IN /\ region' = PlacedNodes(Retired(items), rows, settled)
        /\ mounted' = rows
        /\ moved' = {items.keys[i] : i \in DOMAIN rows \ settled}
  /\ scopes' = Scopes(items, Len(items.keys))
  /\ outcome' = "ok" /\ list' = items
  /\ UNCHANGED <<failures, orphans>>

\* Rendering the n-th item throws.  Rows built before it are in no map yet:
\* nothing is left that could place or release them.
RenderThrows(items, n) ==
  /\ IsInjective(items.keys) /\ failures < MaxFailures
  /\ items.keys[n] \notin KeysOf(mounted)
  /\ LET resupplied == {items.keys[i] : i \in 1 .. n - 1}
     IN mounted' = [i \in DOMAIN Surviving(items) |->
          [Surviving(items)[i] EXCEPT !.edition = IF Surviving(items)[i].key \in resupplied
                                                    THEN items.edition ELSE @]]
  /\ region' = Retired(items)
  /\ scopes' = Scopes(items, n - 1)
  /\ orphans' = orphans + Cardinality(BuiltUpTo(items, n - 1))
  /\ outcome' = "thrown"
  /\ failures' = failures + 1 /\ moved' = {}
  /\ UNCHANGED list

-----------------------------------------------------------------------------

ListInit ==
  /\ region = <<>> /\ mounted = <<>>
  /\ scopes = 0 /\ orphans = 0
  /\ outcome = "ok"
  /\ list = [keys |-> <<>>, edition |-> CHOOSE e \in Editions : TRUE]
  /\ failures = 0
  /\ moved = {}

ListNext ==
  \E items \in Successors :
    \/ Refuse(items) \/ Reconcile(items)
    \/ \E n \in DOMAIN items.keys : RenderThrows(items, n)

ListSpec == ListInit /\ [][ListNext]_listVars

-----------------------------------------------------------------------------

(* The region holds the nodes of the mounted rows, each row once, in the   *)
(* map's order, after a render that threw as well: pass 2 takes "where a   *)
(* row sits" from that order.  A list that was accepted is what is shown:  *)
(* its keys in its order, each with its present value, also right after    *)
(* lists that were refused or threw half-way.                              *)
RegionFollowsTheList ==
  /\ region = FlattenSeq([i \in DOMAIN mounted |-> mounted[i].nodes])
  /\ outcome = "ok" =>
       /\ [i \in DOMAIN mounted |-> mounted[i].key] = list.keys
       /\ \A i \in DOMAIN mounted : mounted[i].edition = list.edition

(* A row that left, by whatever list, has no subscription left; only rows  *)
(* built by a list that then threw do.                                     *)
DepartedRowsAreReleased ==
  scopes = Len(mounted) + orphans

(* As few rows as possible are inserted: of the rows whose key stays, no   *)
(* set larger than the set left alone was in the new order already.        *)
RowsMoveLeast ==
  [][outcome' = "ok" /\ list' # list =>
       LET stay == KeysOf(mounted) \cap ToSet(list'.keys)
           was == [k \in stay |-> Position(mounted, k)]
           is == [k \in stay |-> Position(mounted', k)]
       IN \A S \in kSubset(Cardinality(stay \ moved') + 1, stay) :
            \E p, q \in S : was[p] < was[q] /\ is[q] < is[p]]_listVars

=============================================================================
