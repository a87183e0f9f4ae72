------------------------------ MODULE MCSignals ------------------------------
(***************************************************************************)
(* Signals on small programs: a diamond with a dependency that comes and   *)
(* goes and a body that throws; an unbalanced diamond; a conditional       *)
(* region with a payload; effects that write what effects read.            *)
(***************************************************************************)
EXTENDS Signals

CONSTANTS x, y, l, r

Body(cell, then) == [test |-> cell, then |-> then]
Always(ops) == [v \in Val |-> ops]
Only(v, ops) == [u \in Val |-> IF u = v THEN ops ELSE <<>>]
Nothing == Always(<<>>)
Get(c) == <<"read", c>>

NoRegion == [payload |-> NoTag, tagOf |-> [v \in Val |-> NoTag]]
Inputs(xs, ys) == [s \in Signal |-> IF s = x THEN xs ELSE ys]
Program(body, roots, xs, ys, bad) ==
  [body |-> body, roots |-> roots, inputs |-> Inputs(xs, ys), bad |-> bad] @@ NoRegion

\* Two sides of equal length.  l reads y only while x is 1 and throws on 2.
Diamond == Program(
  l :> Body(x, [v \in Val |-> IF v = 1 THEN <<Get(y)>> ELSE IF v = 2 THEN <<<<"throw">>>> ELSE <<>>])
  @@ r :> Body(y, Only(0, <<Get(x)>>))
  @@ "both" :> Body(l, Always(<<Get(r)>>))
  @@ "some" :> Body(r, Only(1, <<Get(l)>>)),
  <<"both", "some">>, {0, 1, 2}, {0, 1}, {2})

\* The same signal read directly and through a derived of a derived.
Unbalanced == Program(
  l :> Body(x, Nothing)
  @@ r :> Body(l, Always(<<Get(y)>>))
  @@ "first" :> Body(x, Always(<<Get(r)>>))
  @@ "last" :> Body(r, Always(<<Get(x)>>)),
  <<"first", "last">>, {0, 1}, {0, 1}, {})

\* A region over x whose payload y holds: 0 and 1 are payloads of the arm
\* "some", 3 of the arm "none", and 2 makes the second effect of "some" throw.
TagOf == [v \in Val |-> IF v = 3 THEN "none" ELSE "some"]
Region == [Program(
  "when" :> Body(x, [v \in Val |-> <<<<"set", y, v>>,
              <<"swap", TagOf[v], IF v = 3 THEN <<"other">> ELSE <<"field", "outer">> >> >>])
  @@ l :> Body(x, Nothing)
  @@ "field" :> Body(y, Always(<<Get(l)>>))
  @@ "outer" :> Body(x, Only(2, <<<<"throw">>>>))
  @@ "other" :> Body(y, Nothing)
  @@ "page" :> Body(l, Always(<<Get(y)>>)),
  <<"page", "when">>, {0, 1, 2, 3}, {}, {2}) EXCEPT !.payload = y, !.tagOf = TagOf]

\* y is the opposite of x, so the first render writes; y = 0 is taken back by
\* writing x = 0, and x = 2 never settles.
Writers == Program(
  "flip" :> Body(x, [v \in Val |-> <<IF v >= 2 THEN <<"set", x, 5 - v>> ELSE <<"set", y, 1 - v>> >>])
  @@ r :> Body(y, Nothing)
  @@ "reset" :> Body(r, Only(0, <<Get(x), <<"set", x, 0>>>>))
  @@ "watch" :> Body(y, Always(<<Get(r)>>)),
  <<"watch", "reset", "flip">>, {0, 1, 2}, {}, {2})

MCPrograms == {Diamond, Unbalanced, Region, Writers}
=============================================================================
