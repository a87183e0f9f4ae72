---------------------------- MODULE MCSummaries ----------------------------
(***************************************************************************)
(* Summaries on programs of three functions of two parameters: each body   *)
(* is one of a few, which between them use every rule and call each other  *)
(* and themselves; both contexts.                                          *)
(***************************************************************************)
EXTENDS Summaries

X == <<"local", "x">>
Y == <<"local", "y">>
R == <<"local", "r">>
Call(f, a, b) == <<"call", f, <<a, b>>>>
Give(e) == <<"give", e>>
Const == <<"constant">>
At(site) == <<site, 0>>

\* An early return, a loop that writes, and a pipeline over calls.
FBodies == {
  <<<<"if", X, <<Give(Y)>>, <<<<"from", X>>>> >>, <<"from", Call("g", Y, X)>> >>,
  << <<"bind", "z", Call("h", X, Y)>>,
     <<"each", "r", <<"local", "z">>,
        << <<"write", "log", <<R, Y>>, At("f.write")>>, <<"from", <<"join", <<R, Const>>>> >> >> >>,
     Give(<<"operator", Call("g", <<"local", "z">>, X)>>) >>,
  << <<"from", X>>, <<"keep", "r", Call("g", R, Y)>>, <<"map", "r", <<"field", R, "name">> >>,
     <<"do", Call("h", Y, X)>>, <<"fold", "r", "t", Const, Call("h", R, <<"local", "t">>)>> >>}

\* Arms on a remote value, a payload map, and an obligation on the way back.
GBodies == {
  << <<"when", X,
       << [failed |-> FALSE, binds |-> {"r"}, body |-> << <<"from", R>>, <<"sort", "r", Y>> >>],
          [failed |-> TRUE, binds |-> {"e"},
           body |-> << Give(<<"field", <<"local", "e">>, "code">>),
                       <<"write", "log", << <<"local", "e">> >>, At("g.write")>> >>] >> >> >>,
  << Give(<<"inside", "r", X, Call("h", R, Y)>>) >>,
  << <<"if", Call("f", Y, Const), << <<"write", "log", <<X>>, At("g.write")>> >>, <<>> >>,
     Give(<<"call", "f", <<Y, <<"signal", "mail", At("g.read")>> >> >>) >>}

\* A constructor of a recursive call, a call of the browser, a capped list.
HBodies == {
  << Give(<<"gather", <<Y, Call("h", Y, X)>>, X>>) >>,
  << <<"do", <<"foreign", <<X, Call("f", Y, Y)>>, "h.foreign", TRUE>> >>,
     Give(<<"join", << <<"environment">>, X>> >>) >>,
  << <<"from", <<"signal", "mail", At("h.read")>> >>, <<"take", Y>>, Give(Call("g", X, Y)) >>}

Signals == [key |-> [secrecy |-> "secret", server |-> TRUE, reads |-> {}],
            mail |-> [secrecy |-> "public", server |-> TRUE, reads |-> {"key"}],
            log |-> [secrecy |-> "public", server |-> TRUE, reads |-> {}]]

Program(f, g, h, ctxs) ==
  [functions |-> [f |-> [params |-> <<"x", "y">>, body |-> f],
                  g |-> [params |-> <<"x", "y">>, body |-> g],
                  h |-> [params |-> <<"x", "y">>, body |-> h]],
   signals |-> Signals,
   keys |-> FlattenSeq([i \in 1 .. 3 |-> [j \in 1 .. Len(ctxs) |-> << <<"f", "g", "h">>[i], ctxs[j]>>]]),
   exprs |-> 20]

MCPrograms ==
  {Program(f, g, h, <<"client", "server">>) : f \in FBodies, g \in GBodies, h \in HBodies}
MCSites ==
  {At(s) : s \in {"f.write", "g.write", "g.read", "h.read"}} \cup {<<"h.foreign", i>> : i \in 1 .. 2}
=============================================================================
