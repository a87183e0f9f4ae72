---------------------------- MODULE MCStoreCells ----------------------------
(***************************************************************************)
(* StoreCells on a counter, a list and a record of two counters, on every  *)
(* platform, with three requests at once.                                  *)
(***************************************************************************)
EXTENDS StoreCells

MCShape == [c \in Cell |-> IF c = "visits" THEN "number"
                           ELSE IF c = "names" THEN "list" ELSE "record"]
MCAdapters == {"deno", "cloudflare", "lambda", "vercel"}
=============================================================================
