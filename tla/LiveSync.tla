------------------------------ MODULE LiveSync ------------------------------
(***************************************************************************)
(* Live sync under `zdc dev`, end to end: the held stream of               *)
(* src/crates/zdc-dev/src/server.rs over the fan-out, and the browser's    *)
(* half, src/crates/zdc-runtime/runtime/store.js and rpc.js.               *)
(*                                                                         *)
(* zdc dev serves every request but the streams on one thread, so a commit *)
(* and its announcement are one step here (EmbeddedStore separates them).  *)
(* A window is one loaded page: a cell for each key it reads, the requests *)
(* its cells have on the wire, and one stream.                             *)
(*                                                                         *)
(* A cell's generation counter is only ever compared for equality with the *)
(* number a request was started under, so a request carries whether it is  *)
(* still the current one.                                                  *)
(***************************************************************************)
EXTENDS Fanout

CONSTANTS
  Window,       \* browser pages; they are the fan-out's subscribers
  RETRY_LIMIT,  \* consecutive failures before a page's live sync stops
  Generations,  \* how often the program may have been rebuilt before a page
  Survivals,    \* whether the store may outlive the server: a file, memory
  MaxSeq,       \* writes in all
  MaxRestarts   \* how often the server process is restarted

VARIABLES
  db,           \* the store
  log,          \* history: every announcement, in commit order
  generation,   \* the rebuild generation
  restarts,     \* restarts so far
  conn,         \* none, connecting, open, waiting, stopped
  wire,         \* frames sent on the stream and not yet read
  cursor,       \* where the page would resume from
  failures,     \* consecutive failed connections
  cell,         \* cell[w][k]: what the page shows for k
  calls,        \* calls[w][k]: the requests for k on the wire
  told,         \* history: the newest position of this store a frame brought
  gap           \* history: the keys whose last change the page was not handed

pageVars == <<conn, wire, cursor, failures, cell, calls, told, gap>>
serverVars == <<db, log, generation, restarts>>
vars == <<fanoutVars, serverVars, pageVars>>

ASSUME SyncAssumption ==
  /\ Window = Subscriber
  /\ RETRY_LIMIT \in Nat \ {0}
  /\ Generations \subseteq Nat
  /\ Survivals \subseteq BOOLEAN
  /\ MaxSeq \in 0 .. MaxNum
  /\ MaxRestarts \in Nat

Loading == [tag |-> "Loading"]
Failed == [tag |-> "Failed"]
Ready(v) == [tag |-> "Ready", value |-> v]

Asked == [current |-> TRUE, answered |-> FALSE, value |-> None]
Superseded(requests) == {[r EXCEPT !.current = FALSE] : r \in requests}

-----------------------------------------------------------------------------
(* remoteCell: four ways to write a cell, each claiming its generation.    *)

\* start: a new request, and every older one's answer is ignored from now on.
StartAll(w) ==
  /\ cell' = [cell EXCEPT ![w] = [k \in Wants[w] |-> Loading]]
  /\ calls' = [calls EXCEPT ![w] = [k \in Wants[w] |-> Superseded(@[k]) \cup {Asked}]]

\* Mutant: a push does not claim the generation.
ApplyUnclaimed(w, k, v) ==
  /\ cell' = [cell EXCEPT ![w][k] = Ready(v)]
  /\ UNCHANGED calls

\* apply: a pushed value is newer than anything already asked for.
ApplyUpdate(w, k, v) ==
  /\ cell' = [cell EXCEPT ![w][k] = Ready(v)]
  /\ calls' = [calls EXCEPT ![w][k] = Superseded(@)]

\* Mutant: giving up does not claim the generation.
FailAllUnclaimed(w) ==
  /\ cell' = [cell EXCEPT ![w] = [k \in Wants[w] |-> Failed]]
  /\ UNCHANGED calls

\* fail: live sync has stopped, and a late answer must not hide it.
FailAll(w) ==
  /\ cell' = [cell EXCEPT ![w] = [k \in Wants[w] |-> Failed]]
  /\ calls' = [calls EXCEPT ![w] = [k \in Wants[w] |-> Superseded(@[k])]]

\* A request's answer, or its failure, reaches the page.
Settle(w, k) ==
  \E r \in calls[w][k] : \E lost \in BOOLEAN :
    /\ r.answered \/ lost
    /\ calls' = [calls EXCEPT ![w][k] = @ \ {r}]
    /\ cell' = IF r.current
                 THEN [cell EXCEPT ![w][k] = IF lost THEN Failed ELSE Ready(r.value)]
                 ELSE cell
    /\ UNCHANGED <<fanoutVars, serverVars, conn, wire, cursor, failures, told, gap>>

\* The server runs the read endpoint.
Answer(w, k) ==
  \E r \in calls[w][k] :
    /\ ~r.answered
    /\ calls' = [calls EXCEPT ![w][k] =
                   (@ \ {r}) \cup {[r EXCEPT !.answered = TRUE, !.value = db[k]]}]
    /\ UNCHANGED <<fanoutVars, serverVars, conn, wire, cursor, failures, cell, told, gap>>

-----------------------------------------------------------------------------
(* The frames of the stream.                                               *)

NoKey == None

ReadyFrame == [name |-> "ready", seq |-> generation, key |-> NoKey, value |-> None,
               resync |-> FALSE]

\* Every durable event travels under the name `update`; only the payload says
\* that it is a resync, and `receive` listens for the name.
UpdateFrame(event) ==
  [name |-> "update", seq |-> event.seq, resync |-> event.resync,
   key |-> IF event.resync THEN NoKey ELSE event.key,
   value |-> IF event.resync THEN None ELSE event.value]

-----------------------------------------------------------------------------
(* The server.                                                             *)

Write(k) ==
  /\ Len(log) < MaxSeq
  /\ LET update == [seq |-> latest + 1, key |-> k, value |-> latest + 1]
     IN /\ db' = [db EXCEPT ![k] = update.value]
        /\ log' = Append(log, update)
        /\ PublishAll(<<update>>)
  /\ UNCHANGED <<generation, restarts, pageVars>>

\* What page w would show for k if every answer now on its way were taken.
Showing(w, k) ==
  LET coming == {r \in calls[w][k] : r.current}
  IN  IF coming = {} THEN cell[w][k]
      ELSE LET r == CHOOSE r \in coming : TRUE
           IN IF r.answered THEN Ready(r.value) ELSE Loading

\* The keys whose changes a stream of w opened now is not owed, although the
\* page was never told of them.
Passed(w) ==
  IF cursor[w] = NoSeq THEN Wants[w]
  ELSE {k \in Wants[w] : \E i \in DOMAIN log :
          log[i].key = k /\ log[i].seq > told[w] /\ log[i].seq <= cursor[w]}

\* A page's stream reaches the server: registered, told `ready`, subscribed.
Accept(w) ==
  /\ conn[w] = "connecting"
  /\ conn' = [conn EXCEPT ![w] = "open"]
  /\ wire' = [wire EXCEPT ![w] = <<ReadyFrame>>]
  /\ Subscribe(w, cursor[w])
  /\ gap' = [gap EXCEPT ![w] =
               @ \cup {k \in Passed(w) : Showing(w, k) \notin {Loading, Failed, Ready(db[k])}}]
  /\ UNCHANGED <<serverVars, cursor, failures, cell, calls, told>>

\* The stream's thread takes the next event and writes it as a frame.
Pump(w) ==
  /\ conn[w] = "open"
  /\ TryNext(w)
  /\ LET queue == subs[w].pending \o subs[w].rx
     IN wire' = [wire EXCEPT ![w] = Append(@, UpdateFrame(Head(queue)))]
  /\ UNCHANGED <<serverVars, conn, cursor, failures, cell, calls, told, gap>>

-----------------------------------------------------------------------------
(* The page.                                                               *)

Load(w) ==
  /\ conn[w] = "none"
  /\ conn' = [conn EXCEPT ![w] = "connecting"]
  /\ StartAll(w)
  /\ UNCHANGED <<fanoutVars, serverVars, wire, cursor, failures, told, gap>>

Seen(w, frame) == cursor[w] # NoSeq /\ frame.seq <= cursor[w]

Advanced(w, frame) == IF Seen(w, frame) THEN cursor[w] ELSE frame.seq

\* What the page has not been handed once it has read this frame: a resync
\* under the name `update` says nothing to it, and an update it was never
\* told of is skipped when a `ready` frame moved the cursor past it.
Unhanded(w, frame) ==
  IF frame.resync THEN Wants[w]
  ELSE CASE frame.name = "update" /\ ~Seen(w, frame) -> gap[w] \ {frame.key}
         [] frame.name = "update" /\ Seen(w, frame) /\ frame.seq > told[w] ->
              gap[w] \cup ({frame.key} \cap Wants[w])
         [] OTHER -> gap[w]

\* receive: route one frame by its name, and return where to resume from.
Receive(w) ==
  /\ conn[w] = "open" /\ wire[w] # <<>>
  /\ LET frame == Head(wire[w])
     IN /\ wire' = [wire EXCEPT ![w] = Tail(@)]
        /\ failures' = [failures EXCEPT ![w] = 0]
        /\ cursor' = [cursor EXCEPT ![w] = Advanced(w, frame)]
        /\ told' = [told EXCEPT ![w] =
                      IF frame.name = "update" /\ frame.seq > @ THEN frame.seq ELSE @]
        /\ gap' = [gap EXCEPT ![w] = Unhanded(w, frame)]
        /\ \/ /\ frame.name = "resync"
              /\ StartAll(w)
           \/ /\ frame.name = "update" /\ ~Seen(w, frame) /\ frame.key \in Wants[w]
              /\ ApplyUpdate(w, frame.key, frame.value)
           \/ /\ frame.name # "resync"
              /\ frame.name = "update" => Seen(w, frame) \/ frame.key \notin Wants[w]
              /\ UNCHANGED <<cell, calls>>
  /\ UNCHANGED <<fanoutVars, serverVars, conn>>

\* Mutant: the policy always tries again.
RetryForEver(w) ==
  /\ conn' = [conn EXCEPT ![w] = "waiting"]
  /\ UNCHANGED <<failures, cell, calls>>

\* Mutant: one attempt more than the limit.
RetryOnceMore(w) ==
  /\ failures' = [failures EXCEPT ![w] = @ + 1]
  /\ \/ /\ failures[w] + 1 > RETRY_LIMIT
        /\ conn' = [conn EXCEPT ![w] = "stopped"]
        /\ FailAll(w)
     \/ /\ failures[w] + 1 <= RETRY_LIMIT
        /\ conn' = [conn EXCEPT ![w] = "waiting"]
        /\ UNCHANGED <<cell, calls>>

\* attempts().next: wait and try again, or stop and tell every cell.
Retry(w) ==
  /\ failures' = [failures EXCEPT ![w] = @ + 1]
  /\ \/ /\ failures[w] + 1 >= RETRY_LIMIT
        /\ conn' = [conn EXCEPT ![w] = "stopped"]
        /\ FailAll(w)
     \/ /\ failures[w] + 1 < RETRY_LIMIT
        /\ conn' = [conn EXCEPT ![w] = "waiting"]
        /\ UNCHANGED <<cell, calls>>

\* A connection that was never answered.
Refused(w) ==
  /\ conn[w] = "connecting"
  /\ Retry(w)
  /\ UNCHANGED <<fanoutVars, serverVars, wire, cursor, told, gap>>

\* A stream is cut: the frames in flight and the subscription are gone.
Cut(w) ==
  /\ conn[w] = "open"
  /\ Hangup(w)
  /\ Retry(w)
  /\ wire' = [wire EXCEPT ![w] = <<>>]
  /\ UNCHANGED <<serverVars, cursor, told, gap>>

\* The jittered wait is over: a new EventSource, at the page's own cursor.
Reconnect(w) ==
  /\ conn[w] = "waiting"
  /\ conn' = [conn EXCEPT ![w] = "connecting"]
  /\ UNCHANGED <<fanoutVars, serverVars, wire, cursor, failures, cell, calls, told, gap>>

\* The tab is closed or reloaded; loading again is a new page.
Unload(w) ==
  /\ conn[w] # "none"
  /\ conn' = [conn EXCEPT ![w] = "none"]
  /\ subs' = [subs EXCEPT ![w] = Closed]
  /\ wire' = [wire EXCEPT ![w] = <<>>]
  /\ cursor' = [cursor EXCEPT ![w] = NoSeq]
  /\ failures' = [failures EXCEPT ![w] = 0]
  /\ cell' = [cell EXCEPT ![w] = [k \in Wants[w] |-> Loading]]
  /\ calls' = [calls EXCEPT ![w] = [k \in Wants[w] |-> {}]]
  /\ told' = [told EXCEPT ![w] = 0]
  /\ gap' = [gap EXCEPT ![w] = {}]
  /\ UNCHANGED <<latest, backlog, serverVars>>

\* zdc dev is stopped and started.  The backlog never survives; the store
\* does when bind_with was given a file, and not when `bind` made one in
\* memory, as `zdc dev` does.  Every stream has been cut by then, and a
\* request without an answer stays on the wire until it is lost.
Restart ==
  /\ restarts < MaxRestarts
  /\ \A w \in Window : conn[w] # "open"
  /\ generation' = 0
  /\ restarts' = restarts + 1
  /\ \/ /\ TRUE \in Survivals
        /\ FanoutOpen(latest)
        /\ UNCHANGED <<db, log, told, gap>>
     \/ /\ FALSE \in Survivals
        /\ FanoutOpen(0)
        /\ db' = [k \in Key |-> None]
        /\ log' = <<>>
        /\ told' = [w \in Window |-> 0]
        /\ gap' = [w \in Window |-> IF conn[w] = "none" THEN {} ELSE Wants[w]]
  /\ UNCHANGED <<conn, wire, cursor, failures, cell, calls>>

-----------------------------------------------------------------------------

Init ==
  /\ FanoutInit
  /\ db = [k \in Key |-> None]
  /\ log = <<>>
  /\ generation \in Generations
  /\ restarts = 0
  /\ conn = [w \in Window |-> "none"]
  /\ wire = [w \in Window |-> <<>>]
  /\ cursor = [w \in Window |-> NoSeq]
  /\ failures = [w \in Window |-> 0]
  /\ cell = [w \in Window |-> [k \in Wants[w] |-> Loading]]
  /\ calls = [w \in Window |-> [k \in Wants[w] |-> {}]]
  /\ told = [w \in Window |-> 0]
  /\ gap = [w \in Window |-> {}]

Next ==
  \/ \E k \in Key : Write(k)
  \/ \E w \in Window :
       \/ Load(w) \/ Accept(w) \/ Pump(w) \/ Receive(w)
       \/ Refused(w) \/ Cut(w) \/ Reconnect(w) \/ Unload(w)
       \/ \E k \in Wants[w] : Answer(w, k) \/ Settle(w, k)
  \/ Restart

Spec == Init /\ [][Next]_vars

\* A connection attempt ends one way or the other, and a timer fires.
LiveSpec ==
  /\ Spec
  /\ \A w \in Window : WF_vars(Accept(w) \/ Refused(w)) /\ WF_vars(Reconnect(w))

-----------------------------------------------------------------------------
(* The type invariant.                                                     *)

Shown == {Loading, Failed} \cup [tag : {"Ready"}, value : Slot]
Request == [current : BOOLEAN, answered : BOOLEAN, value : Slot]

TypeOK ==
  /\ FanoutTypeOK /\ SubscriptionsTypeOK
  /\ db \in [Key -> Slot]
  /\ conn \in [Window -> {"none", "connecting", "open", "waiting", "stopped"}]
  /\ cursor \in [Window -> Nat \cup {NoSeq}]
  /\ failures \in [Window -> 0 .. RETRY_LIMIT]
  /\ \A w \in Window : \A k \in Wants[w] :
       /\ cell[w][k] \in Shown
       /\ calls[w][k] \in SUBSET Request
       /\ Cardinality({r \in calls[w][k] : r.current}) <= 1
  /\ \A w \in Window : conn[w] = "open" <=> subs[w].live

-----------------------------------------------------------------------------
(* Safety.                                                                 *)

(* Once live sync has stopped, no cell claims to be current: not even a    *)
(* request that was on the wire when it stopped can bring back a Ready.    *)
StoppedPagesSaySo ==
  \A w \in Window : conn[w] = "stopped" => \A k \in Wants[w] : cell[w][k] = Failed

(* A pushed value is not overwritten by the late answer of a request that  *)
(* was made before it: no answer takes a cell from a write to an older one. *)
AnswersNeverGoBack ==
  [][\A w \in Window : \A k \in Wants[w] :
       /\ cell'[w][k] # cell[w][k] /\ cell[w][k].tag = "Ready" /\ cell'[w][k].tag = "Ready"
       /\ wire' = wire /\ cell[w][k].value # None
       => cell'[w][k].value # None /\ cell'[w][k].value >= cell[w][k].value]_cell

\* Nothing is under way for w: no request, no frame, no event.
Quiet(w) ==
  /\ conn[w] = "open" /\ wire[w] = <<>>
  /\ subs[w].pending = <<>> /\ subs[w].rx = <<>>
  /\ \A k \in Wants[w] : calls[w][k] = {}

(* A connected page with nothing under way shows what the store holds, or  *)
(* says that its read failed: whatever was cut, lost, replayed or answered *)
(* late on the way.  Left out are the keys whose last change the protocol  *)
(* did not hand to the page: a first stream opened over a write, a resync  *)
(* went unheard, a `ready` frame moved the cursor past an update, or the   *)
(* store itself was lost in a restart.                                     *)
ResumedPagesAreCurrent ==
  \A w \in Window : Quiet(w) =>
    \A k \in Wants[w] \ gap[w] : cell[w][k] \in {Failed, Ready(db[k])}

(* A page that is trying to connect ends up connected or stopped: the      *)
(* retries are bounded even against a server that never answers.           *)
RetriesEnd ==
  \A w \in Window : conn[w] \in {"connecting", "waiting"} ~> conn[w] \in {"open", "stopped", "none"}

-----------------------------------------------------------------------------
(* What the repository says and the code does not do.                      *)

(* store.js, of `resync`: never skipped; a page handed one reads again.    *)
ResyncIsNeverSkipped ==
  [][\A w \in Window :
       wire[w] # <<>> /\ wire'[w] = Tail(wire[w]) /\ Head(wire[w]).resync /\ conn'[w] = "open"
         => \A k \in Wants[w] : cell'[w][k] = Loading]_vars
=============================================================================
