----------------------------- MODULE RouterSync -----------------------------
(***************************************************************************)
(* Live sync of a deployed program: the router every target shares         *)
(* (src/crates/zdc-deploy/js/router.js) and one page                       *)
(* (src/crates/zdc-runtime/runtime/store.js), by stream or by poll.        *)
(*                                                                         *)
(* No deployed store keeps a change log, so a connection opens with the    *)
(* value of every key and then follows changes: pushed by the store, or    *)
(* found by comparing.  What is sent is numbered with the instance's       *)
(* clock, and the page skips a number at or below its cursor.              *)
(*                                                                         *)
(* Reading a key and sending it are one step: nothing else sends on that   *)
(* stream in between.  A stream the page has left goes on starting up, and *)
(* keeps its timers; what it sends reaches nobody and is left out.  So are *)
(* the reads a page begins with: LiveSync has the cell in full.            *)
(***************************************************************************)
EXTENDS Integers, SequencesExt

CONSTANTS
  Watched,     \* the keys the page reads, in the order it asks for them
  Transports,  \* "stream" or "poll": what the page's platform offers
  Pushes,      \* whether the store has a `watch` (Durable Object) or is polled
  RETRY_LIMIT, \* consecutive failures before the page gives up
  Skew,        \* how far another instance's clock may be behind the first's
  MaxWrites, MaxStreams, MaxClock, MaxFaults

Key == Range(Watched)

ASSUME RouterAssumption ==
  /\ Transports \subseteq {"stream", "poll"} /\ Pushes \subseteq BOOLEAN
  /\ RETRY_LIMIT \in Nat \ {0}
  /\ {Skew, MaxWrites, MaxStreams, MaxClock, MaxFaults} \subseteq Nat
  /\ Watched \in Seq(Key) /\ Watched # <<>>
  /\ \A i, j \in DOMAIN Watched : Watched[i] = Watched[j] => i = j
  /\ Skew <= MaxClock

VARIABLES
  transport, pushes,
  db,        \* the store: which write each key holds, 0 for none
  clock,     \* the millisecond, as the first instance reads it
  faults,    \* store calls that failed so far
  conn,      \* connecting, open, waiting, stopped
  failures,  \* consecutive failed connections
  page,      \* the page's cursor and cells
  wire,      \* frames of the open stream not yet read
  answer,    \* the poll answer being put together
  streams,   \* every stream ever opened; the page's is the last
  sent       \* history: what this connection last sent for each key

serverVars == <<db, clock, faults, answer, streams, sent>>
vars == <<transport, pushes, conn, failures, page, wire, serverVars>>

Unseen == -1    \* a key not looked at
NoCursor == -1
Loading == -1   \* a cell, or
Failed == -2
NoAnswer == [seq |-> 0, events |-> <<>>]
Nothing == [k \in Key |-> Unseen]

-----------------------------------------------------------------------------
(* The page.                                                               *)

Frame(name, key, value, seq) ==
  [name |-> name, key |-> key, value |-> value, seq |-> seq]

\* receive: one update.  `missed` is history: keys whose last frame was
\* skipped as already seen.
Applied(p, frame) ==
  IF p.cursor # NoCursor /\ frame.seq <= p.cursor
    THEN [p EXCEPT !.missed = @ \cup {frame.key}]
    ELSE [cursor |-> frame.seq,
          shown |-> [p.shown EXCEPT ![frame.key] = frame.value],
          missed |-> p.missed \ {frame.key}]

\* The events of an answer, one after the other.
Taken(p, events) ==
  LET upTo[i \in 0 .. Len(events)] ==
        IF i = 0 THEN p ELSE Applied(upTo[i - 1], events[i])
  IN  upTo[Len(events)]

\* The page has left the stream it held.  What remains of it is whether it
\* had started, and its timers.
Unwatched(s) ==
  [s EXCEPT !.seen = Nothing, !.gap = {}, !.queue = <<>>, !.next = 1, !.tick = 0, !.skew = 0,
            !.phase = IF @ = "open" THEN @ ELSE "subscribing"]

Left == IF conn = "open" THEN [streams EXCEPT ![Len(streams)] = Unwatched(@)] ELSE streams

\* Mutant: one attempt more than the limit.
RetryOnceMore ==
  /\ failures' = failures + 1
  /\ streams' = Left
  /\ wire' = <<>> /\ answer' = NoAnswer /\ sent' = Nothing
  /\ \/ /\ failures + 1 > RETRY_LIMIT
        /\ conn' = "stopped"
        /\ page' = [page EXCEPT !.shown = [k \in Key |-> Failed]]
     \/ /\ failures + 1 <= RETRY_LIMIT
        /\ conn' = "waiting"
        /\ UNCHANGED page
  /\ UNCHANGED <<transport, pushes, db, clock, faults>>

\* attempts().next: wait and try again, or stop and tell every cell.
Retry ==
  /\ failures' = failures + 1
  /\ streams' = Left
  /\ wire' = <<>> /\ answer' = NoAnswer /\ sent' = Nothing
  /\ \/ /\ failures + 1 >= RETRY_LIMIT
        /\ conn' = "stopped"
        /\ page' = [page EXCEPT !.shown = [k \in Key |-> Failed]]
     \/ /\ failures + 1 < RETRY_LIMIT
        /\ conn' = "waiting"
        /\ UNCHANGED page
  /\ UNCHANGED <<transport, pushes, db, clock, faults>>

\* A connection or a poll is refused, or cut.
Fail == conn \in {"connecting", "open"} /\ Retry

\* The wait is over: a new EventSource.
Reconnect ==
  /\ transport = "stream" /\ conn = "waiting"
  /\ conn' = "connecting"
  /\ UNCHANGED <<transport, pushes, failures, page, wire, serverVars>>

\* An `error` event of the router and the end of a stream both fire the
\* source's error listener; `close` and heartbeats have no listener.
Receive ==
  /\ conn = "open" /\ wire # <<>>
  /\ \/ /\ Head(wire).name = "update"
        /\ page' = Applied(page, Head(wire))
        /\ wire' = Tail(wire)
        /\ failures' = 0
        /\ UNCHANGED <<transport, pushes, conn, serverVars>>
     \/ Head(wire).name # "update" /\ Retry

-----------------------------------------------------------------------------
(* watch(): one stream.                                                    *)

cur == Len(streams)
Mine == streams[cur]

Opened(skew) ==
  [phase |-> "opening", next |-> 1, seen |-> Nothing, gap |-> {}, queue |-> <<>>,
   tick |-> 0, open |-> TRUE, stop |-> FALSE, heart |-> FALSE, early |-> FALSE,
   skew |-> skew]

\* A stream reaches some instance.  Clocks are told relative to the first.
Accept ==
  /\ transport = "stream" /\ conn = "connecting" /\ cur < MaxStreams
  /\ conn' = "open"
  /\ \E skew \in 0 .. Skew :
       /\ streams = <<>> => skew = 0
       /\ streams' = Append(streams, Opened(skew))
  /\ sent' = Nothing
  /\ UNCHANGED <<transport, pushes, failures, page, wire, db, clock, faults, answer>>

\* emit: the clock is read, and the frame carries what it says.
Emit(k, v) ==
  \E now \in {clock, clock + 1} :
    /\ now <= MaxClock
    /\ clock' = now
    /\ wire' = Append(wire, Frame("update", k, v, now - Mine.skew))
    /\ sent' = [sent EXCEPT ![k] = v]

Keep == UNCHANGED <<transport, pushes, conn, failures, page, db, answer>>
Quietly == UNCHANGED <<clock, wire, sent>>

\* Serving: the page holds the stream and the router has not ended it.
Serving == conn = "open" /\ Mine.open

\* Every key's current value, one by one.
OpenKey ==
  /\ Serving /\ Mine.phase = "opening"
  /\ LET k == Watched[Mine.next]
     IN /\ Emit(k, db[k])
        /\ streams' = [streams EXCEPT ![cur] =
             IF Mine.next = Len(Watched) THEN [Mine EXCEPT !.phase = "subscribing"]
                                         ELSE [Mine EXCEPT !.next = Mine.next + 1]]
  /\ UNCHANGED faults /\ Keep

\* A failed read ends the opening; the page is told, and takes it for a cut.
OpenFails ==
  /\ Serving /\ Mine.phase = "opening" /\ faults < MaxFaults
  /\ faults' = faults + 1
  /\ wire' = Append(wire, Frame("error", Watched[1], 0, 0))
  /\ streams' = [streams EXCEPT ![cur].phase = "subscribing"]
  /\ UNCHANGED <<clock, sent>> /\ Keep

\* The value a store's first delivery, or the first comparison, finds is
\* recorded and not sent.  `gap` is history: it was not what was sent.
Recorded(s, k, v) ==
  [s EXCEPT !.seen[k] = v, !.gap = IF sent[k] = v THEN @ \ {k} ELSE @ \cup {k}]

\* store.watch, or the first tick of poll(), and the heartbeat.
Subscribe ==
  /\ Serving /\ Mine.phase = "subscribing"
  /\ LET started == [Mine EXCEPT !.phase = "open", !.stop = TRUE, !.heart = TRUE, !.next = 1]
     IN streams' = [streams EXCEPT ![cur] =
          IF pushes
            THEN [started EXCEPT !.seen = db, !.gap = {k \in Key : sent[k] # db[k]}]
            ELSE [started EXCEPT !.tick = 1]]
  /\ UNCHANGED faults /\ Keep /\ Quietly

\* store.watch fails: start() rejects and the stream is an error.
SubscribeFails ==
  /\ Serving /\ Mine.phase = "subscribing" /\ pushes /\ faults < MaxFaults
  /\ faults' = faults + 1
  /\ wire' = Append(wire, Frame("eof", Watched[1], 0, 0))
  /\ streams' = [streams EXCEPT ![cur].phase = "open", ![cur].open = FALSE]
  /\ UNCHANGED <<clock, sent>> /\ Keep

Following == Serving /\ Mine.phase = "open"

\* The next change the Durable Object announced.
Pump ==
  /\ Following /\ Mine.queue # <<>>
  /\ LET change == Head(Mine.queue)
     IN /\ Emit(change.key, change.value)
        /\ streams' = [streams EXCEPT ![cur] =
             [Mine EXCEPT !.queue = Tail(Mine.queue), !.seen[change.key] = change.value,
                          !.gap = Mine.gap \ {change.key}]]
  /\ UNCHANGED faults /\ Keep

\* The interval fires; a tick still running is left to run.
Tick ==
  /\ Following /\ ~pushes /\ Mine.tick = 0
  /\ streams' = [streams EXCEPT ![cur].tick = 1]
  /\ UNCHANGED faults /\ Keep /\ Quietly

NextTick == IF Mine.tick = Len(Watched) THEN 0 ELSE Mine.tick + 1

\* Mutant: a changed value is recorded and not sent.
TickKeyForgetful ==
  /\ Following /\ Mine.tick # 0
  /\ LET k == Watched[Mine.tick]
     IN /\ streams' = [streams EXCEPT ![cur] = [@ EXCEPT !.seen[k] = db[k], !.tick = NextTick]]
        /\ Quietly
  /\ UNCHANGED faults /\ Keep

TickKey ==
  /\ Following /\ Mine.tick \in DOMAIN Watched
  /\ LET k == Watched[Mine.tick]
         after == [Mine EXCEPT !.tick = NextTick]
     IN \/ /\ Mine.seen[k] = db[k]
           /\ streams' = [streams EXCEPT ![cur] = after]
           /\ Quietly
        \/ /\ Mine.seen[k] = Unseen
           /\ streams' = [streams EXCEPT ![cur] = Recorded(after, k, db[k])]
           /\ Quietly
        \/ /\ Mine.seen[k] \notin {Unseen, db[k]}
           /\ Emit(k, db[k])
           /\ streams' = [streams EXCEPT ![cur] =
                            [after EXCEPT !.seen[k] = db[k], !.gap = @ \ {k}]]
  /\ UNCHANGED faults /\ Keep


\* A failed read ends the tick: its later keys wait for the next one.
TickFails ==
  /\ Following /\ Mine.tick # 0 /\ faults < MaxFaults
  /\ faults' = faults + 1
  /\ streams' = [streams EXCEPT ![cur].tick = 0]
  /\ Keep /\ Quietly

\* A stream the page has left finishes starting, closed or not: `stop` and
\* `heartbeat` are assigned all the same.
StartUnwatched(s) ==
  /\ ~(s = cur /\ conn = "open") /\ streams[s].phase # "open"
  /\ streams' = [streams EXCEPT ![s].phase = "open", ![s].stop = TRUE, ![s].heart = TRUE]
  /\ UNCHANGED faults /\ Keep /\ Quietly

\* Mutant: only the heartbeat is cleared.
CancelHalf(s) ==
  /\ ~(s = cur /\ conn = "open") /\ streams[s].open
  /\ streams' = [streams EXCEPT ![s] =
       [@ EXCEPT !.open = FALSE, !.heart = FALSE, !.early = streams[s].phase # "open"]]
  /\ UNCHANGED faults /\ Keep /\ Quietly

\* The platform reports that the client has gone: cancel(), or `abort` once
\* the stream has started.  Some platforms never do.
Cancel(s) ==
  /\ ~(s = cur /\ conn = "open") /\ streams[s].open
  /\ streams' = [streams EXCEPT ![s] =
       [@ EXCEPT !.open = FALSE, !.heart = FALSE, !.stop = FALSE,
                 !.early = streams[s].phase # "open"]]
  /\ UNCHANGED faults /\ Keep /\ Quietly

\* The heartbeat closes a stream: `max-duration` or `idle`.  Once `open` is
\* false it closes nothing.
Expire(s) ==
  /\ streams[s].open /\ streams[s].heart
  /\ streams' = [streams EXCEPT ![s] = [@ EXCEPT !.open = FALSE, !.heart = FALSE, !.stop = FALSE]]
  /\ wire' = IF s = cur /\ conn = "open"
               THEN Append(wire, Frame("eof", Watched[1], 0, 0)) ELSE wire
  /\ UNCHANGED <<clock, sent, faults>> /\ Keep

-----------------------------------------------------------------------------
(* once(): one poll.                                                       *)

\* pollTransport asks; the answer has one position, read before the values.
Ask ==
  /\ transport = "poll" /\ conn = "waiting"
  /\ conn' = "connecting"
  /\ \E now \in {clock, clock + 1} : \E skew \in 0 .. Skew :
       /\ now <= MaxClock
       /\ clock' = now
       /\ answer' = [seq |-> now - skew, events |-> <<>>]
  /\ UNCHANGED <<transport, pushes, failures, page, wire, db, faults, streams, sent>>

Collected == Len(answer.events)

AnswerKey ==
  /\ transport = "poll" /\ conn = "connecting" /\ Collected < Len(Watched)
  /\ LET k == Watched[Collected + 1]
     IN answer' = [answer EXCEPT !.events = Append(@, Frame("update", k, db[k], answer.seq))]
  /\ UNCHANGED <<transport, pushes, conn, failures, page, wire, db, clock, faults, streams, sent>>

Answered ==
  /\ transport = "poll" /\ conn = "connecting" /\ Collected = Len(Watched)
  /\ page' = Taken(page, answer.events)
  /\ sent' = [k \in Key |-> (CHOOSE e \in Range(answer.events) : e.key = k).value]
  /\ conn' = "waiting" /\ failures' = 0 /\ answer' = NoAnswer
  /\ UNCHANGED <<transport, pushes, wire, db, clock, faults, streams>>

-----------------------------------------------------------------------------

\* A handler writes a key; a Durable Object tells its subscribers.
Write(k) ==
  LET value == Max(Range(db)) + 1
  IN /\ value <= MaxWrites
     /\ db' = [db EXCEPT ![k] = value]
     /\ streams' = IF Following /\ pushes
                     THEN [streams EXCEPT ![cur].queue = Append(@, [key |-> k, value |-> value])]
                     ELSE streams
     /\ UNCHANGED <<transport, pushes, conn, failures, page, wire, clock, faults, answer, sent>>

Init ==
  /\ transport \in Transports /\ pushes \in Pushes
  /\ db = [k \in Key |-> 0]
  /\ clock = Skew /\ faults = 0
  /\ conn = "waiting" /\ failures = 0
  /\ page = [cursor |-> NoCursor, missed |-> {},
             shown |-> [k \in Key |-> Loading]]
  /\ wire = <<>> /\ answer = NoAnswer
  /\ streams = <<>> /\ sent = Nothing

\* What the router does of itself.
Serve ==
  \/ OpenKey \/ Subscribe \/ Pump \/ Tick \/ TickKey

Next ==
  \/ Serve \/ OpenFails \/ SubscribeFails \/ TickFails
  \/ \E s \in DOMAIN streams : StartUnwatched(s) \/ Cancel(s) \/ Expire(s)
  \/ Fail \/ Reconnect \/ Receive \/ Accept
  \/ Ask \/ AnswerKey \/ Answered
  \/ \E k \in Key : Write(k)

Spec == Init /\ [][Next]_vars

\* Timers fire, and what the router awaits is settled.
LiveSpec == Spec /\ WF_vars(Subscribe) /\ WF_vars(Pump) /\ WF_vars(Tick) /\ WF_vars(TickKey)

-----------------------------------------------------------------------------

Stream ==
  [phase : {"opening", "subscribing", "open"}, next : 1 .. Len(Watched),
   seen : [Key -> Unseen .. MaxWrites], gap : SUBSET Key,
   queue : Seq([key : Key, value : 1 .. MaxWrites]), tick : 0 .. Len(Watched),
   open : BOOLEAN, stop : BOOLEAN, heart : BOOLEAN, early : BOOLEAN, skew : 0 .. Skew]

TypeOK ==
  /\ transport \in Transports /\ pushes \in Pushes
  /\ db \in [Key -> 0 .. MaxWrites]
  /\ clock \in Skew .. MaxClock /\ faults \in 0 .. MaxFaults
  /\ conn \in {"connecting", "open", "waiting", "stopped"}
  /\ failures \in 0 .. RETRY_LIMIT
  /\ page \in [cursor : NoCursor .. MaxClock, missed : SUBSET Key,
               shown : [Key -> Failed .. MaxWrites]]
  /\ streams \in Seq(Stream)
  /\ sent \in [Key -> Unseen .. MaxWrites]
  /\ \A i \in DOMAIN wire : wire[i].name \in {"update", "error", "eof"}
  /\ conn = "open" => streams # <<>>
  /\ wire # <<>> => conn = "open"

\* The router has nothing more to send for k: a stream has seen its value,
\* the last poll found it.
Noticed(k) ==
  \/ Following /\ Mine.seen[k] = db[k] /\ k \notin Mine.gap
  \/ transport = "poll" /\ conn = "waiting" /\ sent[k] = db[k]

(* A connected page shows the store, key by key, once nothing is under way *)
(* for the key; the only exceptions are those the protocol has: the key's  *)
(* last frame had a number the page had reached already (one millisecond   *)
(* for two frames, or a clock that is behind), or a write fell between the *)
(* opening read of a key and the router's first look at it.                *)
QuietPagesAreCurrent ==
  \A k \in Key :
    Noticed(k) /\ wire = <<>> /\ k \notin page.missed => page.shown[k] = db[k]

(* A stream that ended leaves no timer and no subscription behind, whoever *)
(* ended it, unless its client left before start() had assigned them.      *)
TimersEndWithTheStream ==
  \A s \in DOMAIN streams :
    ~streams[s].open /\ ~streams[s].early => ~streams[s].stop /\ ~streams[s].heart


-----------------------------------------------------------------------------
(* What the repository says and the code does not do.                      *)

(* router.js, of a poll: every key's current value goes out as an update,  *)
(* so no change log is needed to answer correctly.  The page shows, after  *)
(* a whole answer, what it says.                                           *)
PolledAnswersAreShown ==
  [][Answered => \A i \in DOMAIN answer.events :
       page'.shown[answer.events[i].key] = answer.events[i].value]_vars
=============================================================================
