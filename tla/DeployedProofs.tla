--------------------------- MODULE DeployedProofs ---------------------------
(***************************************************************************)
(* The deployed program, for any keys, requests and bounds: its router's   *)
(* streams and pages (RouterSync) and its stores (StoreCells).             *)
(*                                                                         *)
(* A stream that ended leaves no timer behind, unless its client left      *)
(* before it had started, and a page with nothing under way shows what the *)
(* store holds.  In the stores a read and a versionstamp that has not      *)
(* moved since are enough.                                                 *)
(***************************************************************************)
EXTENDS RouterSync, StoreCells, ListsProofs, TLAPS

-----------------------------------------------------------------------------
(* A stream and its timers.                                                *)

StreamFields == {"phase", "next", "seen", "gap", "queue", "tick", "open", "stop", "heart", "early", "skew"}

\* One stream: the timers are assigned when it has started, and taken back
\* when it ends; one that ends before it has started was left early.
Tidy(s) ==
  /\ DOMAIN s = StreamFields
  /\ {s.open, s.stop, s.heart, s.early} \subseteq BOOLEAN
  /\ s.phase # "open" => ~s.stop /\ ~s.heart
  /\ s.phase # "open" /\ ~s.open => s.early
  /\ ~s.open /\ ~s.early => ~s.stop /\ ~s.heart

IInv ==
  /\ \E S : streams \in Seq(S)
  /\ \A s \in 1 .. Len(streams) : Tidy(streams[s])

LEMMA InitIInv == ASSUME Init PROVE IInv
<1>1. streams = <<>> /\ streams \in Seq({})
  BY DEF Init
<1> QED BY <1>1 DEF IInv

\* A new stream joins the others.
LEMMA Appended ==
  ASSUME IInv, NEW new, Tidy(new), streams' = Append(streams, new) PROVE IInv'
<1>1. PICK S : streams \in Seq(S)
  BY DEF IInv
<1>2. streams \in Seq(S \cup {new})
  BY <1>1
<1>3. streams' \in Seq(S \cup {new}) /\ Len(streams') = Len(streams) + 1 /\ Len(streams) \in Nat
  BY <1>2
<1>4. \A s \in 1 .. Len(streams') :
        streams'[s] = IF s = Len(streams) + 1 THEN new ELSE streams[s]
  BY <1>2, <1>3
<1>5. \A s \in 1 .. Len(streams') : Tidy(streams'[s])
  BY <1>3, <1>4 DEF IInv
<1> QED BY <1>3, <1>5 DEF IInv

\* One stream changes, if there is one of that number.
LEMMA Replaced ==
  ASSUME IInv, NEW i, NEW new, i \in 1 .. Len(streams) => Tidy(new),
         streams' = [streams EXCEPT ![i] = new]
  PROVE  IInv'
<1>1. PICK S : streams \in Seq(S)
  BY DEF IInv
<1>2. /\ streams \in [1 .. Len(streams) -> S \cup {new}] /\ Len(streams) \in Nat
  BY <1>1
<1>3. streams' \in [1 .. Len(streams) -> S \cup {new}]
  BY <1>2
<1>4. streams' \in Seq(S \cup {new}) /\ Len(streams') = Len(streams)
  BY <1>2, <1>3
<1>5. \A s \in 1 .. Len(streams') : streams'[s] = IF s = i THEN new ELSE streams[s]
  BY <1>2, <1>4
<1>6. \A s \in 1 .. Len(streams') : Tidy(streams'[s])
  BY <1>4, <1>5 DEF IInv
<1> QED BY <1>4, <1>6 DEF IInv

LEMMA Unchanged == ASSUME IInv, UNCHANGED streams PROVE IInv'
BY DEF IInv

\* What the page leaves is as tidy as what it held.
LEMMA LeftKeeps == ASSUME IInv, streams' = Left PROVE IInv'
<1>1. CASE conn = "open"
  <2> DEFINE new == Unwatched(streams[Len(streams)])
  <2>1. Len(streams) \in 1 .. Len(streams) => Tidy(new)
    BY DEF IInv, Tidy, StreamFields, Unwatched
  <2>2. streams' = [streams EXCEPT ![Len(streams)] = new]
    BY <1>1 DEF Left
  <2> QED BY <2>1, <2>2, Replaced
<1>2. CASE conn # "open"
  BY <1>2, Unchanged DEF Left
<1> QED BY <1>1, <1>2

LEMMA StartingKeeps ==
  ASSUME IInv, OpenKey \/ OpenFails \/ Subscribe \/ SubscribeFails PROVE IInv'
<1>1. cur \in 1 .. Len(streams) => Tidy(Mine)
  BY DEF IInv, Mine, cur
<1>2. CASE OpenKey
  <2> DEFINE new == IF Mine.next = Len(Watched) THEN [Mine EXCEPT !.phase = "subscribing"]
                                                ELSE [Mine EXCEPT !.next = Mine.next + 1]
  <2>1. cur \in 1 .. Len(streams) => Tidy(new)
    BY <1>1, <1>2 DEF OpenKey, Serving, Tidy, StreamFields
  <2>2. streams' = [streams EXCEPT ![cur] = new]
    BY <1>2 DEF OpenKey, Mine
  <2> QED BY <2>1, <2>2, Replaced
<1>3. CASE OpenFails
  <2> DEFINE new == [Mine EXCEPT !.phase = "subscribing"]
  <2>1. cur \in 1 .. Len(streams) => Tidy(new)
    BY <1>1, <1>3 DEF OpenFails, Serving, Tidy, StreamFields
  <2>2. streams' = [streams EXCEPT ![cur] = new]
    BY <1>3 DEF OpenFails, Mine
  <2> QED BY <2>1, <2>2, Replaced
<1>4. CASE Subscribe
  <2> DEFINE started == [Mine EXCEPT !.phase = "open", !.stop = TRUE, !.heart = TRUE, !.next = 1]
             new == IF pushes
                      THEN [started EXCEPT !.seen = db, !.gap = {k \in Key : sent[k] # db[k]}]
                      ELSE [started EXCEPT !.tick = 1]
  <2>1. cur \in 1 .. Len(streams) => Tidy(new)
    BY <1>1, <1>4 DEF Subscribe, Serving, Tidy, StreamFields
  <2>2. streams' = [streams EXCEPT ![cur] = new]
    BY <1>4 DEF Subscribe
  <2> QED BY <2>1, <2>2, Replaced
<1>5. CASE SubscribeFails
  <2> DEFINE new == [Mine EXCEPT !.phase = "open", !.open = FALSE]
  <2>1. cur \in 1 .. Len(streams) => Tidy(new)
    BY <1>1, <1>5 DEF SubscribeFails, Tidy, StreamFields
  <2>2. streams' = [streams EXCEPT ![cur] = new]
    BY <1>5 DEF SubscribeFails, Mine
  <2> QED BY <2>1, <2>2, Replaced
<1> QED BY <1>2, <1>3, <1>4, <1>5

LEMMA FollowingKeeps ==
  ASSUME IInv, Pump \/ Tick \/ TickKey \/ TickFails \/ \E k \in Key : Write(k) PROVE IInv'
<1>1. cur \in 1 .. Len(streams) => Tidy(Mine)
  BY DEF IInv, Mine, cur
<1>2. CASE Pump
  <2> DEFINE change == Head(Mine.queue)
             new == [Mine EXCEPT !.queue = Tail(Mine.queue), !.seen[change.key] = change.value,
                                 !.gap = Mine.gap \ {change.key}]
  <2>1. cur \in 1 .. Len(streams) => Tidy(new)
    BY <1>1 DEF Tidy, StreamFields
  <2>2. streams' = [streams EXCEPT ![cur] = new]
    BY <1>2 DEF Pump, Mine
  <2> QED BY <2>1, <2>2, Replaced
<1>3. ASSUME NEW tick, streams' = [streams EXCEPT ![cur].tick = tick] PROVE IInv'
  <2> DEFINE new == [Mine EXCEPT !.tick = tick]
  <2>1. cur \in 1 .. Len(streams) => Tidy(new)
    BY <1>1 DEF Tidy, StreamFields
  <2>2. streams' = [streams EXCEPT ![cur] = new]
    BY <1>3 DEF Mine
  <2> QED BY <2>1, <2>2, Replaced
<1>4. CASE TickKey
  <2> DEFINE k == Watched[Mine.tick]
             after == [Mine EXCEPT !.tick = NextTick]
  <2>1. cur \in 1 .. Len(streams) =>
          /\ Tidy(after) /\ Tidy(Recorded(after, k, db[k]))
          /\ Tidy([after EXCEPT !.seen[k] = db[k], !.gap = @ \ {k}])
    BY <1>1 DEF Tidy, StreamFields, Recorded
  <2>2. \/ streams' = [streams EXCEPT ![cur] = after]
        \/ streams' = [streams EXCEPT ![cur] = Recorded(after, k, db[k])]
        \/ streams' = [streams EXCEPT ![cur] = [after EXCEPT !.seen[k] = db[k], !.gap = @ \ {k}]]
    BY <1>4 DEF TickKey
  <2> HIDE DEF after, k
  <2> QED BY <2>1, <2>2, Replaced
<1>5. ASSUME NEW k \in Key, Write(k) PROVE IInv'
  <2> DEFINE value == Max(Range(db)) + 1
             new == [Mine EXCEPT !.queue = Append(Mine.queue, [key |-> k, value |-> value])]
  <2>1. cur \in 1 .. Len(streams) => Tidy(new)
    BY <1>1 DEF Tidy, StreamFields
  <2>2. streams' = [streams EXCEPT ![cur] = new] \/ UNCHANGED streams
    BY <1>5 DEF Write, Mine
  <2> QED BY <2>1, <2>2, Replaced, Unchanged
<1>6. CASE Tick \/ TickFails
  BY <1>3, <1>6 DEF Tick, TickFails
<1> QED BY <1>2, <1>4, <1>5, <1>6

\* What happens to any stream, held or left: it starts, it is cancelled, or
\* its own heartbeat ends it.
LEMMA EndingKeeps ==
  ASSUME IInv, NEW s \in DOMAIN streams, StartUnwatched(s) \/ Cancel(s) \/ Expire(s) PROVE IInv'
<1> DEFINE old == streams[s]
<1>1. s \in 1 .. Len(streams) => Tidy(old)
  BY DEF IInv
<1>2. CASE StartUnwatched(s)
  <2> DEFINE new == [old EXCEPT !.phase = "open", !.stop = TRUE, !.heart = TRUE]
  <2>1. s \in 1 .. Len(streams) => Tidy(new)
    BY <1>1, <1>2 DEF StartUnwatched, Tidy, StreamFields
  <2>2. streams' = [streams EXCEPT ![s] = new]
    BY <1>2 DEF StartUnwatched
  <2> QED BY <2>1, <2>2, Replaced
<1>3. CASE Cancel(s)
  <2> DEFINE new == [old EXCEPT !.open = FALSE, !.heart = FALSE, !.stop = FALSE,
                                !.early = old.phase # "open"]
  <2>1. s \in 1 .. Len(streams) => Tidy(new)
    BY <1>1 DEF Tidy, StreamFields
  <2>2. streams' = [streams EXCEPT ![s] = new]
    BY <1>3 DEF Cancel
  <2> QED BY <2>1, <2>2, Replaced
<1>4. CASE Expire(s)
  <2> DEFINE new == [old EXCEPT !.open = FALSE, !.heart = FALSE, !.stop = FALSE]
  <2>1. s \in 1 .. Len(streams) => Tidy(new)
    BY <1>1, <1>4 DEF Expire, Tidy, StreamFields
  <2>2. streams' = [streams EXCEPT ![s] = new]
    BY <1>4 DEF Expire
  <2> QED BY <2>1, <2>2, Replaced
<1> QED BY <1>2, <1>3, <1>4

LEMMA NextIInv == ASSUME IInv, [Next]_vars PROVE IInv'
<1>1. CASE Reconnect \/ Ask \/ AnswerKey \/ Answered \/ UNCHANGED vars
  BY <1>1, Unchanged DEF Reconnect, Ask, AnswerKey, Answered, vars, serverVars
<1>2. CASE Fail \/ Receive
  <2>1. Retry \/ UNCHANGED streams
    BY <1>2 DEF Fail, Receive, serverVars
  <2> QED BY <2>1, LeftKeeps, Unchanged DEF Retry
<1>3. CASE Accept
  <2>1. PICK skew \in 0 .. Skew : streams' = Append(streams, Opened(skew))
    BY <1>3 DEF Accept
  <2>2. Tidy(Opened(skew))
    BY DEF Opened, Tidy, StreamFields
  <2> QED BY <2>1, <2>2, Appended
<1> QED BY <1>1, <1>2, <1>3, StartingKeeps, FollowingKeeps, EndingKeeps DEF Next, Serve

LEMMA Invariance == Spec => []IInv
BY InitIInv, NextIInv, PTL DEF Spec

-----------------------------------------------------------------------------
(* Types.                                                                  *)

FrameSet == [name : {"update", "error", "eof"}, key : Key, value : 0 .. MaxWrites,
             seq : 0 .. MaxClock]

PageSet == [cursor : NoCursor .. MaxClock, missed : SUBSET Key,
            shown : [Key -> Failed .. MaxWrites]]

\* The answer being put together has a key of the page's in each place.
AnswerOk ==
  /\ answer \in [seq : 0 .. MaxClock, events : Seq(FrameSet)]
  /\ Len(answer.events) <= Len(Watched)
  /\ \A i \in 1 .. Len(answer.events) :
       answer.events[i].name = "update" /\ answer.events[i].key = Watched[i]

Basics ==
  /\ transport \in Transports /\ pushes \in Pushes
  /\ db \in [Key -> 0 .. MaxWrites]
  /\ clock \in Skew .. MaxClock /\ faults \in 0 .. MaxFaults
  /\ conn \in {"connecting", "open", "waiting", "stopped"}
  /\ failures \in 0 .. RETRY_LIMIT
  /\ conn # "stopped" => failures < RETRY_LIMIT
  /\ conn = "open" => transport = "stream" /\ streams # <<>>
  /\ sent \in [Key -> Unseen .. MaxWrites]

Typed ==
  /\ Basics
  /\ page \in PageSet
  /\ streams \in Seq(Stream)
  /\ wire \in Seq(FrameSet) /\ (wire # <<>> => conn = "open")
  /\ AnswerOk

LEMMA Bounds ==
  /\ RETRY_LIMIT \in Nat /\ RETRY_LIMIT > 0 /\ Skew \in Nat /\ MaxWrites \in Nat
  /\ MaxStreams \in Nat /\ MaxClock \in Nat /\ MaxFaults \in Nat /\ Skew <= MaxClock
  /\ Len(Watched) \in Nat /\ Len(Watched) >= 1 /\ Watched \in Seq(Key)
  /\ \A i \in 1 .. Len(Watched) : Watched[i] \in Key
  /\ \A i, j \in 1 .. Len(Watched) : Watched[i] = Watched[j] => i = j
  /\ \A k \in Key : \E i \in 1 .. Len(Watched) : Watched[i] = k
  /\ Unseen = -1 /\ NoCursor = -1 /\ Loading = -1 /\ Failed = -2
<1>1. Watched \in Seq(Key) /\ Watched # <<>>
  BY RouterAssumption
<1>2. Len(Watched) \in Nat /\ Len(Watched) >= 1 /\ DOMAIN Watched = 1 .. Len(Watched)
  BY <1>1, EmptySeq, LenProperties
<1>3. Key = {Watched[i] : i \in 1 .. Len(Watched)}
  BY <1>2 DEF Key, Range
<1>4. /\ \A i \in 1 .. Len(Watched) : Watched[i] \in Key
      /\ \A k \in Key : \E i \in 1 .. Len(Watched) : Watched[i] = k
  BY <1>3
<1>5. \A i, j \in 1 .. Len(Watched) : Watched[i] = Watched[j] => i = j
  BY <1>2, RouterAssumption
<1>6. /\ RETRY_LIMIT \in Nat /\ RETRY_LIMIT > 0 /\ Skew \in Nat /\ MaxWrites \in Nat
      /\ MaxStreams \in Nat /\ MaxClock \in Nat /\ MaxFaults \in Nat /\ Skew <= MaxClock
  BY RouterAssumption
<1> QED BY <1>1, <1>2, <1>4, <1>5, <1>6 DEF Unseen, NoCursor, Loading, Failed

LEMMA BlankValues ==
  /\ Nothing \in [Key -> Unseen .. MaxWrites] /\ <<>> \in Seq(FrameSet)
  /\ <<>> \in Seq([key : Key, value : 1 .. MaxWrites])
  /\ 0 \in 0 .. MaxClock /\ 0 \in 0 .. MaxWrites /\ 0 \in 0 .. Skew
BY Bounds, EmptySeq DEF Nothing

\* The newest of the values the store holds.
LEMMA NewestValue ==
  ASSUME NEW S, NEW n \in Nat, S \subseteq 0 .. n, S # {}
  PROVE  Max(S) \in S
<1>1. \E x \in S : \A y \in S : x >= y
  <2> SUFFICES ASSUME \A x \in S : \E y \in S : ~(x >= y) PROVE FALSE
    OBVIOUS
  <2> DEFINE G == {i \in 0 .. n : \E y \in S : y >= i}
  <2>0. S # {} /\ \A y \in S : y \in Int /\ y >= 0 /\ n >= y
    OBVIOUS
  <2>1. 0 \in G
    <3>1. PICK y \in S : y >= 0
      BY <2>0
    <3>2. 0 \in 0 .. n
      OBVIOUS
    <3> QED BY <3>1, <3>2
  <2>2. ASSUME NEW i \in 0 .. n - 1, i \in G PROVE i + 1 \in G
    <3>1. PICK y \in S : y >= i
      BY <2>2
    <3>2. PICK z \in S : ~(y >= z)
      OBVIOUS
    <3>3. z >= i + 1 /\ i + 1 \in 0 .. n
      BY <3>1, <3>2
    <3> QED BY <3>3
  <2>3. n \in G
    <3> HIDE DEF G
    <3>1. 0 .. n \subseteq G
      BY <2>1, <2>2, UpTo
    <3> QED BY <3>1
  <2>4. PICK y \in S : y >= n
    BY <2>3
  <2>5. PICK z \in S : ~(y >= z)
    OBVIOUS
  <2> QED BY <2>4, <2>5
<1> QED BY <1>1 DEF Max

LEMMA OneStream ==
  ASSUME streams \in Seq(Stream), NEW i \in 1 .. Len(streams), NEW new \in Stream,
         streams' = [streams EXCEPT ![i] = new]
  PROVE  /\ streams' \in Seq(Stream) /\ Len(streams') = Len(streams)
         /\ streams'[i] = new /\ \A j \in 1 .. Len(streams) : j # i => streams'[j] = streams[j]
         /\ streams # <<>> => streams' # <<>>
<1>1. Len(streams) \in Nat /\ streams \in [1 .. Len(streams) -> Stream]
  BY LenProperties, ElementOfSeq
<1>2. streams' \in [1 .. Len(streams) -> Stream]
  BY <1>1
<1>3. streams' \in Seq(Stream) /\ Len(streams') = Len(streams)
  BY <1>1, <1>2
<1> QED BY <1>1, <1>3, EmptySeq

LEMMA MineTyped ==
  ASSUME Typed, conn = "open"
  PROVE  cur \in 1 .. Len(streams) /\ Mine = streams[cur] /\ Mine \in Stream /\ streams # <<>>
<1>1. streams \in Seq(Stream) /\ streams # <<>>
  BY DEF Typed, Basics
<1>2. Len(streams) \in Nat /\ Len(streams) >= 1
  BY <1>1, EmptySeq, LenProperties
<1>3. cur \in 1 .. Len(streams) /\ Mine = streams[cur]
  BY <1>2 DEF cur, Mine
<1> QED BY <1>1, <1>3, ElementOfSeq

LEMMA UnwatchedTyped ==
  ASSUME NEW s \in Stream PROVE Unwatched(s) \in Stream
<1>1. 1 \in 1 .. Len(Watched) /\ 0 \in 0 .. Len(Watched)
  BY Bounds
<1> QED BY <1>1, BlankValues DEF Unwatched, Stream

LEMMA LeftTyped ==
  ASSUME Typed, streams' = Left
  PROVE  streams' \in Seq(Stream) /\ Len(streams') = Len(streams)
<1>1. CASE conn = "open"
  <2>1. cur \in 1 .. Len(streams) /\ Mine \in Stream
    BY <1>1, MineTyped
  <2>2. streams' = [streams EXCEPT ![cur] = Unwatched(Mine)]
    BY <1>1 DEF Left, cur, Mine
  <2> QED BY <2>1, <2>2, UnwatchedTyped, OneStream DEF Typed
<1>2. CASE conn # "open"
  BY <1>2 DEF Typed, Left
<1> QED BY <1>1, <1>2

\* One update is emitted.
LEMMA EmitTyped ==
  ASSUME Typed, conn = "open", NEW k \in Key, NEW v \in 0 .. MaxWrites, Emit(k, v)
  PROVE  \E frame \in FrameSet :
           /\ frame.name = "update" /\ frame.key = k /\ frame.value = v
           /\ wire' = Append(wire, frame) /\ wire' \in Seq(FrameSet)
           /\ sent' = [sent EXCEPT ![k] = v] /\ sent' \in [Key -> Unseen .. MaxWrites]
           /\ clock' \in Skew .. MaxClock
<1>1. Mine \in Stream
  BY MineTyped
<1>2. PICK now \in {clock, clock + 1} :
        /\ now <= MaxClock /\ clock' = now
        /\ wire' = Append(wire, Frame("update", k, v, now - Mine.skew))
        /\ sent' = [sent EXCEPT ![k] = v]
  BY DEF Emit
<1>3. clock \in Skew .. MaxClock /\ Mine.skew \in 0 .. Skew
  BY <1>1 DEF Typed, Basics, Stream
<1> DEFINE behind == Mine.skew
<1>4. now \in Skew .. MaxClock /\ now - behind \in 0 .. MaxClock
  <2>1. now <= MaxClock /\ (now = clock \/ now = clock + 1)
    BY <1>2
  <2>2. clock \in Int /\ Skew <= clock /\ behind \in Int /\ 0 <= behind /\ behind <= Skew
    BY <1>3, Bounds
  <2> HIDE DEF behind
  <2> QED BY <2>1, <2>2, Bounds
<1> DEFINE frame == Frame("update", k, v, now - Mine.skew)
<1>5. frame \in FrameSet /\ frame.name = "update" /\ frame.key = k /\ frame.value = v
  BY <1>4 DEF Frame, FrameSet
<1> HIDE DEF frame
<1>6. wire' \in Seq(FrameSet)
  BY <1>2, <1>5, AppendProperties DEF Typed, frame
<1>7. sent' \in [Key -> Unseen .. MaxWrites]
  BY <1>2, Bounds DEF Typed, Basics
<1> QED BY <1>2, <1>4, <1>5, <1>6, <1>7 DEF frame

LEMMA AppliedTyped ==
  ASSUME NEW p \in PageSet, NEW frame \in FrameSet
  PROVE  /\ Applied(p, frame) \in PageSet
         /\ \A k \in Key : k # frame.key =>
              /\ Applied(p, frame).shown[k] = p.shown[k]
              /\ k \in Applied(p, frame).missed <=> k \in p.missed
         /\ frame.key \in Applied(p, frame).missed
              \/ Applied(p, frame).shown[frame.key] = frame.value
<1>1. /\ frame.key \in Key /\ frame.value \in Failed .. MaxWrites
      /\ frame.seq \in NoCursor .. MaxClock
  BY Bounds DEF FrameSet
<1>2. CASE p.cursor # NoCursor /\ frame.seq <= p.cursor
  <2>1. Applied(p, frame) = [p EXCEPT !.missed = p.missed \cup {frame.key}]
    BY <1>2 DEF Applied
  <2> QED BY <1>1, <2>1 DEF PageSet
<1>3. CASE ~(p.cursor # NoCursor /\ frame.seq <= p.cursor)
  <2>1. Applied(p, frame) = [cursor |-> frame.seq,
                             shown |-> [p.shown EXCEPT ![frame.key] = frame.value],
                             missed |-> p.missed \ {frame.key}]
    BY <1>3 DEF Applied
  <2> QED BY <1>1, <2>1 DEF PageSet
<1> QED BY <1>2, <1>3

-----------------------------------------------------------------------------
(* What the page has been told of a key.                                   *)

\* What the router has looked at, it sent, or noted that it did not.
SeenOk(s, told) ==
  \A k \in Key : s.seen[k] # Unseen => s.phase = "open" /\ (k \in s.gap \/ s.seen[k] = told[k])

Updates(frame, k) == frame.name = "update" /\ frame.key = k

\* The last update of k under way has this value.
Carries(frames, k, value) ==
  \E i \in 1 .. Len(frames) :
    /\ Updates(frames[i], k) /\ frames[i].value = value
    /\ \A j \in 1 .. Len(frames) : j > i => ~Updates(frames[j], k)

Silent(frames, k) == \A i \in 1 .. Len(frames) : ~Updates(frames[i], k)

\* What was last sent of k is on its way, or the page shows it, or skipped it.
ToldOk(p, frames, told, k) ==
  \/ told[k] = Unseen
  \/ Carries(frames, k, told[k])
  \/ Silent(frames, k) /\ (k \in p.missed \/ p.shown[k] = told[k])

Told ==
  /\ conn = "open" => SeenOk(Mine, sent)
  /\ \A k \in Key : ToldOk(page, wire, sent, k)

LEMMA ToldMore ==
  ASSUME NEW frames \in Seq(FrameSet), NEW frame \in FrameSet, NEW p, NEW told, NEW k \in Key,
         NEW after, ToldOk(p, frames, told, k),
         IF Updates(frame, k) THEN after[k] = frame.value ELSE after[k] = told[k]
  PROVE  ToldOk(p, Append(frames, frame), after, k)
<1> DEFINE more == Append(frames, frame)
<1>1. /\ Len(frames) \in Nat /\ Len(more) = Len(frames) + 1 /\ more[Len(frames) + 1] = frame
      /\ \A i \in 1 .. Len(frames) : more[i] = frames[i]
  BY AppendProperties, LenProperties
<1> HIDE DEF more
<1>2. CASE Updates(frame, k)
  <2>1. Carries(more, k, after[k])
    BY <1>1, <1>2 DEF Carries
  <2> QED BY <2>1 DEF ToldOk, more
<1>3. CASE ~Updates(frame, k)
  <2>1. Carries(frames, k, told[k]) => Carries(more, k, told[k])
    <3>1. SUFFICES ASSUME Carries(frames, k, told[k]) PROVE Carries(more, k, told[k])
      OBVIOUS
    <3>2. PICK i \in 1 .. Len(frames) :
            /\ Updates(frames[i], k) /\ frames[i].value = told[k]
            /\ \A j \in 1 .. Len(frames) : j > i => ~Updates(frames[j], k)
      BY <3>1 DEF Carries
    <3>3. i \in 1 .. Len(more) /\ more[i] = frames[i]
      BY <1>1
    <3>4. \A j \in 1 .. Len(more) : j > i => ~Updates(more[j], k)
      <4>1. SUFFICES ASSUME NEW j \in 1 .. Len(more), j > i PROVE ~Updates(more[j], k)
        OBVIOUS
      <4>2. j \in 1 .. Len(frames) \/ j = Len(frames) + 1
        BY <1>1
      <4> QED BY <1>1, <1>3, <3>2, <4>1, <4>2
    <3> QED BY <3>2, <3>3, <3>4 DEF Carries
  <2>2. Silent(frames, k) => Silent(more, k)
    <3>1. \A j \in 1 .. Len(more) : j \in 1 .. Len(frames) \/ j = Len(frames) + 1
      BY <1>1
    <3> QED BY <1>1, <1>3, <3>1 DEF Silent
  <2> QED BY <1>3, <2>1, <2>2 DEF ToldOk, more
<1> QED BY <1>2, <1>3

\* The page reads the first of the frames.
LEMMA ToldLess ==
  ASSUME NEW frames \in Seq(FrameSet), frames # <<>>, NEW p \in PageSet, NEW told, NEW k \in Key,
         Head(frames).name = "update", ToldOk(p, frames, told, k)
  PROVE  ToldOk(Applied(p, Head(frames)), Tail(frames), told, k)
<1> DEFINE first == Head(frames)
           rest == Tail(frames)
           now == Applied(p, first)
<1>1. /\ Len(frames) \in Nat /\ Len(frames) >= 1
      /\ rest \in Seq(FrameSet) /\ Len(rest) = Len(frames) - 1
      /\ \A i \in 1 .. Len(rest) : rest[i] = frames[i + 1]
      /\ first = frames[1] /\ first \in FrameSet
  BY EmptySeq, LenProperties, HeadTailProperties, ElementOfSeq
<1>2. /\ k # first.key => now.shown[k] = p.shown[k] /\ (k \in now.missed <=> k \in p.missed)
      /\ first.key \in now.missed \/ now.shown[first.key] = first.value
  BY <1>1, AppliedTyped
<1> HIDE DEF first, rest, now
<1>3. CASE told[k] = Unseen
  BY <1>3 DEF ToldOk, now, rest, first
<1>4. CASE Carries(frames, k, told[k])
  <2>1. PICK i \in 1 .. Len(frames) :
          /\ Updates(frames[i], k) /\ frames[i].value = told[k]
          /\ \A j \in 1 .. Len(frames) : j > i => ~Updates(frames[j], k)
    BY <1>4 DEF Carries
  <2>2. \A j \in 1 .. Len(rest) : j + 1 \in 1 .. Len(frames)
    BY <1>1
  <2>3. CASE i = 1
    <3>1. Silent(rest, k)
      <4>1. \A j \in 1 .. Len(rest) : j + 1 > i
        BY <2>3
      <4> QED BY <1>1, <2>1, <2>2, <4>1 DEF Silent
    <3>2. first.key = k /\ first.value = told[k]
      BY <1>1, <2>1, <2>3 DEF Updates
    <3> QED BY <1>2, <3>1, <3>2 DEF ToldOk, now, rest, first
  <2>4. CASE i # 1
    <3>1. i - 1 \in 1 .. Len(rest) /\ rest[i - 1] = frames[i]
      <4>1. i - 1 \in 1 .. Len(rest) /\ (i - 1) + 1 = i
        BY <1>1, <2>4
      <4> QED BY <1>1, <4>1
    <3>2. \A j \in 1 .. Len(rest) : j > i - 1 => ~Updates(rest[j], k)
      <4>1. \A j \in 1 .. Len(rest) : j > i - 1 => j + 1 > i
        OBVIOUS
      <4> QED BY <1>1, <2>1, <2>2, <4>1
    <3>3. Carries(rest, k, told[k])
      BY <2>1, <3>1, <3>2 DEF Carries
    <3> QED BY <3>3 DEF ToldOk, now, rest, first
  <2> QED BY <2>3, <2>4
<1>5. CASE Silent(frames, k) /\ (k \in p.missed \/ p.shown[k] = told[k])
  <2>1. k # first.key
    <3>1. 1 \in 1 .. Len(frames) /\ first.name = "update"
      BY <1>1 DEF first
    <3> QED BY <1>1, <1>5, <3>1 DEF Silent, Updates
  <2>2. Silent(rest, k)
    <3>1. \A j \in 1 .. Len(rest) : j + 1 \in 1 .. Len(frames)
      BY <1>1
    <3> QED BY <1>1, <1>5, <3>1 DEF Silent
  <2> QED BY <1>2, <1>5, <2>1, <2>2 DEF ToldOk, now, rest, first
<1> QED BY <1>3, <1>4, <1>5 DEF ToldOk

\* Nothing was sent yet.
LEMMA ToldNothing ==
  ASSUME NEW p, NEW frames, NEW k \in Key PROVE ToldOk(p, frames, Nothing, k)
BY DEF ToldOk, Nothing

-----------------------------------------------------------------------------
(* The invariant, step by step.                                            *)

PageInv == Typed /\ Told

\* The stream the page holds changes; what is sent, if anything, is no update.
LEMMA QuietStep ==
  ASSUME PageInv, conn = "open", NEW new \in Stream, SeenOk(new, sent),
         streams' = [streams EXCEPT ![cur] = new], Keep,
         clock' = clock, sent' = sent, faults' \in 0 .. MaxFaults,
         \/ wire' = wire
         \/ \E frame \in FrameSet : frame.name # "update" /\ wire' = Append(wire, frame)
  PROVE  PageInv'
<1>1. Typed /\ Told
  BY DEF PageInv
<1>2. cur \in 1 .. Len(streams) /\ streams \in Seq(Stream) /\ streams # <<>>
  BY <1>1, MineTyped DEF Typed
<1>3. /\ streams' \in Seq(Stream) /\ Len(streams') = Len(streams) /\ streams'[cur] = new
      /\ streams' # <<>>
  BY <1>2, OneStream
<1>4. cur' = cur /\ Mine' = new
  BY <1>3 DEF cur, Mine
<1>5. wire' \in Seq(FrameSet) /\ \A k \in Key : ToldOk(page, wire', sent, k)
  <2>1. wire \in Seq(FrameSet) /\ \A k \in Key : ToldOk(page, wire, sent, k)
    BY <1>1 DEF Typed, Told
  <2>2. CASE wire' = wire
    BY <2>1, <2>2
  <2>3. ASSUME NEW frame \in FrameSet, frame.name # "update", wire' = Append(wire, frame)
        PROVE  wire' \in Seq(FrameSet) /\ \A k \in Key : ToldOk(page, wire', sent, k)
    <3>1. \A k \in Key : ~Updates(frame, k)
      BY <2>3 DEF Updates
    <3>2. \A k \in Key : ToldOk(page, Append(wire, frame), sent, k)
      BY <2>1, <3>1, ToldMore
    <3> QED BY <2>1, <2>3, <3>2, AppendProperties
  <2> QED BY <2>2, <2>3
<1>6. UNCHANGED <<transport, pushes, conn, failures, page, db, answer>>
  BY DEF Keep
<1>7. Typed'
  BY <1>1, <1>3, <1>5, <1>6 DEF Typed, Basics, AnswerOk
<1>8. Told'
  BY <1>4, <1>5, <1>6 DEF Told
<1> QED BY <1>7, <1>8 DEF PageInv

\* The stream the page holds changes, and sends one update.
LEMMA EmitStep ==
  ASSUME PageInv, conn = "open", NEW new \in Stream, NEW key \in Key, NEW v \in 0 .. MaxWrites,
         SeenOk(new, [sent EXCEPT ![key] = v]), Emit(key, v),
         streams' = [streams EXCEPT ![cur] = new], Keep, faults' = faults
  PROVE  PageInv'
<1>1. Typed /\ Told
  BY DEF PageInv
<1>2. cur \in 1 .. Len(streams) /\ streams \in Seq(Stream) /\ streams # <<>>
  BY <1>1, MineTyped DEF Typed
<1>3. /\ streams' \in Seq(Stream) /\ Len(streams') = Len(streams) /\ streams'[cur] = new
      /\ streams' # <<>>
  BY <1>2, OneStream
<1>4. cur' = cur /\ Mine' = new
  BY <1>3 DEF cur, Mine
<1>5. PICK frame \in FrameSet :
        /\ frame.name = "update" /\ frame.key = key /\ frame.value = v
        /\ wire' = Append(wire, frame) /\ wire' \in Seq(FrameSet)
        /\ sent' = [sent EXCEPT ![key] = v] /\ sent' \in [Key -> Unseen .. MaxWrites]
        /\ clock' \in Skew .. MaxClock
  BY <1>1, EmitTyped
<1>6. ASSUME NEW k \in Key PROVE ToldOk(page, wire', sent', k)
  <2>1. wire \in Seq(FrameSet) /\ ToldOk(page, wire, sent, k) /\ sent \in [Key -> Unseen .. MaxWrites]
    BY <1>1 DEF Typed, Told, Basics
  <2>2. IF Updates(frame, k) THEN sent'[k] = frame.value ELSE sent'[k] = sent[k]
    BY <1>5, <2>1 DEF Updates
  <2> HIDE DEF ToldOk
  <2>3. ToldOk(page, Append(wire, frame), sent', k)
    BY <2>1, <2>2, ToldMore
  <2> QED BY <1>5, <2>3
<1>7. UNCHANGED <<transport, pushes, conn, failures, page, db, answer>>
  BY DEF Keep
<1>8. Typed'
  BY <1>1, <1>3, <1>5, <1>7 DEF Typed, Basics, AnswerOk
<1>9. Told'
  BY <1>4, <1>5, <1>6, <1>7 DEF Told
<1> QED BY <1>8, <1>9 DEF PageInv

\* A stream the page does not hold changes.
LEMMA AsideStep ==
  ASSUME PageInv, NEW s \in DOMAIN streams, ~(s = cur /\ conn = "open"), NEW new \in Stream,
         streams' = [streams EXCEPT ![s] = new], Keep, Quietly, faults' = faults
  PROVE  PageInv'
<1>1. Typed /\ Told
  BY DEF PageInv
<1>2. s \in 1 .. Len(streams) /\ streams \in Seq(Stream)
  BY <1>1, LenProperties DEF Typed
<1>3. /\ streams' \in Seq(Stream) /\ Len(streams') = Len(streams)
      /\ \A j \in 1 .. Len(streams) : j # s => streams'[j] = streams[j]
      /\ streams # <<>> => streams' # <<>>
  BY <1>2, OneStream
<1>4. conn = "open" => Mine' = Mine
  <2>1. conn = "open" => cur \in 1 .. Len(streams) /\ cur # s
    BY <1>1, MineTyped
  <2> QED BY <1>3, <2>1 DEF cur, Mine
<1>5. UNCHANGED <<transport, pushes, conn, failures, page, db, answer, clock, wire, sent, faults>>
  BY DEF Keep, Quietly
<1>6. Typed'
  BY <1>1, <1>3, <1>5 DEF Typed, Basics, AnswerOk
<1>7. Told'
  BY <1>1, <1>4, <1>5 DEF Told
<1> QED BY <1>6, <1>7 DEF PageInv

LEMMA Ranges ==
  /\ \A v \in 0 .. MaxWrites : v \in Unseen .. MaxWrites
  /\ \A v \in 1 .. MaxWrites : v \in 0 .. MaxWrites /\ v \in Unseen .. MaxWrites
<1>1. MaxWrites \in Nat /\ Unseen = -1
  BY Bounds
<1> QED BY <1>1

LEMMA MoreFaults ==
  ASSUME faults \in 0 .. MaxFaults, faults < MaxFaults, faults' = faults + 1
  PROVE  faults' \in 0 .. MaxFaults
<1>1. MaxFaults \in Nat
  BY Bounds
<1> QED BY <1>1

LEMMA Ending ==
  ASSUME NEW name \in {"error", "eof"}
  PROVE  Frame(name, Watched[1], 0, 0) \in FrameSet /\ Frame(name, Watched[1], 0, 0).name # "update"
<1>1. Watched[1] \in Key
  BY Bounds
<1> QED BY <1>1, BlankValues DEF Frame, FrameSet

\* The stream that serves the page.
LEMMA Held ==
  ASSUME PageInv, Serving
  PROVE  /\ conn = "open" /\ Mine \in Stream /\ SeenOk(Mine, sent)
         /\ \A k \in Key : Mine.phase # "open" => Mine.seen[k] = Unseen
         /\ db \in [Key -> 0 .. MaxWrites] /\ sent \in [Key -> Unseen .. MaxWrites]
         /\ faults \in 0 .. MaxFaults
<1>1. conn = "open"
  BY DEF Serving
<1> QED BY <1>1, MineTyped DEF PageInv, Typed, Basics, Told, SeenOk

LEMMA OpenKeyInv == ASSUME PageInv, OpenKey PROVE PageInv'
<1> DEFINE k == Watched[Mine.next]
           new == IF Mine.next = Len(Watched) THEN [Mine EXCEPT !.phase = "subscribing"]
                                              ELSE [Mine EXCEPT !.next = Mine.next + 1]
<1>1. Serving /\ Mine.phase = "opening" /\ Emit(k, db[k]) /\ streams' = [streams EXCEPT ![cur] = new]
      /\ faults' = faults /\ Keep
  BY DEF OpenKey
<1>2. conn = "open" /\ Mine \in Stream /\ \A key \in Key : Mine.seen[key] = Unseen
  BY <1>1, Held
<1>3. k \in Key /\ db[k] \in 0 .. MaxWrites
  <2>1. Mine.next \in 1 .. Len(Watched)
    BY <1>2 DEF Stream
  <2>2. k \in Key
    BY <2>1, Bounds
  <2> QED BY <1>1, <2>2, Held
<1>4. new \in Stream /\ new.seen = Mine.seen
  <2>1. Mine.next \in 1 .. Len(Watched) /\ Len(Watched) \in Nat
    BY <1>2, Bounds DEF Stream
  <2>2. Mine.next # Len(Watched) => Mine.next + 1 \in 1 .. Len(Watched)
    BY <2>1
  <2> QED BY <1>2, <2>2 DEF Stream
<1>5. SeenOk(new, [sent EXCEPT ![k] = db[k]])
  BY <1>2, <1>4 DEF SeenOk
<1> HIDE DEF k, new
<1> QED BY <1>1, <1>2, <1>3, <1>4, <1>5, EmitStep

LEMMA OpenFailsInv == ASSUME PageInv, OpenFails PROVE PageInv'
<1> DEFINE new == [Mine EXCEPT !.phase = "subscribing"]
<1>1. /\ Serving /\ Mine.phase = "opening" /\ faults < MaxFaults /\ faults' = faults + 1
      /\ wire' = Append(wire, Frame("error", Watched[1], 0, 0))
      /\ streams' = [streams EXCEPT ![cur] = new] /\ clock' = clock /\ sent' = sent /\ Keep
  BY DEF OpenFails, Mine
<1>2. conn = "open" /\ Mine \in Stream /\ \A k \in Key : Mine.seen[k] = Unseen
  BY <1>1, Held
<1>3. new \in Stream /\ SeenOk(new, sent)
  BY <1>2 DEF Stream, SeenOk
<1>4. faults' \in 0 .. MaxFaults
  BY <1>1, Held, MoreFaults
<1> HIDE DEF new
<1> QED BY <1>1, <1>2, <1>3, <1>4, Ending, QuietStep

LEMMA SubscribeInv == ASSUME PageInv, Subscribe PROVE PageInv'
<1> DEFINE started == [Mine EXCEPT !.phase = "open", !.stop = TRUE, !.heart = TRUE, !.next = 1]
           new == IF pushes
                    THEN [started EXCEPT !.seen = db, !.gap = {k \in Key : sent[k] # db[k]}]
                    ELSE [started EXCEPT !.tick = 1]
<1>1. /\ Serving /\ Mine.phase = "subscribing" /\ streams' = [streams EXCEPT ![cur] = new]
      /\ faults' = faults /\ Keep /\ Quietly
  BY DEF Subscribe
<1>2. /\ conn = "open" /\ Mine \in Stream /\ \A k \in Key : Mine.seen[k] = Unseen
      /\ db \in [Key -> 0 .. MaxWrites] /\ sent \in [Key -> Unseen .. MaxWrites]
      /\ faults \in 0 .. MaxFaults
  BY <1>1, Held
<1>3. db \in [Key -> Unseen .. MaxWrites] /\ 1 \in 1 .. Len(Watched) /\ 1 \in 0 .. Len(Watched)
  BY <1>2, Bounds
<1>4. started \in Stream /\ started.phase = "open" /\ started.seen = Mine.seen
  BY <1>2, <1>3 DEF Stream
<1>5. new \in Stream /\ SeenOk(new, sent)
  <2>1. CASE pushes
    <3>1. new = [started EXCEPT !.seen = db, !.gap = {k \in Key : sent[k] # db[k]}]
      BY <2>1
    <3> HIDE DEF new, started
    <3>2. new \in Stream /\ new.phase = "open" /\ new.seen = db /\ new.gap = {k \in Key : sent[k] # db[k]}
      BY <1>3, <1>4, <3>1 DEF Stream
    <3> QED BY <3>2 DEF SeenOk
  <2>2. CASE ~pushes
    <3>1. new = [started EXCEPT !.tick = 1]
      BY <2>2
    <3> HIDE DEF new, started
    <3>2. new \in Stream /\ new.seen = Mine.seen
      BY <1>3, <1>4, <3>1 DEF Stream
    <3> QED BY <1>2, <3>2 DEF SeenOk
  <2> QED BY <2>1, <2>2
<1>6. clock' = clock /\ sent' = sent /\ wire' = wire
  BY <1>1 DEF Quietly
<1> HIDE DEF new
<1> QED BY <1>1, <1>2, <1>5, <1>6, QuietStep

LEMMA SubscribeFailsInv == ASSUME PageInv, SubscribeFails PROVE PageInv'
<1> DEFINE new == [Mine EXCEPT !.phase = "open", !.open = FALSE]
<1>1. /\ Serving /\ faults < MaxFaults /\ faults' = faults + 1 /\ Mine.phase = "subscribing"
      /\ wire' = Append(wire, Frame("eof", Watched[1], 0, 0))
      /\ streams' = [streams EXCEPT ![cur] = new] /\ clock' = clock /\ sent' = sent /\ Keep
  BY DEF SubscribeFails, Mine
<1>2. conn = "open" /\ Mine \in Stream /\ \A k \in Key : Mine.seen[k] = Unseen
  BY <1>1, Held
<1>3. new \in Stream /\ SeenOk(new, sent)
  BY <1>2 DEF Stream, SeenOk
<1>4. faults' \in 0 .. MaxFaults
  BY <1>1, Held, MoreFaults
<1> HIDE DEF new
<1> QED BY <1>1, <1>2, <1>3, <1>4, Ending, QuietStep

LEMMA PumpInv == ASSUME PageInv, Pump PROVE PageInv'
<1> DEFINE change == Head(Mine.queue)
           new == [Mine EXCEPT !.queue = Tail(Mine.queue), !.seen[change.key] = change.value,
                               !.gap = Mine.gap \ {change.key}]
<1>1. /\ Serving /\ Mine.phase = "open" /\ Mine.queue # <<>> /\ Emit(change.key, change.value)
      /\ streams' = [streams EXCEPT ![cur] = new] /\ faults' = faults /\ Keep
  BY DEF Pump, Following
<1>2. /\ conn = "open" /\ Mine \in Stream /\ SeenOk(Mine, sent)
      /\ sent \in [Key -> Unseen .. MaxWrites]
  BY <1>1, Held
<1>3. /\ change.key \in Key /\ change.value \in 1 .. MaxWrites
      /\ Tail(Mine.queue) \in Seq([key : Key, value : 1 .. MaxWrites])
  <2>1. Mine.queue \in Seq([key : Key, value : 1 .. MaxWrites])
    BY <1>2 DEF Stream
  <2>2. change \in [key : Key, value : 1 .. MaxWrites]
        /\ Tail(Mine.queue) \in Seq([key : Key, value : 1 .. MaxWrites])
    BY <1>1, <2>1, HeadTailProperties
  <2> QED BY <2>2
<1>4. change.value \in 0 .. MaxWrites /\ change.value \in Unseen .. MaxWrites
  BY <1>3, Ranges
<1> HIDE DEF change
<1>5. /\ new \in Stream /\ new.phase = "open" /\ new.gap = Mine.gap \ {change.key}
      /\ new.seen = [Mine.seen EXCEPT ![change.key] = change.value]
  <2>1. Mine.seen \in [Key -> Unseen .. MaxWrites] /\ Mine.gap \in SUBSET Key
    BY <1>2 DEF Stream
  <2>2. [Mine.seen EXCEPT ![change.key] = change.value] \in [Key -> Unseen .. MaxWrites]
    BY <1>3, <1>4, <2>1
  <2>3. new = [Mine EXCEPT !.queue = Tail(Mine.queue), !.gap = Mine.gap \ {change.key},
                           !.seen = [Mine.seen EXCEPT ![change.key] = change.value]]
    BY <1>2 DEF Stream
  <2> QED BY <1>1, <1>2, <1>3, <2>1, <2>2, <2>3 DEF Stream
<1>6. SeenOk(new, [sent EXCEPT ![change.key] = change.value])
  BY <1>2, <1>3, <1>5 DEF SeenOk, Stream
<1> HIDE DEF new
<1> QED BY <1>1, <1>2, <1>3, <1>4, <1>5, <1>6, EmitStep

\* The tick goes on to another place, or ends.
LEMMA TickMoves ==
  ASSUME PageInv, Serving, NEW tick \in 0 .. Len(Watched), Keep, Quietly, faults' \in 0 .. MaxFaults,
         streams' = [streams EXCEPT ![cur] = [Mine EXCEPT !.tick = tick]]
  PROVE  PageInv'
<1> DEFINE new == [Mine EXCEPT !.tick = tick]
<1>1. conn = "open" /\ Mine \in Stream /\ SeenOk(Mine, sent)
  BY Held
<1>2. new \in Stream /\ SeenOk(new, sent)
  BY <1>1 DEF Stream, SeenOk
<1>3. clock' = clock /\ sent' = sent /\ wire' = wire
  BY DEF Quietly
<1> HIDE DEF new
<1>4. streams' = [streams EXCEPT ![cur] = new]
  BY DEF new
<1> QED BY <1>1, <1>2, <1>3, <1>4, QuietStep

LEMMA TickInv == ASSUME PageInv, Tick PROVE PageInv'
<1>1. Serving /\ faults' = faults /\ Keep /\ Quietly
      /\ streams' = [streams EXCEPT ![cur] = [Mine EXCEPT !.tick = 1]]
  BY DEF Tick, Following, Mine
<1>2. 1 \in 0 .. Len(Watched) /\ faults' \in 0 .. MaxFaults
  BY <1>1, Held, Bounds
<1> QED BY <1>1, <1>2, TickMoves

LEMMA TickFailsInv == ASSUME PageInv, TickFails PROVE PageInv'
<1>1. Serving /\ faults < MaxFaults /\ faults' = faults + 1 /\ Keep /\ Quietly
      /\ streams' = [streams EXCEPT ![cur] = [Mine EXCEPT !.tick = 0]]
  BY DEF TickFails, Following, Mine
<1>2. 0 \in 0 .. Len(Watched) /\ faults' \in 0 .. MaxFaults
  BY <1>1, Held, MoreFaults, Bounds
<1> QED BY <1>1, <1>2, TickMoves

LEMMA TickKeyInv == ASSUME PageInv, TickKey PROVE PageInv'
<1> DEFINE k == Watched[Mine.tick]
           after == [Mine EXCEPT !.tick = NextTick]
           v == db[k]
           found == Recorded(after, k, v)
           new == [after EXCEPT !.seen[k] = v, !.gap = @ \ {k}]
<1>1. /\ Serving /\ Mine.phase = "open" /\ Mine.tick \in DOMAIN Watched /\ faults' = faults /\ Keep
      /\ \/ streams' = [streams EXCEPT ![cur] = after] /\ Quietly
         \/ streams' = [streams EXCEPT ![cur] = found] /\ Quietly
         \/ streams' = [streams EXCEPT ![cur] = new] /\ Emit(k, v)
  BY DEF TickKey, Following
<1>2. /\ conn = "open" /\ Mine \in Stream /\ SeenOk(Mine, sent) /\ faults \in 0 .. MaxFaults
      /\ db \in [Key -> 0 .. MaxWrites] /\ sent \in [Key -> Unseen .. MaxWrites]
  BY <1>1, Held
<1>3. Mine.tick \in 1 .. Len(Watched) /\ Len(Watched) \in Nat /\ k \in Key
  BY <1>1, Bounds, LenProperties
<1>4. NextTick \in 0 .. Len(Watched)
  BY <1>3 DEF NextTick
<1>5. v \in 0 .. MaxWrites /\ v \in Unseen .. MaxWrites
  BY <1>2, <1>3, Ranges
<1>6. /\ after \in Stream /\ after.phase = "open" /\ after.seen = Mine.seen /\ after.gap = Mine.gap
      /\ Mine.seen \in [Key -> Unseen .. MaxWrites] /\ Mine.gap \in SUBSET Key
      /\ SeenOk(after, sent)
  BY <1>1, <1>2, <1>4 DEF Stream, SeenOk
<1> DEFINE seen == [Mine.seen EXCEPT ![k] = v]
<1>7. seen \in [Key -> Unseen .. MaxWrites]
  BY <1>3, <1>5, <1>6
<1> HIDE DEF after, v, k
<1> DEFINE gap == IF sent[k] = v THEN Mine.gap \ {k} ELSE Mine.gap \cup {k}
<1>8. found = [after EXCEPT !.seen = seen, !.gap = gap] /\ gap \in SUBSET Key
  BY <1>3, <1>6 DEF Recorded, Stream
<1>9. new = [after EXCEPT !.seen = seen, !.gap = Mine.gap \ {k}]
  BY <1>6 DEF Stream
<1>10. found \in Stream /\ SeenOk(found, sent)
  <2> HIDE DEF found, seen, gap
  <2>1. found \in Stream /\ found.phase = "open" /\ found.seen = seen /\ found.gap = gap
    BY <1>6, <1>7, <1>8 DEF Stream
  <2>2. gap = IF sent[k] = v THEN Mine.gap \ {k} ELSE Mine.gap \cup {k}
    BY DEF gap
  <2>3. seen = [Mine.seen EXCEPT ![k] = v]
    BY DEF seen
  <2> HIDE DEF found
  <2> QED BY <1>2, <1>3, <1>6, <2>1, <2>2, <2>3 DEF SeenOk
<1>11. new \in Stream /\ SeenOk(new, [sent EXCEPT ![k] = v])
  <2>1. /\ new \in Stream /\ new.phase = "open" /\ new.seen = seen /\ new.gap = Mine.gap \ {k}
    BY <1>3, <1>6, <1>7, <1>9 DEF Stream
  <2> HIDE DEF new
  <2> QED BY <1>2, <1>3, <1>6, <2>1 DEF SeenOk
<1>12. Quietly => clock' = clock /\ sent' = sent /\ wire' = wire
  BY DEF Quietly
<1>13. faults' \in 0 .. MaxFaults
  BY <1>1, <1>2
<1> HIDE DEF found, new
<1>14. CASE streams' = [streams EXCEPT ![cur] = after] /\ Quietly
  BY <1>1, <1>2, <1>6, <1>12, <1>13, <1>14, QuietStep
<1>15. CASE streams' = [streams EXCEPT ![cur] = found] /\ Quietly
  BY <1>1, <1>2, <1>10, <1>12, <1>13, <1>15, QuietStep
<1>16. CASE streams' = [streams EXCEPT ![cur] = new] /\ Emit(k, v)
  BY <1>1, <1>2, <1>3, <1>5, <1>11, <1>16, EmitStep
<1> QED BY <1>1, <1>14, <1>15, <1>16

LEMMA StreamOf ==
  ASSUME PageInv, NEW s \in DOMAIN streams
  PROVE  streams[s] \in Stream /\ (s = cur => streams[s] = Mine)
<1>1. s \in 1 .. Len(streams) /\ streams \in Seq(Stream)
  BY LenProperties DEF PageInv, Typed
<1> QED BY <1>1, ElementOfSeq DEF Mine

LEMMA StartUnwatchedInv == ASSUME PageInv, NEW s \in DOMAIN streams, StartUnwatched(s) PROVE PageInv'
<1> DEFINE old == streams[s]
           new == [old EXCEPT !.phase = "open", !.stop = TRUE, !.heart = TRUE]
<1>1. /\ ~(s = cur /\ conn = "open") /\ streams' = [streams EXCEPT ![s] = new]
      /\ faults' = faults /\ Keep /\ Quietly
  BY DEF StartUnwatched
<1>2. new \in Stream
  <2>1. old \in Stream
    BY StreamOf
  <2> HIDE DEF old
  <2> QED BY <2>1 DEF Stream
<1> HIDE DEF new
<1> QED BY <1>1, <1>2, AsideStep

LEMMA CancelInv == ASSUME PageInv, NEW s \in DOMAIN streams, Cancel(s) PROVE PageInv'
<1> DEFINE old == streams[s]
           new == [old EXCEPT !.open = FALSE, !.heart = FALSE, !.stop = FALSE,
                              !.early = old.phase # "open"]
<1>1. /\ ~(s = cur /\ conn = "open") /\ streams' = [streams EXCEPT ![s] = new]
      /\ faults' = faults /\ Keep /\ Quietly
  BY DEF Cancel
<1>2. new \in Stream
  BY StreamOf DEF Stream
<1> HIDE DEF new
<1> QED BY <1>1, <1>2, AsideStep

LEMMA ExpireInv == ASSUME PageInv, NEW s \in DOMAIN streams, Expire(s) PROVE PageInv'
<1> DEFINE old == streams[s]
           new == [old EXCEPT !.open = FALSE, !.heart = FALSE, !.stop = FALSE]
<1>1. /\ streams' = [streams EXCEPT ![s] = new]
      /\ wire' = IF s = cur /\ conn = "open"
                   THEN Append(wire, Frame("eof", Watched[1], 0, 0)) ELSE wire
      /\ clock' = clock /\ sent' = sent /\ faults' = faults /\ Keep
  BY DEF Expire
<1>2. old \in Stream /\ (s = cur => old = Mine)
  BY StreamOf
<1>3. new \in Stream /\ (SeenOk(old, sent) => SeenOk(new, sent))
  BY <1>2 DEF Stream, SeenOk
<1>4. conn = "open" => SeenOk(Mine, sent)
  BY DEF PageInv, Told
<1>5. faults' \in 0 .. MaxFaults
  BY <1>1 DEF PageInv, Typed, Basics
<1> HIDE DEF new, old
<1>6. CASE s = cur /\ conn = "open"
  BY <1>1, <1>2, <1>3, <1>4, <1>5, <1>6, Ending, QuietStep
<1>7. CASE ~(s = cur /\ conn = "open")
  <2>1. Quietly
    BY <1>1, <1>7 DEF Quietly
  <2> QED BY <1>1, <1>3, <1>7, <2>1, AsideStep
<1> QED BY <1>6, <1>7

-----------------------------------------------------------------------------
(* The events of an answer.                                                *)

LEMMA TakenUnfolds ==
  ASSUME NEW p \in PageSet, NEW events \in Seq(FrameSet)
  PROVE  \E run : /\ run[0] = p
                  /\ \A n \in 1 .. Len(events) : run[n] = Applied(run[n - 1], events[n])
                  /\ \A n \in 0 .. Len(events) : run[n] \in PageSet
                  /\ Taken(p, events) = run[Len(events)]
<1> DEFINE L == Len(events)
           step == [n \in 1 .. L |-> [q \in PageSet |-> Applied(q, events[n])]]
           Def(f) == [n \in 0 .. L |-> IF n = 0 THEN p ELSE Applied(f[n - 1], events[n])]
           upTo == CHOOSE f : f = Def(f)
<1>1. L \in Nat /\ \A n \in 1 .. L : events[n] \in FrameSet
  BY LenProperties, ElementOfSeq
<1>2. step \in [1 .. L -> [PageSet -> PageSet]]
  <2>1. \A n \in 1 .. L : \A q \in PageSet : Applied(q, events[n]) \in PageSet
    BY <1>1, AppliedTyped
  <2> QED BY <2>1
<1>3. PICK run \in [0 .. L -> PageSet] :
        run[0] = p /\ \A n \in 1 .. L : run[n] = step[n][run[n - 1]]
  <2>1. \E run : Goes(L, PageSet, p, step, run)
    <3> HIDE DEF L, step
    <3> QED BY <1>1, <1>2, RunExists
  <2> QED BY <2>1 DEF Goes
<1>4. \A n \in 1 .. L : run[n] = Applied(run[n - 1], events[n])
  <2>1. \A n \in 1 .. L : run[n - 1] \in PageSet
    BY <1>1
  <2> QED BY <1>3, <2>1
<1>5. run = Def(run)
  <2>1. \A n \in 0 .. L : n # 0 => n \in 1 .. L
    BY <1>1
  <2>2. \A n \in 0 .. L : run[n] = Def(run)[n]
    BY <1>3, <1>4, <2>1
  <2> QED BY <2>2
<1>6. upTo = Def(upTo)
  <2> HIDE DEF Def
  <2> QED BY <1>5
<1>7. upTo[0] = p /\ \A n \in 1 .. L : upTo[n] = Applied(upTo[n - 1], events[n])
  <2> HIDE DEF upTo
  <2>1. \A n \in 0 .. L : upTo[n] = Def(upTo)[n]
    BY <1>6
  <2>2. 0 \in 0 .. L /\ \A n \in 1 .. L : n \in 0 .. L /\ n # 0
    BY <1>1
  <2> QED BY <2>1, <2>2
<1>8. Taken(p, events) = upTo[L]
  BY DEF Taken
<1> HIDE DEF upTo
<1>9. \A n \in 0 .. L : upTo[n] \in PageSet
  <2> DEFINE G == {n \in 0 .. L : upTo[n] \in PageSet}
  <2>1. 0 \in G
    BY <1>1, <1>7
  <2>2. ASSUME NEW n \in 0 .. L - 1, n \in G PROVE n + 1 \in G
    <3>1. n + 1 \in 1 .. L /\ n + 1 \in 0 .. L /\ (n + 1) - 1 = n
      BY <1>1
    <3>2. upTo[n + 1] = Applied(upTo[n], events[n + 1])
      BY <1>7, <3>1
    <3>3. upTo[n] \in PageSet
      BY <2>2
    <3>4. upTo[n + 1] \in PageSet
      BY <1>1, <3>1, <3>2, <3>3, AppliedTyped
    <3> QED BY <3>1, <3>4
  <2>3. 0 .. L \subseteq G
    <3> HIDE DEF G
    <3> QED BY <1>1, <2>1, <2>2, UpTo
  <2> QED BY <2>3
<1> QED BY <1>7, <1>8, <1>9

\* Of a whole answer, each key is shown as it says, unless it was skipped.
LEMMA TakenShows ==
  ASSUME NEW p \in PageSet, NEW events \in Seq(FrameSet),
         \A i, j \in 1 .. Len(events) : events[i].key = events[j].key => i = j
  PROVE  /\ Taken(p, events) \in PageSet
         /\ \A i \in 1 .. Len(events) :
              \/ events[i].key \in Taken(p, events).missed
              \/ Taken(p, events).shown[events[i].key] = events[i].value
<1> DEFINE L == Len(events)
<1>1. PICK run :
        /\ run[0] = p
        /\ \A n \in 1 .. L : run[n] = Applied(run[n - 1], events[n])
        /\ \A n \in 0 .. L : run[n] \in PageSet
        /\ Taken(p, events) = run[L]
  BY TakenUnfolds
<1>2. L \in Nat /\ \A i \in 1 .. L : events[i] \in FrameSet /\ events[i].key \in Key
  <2>1. L \in Nat /\ \A i \in 1 .. L : events[i] \in FrameSet
    BY LenProperties, ElementOfSeq
  <2>2. \A frame \in FrameSet : frame.key \in Key
    BY DEF FrameSet
  <2> QED BY <2>1, <2>2
<1> DEFINE Says(q, i) == events[i].key \in q.missed \/ q.shown[events[i].key] = events[i].value
           G == {n \in 0 .. L : \A i \in 1 .. n : Says(run[n], i)}
<1>3. 0 \in G
  BY <1>2
<1>4. ASSUME NEW n \in 0 .. L - 1, n \in G PROVE n + 1 \in G
  <2>1. n + 1 \in 1 .. L /\ n + 1 \in 0 .. L /\ (n + 1) - 1 = n /\ n \in 0 .. L
    BY <1>2
  <2> DEFINE frame == events[n + 1]
  <2>2. run[n + 1] = Applied(run[n], frame) /\ run[n] \in PageSet /\ frame \in FrameSet
    BY <1>1, <1>2, <2>1
  <2>3. /\ \A k \in Key : k # frame.key =>
             /\ run[n + 1].shown[k] = run[n].shown[k]
             /\ k \in run[n + 1].missed <=> k \in run[n].missed
        /\ frame.key \in run[n + 1].missed \/ run[n + 1].shown[frame.key] = frame.value
    <3> HIDE DEF frame
    <3>1. /\ \A k \in Key : k # frame.key =>
               /\ Applied(run[n], frame).shown[k] = run[n].shown[k]
               /\ k \in Applied(run[n], frame).missed <=> k \in run[n].missed
          /\ \/ frame.key \in Applied(run[n], frame).missed
             \/ Applied(run[n], frame).shown[frame.key] = frame.value
      BY <2>2, AppliedTyped
    <3> QED BY <2>2, <3>1
  <2>4. ASSUME NEW i \in 1 .. n + 1 PROVE Says(run[n + 1], i)
    <3>1. CASE i = n + 1
      BY <2>3, <3>1
    <3>2. CASE i # n + 1
      <4>1. i \in 1 .. n /\ i \in 1 .. L
        BY <1>2, <3>2
      <4>2. Says(run[n], i)
        BY <1>4, <4>1
      <4>3. events[i].key # frame.key /\ events[i].key \in Key
        BY <1>2, <2>1, <3>2, <4>1
      <4> QED BY <2>3, <4>2, <4>3
    <3> QED BY <3>1, <3>2
  <2> QED BY <2>1, <2>4
<1>5. L \in G
  <2>1. 0 .. L \subseteq G
    <3> HIDE DEF G
    <3> QED BY <1>2, <1>3, <1>4, UpTo
  <2> QED BY <1>2, <2>1
<1>6. L \in 0 .. L
  BY <1>2
<1> QED BY <1>1, <1>5, <1>6

-----------------------------------------------------------------------------
(* The page's own steps, and the store's.                                  *)

LEMMA NoAnswerOk == ASSUME answer = NoAnswer PROVE AnswerOk
<1>1. answer.seq = 0 /\ answer.events = <<>> /\ answer = [seq |-> 0, events |-> <<>>]
  BY DEF NoAnswer
<1>2. Len(<<>>) = 0 /\ <<>> \in Seq(FrameSet) /\ Len(Watched) >= 1 /\ 0 \in 0 .. MaxClock
  BY Bounds, BlankValues, EmptySeq
<1> QED BY <1>1, <1>2, Bounds DEF AnswerOk

LEMMA RetryInv == ASSUME PageInv, conn \in {"connecting", "open"}, Retry PROVE PageInv'
<1>1. Typed /\ Told
  BY DEF PageInv
<1>2. /\ failures' = failures + 1 /\ streams' = Left
      /\ wire' = <<>> /\ answer' = NoAnswer /\ sent' = Nothing
      /\ UNCHANGED <<transport, pushes, db, clock, faults>>
      /\ \/ failures + 1 >= RETRY_LIMIT /\ conn' = "stopped"
            /\ page' = [page EXCEPT !.shown = [k \in Key |-> Failed]]
         \/ failures + 1 < RETRY_LIMIT /\ conn' = "waiting" /\ page' = page
  BY DEF Retry
<1>3. failures' \in 0 .. RETRY_LIMIT /\ (conn' # "stopped" => failures' < RETRY_LIMIT)
  <2>1. failures \in 0 .. RETRY_LIMIT /\ failures < RETRY_LIMIT /\ RETRY_LIMIT \in Nat
    BY <1>1, Bounds DEF Typed, Basics
  <2> QED BY <1>2, <2>1
<1>4. page' \in PageSet
  <2>1. [k \in Key |-> Failed] \in [Key -> Failed .. MaxWrites] /\ page \in PageSet
    BY <1>1, Bounds DEF Typed
  <2> QED BY <1>2, <2>1 DEF PageSet
<1>5. streams' \in Seq(Stream)
  BY <1>1, <1>2, LeftTyped
<1>6. AnswerOk'
  <2>1. answer' = NoAnswer'
    BY <1>2 DEF NoAnswer
  <2>2. answer'.seq = 0 /\ answer'.events = <<>> /\ answer' = [seq |-> 0, events |-> <<>>]
    BY <1>2 DEF NoAnswer
  <2>3. Len(<<>>) = 0 /\ <<>> \in Seq(FrameSet) /\ Len(Watched) >= 1 /\ 0 \in 0 .. MaxClock
    BY Bounds, BlankValues, EmptySeq
  <2> QED BY <2>2, <2>3, Bounds DEF AnswerOk
<1>7. Typed'
  BY <1>1, <1>2, <1>3, <1>4, <1>5, <1>6, BlankValues DEF Typed, Basics
<1>8. Told'
  BY <1>2, ToldNothing DEF Told
<1> QED BY <1>7, <1>8 DEF PageInv

LEMMA ReconnectInv == ASSUME PageInv, Reconnect PROVE PageInv'
<1>1. /\ conn = "waiting" /\ conn' = "connecting"
      /\ UNCHANGED <<transport, pushes, failures, page, wire, db, clock, faults, answer, streams, sent>>
  BY DEF Reconnect, serverVars
<1> QED BY <1>1 DEF PageInv, Typed, Basics, AnswerOk, Told

LEMMA AcceptInv == ASSUME PageInv, Accept PROVE PageInv'
<1>1. PICK skew \in 0 .. Skew : streams' = Append(streams, Opened(skew))
  BY DEF Accept
<1>2. /\ transport = "stream" /\ conn = "connecting" /\ conn' = "open" /\ sent' = Nothing
      /\ UNCHANGED <<transport, pushes, failures, page, wire, db, clock, faults, answer>>
  BY DEF Accept
<1> DEFINE new == Opened(skew)
<1>3. new \in Stream /\ new.seen = Nothing
  BY Bounds, BlankValues DEF Opened, Stream
<1> HIDE DEF new
<1>4. /\ streams' \in Seq(Stream) /\ streams' # <<>> /\ Len(streams') = Len(streams) + 1
      /\ streams'[Len(streams) + 1] = new
  <2>1. streams \in Seq(Stream) /\ Len(streams) \in Nat /\ streams' = Append(streams, new)
    BY <1>1, LenProperties DEF PageInv, Typed, new
  <2> QED BY <1>3, <2>1, AppendProperties, EmptySeq
<1>5. Mine' = new
  BY <1>4 DEF Mine, cur
<1>6. SeenOk(new, Nothing)
  BY <1>3 DEF SeenOk, Nothing
<1>7. Typed'
  BY <1>2, <1>4, BlankValues DEF PageInv, Typed, Basics, AnswerOk
<1>8. Told'
  BY <1>2, <1>5, <1>6, ToldNothing DEF Told
<1> QED BY <1>7, <1>8 DEF PageInv

LEMMA ReceiveInv == ASSUME PageInv, Receive PROVE PageInv'
<1>1. conn = "open" /\ wire # <<>> /\ Typed /\ Told
  BY DEF Receive, PageInv
<1>2. CASE Head(wire).name # "update"
  BY <1>1, <1>2, RetryInv DEF Receive
<1>3. CASE Head(wire).name = "update"
  <2> DEFINE first == Head(wire)
             rest == Tail(wire)
  <2>1. /\ page' = Applied(page, first) /\ wire' = rest /\ failures' = 0
        /\ UNCHANGED <<transport, pushes, conn, db, clock, faults, answer, streams, sent>>
    BY <1>3 DEF Receive, serverVars
  <2>2. wire \in Seq(FrameSet) /\ page \in PageSet
    BY <1>1 DEF Typed
  <2>3. first \in FrameSet /\ rest \in Seq(FrameSet)
    BY <1>1, <2>2, HeadTailProperties
  <2>4. page' \in PageSet
    BY <2>1, <2>2, <2>3, AppliedTyped
  <2>5. \A k \in Key : ToldOk(page', wire', sent, k)
    BY <1>1, <1>3, <2>1, <2>2, ToldLess DEF Told
  <2>6. 0 \in 0 .. RETRY_LIMIT /\ 0 < RETRY_LIMIT
    BY Bounds
  <2> HIDE DEF first, rest
  <2>7. Typed'
    BY <1>1, <2>1, <2>3, <2>4, <2>6 DEF Typed, Basics, AnswerOk
  <2>8. Told'
    BY <1>1, <2>1, <2>5 DEF Told, Mine, cur
  <2> QED BY <2>7, <2>8 DEF PageInv
<1> QED BY <1>2, <1>3

LEMMA AskInv == ASSUME PageInv, Ask PROVE PageInv'
<1>1. PICK now \in {clock, clock + 1}, skew \in 0 .. Skew :
        now <= MaxClock /\ clock' = now /\ answer' = [seq |-> now - skew, events |-> <<>>]
  BY DEF Ask
<1>2. /\ conn = "waiting" /\ conn' = "connecting"
      /\ UNCHANGED <<transport, pushes, failures, page, wire, db, faults, streams, sent>>
  BY DEF Ask
<1>3. clock' \in Skew .. MaxClock /\ now - skew \in 0 .. MaxClock
  <2>1. clock \in Int /\ Skew <= clock /\ skew \in Int /\ 0 <= skew /\ skew <= Skew
    BY Bounds DEF PageInv, Typed, Basics
  <2>2. now <= MaxClock /\ (now = clock \/ now = clock + 1) /\ clock' = now
    BY <1>1
  <2> QED BY <2>1, <2>2, Bounds
<1>4. AnswerOk'
  <2>1. answer'.events = <<>> /\ answer' = [seq |-> now - skew, events |-> <<>>]
    BY <1>1
  <2>2. Len(<<>>) = 0 /\ <<>> \in Seq(FrameSet) /\ Len(Watched) >= 1
    BY Bounds, BlankValues, EmptySeq
  <2> QED BY <1>3, <2>1, <2>2, Bounds DEF AnswerOk
<1> QED BY <1>2, <1>3, <1>4 DEF PageInv, Typed, Basics, Told

LEMMA AnswerKeyInv == ASSUME PageInv, AnswerKey PROVE PageInv'
<1> DEFINE events == answer.events
           next == Len(events) + 1
           frame == Frame("update", Watched[next], db[Watched[next]], answer.seq)
<1>1. /\ Len(events) < Len(Watched) /\ answer' = [answer EXCEPT !.events = Append(events, frame)]
      /\ UNCHANGED <<transport, pushes, conn, failures, page, wire, db, clock, faults, streams, sent>>
  BY DEF AnswerKey, Collected
<1>2. /\ answer \in [seq : 0 .. MaxClock, events : Seq(FrameSet)] /\ Len(events) \in Nat
      /\ \A i \in 1 .. Len(events) : events[i].name = "update" /\ events[i].key = Watched[i]
      /\ db \in [Key -> 0 .. MaxWrites]
  BY LenProperties DEF PageInv, Typed, AnswerOk, Basics
<1>3. next \in 1 .. Len(Watched) /\ Watched[next] \in Key
  <2>1. next \in 1 .. Len(Watched)
    <3>1. Len(events) \in Nat /\ Len(Watched) \in Nat /\ Len(events) < Len(Watched)
      BY <1>1, <1>2, Bounds
    <3> QED BY <3>1
  <2> QED BY <2>1, Bounds
<1>4. frame \in FrameSet /\ frame.name = "update" /\ frame.key = Watched[next]
  BY <1>2, <1>3 DEF Frame, FrameSet
<1> DEFINE more == Append(events, frame)
<1> HIDE DEF frame
<1>5. /\ more \in Seq(FrameSet) /\ Len(more) = next
      /\ \A i \in 1 .. Len(more) : more[i].name = "update" /\ more[i].key = Watched[i]
  <2>1. /\ more \in Seq(FrameSet) /\ Len(more) = next /\ more[next] = frame
        /\ \A i \in 1 .. Len(events) : more[i] = events[i]
    BY <1>2, <1>4, AppendProperties
  <2>2. \A i \in 1 .. Len(more) : i \in 1 .. Len(events) \/ i = next
    BY <1>2, <2>1
  <2> HIDE DEF more
  <2> QED BY <1>2, <1>4, <2>1, <2>2
<1>6. AnswerOk'
  <2>1. answer' = [answer EXCEPT !.events = more]
    BY <1>1
  <2> HIDE DEF more, next
  <2>2. answer' \in [seq : 0 .. MaxClock, events : Seq(FrameSet)] /\ answer'.events = more
    BY <1>2, <1>5, <2>1
  <2> QED BY <1>3, <1>5, <2>2 DEF AnswerOk
<1> QED BY <1>1, <1>6 DEF PageInv, Typed, Basics, Told, Mine, cur

LEMMA AnsweredInv == ASSUME PageInv, Answered PROVE PageInv'
<1> DEFINE events == answer.events
<1>1. /\ Len(events) = Len(Watched) /\ conn = "connecting" /\ conn' = "waiting"
      /\ page' = Taken(page, events) /\ failures' = 0 /\ answer' = NoAnswer
      /\ sent' = [k \in Key |-> (CHOOSE e \in Range(events) : e.key = k).value]
      /\ UNCHANGED <<transport, pushes, wire, db, clock, faults, streams>>
  BY DEF Answered, Collected
<1>2. /\ events \in Seq(FrameSet) /\ page \in PageSet /\ wire = <<>>
      /\ \A i \in 1 .. Len(events) : events[i].key = Watched[i]
  BY <1>1 DEF PageInv, Typed, AnswerOk
<1> HIDE DEF events
<1>3. \A i, j \in 1 .. Len(events) : events[i].key = events[j].key => i = j
  BY <1>1, <1>2, Bounds
<1>4. /\ page' \in PageSet
      /\ \A i \in 1 .. Len(events) :
           events[i].key \in page'.missed \/ page'.shown[events[i].key] = events[i].value
  BY <1>1, <1>2, <1>3, TakenShows
<1>5. ASSUME NEW k \in Key
      PROVE  \E i \in 1 .. Len(events) : events[i].key = k /\ sent'[k] = events[i].value
  <2>1. PICK n \in 1 .. Len(events) : events[n].key = k
    BY <1>1, <1>2, Bounds
  <2>2. DOMAIN events = 1 .. Len(events)
    BY <1>2, LenProperties
  <2>3. Range(events) = {events[i] : i \in 1 .. Len(events)}
    BY <2>2 DEF Range
  <2> DEFINE found == CHOOSE e \in Range(events) : e.key = k
  <2>4. found \in Range(events) /\ found.key = k
    BY <2>1, <2>3
  <2>5. sent'[k] = found.value
    BY <1>1
  <2> HIDE DEF found
  <2> QED BY <2>3, <2>4, <2>5
<1>6. sent' \in [Key -> Unseen .. MaxWrites]
  <2>1. \A i \in 1 .. Len(events) : events[i].value \in 0 .. MaxWrites
    <3>1. \A i \in 1 .. Len(events) : events[i] \in FrameSet
      BY <1>2, ElementOfSeq
    <3>2. \A frame \in FrameSet : frame.value \in 0 .. MaxWrites
      BY DEF FrameSet
    <3> QED BY <3>1, <3>2
  <2>2. \A k \in Key : sent'[k] \in Unseen .. MaxWrites
    BY <1>5, <2>1, Ranges
  <2>3. sent' = [k \in Key |-> sent'[k]]
    BY <1>1
  <2> QED BY <2>2, <2>3
<1>7. AnswerOk'
  <2>1. answer'.seq = 0 /\ answer'.events = <<>> /\ answer' = [seq |-> 0, events |-> <<>>]
    BY <1>1 DEF NoAnswer
  <2>2. Len(<<>>) = 0 /\ <<>> \in Seq(FrameSet) /\ Len(Watched) >= 1 /\ 0 \in 0 .. MaxClock
    BY Bounds, BlankValues, EmptySeq
  <2> QED BY <2>1, <2>2, Bounds DEF AnswerOk
<1>8. 0 \in 0 .. RETRY_LIMIT /\ 0 < RETRY_LIMIT
  BY Bounds
<1>9. Typed'
  BY <1>1, <1>4, <1>6, <1>7, <1>8 DEF PageInv, Typed, Basics
<1>10. \A k \in Key : ToldOk(page', wire', sent', k)
  <2>1. \A k \in Key : Silent(<<>>, k)
    <3>1. Len(<<>>) = 0
      BY EmptySeq
    <3> QED BY <3>1 DEF Silent
  <2>2. \A k \in Key : k \in page'.missed \/ page'.shown[k] = sent'[k]
    BY <1>4, <1>5
  <2>3. wire' = <<>>
    BY <1>1, <1>2
  <2> QED BY <2>1, <2>2, <2>3 DEF ToldOk
<1>11. Told'
  BY <1>1, <1>10 DEF Told
<1> QED BY <1>9, <1>11 DEF PageInv

LEMMA WriteInv == ASSUME PageInv, NEW k \in Key, Write(k) PROVE PageInv'
<1> DEFINE value == Max(Range(db)) + 1
           new == [Mine EXCEPT !.queue = Append(Mine.queue, [key |-> k, value |-> value])]
<1>1. /\ value <= MaxWrites /\ db' = [db EXCEPT ![k] = value]
      /\ \/ Following /\ streams' = [streams EXCEPT ![cur] = new]
         \/ streams' = streams
      /\ UNCHANGED <<transport, pushes, conn, failures, page, wire, clock, faults, answer, sent>>
  BY DEF Write, Mine
<1>2. value \in 1 .. MaxWrites
  <2>1. db \in [Key -> 0 .. MaxWrites] /\ MaxWrites \in Nat
    BY Bounds DEF PageInv, Typed, Basics
  <2>2. Range(db) \subseteq 0 .. MaxWrites /\ db[k] \in Range(db)
    BY <2>1 DEF Range
  <2>3. Max(Range(db)) \in Range(db)
    BY <2>1, <2>2, NewestValue
  <2>4. Max(Range(db)) \in 0 .. MaxWrites
    BY <2>2, <2>3
  <2> QED BY <1>1, <2>1, <2>4
<1> HIDE DEF value
<1>3. db' \in [Key -> 0 .. MaxWrites]
  BY <1>1, <1>2, Ranges DEF PageInv, Typed, Basics
<1>4. CASE streams' = streams
  BY <1>1, <1>3, <1>4 DEF PageInv, Typed, Basics, AnswerOk, Told, Mine, cur
<1>5. CASE Following /\ streams' = [streams EXCEPT ![cur] = new]
  <2>1. conn = "open" /\ Mine \in Stream /\ SeenOk(Mine, sent)
    BY <1>5, Held DEF Following
  <2>2. new \in Stream /\ SeenOk(new, sent)
    <3> DEFINE change == [key |-> k, value |-> value]
               Change == [key : Key, value : 1 .. MaxWrites]
               queue == Append(Mine.queue, change)
    <3>1. change \in Change /\ Mine.queue \in Seq(Change)
      BY <1>2, <2>1 DEF Stream
    <3>2. queue \in Seq(Change)
      BY <3>1, AppendProperties
    <3> HIDE DEF queue
    <3>3. new = [Mine EXCEPT !.queue = queue]
      BY DEF queue
    <3> QED BY <2>1, <3>2, <3>3 DEF Stream, SeenOk
  <2> HIDE DEF new
  <2>3. cur \in 1 .. Len(streams) /\ streams \in Seq(Stream) /\ streams # <<>>
    BY <2>1, MineTyped DEF PageInv, Typed
  <2>4. streams' \in Seq(Stream) /\ Len(streams') = Len(streams) /\ streams'[cur] = new
        /\ streams' # <<>>
    BY <1>5, <2>2, <2>3, OneStream
  <2>5. Mine' = new
    BY <2>4 DEF cur, Mine
  <2> QED BY <1>1, <1>3, <2>2, <2>4, <2>5 DEF PageInv, Typed, Basics, AnswerOk, Told
<1> QED BY <1>1, <1>4, <1>5

LEMMA InitInv == ASSUME Init PROVE PageInv
<1>1. db \in [Key -> 0 .. MaxWrites] /\ sent = Nothing /\ sent \in [Key -> Unseen .. MaxWrites]
  BY BlankValues, Bounds DEF Init
<1>2. page \in PageSet
  BY Bounds DEF Init, PageSet
<1>3. AnswerOk
  BY NoAnswerOk DEF Init
<1>4. clock \in Skew .. MaxClock /\ faults \in 0 .. MaxFaults /\ failures \in 0 .. RETRY_LIMIT
      /\ failures < RETRY_LIMIT
  BY Bounds DEF Init
<1>5. wire \in Seq(FrameSet) /\ streams \in Seq(Stream)
  BY BlankValues, EmptySeq DEF Init
<1>6. Typed
  BY <1>1, <1>2, <1>3, <1>4, <1>5 DEF Init, Typed, Basics
<1>7. Told
  BY <1>1, ToldNothing DEF Init, Told
<1> QED BY <1>6, <1>7 DEF PageInv

LEMMA NextInv == ASSUME PageInv, [Next]_vars PROVE PageInv'
<1>1. CASE UNCHANGED vars
  BY <1>1 DEF vars, serverVars, PageInv, Typed, Basics, AnswerOk, Told, Mine, cur
<1>2. CASE Fail
  BY <1>2, RetryInv DEF Fail
<1>3. CASE Serve \/ OpenFails \/ SubscribeFails \/ TickFails
  BY <1>3, OpenKeyInv, SubscribeInv, PumpInv, TickInv, TickKeyInv, OpenFailsInv, SubscribeFailsInv,
     TickFailsInv DEF Serve
<1>4. CASE \E s \in DOMAIN streams : StartUnwatched(s) \/ Cancel(s) \/ Expire(s)
  BY <1>4, StartUnwatchedInv, CancelInv, ExpireInv
<1>5. CASE Reconnect \/ Receive \/ Accept \/ Ask \/ AnswerKey \/ Answered \/ \E k \in Key : Write(k)
  BY <1>5, ReconnectInv, ReceiveInv, AcceptInv, AskInv, AnswerKeyInv, AnsweredInv, WriteInv
<1> QED BY <1>1, <1>2, <1>3, <1>4, <1>5 DEF Next

LEMMA InvAlways == Spec => []PageInv
BY InitInv, NextInv, PTL DEF Spec

-----------------------------------------------------------------------------
(* Results.                                                                *)

\* However a stream ends - cancelled, aborted, out of time, idle or refused
\* by the store - its heartbeat and its subscription end with it, except for
\* the client that left before `start` assigned them (router.js, `watch`).
THEOREM TimersAlwaysEnd == Spec => []TimersEndWithTheStream
<1>1. IInv => TimersEndWithTheStream
  <2> SUFFICES ASSUME IInv, NEW s \in DOMAIN streams
               PROVE  ~streams[s].open /\ ~streams[s].early
                        => ~streams[s].stop /\ ~streams[s].heart
    BY DEF TimersEndWithTheStream
  <2>1. PICK S : streams \in Seq(S)
    BY DEF IInv
  <2>2. s \in 1 .. Len(streams)
    BY <2>1
  <2> QED BY <2>2 DEF IInv, Tidy
<1> QED BY <1>1, Invariance, PTL

\* Every variable of the router and its page keeps its type, whatever the
\* transport, the store and the bounds; frames are under way only on an open
\* stream.
THEOREM TypeCorrect == Spec => []TypeOK
<1>1. PageInv => TypeOK
  <2> SUFFICES ASSUME PageInv PROVE TypeOK
    OBVIOUS
  <2>1. \A i \in DOMAIN wire : wire[i].name \in {"update", "error", "eof"}
    <3>1. wire \in Seq(FrameSet) /\ DOMAIN wire = 1 .. Len(wire)
      BY LenProperties DEF PageInv, Typed
    <3>2. \A i \in DOMAIN wire : wire[i] \in FrameSet
      BY <3>1, ElementOfSeq
    <3> QED BY <3>2 DEF FrameSet
  <2> QED BY <2>1 DEF PageInv, Typed, Basics, PageSet, TypeOK
<1> QED BY <1>1, InvAlways, PTL

\* A page shows what the store holds of every key the router has nothing more
\* to say of, unless it skipped the key's last frame or the router noted a
\* value it never sent (store.js, `receive`, and router.js, `watch` and `once`).
THEOREM QuietPagesAlwaysCurrent == Spec => []QuietPagesAreCurrent
<1>1. PageInv => QuietPagesAreCurrent
  <2> SUFFICES ASSUME PageInv, NEW k \in Key, Noticed(k), wire = <<>>, k \notin page.missed
               PROVE  page.shown[k] = db[k]
    BY DEF QuietPagesAreCurrent
  <2>1. db[k] \in 0 .. MaxWrites /\ db[k] # Unseen
    <3>1. db[k] \in 0 .. MaxWrites
      BY DEF PageInv, Typed, Basics
    <3> QED BY <3>1, Bounds
  <2>2. sent[k] = db[k]
    <3>1. CASE Following /\ Mine.seen[k] = db[k] /\ k \notin Mine.gap
      <4>1. SeenOk(Mine, sent)
        BY <3>1, Held DEF Following
      <4> QED BY <2>1, <3>1, <4>1 DEF SeenOk
    <3> QED BY <3>1 DEF Noticed
  <2>3. ToldOk(page, wire, sent, k)
    BY DEF PageInv, Told
  <2>4. ~Carries(wire, k, sent[k])
    <3>1. Len(wire) = 0
      BY EmptySeq
    <3> QED BY <3>1 DEF Carries
  <2> QED BY <2>1, <2>2, <2>3, <2>4 DEF ToldOk
<1> QED BY <1>1, InvAlways, PTL

-----------------------------------------------------------------------------
(* The stores.                                                             *)

\* The shape of the bookkeeping; values are opaque.
CellsTyped ==
  /\ adapter \in Adapters
  /\ DOMAIN cells = Cell
  /\ stamp \in [Cell -> Nat]
  /\ req \in [Request -> Operation]
  /\ pc \in [Request -> {"begin", "held", "done", "lost", "failed"}]
  /\ DOMAIN entry = Request
  /\ \A p \in Request : entry[p].stamp \in Nat
  /\ tries \in [Request -> Nat]
  /\ committed \in [Request -> Nat]
  /\ overtaken \in [Request -> Nat]

\* What p holds is no newer than the store, and under an unchanged
\* versionstamp it is the value the store still has.
HeldIsOld(p) ==
  LET c == req[p].cell
  IN pc[p] = "held" =>
       /\ ~OneStep(req[p])
       /\ entry[p].stamp <= stamp[c]
       /\ entry[p].stamp = stamp[c] => entry[p].value = cells[c]

\* Every refusal was preceded by somebody else's commit during that try.
RefusalsAreOvertakings(p) ==
  /\ pc[p] = "begin" => tries[p] <= overtaken[p]
  /\ pc[p] = "held" =>
       /\ tries[p] <= overtaken[p]
       /\ entry[p].stamp # stamp[req[p].cell] => tries[p] + 1 <= overtaken[p]
  /\ pc[p] = "lost" => overtaken[p] >= ATTEMPTS

\* A request has written once it is done, and not before.
WritesOnce(p) ==
  /\ pc[p] \in {"begin", "held", "lost", "failed"} => committed[p] = 0
  /\ pc[p] = "done" => committed[p] = 1

CellsIInv == CellsTyped /\ \A p \in Request : HeldIsOld(p) /\ RefusalsAreOvertakings(p) /\ WritesOnce(p)

LEMMA OperationCell ==
  \A op \in Operation : op.cell \in Cell
BY DEF Operation

LEMMA CellsInitIInv == ASSUME CellsInit PROVE CellsIInv
BY CellsAssumption DEF CellsInit, CellsIInv, CellsTyped, HeldIsOld, RefusalsAreOvertakings, WritesOnce

-----------------------------------------------------------------------------
(* What a write of one request does to another.                            *)

LEMMA OthersKeep ==
  ASSUME CellsIInv, NEW p \in Request, NEW next, Store(p, next),
         adapter' = adapter, req' = req, entry' = entry, tries' = tries,
         NEW q \in Request, q # p, pc'[q] = pc[q]
  PROVE  HeldIsOld(q)' /\ RefusalsAreOvertakings(q)' /\ WritesOnce(q)'
<1> DEFINE c == req[p].cell
           d == req[q].cell
<1>1. c \in Cell /\ d \in Cell
  BY OperationCell DEF CellsIInv, CellsTyped
<1>2. stamp[c] \in Nat /\ stamp[d] \in Nat /\ entry[q].stamp \in Nat
      /\ tries[q] \in Nat /\ overtaken[q] \in Nat
  BY <1>1 DEF CellsIInv, CellsTyped
<1>3. committed'[q] = committed[q]
  BY DEF Store, CellsIInv, CellsTyped
<1>4. WritesOnce(q)'
  BY <1>3 DEF WritesOnce, CellsIInv
<1>5. OneStep(req[q])' <=> OneStep(req[q])
  BY DEF OneStep
<1>6. CASE c = d
  <2>1. stamp'[d] = stamp[d] + 1
    BY <1>1, <1>6 DEF Store, CellsIInv, CellsTyped
  <2>2. overtaken'[q] = IF pc[q] = "held" THEN overtaken[q] + 1 ELSE overtaken[q]
    BY <1>6 DEF Store
  <2>3. HeldIsOld(q)'
    <3>1. HeldIsOld(q)
      BY DEF CellsIInv
    <3> QED BY <3>1, <1>2, <1>5, <2>1 DEF HeldIsOld
  <2>4. RefusalsAreOvertakings(q)'
    <3>1. RefusalsAreOvertakings(q)
      BY DEF CellsIInv
    <3> QED BY <3>1, <1>2, <2>1, <2>2, CellsAssumption DEF RefusalsAreOvertakings
  <2> QED BY <1>4, <2>3, <2>4
<1>7. CASE c # d
  <2>1. stamp'[d] = stamp[d] /\ cells'[d] = cells[d] /\ overtaken'[q] = overtaken[q]
    BY <1>1, <1>7 DEF Store, CellsIInv, CellsTyped
  <2>2. HeldIsOld(q)'
    <3>1. HeldIsOld(q)
      BY DEF CellsIInv
    <3> QED BY <3>1, <1>5, <2>1 DEF HeldIsOld
  <2>3. RefusalsAreOvertakings(q)'
    <3>1. RefusalsAreOvertakings(q)
      BY DEF CellsIInv
    <3> QED BY <3>1, <2>1 DEF RefusalsAreOvertakings
  <2> QED BY <1>4, <2>2, <2>3
<1> QED BY <1>6, <1>7

\* A write keeps the bookkeeping in shape.
LEMMA StoreKeepsTyped ==
  ASSUME CellsIInv, NEW p \in Request, NEW next, Store(p, next),
         adapter' = adapter, req' = req, entry' = entry, tries' = tries,
         pc' = [pc EXCEPT ![p] = "done"]
  PROVE  CellsTyped' /\ committed'[p] = committed[p] + 1
<1>1. req[p].cell \in Cell
  BY OperationCell DEF CellsIInv, CellsTyped
<1>2. stamp' \in [Cell -> Nat] /\ DOMAIN cells' = Cell
  BY <1>1 DEF Store, CellsIInv, CellsTyped
<1>3. committed' \in [Request -> Nat] /\ committed'[p] = committed[p] + 1
  BY DEF Store, CellsIInv, CellsTyped
<1>4. overtaken' \in [Request -> Nat]
  <2>1. overtaken' = [q \in Request |->
          IF q # p /\ pc[q] = "held" /\ req[q].cell = req[p].cell
            THEN overtaken[q] + 1 ELSE overtaken[q]]
    BY DEF Store
  <2>2. \A q \in Request : overtaken[q] \in Nat /\ overtaken[q] + 1 \in Nat
    BY DEF CellsIInv, CellsTyped
  <2> QED BY <2>1, <2>2
<1>5. pc' \in [Request -> {"begin", "held", "done", "lost", "failed"}]
  BY DEF CellsIInv, CellsTyped
<1>6. adapter' \in Adapters /\ req' \in [Request -> Operation] /\ DOMAIN entry' = Request
      /\ (\A q \in Request : entry'[q].stamp \in Nat) /\ tries' \in [Request -> Nat]
  BY DEF CellsIInv, CellsTyped
<1> QED BY <1>2, <1>3, <1>4, <1>5, <1>6 DEF CellsTyped

\* A write that ends its request keeps the invariant.
LEMMA StoreStep ==
  ASSUME CellsIInv, NEW p \in Request, NEW next, Store(p, next), committed[p] = 0,
         adapter' = adapter, req' = req, entry' = entry, tries' = tries,
         pc' = [pc EXCEPT ![p] = "done"]
  PROVE  CellsIInv'
<1>1. CellsTyped' /\ committed'[p] = 1
  <2>1. CellsTyped' /\ committed'[p] = committed[p] + 1
    BY StoreKeepsTyped
  <2> QED BY <2>1
<1>2. pc'[p] = "done" /\ \A q \in Request : q # p => pc'[q] = pc[q]
  BY DEF CellsIInv, CellsTyped
<1>3. ASSUME NEW q \in Request, q # p
      PROVE  HeldIsOld(q)' /\ RefusalsAreOvertakings(q)' /\ WritesOnce(q)'
  BY <1>2, <1>3, OthersKeep
<1>4. HeldIsOld(p)' /\ RefusalsAreOvertakings(p)' /\ WritesOnce(p)'
  BY <1>1, <1>2 DEF HeldIsOld, RefusalsAreOvertakings, WritesOnce
<1> QED BY <1>1, <1>3, <1>4 DEF CellsIInv

-----------------------------------------------------------------------------
(* Every step.                                                             *)

LEMMA FetchStep == ASSUME CellsIInv, NEW p \in Request, Fetch(p) PROVE CellsIInv'
<1> DEFINE c == req[p].cell
<1>1. c \in Cell /\ stamp[c] \in Nat /\ tries[p] \in Nat /\ overtaken[p] \in Nat
  BY OperationCell DEF CellsIInv, CellsTyped
<1>2. entry'[p].stamp = stamp[c] /\ entry'[p].value = cells[c] /\ pc'[p] = "held"
      /\ DOMAIN entry' = Request
  BY DEF Fetch, CellsIInv, CellsTyped
<1>3. \A q \in Request : q # p => entry'[q] = entry[q] /\ pc'[q] = pc[q]
  BY DEF Fetch, CellsIInv, CellsTyped
<1>4. /\ adapter' = adapter /\ cells' = cells /\ stamp' = stamp /\ req' = req
      /\ tries' = tries /\ committed' = committed /\ overtaken' = overtaken
  BY DEF Fetch
<1>5. pc' \in [Request -> {"begin", "held", "done", "lost", "failed"}]
  BY DEF Fetch, CellsIInv, CellsTyped
<1>6. CellsTyped'
  BY <1>1, <1>2, <1>3, <1>4, <1>5 DEF CellsIInv, CellsTyped
<1>7. HeldIsOld(p)'
  <2>1. ~OneStep(req[p])'
    BY <1>4 DEF Fetch, OneStep
  <2> QED BY <2>1, <1>1, <1>2, <1>4 DEF HeldIsOld
<1>8. RefusalsAreOvertakings(p)' /\ WritesOnce(p)'
  <2>1. RefusalsAreOvertakings(p) /\ WritesOnce(p) /\ pc[p] = "begin"
    BY DEF CellsIInv, Fetch
  <2> QED BY <2>1, <1>2, <1>4 DEF RefusalsAreOvertakings, WritesOnce
<1>9. ASSUME NEW q \in Request, q # p
      PROVE  HeldIsOld(q)' /\ RefusalsAreOvertakings(q)' /\ WritesOnce(q)'
  <2>1. HeldIsOld(q) /\ RefusalsAreOvertakings(q) /\ WritesOnce(q)
    BY DEF CellsIInv
  <2>2. entry'[q] = entry[q] /\ pc'[q] = pc[q]
    BY <1>3, <1>9
  <2> QED BY <2>1, <2>2, <1>4 DEF HeldIsOld, RefusalsAreOvertakings, WritesOnce, OneStep
<1> QED BY <1>6, <1>7, <1>8, <1>9 DEF CellsIInv

\* A step that only moves p along and counts.
LEMMA CellsQuietStep ==
  ASSUME CellsIInv, NEW p \in Request, Refuse(p) \/ Die(p)
  PROVE  CellsIInv'
<1>1. /\ adapter' = adapter /\ cells' = cells /\ stamp' = stamp /\ req' = req
      /\ entry' = entry /\ committed' = committed /\ overtaken' = overtaken
  BY DEF Refuse, Die
<1>2. \A q \in Request : q # p => pc'[q] = pc[q] /\ tries'[q] = tries[q]
  BY DEF Refuse, Die, CellsIInv, CellsTyped
<1>3. tries' \in [Request -> Nat]
      /\ pc' \in [Request -> {"begin", "held", "done", "lost", "failed"}]
  BY DEF Refuse, Die, CellsIInv, CellsTyped
<1>4. CellsTyped'
  BY <1>1, <1>3 DEF CellsIInv, CellsTyped
<1>5. HeldIsOld(p)' /\ RefusalsAreOvertakings(p)' /\ WritesOnce(p)'
  <2>1. CASE Die(p)
    <3>1. pc'[p] = "failed" /\ pc[p] \in {"begin", "held"} /\ WritesOnce(p)
      BY <2>1 DEF Die, CellsIInv, CellsTyped
    <3> QED BY <3>1, <1>1 DEF HeldIsOld, RefusalsAreOvertakings, WritesOnce
  <2>2. CASE Refuse(p)
    <3>1. pc[p] = "held" /\ RefusalsAreOvertakings(p) /\ WritesOnce(p)
          /\ entry[p].stamp # stamp[req[p].cell]
      BY <2>2 DEF Refuse, Checked, CellsIInv
    <3>2. tries'[p] = tries[p] + 1
          /\ pc'[p] = IF tries[p] + 1 = ATTEMPTS THEN "lost" ELSE "begin"
      BY <2>2 DEF Refuse, CellsIInv, CellsTyped
    <3>3. tries[p] \in Nat /\ overtaken[p] \in Nat
      BY DEF CellsIInv, CellsTyped
    <3> QED BY <3>1, <3>2, <3>3, <1>1, CellsAssumption
            DEF HeldIsOld, RefusalsAreOvertakings, WritesOnce
  <2> QED BY <2>1, <2>2
<1>6. ASSUME NEW q \in Request, q # p
      PROVE  HeldIsOld(q)' /\ RefusalsAreOvertakings(q)' /\ WritesOnce(q)'
  <2>1. HeldIsOld(q) /\ RefusalsAreOvertakings(q) /\ WritesOnce(q)
    BY DEF CellsIInv
  <2>2. pc'[q] = pc[q] /\ tries'[q] = tries[q]
    BY <1>2, <1>6
  <2> QED BY <2>1, <2>2, <1>1 DEF HeldIsOld, RefusalsAreOvertakings, WritesOnce, OneStep
<1> QED BY <1>4, <1>5, <1>6 DEF CellsIInv

LEMMA CellsNextIInv == ASSUME CellsIInv, [CellsNext]_cellsVars PROVE CellsIInv'
<1>1. CASE UNCHANGED cellsVars
  BY <1>1 DEF cellsVars, CellsIInv, CellsTyped, HeldIsOld, RefusalsAreOvertakings, WritesOnce, OneStep
<1>2. ASSUME NEW p \in Request, Perform(p) PROVE CellsIInv'
  <2>1. committed[p] = 0
    BY <1>2 DEF Perform, CellsIInv, WritesOnce
  <2> QED BY <1>2, <2>1, StoreStep DEF Perform
<1>3. ASSUME NEW p \in Request, WriteBack(p) PROVE CellsIInv'
  <2>1. committed[p] = 0
    BY <1>3 DEF WriteBack, CellsIInv, WritesOnce
  <2> QED BY <1>3, <2>1, StoreStep DEF WriteBack
<1> QED BY <1>1, <1>2, <1>3, FetchStep, CellsQuietStep DEF CellsNext

LEMMA CellsInvariance == CellsSpec => []CellsIInv
BY CellsInitIInv, CellsNextIInv, PTL DEF CellsSpec

-----------------------------------------------------------------------------
(* What the cells hold.                                                    *)

Numbers == [kind : {"number"}, n : Int]

\* What a cell of the declared shape may hold.
Holding(c) == {v \in Value : v.kind \in {"null", Shape[c]}}

\* What a verb makes of a number, or of nothing.
LEMMA CountingKeeps ==
  ASSUME NEW op \in Operation, Shape[op.cell] # "list",
         NEW v \in {Null} \cup Numbers
  PROVE  Produce(op, v) \in Numbers
<1>1. Delta \subseteq Int
  BY CellsAssumption
<1>2. op.verb \in {"set", "incr", "decr"} /\ op.arg.kind = "number" /\ op.arg.n \in Int
      /\ op.arg = Num(op.arg.n)
  BY <1>1 DEF Operation, Num
<1>3. NumberOf(v) \in Int
  BY DEF NumberOf, Null, Numbers
<1>4. \A n \in Int : Num(n) \in Numbers
  BY DEF Num, Numbers
<1>5. /\ op.verb = "set" => Produce(op, v) = Num(op.arg.n)
      /\ op.verb = "incr" => Produce(op, v) = Num(NumberOf(v) + op.arg.n)
      /\ op.verb = "decr" => Produce(op, v) = Num(NumberOf(v) - op.arg.n)
  BY <1>2 DEF Produce
<1>6. NumberOf(v) + op.arg.n \in Int /\ NumberOf(v) - op.arg.n \in Int
  BY <1>2, <1>3
<1> QED BY <1>2, <1>4, <1>5, <1>6

\* What a verb makes of a list, or of nothing.
LEMMA ListingKeeps ==
  ASSUME NEW op \in Operation, Shape[op.cell] = "list",
         NEW v \in Value, v.kind \in {"null", "list"}
  PROVE  Produce(op, v) \in Value /\ Produce(op, v).kind \in {"null", "list"}
<1>1. op.verb \in {"append", "remove"} /\ op.arg.item \in Item
  BY DEF Operation
<1>2. v.kind = "list" => v.items \in Seq(Item)
  BY DEF Value, Null, Num
<1>3. ASSUME NEW items \in Seq(Item) PROVE List(items) \in Value /\ List(items).kind = "list"
  BY DEF List, Value
<1>4. CASE op.verb = "append"
  <2> DEFINE items == IF v.kind = "list" THEN Append(v.items, op.arg.item) ELSE <<op.arg.item>>
  <2>1. items \in Seq(Item)
    BY <1>1, <1>2
  <2>2. Produce(op, v) = List(items)
    BY <1>4 DEF Produce
  <2> HIDE DEF items
  <2> QED BY <1>3, <2>1, <2>2
<1>5. CASE op.verb = "remove" /\ v.kind = "list"
  <2> DEFINE kept == {i \in 1 .. Len(v.items) : v.items[i] # op.arg.item}
  <2>1. Produce(op, v) = List(Pick(v.items, kept))
    BY <1>5 DEF Produce
  <2> HIDE DEF kept
  <2>2. Pick(v.items, kept) \in Seq(Item)
    BY <1>2, <1>5, PickProperties
  <2> QED BY <1>3, <2>1, <2>2
<1>6. CASE op.verb = "remove" /\ v.kind # "list"
  <2>1. Produce(op, v) = v
    BY <1>6 DEF Produce
  <2> QED BY <2>1
<1> QED BY <1>1, <1>4, <1>5, <1>6

\* A write leaves a cell holding what its declaration says.
LEMMA WrittenKeeps ==
  ASSUME NEW op \in Operation, NEW v \in Holding(op.cell)
  PROVE  Written(op, v) \in Holding(op.cell)
<1>1. op.cell \in Cell /\ Shape[op.cell] \in {"number", "list", "record"}
  BY OperationCell, CellsAssumption
<1>2. v \in Value /\ v.kind \in {"null", Shape[op.cell]}
  BY DEF Holding
<1>3. Numbers \subseteq Value /\ \A x \in Numbers : x.kind = "number"
  BY DEF Numbers, Value
<1>4. CASE Shape[op.cell] = "number"
  <2>1. op.path = Whole
    BY <1>4 DEF Operation
  <2>2. v \in {Null} \cup Numbers
    BY <1>2, <1>4 DEF Value, Null, Numbers
  <2>3. Produce(op, v) \in Numbers
    BY <1>4, <2>2, CountingKeeps
  <2> QED BY <1>3, <1>4, <2>1, <2>3 DEF Written, Holding
<1>5. CASE Shape[op.cell] = "list"
  <2>1. op.path = Whole
    BY <1>5 DEF Operation
  <2> QED BY <1>2, <1>5, <2>1, ListingKeeps DEF Written, Holding
<1>6. CASE Shape[op.cell] = "record"
  <2>1. op.path \in Field /\ op.path # Whole
    BY <1>6, CellsAssumption DEF Operation
  <2>2. Fields(v) \in [Field -> {Null} \cup Numbers]
    BY <1>2, <1>6 DEF Fields, Value, Null, Numbers
  <2> DEFINE old == Fields(v)
             now == Produce(op, old[op.path])
  <2>3. old[op.path] \in {Null} \cup Numbers
    BY <2>1, <2>2
  <2>4. now \in Numbers
    BY <1>6, <2>3, CountingKeeps
  <2>5. Written(op, v) = Rec([old EXCEPT ![op.path] = now])
    BY <2>1 DEF Written
  <2> HIDE DEF old, now
  <2>6. [old EXCEPT ![op.path] = now] \in [Field -> {Null} \cup Numbers]
    BY <2>2, <2>4 DEF old
  <2>7. \A fields \in [Field -> {Null} \cup Numbers] :
          Rec(fields) \in Value /\ Rec(fields).kind = "record"
    BY DEF Rec, Value, Numbers
  <2> QED BY <1>6, <2>5, <2>6, <2>7 DEF Holding
<1> QED BY <1>1, <1>4, <1>5, <1>6

\* What a request holds is of its cell's kind too, and it has tries left.
Contents ==
  /\ cells \in [Cell -> Value]
  /\ \A c \in Cell : cells[c] \in Holding(c)
  /\ entry \in [Request -> [value : Value, stamp : Nat]]
  /\ \A p \in Request : entry[p].value \in Holding(req[p].cell)
  /\ \A p \in Request : tries[p] <= ATTEMPTS
  /\ \A p \in Request : pc[p] \in {"begin", "held"} => tries[p] < ATTEMPTS

LEMMA NullFits == ASSUME NEW c PROVE Null \in Holding(c)
BY DEF Null, Holding, Value

LEMMA InitContents == ASSUME CellsInit PROVE Contents
<1>1. Null \in Value /\ 0 < ATTEMPTS /\ 0 <= ATTEMPTS
  BY CellsAssumption DEF Value
<1> QED BY <1>1, NullFits DEF CellsInit, Contents

LEMMA StoreContents ==
  ASSUME CellsIInv, Contents, NEW p \in Request, NEW next \in Holding(req[p].cell), Store(p, next),
         req' = req, entry' = entry, tries' = tries, pc' = [pc EXCEPT ![p] = "done"]
  PROVE  Contents'
<1>1. req[p].cell \in Cell /\ next \in Value
  BY OperationCell DEF CellsIInv, CellsTyped, Holding
<1>2. cells' = [cells EXCEPT ![req[p].cell] = next]
  BY DEF Store
<1>3. cells' \in [Cell -> Value] /\ \A c \in Cell : cells'[c] \in Holding(c)
  BY <1>1, <1>2 DEF Contents
<1>4. \A q \in Request : pc'[q] \in {"begin", "held"} => pc[q] \in {"begin", "held"}
  BY DEF CellsIInv, CellsTyped
<1> QED BY <1>3, <1>4 DEF Contents

LEMMA NextContents == ASSUME CellsIInv, Contents, [CellsNext]_cellsVars PROVE Contents'
<1>0. \A p \in Request : req[p] \in Operation /\ req[p].cell \in Cell
  BY OperationCell DEF CellsIInv, CellsTyped
<1>1. CASE UNCHANGED cellsVars
  BY <1>1 DEF cellsVars, Contents
<1>2. ASSUME NEW p \in Request, Perform(p) PROVE Contents'
  <2>1. Written(req[p], cells[req[p].cell]) \in Holding(req[p].cell)
    BY <1>0, WrittenKeeps DEF Contents
  <2> QED BY <1>2, <2>1, StoreContents DEF Perform
<1>3. ASSUME NEW p \in Request, WriteBack(p) PROVE Contents'
  <2>1. Written(req[p], entry[p].value) \in Holding(req[p].cell)
    BY <1>0, WrittenKeeps DEF Contents
  <2> QED BY <1>3, <2>1, StoreContents DEF WriteBack
<1>4. ASSUME NEW p \in Request, Fetch(p) PROVE Contents'
  <2> DEFINE new == [value |-> cells[req[p].cell], stamp |-> stamp[req[p].cell]]
  <2>1. new.value \in Value /\ new.value \in Holding(req[p].cell) /\ new.stamp \in Nat
    BY <1>0 DEF Contents, CellsIInv, CellsTyped
  <2>2. new \in [value : Value, stamp : Nat]
    BY <2>1
  <2>3. entry' = [entry EXCEPT ![p] = new]
    BY <1>4 DEF Fetch
  <2> HIDE DEF new
  <2>4. entry' \in [Request -> [value : Value, stamp : Nat]]
        /\ \A q \in Request : entry'[q].value \in Holding(req[q].cell)
    BY <2>1, <2>2, <2>3 DEF Contents
  <2>5. \A q \in Request : pc'[q] \in {"begin", "held"} => pc[q] \in {"begin", "held"}
    BY <1>4 DEF Fetch, CellsIInv, CellsTyped
  <2> QED BY <1>4, <2>4, <2>5 DEF Fetch, Contents
<1>5. ASSUME NEW p \in Request, Refuse(p) PROVE Contents'
  <2>1. tries'[p] = tries[p] + 1 /\ tries[p] < ATTEMPTS
        /\ pc'[p] = IF tries[p] + 1 = ATTEMPTS THEN "lost" ELSE "begin"
    BY <1>5 DEF Refuse, CellsIInv, CellsTyped, Contents
  <2>2. \A q \in Request : q # p => tries'[q] = tries[q] /\ pc'[q] = pc[q]
    BY <1>5 DEF Refuse, CellsIInv, CellsTyped
  <2>3. tries[p] \in Nat /\ ATTEMPTS \in Nat
    BY CellsAssumption DEF CellsIInv, CellsTyped
  <2>4. tries'[p] <= ATTEMPTS /\ (pc'[p] \in {"begin", "held"} => tries'[p] < ATTEMPTS)
    BY <2>1, <2>3
  <2>5. \A q \in Request : tries'[q] <= ATTEMPTS
                           /\ (pc'[q] \in {"begin", "held"} => tries'[q] < ATTEMPTS)
    BY <2>2, <2>4 DEF Contents
  <2> QED BY <1>5, <2>5 DEF Refuse, Contents
<1>6. ASSUME NEW p \in Request, Die(p) PROVE Contents'
  <2>1. \A q \in Request : pc'[q] \in {"begin", "held"} => pc[q] \in {"begin", "held"}
    BY <1>6 DEF Die, CellsIInv, CellsTyped
  <2> QED BY <1>6, <2>1 DEF Die, Contents
<1> QED BY <1>1, <1>2, <1>3, <1>4, <1>5, <1>6 DEF CellsNext

LEMMA ContentsAlways == CellsSpec => []Contents
<1>1. CellsInit => Contents
  BY InitContents
<1>2. CellsIInv /\ Contents /\ [CellsNext]_cellsVars => Contents'
  BY NextContents
<1> QED BY <1>1, <1>2, CellsInvariance, PTL DEF CellsSpec

-----------------------------------------------------------------------------
(* Results.                                                                *)

\* No verb, on no platform and under no contention, leaves in a cell what its
\* declaration does not allow (cells.js, `produce` and `replace`), and no
\* request tries more often than ATTEMPTS.
THEOREM CellsTypeCorrect == CellsSpec => []CellsTypeOK
<1>1. CellsIInv /\ Contents => CellsTypeOK
  <2> SUFFICES ASSUME CellsIInv, Contents PROVE CellsTypeOK
    OBVIOUS
  <2>1. ATTEMPTS \in Nat
    BY CellsAssumption
  <2>2. tries \in [Request -> 0 .. ATTEMPTS]
    BY <2>1 DEF CellsIInv, CellsTyped, Contents
  <2>3. \A c \in Cell : cells[c].kind \in {"null", Shape[c]}
    BY DEF Contents, Holding
  <2> QED BY <2>2, <2>3 DEF CellsIInv, CellsTyped, Contents, CellsTypeOK
<1> QED BY <1>1, CellsInvariance, ContentsAlways, PTL

\* On every platform, whatever the number of requests, an operation the
\* platform promises to be atomic is applied to exactly the value it
\* replaces: deno-store.js by its versionstamp, cloudflare-store.js by its
\* object, lambda-store.js and vercel-store.js by the native add.
THEOREM NoWriteIsLost == CellsSpec => PromisedWritesAreAtomic
<1> DEFINE Atomic == \A p \in Request :
                       committed'[p] # committed[p] /\ Promised(req[p])
                         => cells' = [cells EXCEPT ![req[p].cell] = Written(req[p], @)]
<1>1. ASSUME CellsIInv, [CellsNext]_cellsVars PROVE [Atomic]_cellsVars
  <2> SUFFICES ASSUME CellsNext, NEW p \in Request,
                      committed'[p] # committed[p], Promised(req[p])
               PROVE  cells' = [cells EXCEPT ![req[p].cell] = Written(req[p], @)]
    BY <1>1
  <2>1. PICK q \in Request : Perform(q) \/ WriteBack(q)
    BY DEF CellsNext, Fetch, Refuse, Die
  <2>2. q = p
    BY <2>1, <1>1 DEF Perform, WriteBack, Store, CellsIInv, CellsTyped
  <2>3. CASE Perform(q)
    BY <2>2, <2>3 DEF Perform, Store
  <2>4. CASE WriteBack(q)
    <3>1. pc[p] = "held" /\ HeldIsOld(p) /\ Checked(p) /\ Store(p, Written(req[p], entry[p].value))
      BY <2>2, <2>4, <1>1 DEF WriteBack, CellsIInv
    <3>2. adapter = "deno"
      BY <3>1, <1>1, CellsAssumption DEF HeldIsOld, OneStep, Promised, CellsIInv, CellsTyped
    <3>3. entry[p].value = cells[req[p].cell]
      BY <3>1, <3>2 DEF HeldIsOld, Checked
    <3> QED BY <3>1, <3>3 DEF Store
  <2> QED BY <2>1, <2>3, <2>4
<1> QED BY <1>1, CellsInvariance, PTL DEF CellsSpec, PromisedWritesAreAtomic

\* A request writes at most once and is answered accordingly: "done" after
\* one write, "lost" after none (modify() of deno-store.js, 29 to 42).
THEOREM AnswersAreTrueAlways == CellsSpec => []AnswersAreTrue
<1>1. CellsIInv => AnswersAreTrue
  BY DEF CellsIInv, CellsTyped, WritesOnce, AnswersAreTrue
<1> QED BY <1>1, CellsInvariance, PTL

\* Whoever gives up after ATTEMPTS tries was overtaken that often: the bound
\* of deno-store.js turns nobody away unless others got through.
THEOREM LossesAreOthersProgressAlways == CellsSpec => []LossesAreOthersProgress
<1>1. CellsIInv => LossesAreOthersProgress
  BY DEF CellsIInv, RefusalsAreOvertakings, LossesAreOthersProgress
<1> QED BY <1>1, CellsInvariance, PTL
=============================================================================
