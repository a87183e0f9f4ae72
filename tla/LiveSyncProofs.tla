--------------------------- MODULE LiveSyncProofs ---------------------------
(***************************************************************************)
(* LiveSync for any windows, keys and bounds.  The first part is about the *)
(* cells and the requests of a page: a page whose live sync has stopped    *)
(* says so, and the late answer of a request never takes the place of a    *)
(* value that was shown after it was made.  The second part adds what is   *)
(* on its way to a page: every change of a key the page follows was either *)
(* in an answer, is in a frame or an event still to come, or is recorded   *)
(* in gap, so a page with nothing under way shows what the store holds.    *)
(***************************************************************************)
EXTENDS LiveSync, ListsProofs, FiniteSetTheorems, TLAPS

IsRequest(r) == DOMAIN r = {"current", "answered", "value"} /\ r.current \in BOOLEAN

Shape ==
  /\ DOMAIN conn = Window /\ DOMAIN cell = Window /\ DOMAIN calls = Window
  /\ \E Kind : wire \in [Window -> Seq(Kind)]
  /\ \A w \in Window :
       /\ DOMAIN cell[w] = Wants[w] /\ DOMAIN calls[w] = Wants[w]
       /\ \A k \in Wants[w] : \A r \in calls[w][k] : IsRequest(r)

\* One request of a cell is current, while nothing newer is shown.
OneIsAwaited(requests, shown) ==
  /\ \A r \in requests : r.current => shown = Loading
  /\ \A r, s \in requests : r.current /\ s.current => r = s

Awaited == \A w \in Window : \A k \in Wants[w] : OneIsAwaited(calls[w][k], cell[w][k])

\* Giving up supersedes every request on the wire.
StoppedIsFinal ==
  \A w \in Window : conn[w] = "stopped" => \A k \in Wants[w] :
    /\ cell[w][k] = Failed
    /\ \A r \in calls[w][k] : ~r.current

IInv == Shape /\ Awaited /\ StoppedIsFinal

LEMMA InitIInv == ASSUME Init PROVE IInv
<1>1. wire \in [Window -> Seq({})]
  BY DEF Init
<1> QED BY <1>1 DEF Init, IInv, Shape, Awaited, OneIsAwaited, StoppedIsFinal

-----------------------------------------------------------------------------
(* The four ways to write a cell.                                          *)

LEMMA SupersededRequests ==
  ASSUME NEW requests, \A r \in requests : IsRequest(r)
  PROVE  \A r \in Superseded(requests) : IsRequest(r) /\ ~r.current
BY DEF Superseded, IsRequest

LEMMA AskedIsRequest == IsRequest(Asked)
BY DEF Asked, IsRequest

\* The cells and the requests of w are rewritten, and those of the other
\* windows are not.
Rewrites(w) ==
  /\ DOMAIN cell' = Window /\ DOMAIN calls' = Window
  /\ \A v \in Window \ {w} : cell'[v] = cell[v] /\ calls'[v] = calls[v]
  /\ DOMAIN cell'[w] = Wants[w] /\ DOMAIN calls'[w] = Wants[w]
  /\ \A k \in Wants[w] :
       /\ \A r \in calls'[w][k] : IsRequest(r)
       /\ OneIsAwaited(calls'[w][k], cell'[w][k])

LEMMA StartAllRewrites == ASSUME IInv, NEW w \in Window, StartAll(w) PROVE Rewrites(w)
<1>1. /\ DOMAIN cell' = Window /\ DOMAIN calls' = Window
      /\ \A v \in Window \ {w} : cell'[v] = cell[v] /\ calls'[v] = calls[v]
      /\ DOMAIN cell'[w] = Wants[w] /\ DOMAIN calls'[w] = Wants[w]
      /\ \A k \in Wants[w] : /\ cell'[w][k] = Loading
                             /\ calls'[w][k] = Superseded(calls[w][k]) \cup {Asked}
  BY DEF StartAll, IInv, Shape
<1>2. ASSUME NEW k \in Wants[w]
      PROVE  /\ \A r \in calls'[w][k] : IsRequest(r)
             /\ OneIsAwaited(calls'[w][k], cell'[w][k])
  <2>1. \A r \in calls[w][k] : IsRequest(r)
    BY DEF IInv, Shape
  <2>2. \A r \in Superseded(calls[w][k]) : IsRequest(r) /\ ~r.current
    BY <2>1, SupersededRequests
  <2> QED BY <1>1, <2>2, AskedIsRequest DEF OneIsAwaited
<1> QED BY <1>1, <1>2 DEF Rewrites

LEMMA ApplyUpdateRewrites ==
  ASSUME IInv, NEW w \in Window, NEW key \in Wants[w], NEW v, ApplyUpdate(w, key, v)
  PROVE  Rewrites(w)
<1>1. /\ DOMAIN cell' = Window /\ DOMAIN calls' = Window
      /\ \A u \in Window \ {w} : cell'[u] = cell[u] /\ calls'[u] = calls[u]
      /\ DOMAIN cell'[w] = Wants[w] /\ DOMAIN calls'[w] = Wants[w]
      /\ \A k \in Wants[w] \ {key} : cell'[w][k] = cell[w][k] /\ calls'[w][k] = calls[w][k]
      /\ calls'[w][key] = Superseded(calls[w][key])
  BY DEF ApplyUpdate, IInv, Shape
<1>2. \A r \in calls[w][key] : IsRequest(r)
  BY DEF IInv, Shape
<1>3. \A r \in calls'[w][key] : IsRequest(r) /\ ~r.current
  BY <1>1, <1>2, SupersededRequests
<1>4. \A k \in Wants[w] : OneIsAwaited(calls'[w][k], cell'[w][k])
  BY <1>1, <1>3 DEF OneIsAwaited, IInv, Awaited
<1>5. \A k \in Wants[w] : \A r \in calls'[w][k] : IsRequest(r)
  BY <1>1, <1>3 DEF IInv, Shape
<1> QED BY <1>1, <1>4, <1>5 DEF Rewrites

LEMMA FailAllRewrites ==
  ASSUME IInv, NEW w \in Window, FailAll(w)
  PROVE  /\ Rewrites(w)
         /\ \A k \in Wants[w] : cell'[w][k] = Failed /\ \A r \in calls'[w][k] : ~r.current
<1>1. /\ DOMAIN cell' = Window /\ DOMAIN calls' = Window
      /\ \A v \in Window \ {w} : cell'[v] = cell[v] /\ calls'[v] = calls[v]
      /\ DOMAIN cell'[w] = Wants[w] /\ DOMAIN calls'[w] = Wants[w]
      /\ \A k \in Wants[w] : /\ cell'[w][k] = Failed
                             /\ calls'[w][k] = Superseded(calls[w][k])
  BY DEF FailAll, IInv, Shape
<1>2. ASSUME NEW k \in Wants[w]
      PROVE  \A r \in calls'[w][k] : IsRequest(r) /\ ~r.current
  <2>1. \A r \in calls[w][k] : IsRequest(r)
    BY DEF IInv, Shape
  <2> QED BY <1>1, <2>1, SupersededRequests
<1> QED BY <1>1, <1>2 DEF Rewrites, OneIsAwaited

\* A window that does not touch its cells rewrites them as they are.
LEMMA UntouchedRewrites ==
  ASSUME IInv, NEW w \in Window, UNCHANGED <<cell, calls>> PROVE Rewrites(w)
BY DEF IInv, Shape, Awaited, Rewrites

-----------------------------------------------------------------------------
(* The requests on the wire.                                               *)

LEMMA AnswerRewrites ==
  ASSUME IInv, NEW w \in Window, NEW k \in Wants[w], Answer(w, k)
  PROVE  /\ Rewrites(w) /\ cell' = cell
         /\ \A j \in Wants[w] : (\A r \in calls[w][j] : ~r.current)
                                  => \A r \in calls'[w][j] : ~r.current
<1>1. PICK r \in calls[w][k] :
        /\ calls' = [calls EXCEPT ![w][k] =
                       (calls[w][k] \ {r}) \cup {[r EXCEPT !.answered = TRUE, !.value = db[k]]}]
        /\ cell' = cell
  BY DEF Answer
<1> DEFINE new == [r EXCEPT !.answered = TRUE, !.value = db[k]]
<1>2. IsRequest(r) /\ IsRequest(new) /\ new.current = r.current
  BY DEF IInv, Shape, IsRequest
<1>3. /\ DOMAIN calls' = Window /\ DOMAIN calls'[w] = Wants[w]
      /\ \A v \in Window \ {w} : calls'[v] = calls[v]
      /\ \A j \in Wants[w] \ {k} : calls'[w][j] = calls[w][j]
      /\ calls'[w][k] = (calls[w][k] \ {r}) \cup {new}
  BY <1>1 DEF IInv, Shape
<1> HIDE DEF new
<1>4. \A j \in Wants[w] : \A s \in calls'[w][j] : IsRequest(s)
  BY <1>2, <1>3 DEF IInv, Shape
<1>5. OneIsAwaited(calls[w][k], cell[w][k])
  BY DEF IInv, Awaited
<1>6. OneIsAwaited(calls'[w][k], cell'[w][k])
  BY <1>1, <1>2, <1>3, <1>5 DEF OneIsAwaited
<1>7. \A j \in Wants[w] : OneIsAwaited(calls'[w][j], cell'[w][j])
  BY <1>1, <1>3, <1>6 DEF IInv, Awaited
<1> QED BY <1>1, <1>2, <1>3, <1>4, <1>7 DEF IInv, Shape, Rewrites

\* An answer is shown only if its request is current, and then the cell was
\* Loading.
LEMMA SettleRewrites ==
  ASSUME IInv, NEW w \in Window, NEW k \in Wants[w], Settle(w, k)
  PROVE  /\ Rewrites(w)
         /\ \A j \in Wants[w] : calls'[w][j] \subseteq calls[w][j]
         /\ \A j \in Wants[w] : cell'[w][j] # cell[w][j] =>
              cell[w][j] = Loading /\ \E r \in calls[w][j] : r.current
<1>1. PICK r \in calls[w][k] : \E lost \in BOOLEAN :
        /\ calls' = [calls EXCEPT ![w][k] = calls[w][k] \ {r}]
        /\ cell' = IF r.current
                     THEN [cell EXCEPT ![w][k] = IF lost THEN Failed ELSE Ready(r.value)]
                     ELSE cell
  BY DEF Settle
<1>2. /\ DOMAIN calls' = Window /\ DOMAIN calls'[w] = Wants[w]
      /\ \A v \in Window \ {w} : calls'[v] = calls[v]
      /\ \A j \in Wants[w] \ {k} : calls'[w][j] = calls[w][j]
      /\ calls'[w][k] = calls[w][k] \ {r}
  BY <1>1 DEF IInv, Shape
<1>3. /\ DOMAIN cell' = Window /\ DOMAIN cell'[w] = Wants[w]
      /\ \A v \in Window \ {w} : cell'[v] = cell[v]
      /\ \A j \in Wants[w] \ {k} : cell'[w][j] = cell[w][j]
      /\ ~r.current => cell'[w][k] = cell[w][k]
  BY <1>1 DEF IInv, Shape
<1>4. OneIsAwaited(calls[w][k], cell[w][k])
  BY DEF IInv, Awaited
<1>5. OneIsAwaited(calls'[w][k], cell'[w][k])
  BY <1>2, <1>3, <1>4 DEF OneIsAwaited
<1>6. \A j \in Wants[w] : OneIsAwaited(calls'[w][j], cell'[w][j])
  BY <1>2, <1>3, <1>5 DEF IInv, Awaited
<1>7. \A j \in Wants[w] : \A s \in calls'[w][j] : IsRequest(s)
  BY <1>2 DEF IInv, Shape
<1>8. Rewrites(w)
  BY <1>2, <1>3, <1>6, <1>7 DEF Rewrites
<1>9. \A j \in Wants[w] : cell'[w][j] # cell[w][j] =>
        cell[w][j] = Loading /\ \E s \in calls[w][j] : s.current
  BY <1>3, <1>4 DEF OneIsAwaited
<1> QED BY <1>2, <1>8, <1>9

-----------------------------------------------------------------------------
(* Each step.                                                              *)

WireTyped == \E Kind : wire \in [Window -> Seq(Kind)]

\* A step of w that keeps the shape of the wire keeps the invariant, if it
\* leaves w stopped only with every cell Failed.
LEMMA Local ==
  ASSUME IInv, NEW w \in Window, Rewrites(w), WireTyped',
         DOMAIN conn' = Window, \A v \in Window \ {w} : conn'[v] = conn[v],
         conn'[w] = "stopped" => \A k \in Wants[w] :
           cell'[w][k] = Failed /\ \A r \in calls'[w][k] : ~r.current
  PROVE  IInv'
<1>1. Shape'
  <2>1. \A v \in Window :
          /\ DOMAIN cell'[v] = Wants[v] /\ DOMAIN calls'[v] = Wants[v]
          /\ \A k \in Wants[v] : \A r \in calls'[v][k] : IsRequest(r)
    BY DEF IInv, Shape, Rewrites
  <2>2. DOMAIN cell' = Window /\ DOMAIN calls' = Window
    BY DEF Rewrites
  <2> QED BY <2>1, <2>2 DEF Shape, WireTyped
<1>2. Awaited'
  BY DEF IInv, Awaited, Rewrites
<1>3. StoppedIsFinal'
  BY DEF IInv, StoppedIsFinal, Rewrites
<1> QED BY <1>1, <1>2, <1>3 DEF IInv

\* The frames of one window are replaced.
LEMMA WireReplaced ==
  ASSUME IInv, NEW w \in Window, NEW Kind, NEW frames \in Seq(Kind),
         wire' = [wire EXCEPT ![w] = frames]
  PROVE  WireTyped'
<1>1. PICK Old : wire \in [Window -> Seq(Old)]
  BY DEF IInv, Shape
<1>2. Seq(Old) \subseteq Seq(Old \cup Kind) /\ Seq(Kind) \subseteq Seq(Old \cup Kind)
  OBVIOUS
<1>3. wire' \in [Window -> Seq(Old \cup Kind)]
  BY <1>1, <1>2
<1> QED BY <1>3 DEF WireTyped

LEMMA WireKept == ASSUME IInv, wire' = wire PROVE WireTyped'
BY DEF IInv, Shape, WireTyped

LEMMA RetryKeeps ==
  ASSUME IInv, NEW w \in Window, Retry(w), WireTyped', conn[w] # "stopped" PROVE IInv'
<1>1. DOMAIN conn' = Window /\ \A v \in Window \ {w} : conn'[v] = conn[v]
  BY DEF Retry, IInv, Shape
<1>2. CASE conn'[w] = "stopped"
  <2>1. FailAll(w)
    BY <1>2 DEF Retry, IInv, Shape
  <2> QED BY <1>1, <2>1, FailAllRewrites, Local
<1>3. CASE conn'[w] # "stopped"
  <2>1. FailAll(w) \/ UNCHANGED <<cell, calls>>
    BY DEF Retry
  <2> QED BY <1>1, <1>3, <2>1, FailAllRewrites, UntouchedRewrites, Local
<1> QED BY <1>2, <1>3

LEMMA StreamKeeps ==
  ASSUME IInv, NEW w \in Window, Accept(w) \/ Pump(w) \/ Receive(w) PROVE IInv'
<1>1. PICK Kind : wire \in [Window -> Seq(Kind)]
  BY DEF IInv, Shape
<1>2. CASE Accept(w)
  <2>1. <<ReadyFrame>> \in Seq({ReadyFrame})
    OBVIOUS
  <2>2. WireTyped'
    BY <1>2, <2>1, WireReplaced DEF Accept
  <2>3. UNCHANGED <<cell, calls>> /\ conn'[w] = "open" /\ DOMAIN conn' = Window
        /\ \A v \in Window \ {w} : conn'[v] = conn[v]
    BY <1>2 DEF Accept, IInv, Shape
  <2> QED BY <2>2, <2>3, UntouchedRewrites, Local
<1>3. CASE Pump(w)
  <2> DEFINE frame == UpdateFrame(Head(subs[w].pending \o subs[w].rx))
  <2>1. wire' = [wire EXCEPT ![w] = Append(wire[w], frame)]
    BY <1>3 DEF Pump
  <2>2. wire[w] \in Seq(Kind)
    BY <1>1
  <2> HIDE DEF frame
  <2>3. Append(wire[w], frame) \in Seq(Kind \cup {frame})
    BY <2>2
  <2>4. WireTyped'
    BY <2>1, <2>3, WireReplaced
  <2>5. UNCHANGED <<cell, calls, conn>> /\ conn[w] = "open"
    BY <1>3 DEF Pump
  <2> QED BY <2>4, <2>5, UntouchedRewrites, Local DEF IInv, Shape
<1>4. CASE Receive(w)
  <2>1. wire' = [wire EXCEPT ![w] = Tail(wire[w])] /\ wire[w] # <<>>
        /\ conn' = conn /\ conn[w] = "open"
    BY <1>4 DEF Receive
  <2>2. Tail(wire[w]) \in Seq(Kind)
    BY <1>1, <2>1
  <2>3. WireTyped'
    BY <2>1, <2>2, WireReplaced
  <2>4. Rewrites(w)
    <3> DEFINE frame == Head(wire[w])
    <3>1. \/ StartAll(w)
          \/ frame.key \in Wants[w] /\ ApplyUpdate(w, frame.key, frame.value)
          \/ UNCHANGED <<cell, calls>>
      BY <1>4 DEF Receive
    <3> HIDE DEF frame
    <3> QED BY <3>1, StartAllRewrites, ApplyUpdateRewrites, UntouchedRewrites
  <2> QED BY <2>1, <2>3, <2>4, Local DEF IInv, Shape
<1> QED BY <1>2, <1>3, <1>4

LEMMA PageKeeps ==
  ASSUME IInv, NEW w \in Window,
         Load(w) \/ Refused(w) \/ Cut(w) \/ Reconnect(w) \/ Unload(w) PROVE IInv'
<1>1. <<>> \in Seq({})
  OBVIOUS
<1>2. CASE Load(w)
  <2>1. /\ StartAll(w) /\ wire' = wire /\ conn'[w] = "connecting" /\ DOMAIN conn' = Window
        /\ \A v \in Window \ {w} : conn'[v] = conn[v]
    BY <1>2 DEF Load, IInv, Shape
  <2> QED BY <2>1, StartAllRewrites, WireKept, Local
<1>3. CASE Refused(w)
  BY <1>3, WireKept, RetryKeeps DEF Refused
<1>4. CASE Cut(w)
  BY <1>1, <1>4, WireReplaced, RetryKeeps DEF Cut
<1>5. CASE Reconnect(w)
  <2>1. /\ UNCHANGED <<wire, cell, calls>> /\ conn'[w] = "connecting" /\ DOMAIN conn' = Window
        /\ \A v \in Window \ {w} : conn'[v] = conn[v]
    BY <1>5 DEF Reconnect, IInv, Shape
  <2> QED BY <2>1, UntouchedRewrites, WireKept, Local
<1>6. CASE Unload(w)
  <2>1. /\ conn'[w] = "none" /\ DOMAIN conn' = Window
        /\ \A v \in Window \ {w} : conn'[v] = conn[v]
    BY <1>6 DEF Unload, IInv, Shape
  <2>2. Rewrites(w)
    BY <1>6 DEF Unload, IInv, Shape, Rewrites, OneIsAwaited
  <2>3. WireTyped'
    BY <1>1, <1>6, WireReplaced DEF Unload
  <2> QED BY <2>1, <2>2, <2>3, Local
<1> QED BY <1>2, <1>3, <1>4, <1>5, <1>6

LEMMA RequestKeeps ==
  ASSUME IInv, NEW w \in Window, NEW k \in Wants[w], Answer(w, k) \/ Settle(w, k) PROVE IInv'
<1>1. conn' = conn /\ wire' = wire
  BY DEF Answer, Settle
<1>2. conn[w] = "stopped" => \A j \in Wants[w] :
        cell[w][j] = Failed /\ \A r \in calls[w][j] : ~r.current
  BY DEF IInv, StoppedIsFinal
<1>3. CASE Answer(w, k)
  BY <1>1, <1>2, <1>3, AnswerRewrites, WireKept, Local DEF IInv, Shape
<1>4. CASE Settle(w, k)
  <2>1. conn[w] = "stopped" => \A j \in Wants[w] :
          cell'[w][j] = Failed /\ \A r \in calls'[w][j] : ~r.current
    BY <1>2, <1>4, SettleRewrites
  <2> QED BY <1>1, <1>4, <2>1, SettleRewrites, WireKept, Local DEF IInv, Shape
<1> QED BY <1>3, <1>4

LEMMA NextIInv == ASSUME IInv, [Next]_vars PROVE IInv'
<1>1. ASSUME UNCHANGED <<conn, wire, cell, calls>> PROVE IInv'
  BY <1>1 DEF IInv, Shape, Awaited, StoppedIsFinal
<1>2. CASE (\E k \in Key : Write(k)) \/ Restart \/ UNCHANGED vars
  BY <1>1, <1>2 DEF Write, Restart, vars, pageVars
<1> QED BY <1>2, StreamKeeps, PageKeeps, RequestKeeps DEF Next

LEMMA Invariance == Spec => []IInv
BY InitIInv, NextIInv, PTL DEF Spec

-----------------------------------------------------------------------------
(* What the requests alone show.                                           *)

\* Once the retry policy has given up, every cell of the page is Failed, and
\* no request that was on the wire can change that (store.js, `fail`).
THEOREM StoppedPagesAlwaysSaySo == Spec => []StoppedPagesSaySo
<1>1. IInv => StoppedPagesSaySo
  BY DEF IInv, StoppedIsFinal, StoppedPagesSaySo
<1> QED BY <1>1, Invariance, PTL

\* What AnswersNeverGoBack says of one step.
NoAnswerGoesBack ==
  \A w \in Window : \A k \in Wants[w] :
    /\ cell'[w][k] # cell[w][k] /\ cell[w][k].tag = "Ready" /\ cell'[w][k].tag = "Ready"
    /\ wire' = wire /\ cell[w][k].value # None
    => cell'[w][k].value # None /\ cell'[w][k].value >= cell[w][k].value

LEMMA LoadingIsNotReady == Loading.tag # "Ready" /\ Failed.tag # "Ready"
BY DEF Loading, Failed

\* A step that reads no frame and makes a cell Ready is the answer of the
\* request the cell was Loading for.
LEMMA StepsNeverGoBack == ASSUME IInv, [Next]_vars PROVE NoAnswerGoesBack
<1> SUFFICES ASSUME NEW w \in Window, NEW k \in Wants[w],
                    cell'[w][k] # cell[w][k], cell[w][k].tag = "Ready",
                    cell'[w][k].tag = "Ready", wire' = wire
             PROVE  FALSE
  BY DEF NoAnswerGoesBack
<1>1. cell[w][k] # Loading /\ cell'[w][k] \notin {Loading, Failed} /\ cell' # cell
  BY LoadingIsNotReady
<1>2. PICK v \in Window :
        \/ Load(v) \/ Receive(v) \/ Refused(v) \/ Cut(v) \/ Unload(v)
        \/ \E j \in Wants[v] : Settle(v, j)
  <2>1. cell' # cell
    BY <1>1
  <2> QED BY <2>1 DEF Next, Write, Accept, Pump, Reconnect, Answer, Restart, vars, pageVars
<1>3. ASSUME cell' = [cell EXCEPT ![v] = cell'[v]],
             \A j \in Wants[v] : cell'[v][j] \in {Loading, Failed, cell[v][j]}
      PROVE  FALSE
  BY <1>1, <1>3 DEF IInv, Shape
<1>4. CASE Load(v)
  BY <1>3, <1>4 DEF Load, StartAll, IInv, Shape
<1>5. CASE Receive(v)
  <2>1. PICK Kind : wire \in [Window -> Seq(Kind)]
    BY DEF IInv, Shape
  <2>2. wire' = [wire EXCEPT ![v] = Tail(wire[v])] /\ wire[v] # <<>> /\ wire[v] \in Seq(Kind)
    BY <1>5, <2>1 DEF Receive
  <2>3. Len(Tail(wire[v])) = Len(wire[v]) - 1 /\ Len(wire[v]) \in Nat
    BY <2>2
  <2>4. Tail(wire[v]) = wire[v]
    BY <2>1, <2>2
  <2>5. Len(wire[v]) = Len(wire[v]) - 1
    BY <2>3, <2>4
  <2> QED BY <2>3, <2>5
<1>6. CASE Refused(v) \/ Cut(v)
  <2>1. FailAll(v) \/ cell' = cell
    BY <1>6 DEF Refused, Cut, Retry
  <2>2. FailAll(v) => cell'[w] = cell[w] \/ cell'[w][k] = Failed
    BY FailAllRewrites DEF Rewrites
  <2> QED BY <1>1, <2>1, <2>2
<1>7. CASE Unload(v)
  BY <1>3, <1>7 DEF Unload, IInv, Shape
<1>8. ASSUME NEW j \in Wants[v], Settle(v, j) PROVE FALSE
  BY <1>1, <1>8, SettleRewrites DEF Rewrites
<1> QED BY <1>2, <1>4, <1>5, <1>6, <1>7, <1>8

\* A value that was pushed is never replaced by the late answer of a request
\* made before it (store.js, the generation every write of a cell claims).
THEOREM AnswersNeverGoBackEver == Spec => AnswersNeverGoBack
<1>1. IInv /\ [Next]_vars => [NoAnswerGoesBack]_cell
  BY StepsNeverGoBack
<1> QED BY <1>1, Invariance, PTL DEF Spec, AnswersNeverGoBack, NoAnswerGoesBack

-----------------------------------------------------------------------------
(* What is on its way to a page: frames, and events that will be frames.   *)

FrameSet == [name : {"ready", "update"}, seq : Nat, key : Key \cup {NoKey},
             value : Slot, resync : BOOLEAN]

\* A frame that hands the page a change, and one that says only that there
\* were changes.
Tells(frame) == frame.name = "update" /\ ~frame.resync
Admits(frame) == frame.name = "update" /\ frame.resync

\* Every frame is of the log and newer than what the page was told.
Honest(frames, lg, want, from) ==
  \A i \in 1 .. Len(frames) :
    /\ frames[i].resync => frames[i].name = "update"
    /\ frames[i].name = "update" => from < frames[i].seq /\ frames[i].seq <= Len(lg)
    /\ Tells(frames[i]) => /\ frames[i].key \in want /\ frames[i].value = frames[i].seq
                           /\ frames[i].key = lg[frames[i].seq].key

\* Changes come in their order, and nothing comes before a resync.
Ordered(frames) ==
  \A i, j \in 1 .. Len(frames) :
    i < j /\ frames[i].name = "update" /\ frames[j].name = "update" =>
      frames[i].seq < frames[j].seq /\ ~frames[j].resync

\* Whatever follows a change that is told is told too.
Complete(frames, lg, want) ==
  \A i \in 1 .. Len(frames) : \A n \in 1 .. Len(lg) :
    Tells(frames[i]) /\ frames[i].seq < n /\ lg[n].key \in want =>
      \E j \in 1 .. Len(frames) : Tells(frames[j]) /\ frames[j].seq = n

Flows(frames, lg, want, from) ==
  /\ frames \in Seq(FrameSet)
  /\ Honest(frames, lg, want, from) /\ Ordered(frames) /\ Complete(frames, lg, want)

\* The frames will say something of k, or that they cannot.
Brings(frames, k) ==
  \E i \in 1 .. Len(frames) : Admits(frames[i]) \/ (Tells(frames[i]) /\ frames[i].key = k)

LEMMA FlowsNothing ==
  ASSUME NEW lg, NEW want, NEW from PROVE Flows(<<>>, lg, want, from)
<1>1. <<>> \in Seq(FrameSet) /\ Len(<<>>) = 0
  OBVIOUS
<1> QED BY <1>1 DEF Flows, Honest, Ordered, Complete

\* The page reads the first frame.
LEMMA FlowsTail ==
  ASSUME NEW lg, NEW want, NEW from \in Nat, NEW frames, Flows(frames, lg, want, from),
         frames # <<>>,
         NEW now, now = IF Head(frames).name = "update" THEN Head(frames).seq ELSE from
  PROVE  Flows(Tail(frames), lg, want, now)
<1> DEFINE L == Len(frames)
           rest == Tail(frames)
<1>1. /\ frames \in Seq(FrameSet) /\ L \in Nat /\ L >= 1 /\ Head(frames) = frames[1]
      /\ rest \in Seq(FrameSet) /\ Len(rest) = L - 1
      /\ \A i \in 1 .. L - 1 : rest[i] = frames[i + 1] /\ i + 1 \in 1 .. L
  BY DEF Flows
<1>2. \A i \in 1 .. L : frames[i] \in FrameSet
  BY <1>1
<1>3. \A i \in 1 .. L : frames[i].seq \in Nat
  BY <1>2 DEF FrameSet
<1> HIDE DEF rest, L
<1>4. Honest(rest, lg, want, now)
  <2> SUFFICES ASSUME NEW i \in 1 .. L - 1
               PROVE  /\ rest[i].resync => rest[i].name = "update"
                      /\ rest[i].name = "update" => now < rest[i].seq /\ rest[i].seq <= Len(lg)
                      /\ Tells(rest[i]) => /\ rest[i].key \in want /\ rest[i].value = rest[i].seq
                                           /\ rest[i].key = lg[rest[i].seq].key
    BY <1>1 DEF Honest
  <2>1. rest[i] = frames[i + 1] /\ i + 1 \in 1 .. L /\ 1 < i + 1 /\ 1 \in 1 .. L
    BY <1>1
  <2>2. Honest(frames, lg, want, from) /\ Ordered(frames)
    BY DEF Flows
  <2>3. rest[i].name = "update" => now < rest[i].seq
    BY <1>1, <2>1, <2>2 DEF Honest, Ordered, L
  <2> QED BY <2>1, <2>2, <2>3 DEF Honest, L
<1>5. Ordered(rest)
  <2> SUFFICES ASSUME NEW i \in 1 .. L - 1, NEW j \in 1 .. L - 1, i < j,
                      rest[i].name = "update", rest[j].name = "update"
               PROVE  rest[i].seq < rest[j].seq /\ ~rest[j].resync
    BY <1>1 DEF Ordered
  <2>1. rest[i] = frames[i + 1] /\ rest[j] = frames[j + 1] /\ i + 1 < j + 1
        /\ i + 1 \in 1 .. L /\ j + 1 \in 1 .. L
    BY <1>1
  <2> QED BY <2>1 DEF Flows, Ordered, L
<1>6. Complete(rest, lg, want)
  <2> SUFFICES ASSUME NEW i \in 1 .. L - 1, NEW n \in 1 .. Len(lg),
                      Tells(rest[i]), rest[i].seq < n, lg[n].key \in want
               PROVE  \E j \in 1 .. L - 1 : Tells(rest[j]) /\ rest[j].seq = n
    BY <1>1 DEF Complete
  <2>1. rest[i] = frames[i + 1] /\ i + 1 \in 1 .. L /\ 1 \in 1 .. L
    BY <1>1
  <2>2. PICK j \in 1 .. L : Tells(frames[j]) /\ frames[j].seq = n
    BY <2>1 DEF Flows, Complete, L
  <2>3. j # 1
    <3>1. frames[1].name = "update" => frames[1].seq < frames[i + 1].seq
      <4>1. 1 < i + 1 /\ frames[i + 1].name = "update"
        BY <2>1 DEF Tells
      <4> QED BY <2>1, <4>1 DEF Flows, Ordered, L
    <3>2. frames[1].seq \in Nat /\ frames[i + 1].seq \in Nat /\ frames[i + 1].seq < n
      BY <1>3, <2>1
    <3>3. frames[1].seq = n /\ frames[1].name = "update" => FALSE
      BY <3>1, <3>2
    <3> QED BY <2>2, <3>3 DEF Tells
  <2>4. j - 1 \in 1 .. L - 1 /\ rest[j - 1] = frames[j]
    BY <1>1, <2>2, <2>3
  <2> QED BY <2>2, <2>4
<1> QED BY <1>1, <1>4, <1>5, <1>6 DEF Flows, rest

\* A change is announced to the page.
LEMMA FlowsMore ==
  ASSUME NEW lg \in Seq(Announcement), NEW u \in Announcement,
         u.seq = Len(lg) + 1, u.value = u.seq,
         NEW want, u.key \in want, NEW from \in Nat, from <= Len(lg),
         NEW frames, Flows(frames, lg, want, from),
         NEW frame \in FrameSet, Tells(frame),
         frame.seq = u.seq, frame.key = u.key, frame.value = u.value
  PROVE  Flows(Append(frames, frame), Append(lg, u), want, from)
<1> DEFINE L == Len(frames)
           N == Len(lg)
           more == Append(frames, frame)
           longer == Append(lg, u)
<1>1. /\ frames \in Seq(FrameSet) /\ L \in Nat /\ N \in Nat
      /\ more \in Seq(FrameSet) /\ Len(more) = L + 1 /\ more[L + 1] = frame
      /\ \A i \in 1 .. L : more[i] = frames[i]
      /\ Len(longer) = N + 1 /\ longer[N + 1] = u /\ \A n \in 1 .. N : longer[n] = lg[n]
  BY DEF Flows
<1>2. \A i \in 1 .. L : frames[i].seq \in Nat
  <2>1. \A i \in 1 .. L : frames[i] \in FrameSet
    BY <1>1
  <2> QED BY <2>1 DEF FrameSet
<1>3. Honest(frames, lg, want, from) /\ Ordered(frames) /\ Complete(frames, lg, want)
  BY DEF Flows
<1> HIDE DEF L, N, more, longer
<1>4. \A i \in 1 .. L + 1 : i \in 1 .. L \/ i = L + 1
  BY <1>1
<1>5. Honest(more, longer, want, from)
  <2>1. ASSUME NEW i \in 1 .. L
        PROVE  /\ more[i].resync => more[i].name = "update"
               /\ more[i].name = "update" => from < more[i].seq /\ more[i].seq <= N + 1
               /\ Tells(more[i]) => /\ more[i].key \in want /\ more[i].value = more[i].seq
                                    /\ more[i].key = longer[more[i].seq].key
    <3>1. more[i] = frames[i] /\ frames[i].seq \in Nat
      BY <1>1, <1>2
    <3>2. /\ frames[i].resync => frames[i].name = "update"
          /\ frames[i].name = "update" => from < frames[i].seq /\ frames[i].seq <= N
          /\ Tells(frames[i]) => /\ frames[i].key \in want /\ frames[i].value = frames[i].seq
                                 /\ frames[i].key = lg[frames[i].seq].key
      BY <1>3 DEF Honest, L, N
    <3>3. Tells(frames[i]) => frames[i].seq \in 1 .. N
      BY <1>1, <3>1, <3>2 DEF Tells
    <3> QED BY <1>1, <3>1, <3>2, <3>3
  <2>2. /\ more[L + 1].resync => more[L + 1].name = "update"
        /\ more[L + 1].name = "update" => from < more[L + 1].seq /\ more[L + 1].seq <= N + 1
        /\ Tells(more[L + 1]) => /\ more[L + 1].key \in want
                                 /\ more[L + 1].value = more[L + 1].seq
                                 /\ more[L + 1].key = longer[more[L + 1].seq].key
    BY <1>1 DEF Tells, N
  <2> QED BY <1>1, <1>4, <2>1, <2>2 DEF Honest
<1>6. Ordered(more)
  <2> SUFFICES ASSUME NEW i \in 1 .. L + 1, NEW j \in 1 .. L + 1, i < j,
                      more[i].name = "update", more[j].name = "update"
               PROVE  more[i].seq < more[j].seq /\ ~more[j].resync
    BY <1>1 DEF Ordered
  <2>1. i \in 1 .. L /\ more[i] = frames[i] /\ frames[i].seq \in Nat
    BY <1>1, <1>2
  <2>2. CASE j = L + 1
    <3>1. frames[i].seq <= N
      BY <1>3, <2>1 DEF Honest, L, N
    <3> QED BY <1>1, <2>1, <2>2, <3>1 DEF Tells, N
  <2>3. CASE j # L + 1
    <3>1. j \in 1 .. L /\ more[j] = frames[j]
      BY <1>1, <2>3
    <3> QED BY <1>3, <2>1, <3>1 DEF Ordered, L
  <2> QED BY <2>2, <2>3
<1>7. Complete(more, longer, want)
  <2> SUFFICES ASSUME NEW i \in 1 .. L + 1, NEW n \in 1 .. N + 1,
                      Tells(more[i]), more[i].seq < n, longer[n].key \in want
               PROVE  \E j \in 1 .. L + 1 : Tells(more[j]) /\ more[j].seq = n
    BY <1>1 DEF Complete
  <2>1. CASE n = N + 1
    BY <1>1, <2>1 DEF N
  <2>2. CASE n # N + 1
    <3>1. n \in 1 .. N /\ lg[n].key \in want
      BY <1>1, <2>2
    <3>2. i # L + 1
      BY <1>1, <3>1 DEF N
    <3>3. i \in 1 .. L /\ Tells(frames[i]) /\ frames[i].seq < n
      BY <1>1, <3>2
    <3>4. PICK j \in 1 .. L : Tells(frames[j]) /\ frames[j].seq = n
      BY <1>3, <3>1, <3>3 DEF Complete, L, N
    <3> QED BY <1>1, <3>4
  <2> QED BY <2>1, <2>2
<1> QED BY <1>1, <1>5, <1>6, <1>7 DEF Flows, more, longer

\* A change is announced that the page does not follow.
LEMMA FlowsPast ==
  ASSUME NEW lg \in Seq(Announcement), NEW u \in Announcement,
         NEW want, u.key \notin want, NEW from \in Nat,
         NEW frames, Flows(frames, lg, want, from)
  PROVE  Flows(frames, Append(lg, u), want, from)
<1> DEFINE L == Len(frames)
           N == Len(lg)
           longer == Append(lg, u)
<1>1. /\ frames \in Seq(FrameSet) /\ L \in Nat /\ N \in Nat
      /\ Len(longer) = N + 1 /\ longer[N + 1] = u /\ \A n \in 1 .. N : longer[n] = lg[n]
  BY DEF Flows
<1>2. \A i \in 1 .. L : frames[i].seq \in Nat
  <2>1. \A i \in 1 .. L : frames[i] \in FrameSet
    BY <1>1
  <2> QED BY <2>1 DEF FrameSet
<1>3. Honest(frames, lg, want, from) /\ Ordered(frames) /\ Complete(frames, lg, want)
  BY DEF Flows
<1> HIDE DEF L, N, longer
<1>4. ASSUME NEW i \in 1 .. L
      PROVE  /\ frames[i].resync => frames[i].name = "update"
             /\ frames[i].name = "update" => from < frames[i].seq /\ frames[i].seq <= N + 1
             /\ Tells(frames[i]) => /\ frames[i].key \in want /\ frames[i].value = frames[i].seq
                                    /\ frames[i].key = longer[frames[i].seq].key
  <2>1. /\ frames[i].resync => frames[i].name = "update"
        /\ frames[i].name = "update" => from < frames[i].seq /\ frames[i].seq <= N
        /\ Tells(frames[i]) => /\ frames[i].key \in want /\ frames[i].value = frames[i].seq
                               /\ frames[i].key = lg[frames[i].seq].key
    BY <1>3 DEF Honest, L, N
  <2>2. Tells(frames[i]) => frames[i].seq \in 1 .. N
    BY <1>1, <1>2, <2>1 DEF Tells
  <2> QED BY <1>1, <1>2, <2>1, <2>2
<1>5. Honest(frames, longer, want, from)
  BY <1>1, <1>4 DEF Honest, L
<1>6. Complete(frames, longer, want)
  <2> SUFFICES ASSUME NEW i \in 1 .. L, NEW n \in 1 .. N + 1,
                      Tells(frames[i]), frames[i].seq < n, longer[n].key \in want
               PROVE  \E j \in 1 .. L : Tells(frames[j]) /\ frames[j].seq = n
    BY <1>1 DEF Complete, L
  <2>1. n \in 1 .. N /\ lg[n].key \in want
    BY <1>1
  <2> QED BY <1>3, <2>1 DEF Complete, L, N
<1> QED BY <1>1, <1>3, <1>5, <1>6 DEF Flows, longer

-----------------------------------------------------------------------------
(* The frames of one stream: those on the wire, then those of the queue.   *)

Carry(queue) == [i \in 1 .. Len(queue) |-> UpdateFrame(queue[i])]

Queue(w) == subs[w].pending \o subs[w].rx

Frames(w) == wire[w] \o Carry(Queue(w))

LEMMA FrameOfEvent ==
  ASSUME NEW event \in Event PROVE UpdateFrame(event) \in FrameSet
BY DEF Event, UpdateFrame, FrameSet, NoKey, Slot

LEMMA CarryProperties ==
  ASSUME NEW queue \in Seq(Event)
  PROVE  /\ Carry(queue) \in Seq(FrameSet) /\ Len(Carry(queue)) = Len(queue)
         /\ \A i \in 1 .. Len(queue) : Carry(queue)[i] = UpdateFrame(queue[i])
<1>1. Len(queue) \in Nat /\ \A i \in 1 .. Len(queue) : queue[i] \in Event
  BY LenProperties, ElementOfSeq
<1>2. Carry(queue) \in [1 .. Len(queue) -> FrameSet]
  BY <1>1, FrameOfEvent DEF Carry
<1>3. Carry(queue) \in Seq(FrameSet) /\ Len(Carry(queue)) = Len(queue)
  BY <1>1, <1>2
<1> QED BY <1>3 DEF Carry

LEMMA CarryNothing == Carry(<<>>) = <<>>
<1>1. Len(<<>>) = 0 /\ <<>> \in Seq(Event)
  BY EmptySeq
<1>2. Carry(<<>>) \in Seq(FrameSet) /\ Len(Carry(<<>>)) = 0
  BY <1>1, CarryProperties
<1> QED BY <1>2, EmptySeq

\* Frames are made one by one, from the first.
LEMMA CarryTail ==
  ASSUME NEW queue \in Seq(Event), queue # <<>>
  PROVE  /\ Carry(queue) # <<>> /\ Head(Carry(queue)) = UpdateFrame(Head(queue))
         /\ Carry(Tail(queue)) = Tail(Carry(queue))
<1> DEFINE L == Len(queue)
           left == Carry(Tail(queue))
           right == Tail(Carry(queue))
<1>1. L \in Nat /\ L >= 1
  BY EmptySeq, LenProperties
<1>2. /\ Tail(queue) \in Seq(Event) /\ Len(Tail(queue)) = L - 1 /\ Head(queue) = queue[1]
      /\ \A i \in 1 .. L - 1 : Tail(queue)[i] = queue[i + 1]
  BY HeadTailProperties
<1>3. /\ Carry(queue) \in Seq(FrameSet) /\ Len(Carry(queue)) = L
      /\ \A i \in 1 .. L : Carry(queue)[i] = UpdateFrame(queue[i])
  BY CarryProperties
<1>4. Carry(queue) # <<>>
  BY <1>1, <1>3, EmptySeq
<1>5. left \in Seq(FrameSet) /\ Len(left) = Len(Tail(queue))
      /\ \A i \in 1 .. Len(Tail(queue)) : left[i] = UpdateFrame(Tail(queue)[i])
  BY <1>2, CarryProperties
<1>6. /\ right \in Seq(FrameSet) /\ Len(right) = Len(Carry(queue)) - 1
      /\ Head(Carry(queue)) = Carry(queue)[1]
      /\ \A i \in 1 .. Len(Carry(queue)) - 1 : right[i] = Carry(queue)[i + 1]
  BY <1>3, <1>4, HeadTailProperties
<1>7. \A i \in 1 .. L - 1 : left[i] = right[i]
  <2>1. ASSUME NEW i \in 1 .. L - 1 PROVE left[i] = right[i]
    <3>1. i + 1 \in 1 .. L /\ i \in 1 .. Len(Tail(queue)) /\ i \in 1 .. Len(Carry(queue)) - 1
      BY <1>1, <1>2, <1>3
    <3>2. left[i] = UpdateFrame(queue[i + 1])
      BY <1>2, <1>5, <3>1
    <3> QED BY <1>3, <1>6, <3>1, <3>2
  <2> QED BY <2>1
<1>8. Len(left) = L - 1 /\ Len(right) = L - 1
  BY <1>2, <1>3, <1>5, <1>6
<1>9. Head(Carry(queue)) = UpdateFrame(Head(queue))
  <2>1. 1 \in 1 .. L
    BY <1>1
  <2> QED BY <1>2, <1>3, <1>6, <2>1
<1> HIDE DEF left, right
<1>10. left = right
  BY <1>5, <1>6, <1>7, <1>8, SeqEqual
<1> QED BY <1>4, <1>9, <1>10 DEF left, right

LEMMA CarryAppend ==
  ASSUME NEW queue \in Seq(Event), NEW event \in Event
  PROVE  Carry(Append(queue, event)) = Append(Carry(queue), UpdateFrame(event))
<1> DEFINE L == Len(queue)
           frame == UpdateFrame(event)
           longer == Append(queue, event)
           left == Carry(longer)
           right == Append(Carry(queue), frame)
<1>1. L \in Nat /\ frame \in FrameSet
  BY LenProperties, FrameOfEvent
<1>2. /\ longer \in Seq(Event) /\ Len(longer) = L + 1 /\ longer[L + 1] = event
      /\ \A i \in 1 .. L : longer[i] = queue[i]
  BY AppendProperties
<1>3. /\ Carry(queue) \in Seq(FrameSet) /\ Len(Carry(queue)) = L
      /\ \A i \in 1 .. L : Carry(queue)[i] = UpdateFrame(queue[i])
  BY CarryProperties
<1> HIDE DEF longer, frame
<1>4. /\ left \in Seq(FrameSet) /\ Len(left) = Len(longer)
      /\ \A i \in 1 .. Len(longer) : left[i] = UpdateFrame(longer[i])
  BY <1>2, CarryProperties
<1>5. /\ right \in Seq(FrameSet) /\ Len(right) = Len(Carry(queue)) + 1
      /\ right[Len(Carry(queue)) + 1] = frame
      /\ \A i \in 1 .. Len(Carry(queue)) : right[i] = Carry(queue)[i]
  BY <1>1, <1>3, AppendProperties
<1> HIDE DEF left, right
<1>6. ASSUME NEW i \in 1 .. L + 1 PROVE left[i] = right[i]
  <2>1. CASE i = L + 1
    <3>1. left[i] = UpdateFrame(event)
      BY <1>1, <1>2, <1>4, <2>1
    <3> QED BY <1>3, <1>5, <2>1, <3>1 DEF frame
  <2>2. CASE i # L + 1
    <3>1. i \in 1 .. L
      BY <1>1, <2>2
    <3>2. left[i] = UpdateFrame(queue[i])
      BY <1>1, <1>2, <1>4, <3>1
    <3> QED BY <1>3, <1>5, <3>1, <3>2
  <2> QED BY <2>1, <2>2
<1>7. Len(left) = L + 1 /\ Len(right) = L + 1
  BY <1>2, <1>3, <1>4, <1>5
<1>8. left = right
  BY <1>4, <1>5, <1>6, <1>7, SeqEqual
<1> QED BY <1>8 DEF left, right, longer, frame

\* Writing the next event as a frame moves nothing.
LEMMA CarryPumped ==
  ASSUME NEW written \in Seq(FrameSet), NEW queue \in Seq(Event), queue # <<>>
  PROVE  /\ Append(written, UpdateFrame(Head(queue))) \in Seq(FrameSet)
         /\ Append(written, UpdateFrame(Head(queue))) \o Carry(Tail(queue))
              = written \o Carry(queue)
<1> DEFINE frames == Carry(queue)
           first == Head(frames)
           rest == Tail(frames)
<1>1. frames \in Seq(FrameSet) /\ frames # <<>>
      /\ UpdateFrame(Head(queue)) = first /\ Carry(Tail(queue)) = rest
  BY CarryProperties, CarryTail
<1> HIDE DEF frames
<1>2. first \in FrameSet /\ rest \in Seq(FrameSet) /\ frames = <<first>> \o rest
  BY <1>1, HeadThenTail
<1> HIDE DEF first, rest
<1>3. <<first>> \in Seq(FrameSet) /\ Append(written, first) \in Seq(FrameSet)
      /\ Append(written, first) = written \o <<first>>
  BY <1>2, AppendProperties, AppendIsConcat
<1>4. (written \o <<first>>) \o rest = written \o (<<first>> \o rest)
  BY <1>2, <1>3, ConcatAssociative
<1> QED BY <1>1, <1>2, <1>3, <1>4 DEF frames

\* An announced event goes to the end.
LEMMA CarryMore ==
  ASSUME NEW written \in Seq(FrameSet), NEW queue \in Seq(Event), NEW event \in Event
  PROVE  written \o Carry(Append(queue, event)) = Append(written \o Carry(queue), UpdateFrame(event))
<1> DEFINE frames == Carry(queue)
           frame == UpdateFrame(event)
<1>1. frames \in Seq(FrameSet) /\ frame \in FrameSet
      /\ Carry(Append(queue, event)) = Append(frames, frame)
  BY CarryProperties, FrameOfEvent, CarryAppend
<1> HIDE DEF frames, frame
<1>2. <<frame>> \in Seq(FrameSet) /\ Append(frames, frame) = frames \o <<frame>>
  BY <1>1, AppendIsConcat
<1>3. written \o frames \in Seq(FrameSet)
  BY <1>1, ConcatProperties
<1>4. Append(written \o frames, frame) = (written \o frames) \o <<frame>>
  BY <1>1, <1>3, AppendIsConcat
<1>5. (written \o frames) \o <<frame>> = written \o (frames \o <<frame>>)
  BY <1>1, <1>2, ConcatAssociative
<1> QED BY <1>1, <1>2, <1>4, <1>5 DEF frames, frame

\* Taking the next event of a subscription takes the first of its queue.
LEMMA QueueTaken ==
  ASSUME SubscriptionsTypeOK, NEW w \in Subscriber, TryNext(w)
  PROVE  /\ Queue(w) \in Seq(Event) /\ Queue(w) # <<>>
         /\ Queue(w)' = Tail(Queue(w))
         /\ SubscriptionsTypeOK'
         /\ \A v \in Subscriber \ {w} : subs'[v] = subs[v]
         /\ subs'[w].live = subs[w].live
<1> DEFINE q == subs[w].pending
           r == subs[w].rx
<1>1. /\ q \in Seq(Event) /\ r \in Seq(Event) /\ subs[w].live \in BOOLEAN
      /\ subs[w] \in [live : BOOLEAN, pending : Seq(Event), rx : Seq(Event),
                      upto : Nat \cup {NoSeq}]
  BY DEF SubscriptionsTypeOK
<1>2. Queue(w) \in Seq(Event)
  BY <1>1, ConcatProperties DEF Queue
<1>3. \A list \in Seq(Event) : list # <<>> =>
        Tail(list) \in Seq(Event) /\ Head(list).seq \in Nat
  <2>1. ASSUME NEW list \in Seq(Event), list # <<>>
        PROVE  Tail(list) \in Seq(Event) /\ Head(list).seq \in Nat
    <3>1. Head(list) \in Event
      BY <2>1, HeadTailProperties
    <3> QED BY <2>1, <3>1, HeadTailProperties DEF Event
  <2> QED BY <2>1
<1>4. CASE q # <<>>
  <2>1. subs' = [subs EXCEPT ![w] = [subs[w] EXCEPT !.pending = Tail(q), !.upto = Head(q).seq]]
    BY <1>4 DEF TryNext
  <2>2. /\ subs'[w].pending = Tail(q) /\ subs'[w].rx = r /\ subs'[w].live = subs[w].live
        /\ \A v \in Subscriber \ {w} : subs'[v] = subs[v]
    BY <1>1, <2>1 DEF SubscriptionsTypeOK
  <2>3. SubscriptionsTypeOK'
    BY <1>1, <1>3, <1>4, <2>1 DEF SubscriptionsTypeOK
  <2>4. q \o r # <<>> /\ Tail(q \o r) = Tail(q) \o r
    BY <1>1, <1>4, TailOfConcat
  <2> QED BY <1>2, <2>2, <2>3, <2>4 DEF Queue
<1>5. CASE q = <<>>
  <2>1. r # <<>> /\ subs' = [subs EXCEPT ![w] = [subs[w] EXCEPT !.rx = Tail(r), !.upto = Head(r).seq]]
    BY <1>5 DEF TryNext
  <2>2. /\ subs'[w].pending = q /\ subs'[w].rx = Tail(r) /\ subs'[w].live = subs[w].live
        /\ \A v \in Subscriber \ {w} : subs'[v] = subs[v]
    BY <1>1, <2>1 DEF SubscriptionsTypeOK
  <2>3. SubscriptionsTypeOK'
    BY <1>1, <1>3, <2>1 DEF SubscriptionsTypeOK
  <2>4. q \o r = r /\ q \o Tail(r) = Tail(r)
    BY <1>1, <1>3, <1>5, <2>1, ConcatEmptySeq
  <2> QED BY <1>2, <2>1, <2>2, <2>3, <2>4 DEF Queue
<1> QED BY <1>4, <1>5

\* A stream begins with a frame that says nothing of the log.
LEMMA FlowsReady ==
  ASSUME NEW lg, NEW want, NEW from, NEW frames, Flows(frames, lg, want, from),
         generation \in Nat
  PROVE  /\ Flows(<<ReadyFrame>> \o frames, lg, want, from)
         /\ <<ReadyFrame>> \in Seq(FrameSet)
         /\ \A k : Brings(frames, k) => Brings(<<ReadyFrame>> \o frames, k)
<1> DEFINE L == Len(frames)
           one == <<ReadyFrame>>
           both == one \o frames
<1>1. frames \in Seq(FrameSet) /\ L \in Nat
      /\ Honest(frames, lg, want, from) /\ Ordered(frames) /\ Complete(frames, lg, want)
  BY LenProperties DEF Flows
<1>2. /\ ReadyFrame \in FrameSet /\ ReadyFrame.name = "ready" /\ ~ReadyFrame.resync
      /\ ~Tells(ReadyFrame)
  BY DEF ReadyFrame, FrameSet, Tells, NoKey, Slot
<1>3. one \in Seq(FrameSet) /\ Len(one) = 1 /\ one[1] = ReadyFrame
  BY <1>2
<1> HIDE DEF one
<1>4. /\ both \in Seq(FrameSet) /\ Len(both) = Len(one) + Len(frames)
      /\ \A i \in 1 .. Len(one) + Len(frames) :
           both[i] = IF i <= Len(one) THEN one[i] ELSE frames[i - Len(one)]
  BY <1>1, <1>3, ConcatProperties
<1> HIDE DEF both
<1>5. /\ Len(both) = 1 + L /\ both[1] = ReadyFrame
      /\ \A i \in 1 .. L : both[i + 1] = frames[i]
      /\ \A i \in 1 .. 1 + L : i = 1 \/ (i - 1 \in 1 .. L /\ both[i] = frames[i - 1])
  BY <1>1, <1>3, <1>4
<1> HIDE DEF L
<1>6. Honest(both, lg, want, from)
  BY <1>1, <1>2, <1>5 DEF Honest, L
<1>7. Ordered(both)
  <2> SUFFICES ASSUME NEW i \in 1 .. 1 + L, NEW j \in 1 .. 1 + L, i < j,
                      both[i].name = "update", both[j].name = "update"
               PROVE  both[i].seq < both[j].seq /\ ~both[j].resync
    BY <1>5 DEF Ordered
  <2>1. /\ i - 1 \in 1 .. L /\ j - 1 \in 1 .. L /\ i - 1 < j - 1
        /\ both[i] = frames[i - 1] /\ both[j] = frames[j - 1]
    BY <1>1, <1>2, <1>5
  <2> QED BY <1>1, <2>1 DEF Ordered, L
<1>8. Complete(both, lg, want)
  <2> SUFFICES ASSUME NEW i \in 1 .. 1 + L, NEW n \in 1 .. Len(lg),
                      Tells(both[i]), both[i].seq < n, lg[n].key \in want
               PROVE  \E j \in 1 .. 1 + L : Tells(both[j]) /\ both[j].seq = n
    BY <1>5 DEF Complete
  <2>1. i - 1 \in 1 .. L /\ both[i] = frames[i - 1]
    BY <1>2, <1>5
  <2>2. PICK j \in 1 .. L : Tells(frames[j]) /\ frames[j].seq = n
    BY <1>1, <2>1 DEF Complete, L
  <2>3. j + 1 \in 1 .. 1 + L /\ both[j + 1] = frames[j]
    BY <1>1, <1>5
  <2> QED BY <2>2, <2>3
<1>9. ASSUME NEW k, Brings(frames, k) PROVE Brings(both, k)
  <2>1. PICK i \in 1 .. L : Admits(frames[i]) \/ (Tells(frames[i]) /\ frames[i].key = k)
    BY <1>9 DEF Brings, L
  <2>2. i + 1 \in 1 .. 1 + L /\ both[i + 1] = frames[i]
    BY <1>1, <1>5
  <2> QED BY <1>5, <2>1, <2>2 DEF Brings
<1> QED BY <1>3, <1>4, <1>6, <1>7, <1>8, <1>9 DEF Flows, one, both

\* The log goes on for k after a position.
Beyond(lg, from, k) == \E n \in 1 .. Len(lg) : n > from /\ lg[n].key = k

\* What a plain queue brings.
LEMMA FlowsPlain ==
  ASSUME NEW lg \in Seq(Announcement), \A i \in 1 .. Len(lg) : lg[i].seq = i /\ lg[i].value = i,
         NEW want, NEW since \in Nat, NEW from \in Nat, from <= since,
         NEW events \in Seq(Event), Plain(events, since, Len(lg), lg, want)
  PROVE  /\ Flows(Carry(events), lg, want, from)
         /\ \A k \in want : Beyond(lg, since, k) => Brings(Carry(events), k)
<1> DEFINE L == Len(events)
           N == Len(lg)
           frames == Carry(events)
           numbers == Between(since, N, lg, want)
<1>0. L \in Nat /\ N \in Nat
  BY LenProperties
<1>1. /\ frames \in Seq(FrameSet) /\ Len(frames) = L
      /\ \A i \in 1 .. L : frames[i] = UpdateFrame(events[i])
  BY CarryProperties
<1>2. /\ Enumerates(events, numbers) /\ Faithful(events, lg)
  BY DEF Plain
<1>3. /\ \A i \in 1 .. L : events[i].seq \in numbers
      /\ \A n \in numbers : \E i \in 1 .. L : events[i].seq = n
      /\ \A i, j \in 1 .. L : i < j => events[i].seq < events[j].seq
  BY <1>2 DEF Enumerates
<1>4. \A n \in numbers : n \in 1 .. N /\ n > since /\ lg[n].key \in want
  BY DEF Between
<1>4a. \A n \in 1 .. N : n > since /\ lg[n].key \in want => n \in numbers
  BY DEF Between
<1> HIDE DEF numbers, frames
<1>5. \A i \in 1 .. L : /\ ~events[i].resync
                        /\ events[i].key = lg[events[i].seq].key
                        /\ events[i].value = lg[events[i].seq].value
  BY <1>2 DEF Faithful
<1>6. ASSUME NEW i \in 1 .. L
      PROVE  /\ Tells(frames[i]) /\ frames[i].name = "update" /\ ~frames[i].resync
             /\ frames[i].seq = events[i].seq /\ frames[i].seq \in 1 .. N
             /\ frames[i].seq > since /\ frames[i].key \in want
             /\ frames[i].key = lg[frames[i].seq].key /\ frames[i].value = frames[i].seq
  <2>1. frames[i] = UpdateFrame(events[i]) /\ ~events[i].resync
        /\ events[i].key = lg[events[i].seq].key /\ events[i].value = lg[events[i].seq].value
    BY <1>1, <1>5
  <2>2. /\ frames[i].name = "update" /\ ~frames[i].resync /\ frames[i].seq = events[i].seq
        /\ frames[i].key = events[i].key /\ frames[i].value = events[i].value
    BY <2>1 DEF UpdateFrame
  <2>3. events[i].seq \in 1 .. N /\ events[i].seq > since /\ lg[events[i].seq].key \in want
    BY <1>3, <1>4
  <2>4. lg[events[i].seq].value = events[i].seq
    BY <2>3
  <2> QED BY <2>1, <2>2, <2>3, <2>4 DEF Tells
<1>7. Honest(frames, lg, want, from)
  <2> SUFFICES ASSUME NEW i \in 1 .. L
               PROVE  /\ frames[i].resync => frames[i].name = "update"
                      /\ frames[i].name = "update" => from < frames[i].seq /\ frames[i].seq <= N
                      /\ Tells(frames[i]) => /\ frames[i].key \in want
                                             /\ frames[i].value = frames[i].seq
                                             /\ frames[i].key = lg[frames[i].seq].key
    BY <1>1 DEF Honest
  <2> QED BY <1>0, <1>6
<1>8. Ordered(frames)
  BY <1>1, <1>3, <1>6 DEF Ordered
<1>9. ASSUME NEW n \in 1 .. N, n > since, lg[n].key \in want
      PROVE  \E j \in 1 .. L : Tells(frames[j]) /\ frames[j].seq = n
  <2>1. n \in numbers
    BY <1>4a, <1>9
  <2>2. PICK j \in 1 .. L : events[j].seq = n
    BY <1>3, <2>1
  <2> QED BY <1>6, <2>2
<1>10. Complete(frames, lg, want)
  <2> SUFFICES ASSUME NEW i \in 1 .. L, NEW n \in 1 .. N,
                      Tells(frames[i]), frames[i].seq < n, lg[n].key \in want
               PROVE  \E j \in 1 .. L : Tells(frames[j]) /\ frames[j].seq = n
    BY <1>1 DEF Complete
  <2>1. n > since
    BY <1>0, <1>6
  <2> QED BY <1>9, <2>1
<1>11. ASSUME NEW k \in want, Beyond(lg, since, k) PROVE Brings(frames, k)
  <2>1. PICK n \in 1 .. N : n > since /\ lg[n].key = k
    BY <1>11 DEF Beyond
  <2>2. PICK j \in 1 .. L : Tells(frames[j]) /\ frames[j].seq = n
    BY <1>9, <2>1
  <2>3. frames[j].key = k
    BY <1>6, <2>1, <2>2
  <2> QED BY <1>1, <2>2, <2>3 DEF Brings
<1> QED BY <1>1, <1>7, <1>8, <1>10, <1>11 DEF Flows, frames

\* What a resync brings.
LEMMA FlowsResync ==
  ASSUME NEW lg \in Seq(Announcement), NEW want, NEW from \in Nat, from < Len(lg)
  PROVE  /\ Flows(Carry(<<ResyncAt(Len(lg))>>), lg, want, from)
         /\ \A k : Brings(Carry(<<ResyncAt(Len(lg))>>), k)
<1> DEFINE event == ResyncAt(Len(lg))
           events == <<event>>
           frames == Carry(events)
<1>1. Len(lg) \in Nat
  BY LenProperties
<1>2. event \in Event /\ event.resync /\ event.seq = Len(lg)
  BY <1>1 DEF ResyncAt, Event
<1> HIDE DEF event
<1>3. events \in Seq(Event) /\ Len(events) = 1 /\ events[1] = event
  BY <1>2
<1> HIDE DEF events
<1>4. frames \in Seq(FrameSet) /\ Len(frames) = Len(events)
      /\ \A i \in 1 .. Len(events) : frames[i] = UpdateFrame(events[i])
  BY <1>3, CarryProperties
<1> HIDE DEF frames
<1>5. /\ Len(frames) = 1 /\ frames[1].name = "update" /\ frames[1].resync
      /\ frames[1].seq = Len(lg)
  BY <1>2, <1>3, <1>4 DEF UpdateFrame
<1>6. Flows(frames, lg, want, from)
  BY <1>1, <1>4, <1>5 DEF Flows, Honest, Ordered, Complete, Tells
<1>7. \A k : Brings(frames, k)
  BY <1>5 DEF Brings, Admits
<1> QED BY <1>6, <1>7 DEF frames, events, event

\* The page reads a frame that does not speak of k.
LEMMA BringsTail ==
  ASSUME NEW lg, NEW want, NEW from \in Nat, NEW frames, Flows(frames, lg, want, from),
         frames # <<>>, NEW k, Brings(frames, k), ~Admits(Head(frames)),
         Tells(Head(frames)) => Head(frames).key # k
  PROVE  /\ Brings(Tail(frames), k)
         /\ Tells(Head(frames)) => Beyond(lg, Head(frames).seq, k)
<1> DEFINE L == Len(frames)
           rest == Tail(frames)
<1>1. /\ frames \in Seq(FrameSet) /\ L \in Nat /\ L >= 1 /\ Head(frames) = frames[1]
      /\ Len(rest) = L - 1 /\ \A i \in 1 .. L - 1 : rest[i] = frames[i + 1]
  BY DEF Flows
<1>2. PICK i \in 1 .. L : Admits(frames[i]) \/ (Tells(frames[i]) /\ frames[i].key = k)
  BY DEF Brings
<1>3. i # 1
  BY <1>1, <1>2
<1>4. i - 1 \in 1 .. L - 1 /\ rest[i - 1] = frames[i] /\ 1 \in 1 .. L /\ 1 < i
  BY <1>1, <1>3
<1> HIDE DEF L, rest
<1>5. Brings(rest, k)
  BY <1>1, <1>2, <1>4 DEF Brings
<1>6. ASSUME Tells(frames[1]) PROVE Beyond(lg, frames[1].seq, k)
  <2>1. frames[i].name = "update" /\ frames[1].name = "update"
    BY <1>2, <1>6 DEF Tells, Admits
  <2>2. frames[1].seq < frames[i].seq /\ ~frames[i].resync
    BY <1>4, <2>1 DEF Flows, Ordered, L
  <2>3. Tells(frames[i]) /\ frames[i].key = k
    BY <1>2, <2>2 DEF Admits
  <2>4. from < frames[i].seq /\ frames[i].seq <= Len(lg) /\ lg[frames[i].seq].key = k
    BY <2>1, <2>3 DEF Flows, Honest, L
  <2>5. frames[i].seq \in Nat /\ frames[1].seq \in Nat
    <3>1. frames[i] \in FrameSet /\ frames[1] \in FrameSet
      BY <1>1, <1>4, ElementOfSeq DEF L
    <3> QED BY <3>1 DEF FrameSet
  <2>6. frames[i].seq \in 1 .. Len(lg)
    BY <2>4, <2>5
  <2> QED BY <2>2, <2>4, <2>6 DEF Beyond
<1> QED BY <1>1, <1>5, <1>6 DEF rest

\* The page reads a change of k: either it is the last, or more is coming.
LEMMA BringsMore ==
  ASSUME NEW lg \in Seq(Announcement), NEW want, NEW from \in Nat,
         NEW frames, Flows(frames, lg, want, from),
         frames # <<>>, NEW k \in want, Tells(Head(frames)), Head(frames).key = k,
         Beyond(lg, Head(frames).seq, k)
  PROVE  Brings(Tail(frames), k)
<1> DEFINE L == Len(frames)
           rest == Tail(frames)
<1>1. /\ frames \in Seq(FrameSet) /\ L \in Nat /\ L >= 1 /\ Head(frames) = frames[1]
      /\ Len(rest) = L - 1 /\ \A i \in 1 .. L - 1 : rest[i] = frames[i + 1]
  BY DEF Flows
<1>2. PICK n \in 1 .. Len(lg) : n > frames[1].seq /\ lg[n].key = k
  BY <1>1 DEF Beyond
<1>3. frames[1].seq \in Nat
  <2>1. frames[1] \in FrameSet
    BY <1>1
  <2> QED BY <2>1 DEF FrameSet
<1> HIDE DEF L, rest
<1>4. PICK j \in 1 .. L : Tells(frames[j]) /\ frames[j].seq = n
  BY <1>1, <1>2, <1>3 DEF Flows, Complete, L
<1>5. frames[j].key = k
  BY <1>2, <1>4 DEF Flows, Honest, L
<1>6. j - 1 \in 1 .. L - 1 /\ rest[j - 1] = frames[j]
  BY <1>1, <1>2, <1>3, <1>4
<1>7. Brings(rest, k)
  BY <1>1, <1>4, <1>5, <1>6 DEF Brings
<1> QED BY <1>7 DEF rest

-----------------------------------------------------------------------------
(* What a page shows, and what it has yet to be told.                      *)

\* The log numbers every change, the store holds the last change of each
\* key, and the backlog is the newest part of the log.
Numbered(lg) == \A i \in 1 .. Len(lg) : lg[i].seq = i /\ lg[i].value = i

HoldsTheLast(lg, store) ==
  \A k \in Key : \A n \in 1 .. Len(lg) : lg[n].key = k => store[k] = n \/ Beyond(lg, n, k)

TailOf(list, lg) ==
  /\ Len(list) <= Len(lg)
  /\ \A i \in 1 .. Len(list) : list[i] = lg[(Len(lg) - Len(list)) + i]

ServerOk ==
  /\ FanoutTypeOK /\ SubscriptionsTypeOK
  /\ log \in Seq(Announcement) /\ latest = Len(log) /\ Len(log) <= MaxSeq
  /\ Numbered(log) /\ HoldsTheLast(log, db) /\ TailOf(backlog, log)
  /\ db \in [Key -> Slot] /\ generation \in Nat

\* What a cell shows is what the store holds, once its current request, if
\* it has one, is answered.
Sound(shown, requests, held) ==
  /\ \A r \in requests : r.current /\ r.answered => r.value = held
  /\ (\A r \in requests : ~r.current) => shown \in {Loading, Failed, Ready(held)}

\* A cell that is Loading has asked.
Asks(status, shown, requests) ==
  /\ status = "none" => shown = Loading /\ requests = {}
  /\ status # "none" /\ shown = Loading => \E r \in requests : r.current

\* A key whose change was not lost on the way shows what the store holds, or
\* the change is later than what the page was told, and then on its way if
\* the stream is open.
KeyOk(status, shown, requests, held, lg, from, frames, k) ==
  \/ Sound(shown, requests, held)
  \/ Beyond(lg, from, k) /\ (status = "open" => Brings(frames, k))

PageTyped(w) ==
  /\ conn[w] \in {"none", "connecting", "open", "waiting", "stopped"}
  /\ cursor[w] \in Nat \cup {NoSeq}
  /\ failures[w] \in 0 .. RETRY_LIMIT
  /\ conn[w] # "stopped" => failures[w] < RETRY_LIMIT
  /\ told[w] \in Nat
  /\ wire[w] \in Seq(FrameSet)
  /\ conn[w] = "open" <=> subs[w].live

CellsTyped(w) ==
  \A k \in Wants[w] : cell[w][k] \in Shown /\ calls[w][k] \subseteq Request

StreamOk(w) ==
  /\ conn[w] = "open" => Flows(Frames(w), log, Wants[w], told[w])
  /\ told[w] <= Len(log)
  /\ IF cursor[w] = NoSeq THEN told[w] = 0 ELSE told[w] <= cursor[w]

PageOk(w) ==
  \A k \in Wants[w] :
    /\ Asks(conn[w], cell[w][k], calls[w][k])
    /\ k \notin gap[w] =>
         KeyOk(conn[w], cell[w][k], calls[w][k], db[k], log, told[w], Frames(w), k)

WindowOk(w) == PageTyped(w) /\ CellsTyped(w) /\ StreamOk(w) /\ PageOk(w)

Maps ==
  /\ DOMAIN conn = Window /\ DOMAIN cursor = Window /\ DOMAIN failures = Window
  /\ DOMAIN told = Window /\ DOMAIN gap = Window /\ DOMAIN wire = Window
  /\ conn = [w \in Window |-> conn[w]] /\ cursor = [w \in Window |-> cursor[w]]
  /\ failures = [w \in Window |-> failures[w]]

SyncInv == ServerOk /\ Maps /\ \A w \in Window : WindowOk(w)

-----------------------------------------------------------------------------
(* The four ways to write a cell, again.                                   *)

LEMMA Tags ==
  /\ Loading # Failed /\ \A v : Ready(v) # Loading /\ Ready(v) # Failed
  /\ \A u, v : Ready(u) = Ready(v) => u = v
<1>1. Loading.tag = "Loading" /\ Failed.tag = "Failed"
  BY DEF Loading, Failed
<1>2. \A v : Ready(v).tag = "Ready" /\ Ready(v).value = v
  BY DEF Ready
<1>3. "Loading" # "Failed" /\ "Ready" # "Loading" /\ "Ready" # "Failed"
  OBVIOUS
<1> QED BY <1>1, <1>2, <1>3

LEMMA ShownTypes ==
  /\ Loading \in Shown /\ Failed \in Shown /\ \A v \in Slot : Ready(v) \in Shown
  /\ Asked \in Request /\ Asked.current /\ ~Asked.answered
  /\ None \in Slot
BY DEF Shown, Ready, Asked, Request, Slot

LEMMA SupersededTyped ==
  ASSUME NEW requests, requests \subseteq Request
  PROVE  Superseded(requests) \subseteq Request /\ \A r \in Superseded(requests) : ~r.current
BY DEF Superseded, Request

LEMMA StartAllCells ==
  ASSUME IInv, NEW w \in Window, CellsTyped(w), StartAll(w), conn'[w] # "none"
  PROVE  /\ CellsTyped(w)'
         /\ \A k \in Wants[w] : /\ Asks(conn'[w], cell'[w][k], calls'[w][k])
                                /\ \A held : Sound(cell'[w][k], calls'[w][k], held)
         /\ \A v \in Window \ {w} : cell'[v] = cell[v] /\ calls'[v] = calls[v]
<1>1. /\ \A v \in Window \ {w} : cell'[v] = cell[v] /\ calls'[v] = calls[v]
      /\ \A k \in Wants[w] : /\ cell'[w][k] = Loading
                             /\ calls'[w][k] = Superseded(calls[w][k]) \cup {Asked}
  BY DEF StartAll, IInv, Shape
<1>2. ASSUME NEW k \in Wants[w]
      PROVE  /\ cell'[w][k] \in Shown /\ calls'[w][k] \subseteq Request
             /\ Asks(conn'[w], cell'[w][k], calls'[w][k])
             /\ \A held : Sound(cell'[w][k], calls'[w][k], held)
  <2>1. Superseded(calls[w][k]) \subseteq Request /\ \A r \in Superseded(calls[w][k]) : ~r.current
    BY SupersededTyped DEF CellsTyped
  <2>2. calls'[w][k] \subseteq Request /\ \A r \in calls'[w][k] : r.current => ~r.answered
    BY <1>1, <2>1, ShownTypes
  <2>3. Asks(conn'[w], cell'[w][k], calls'[w][k])
    BY <1>1, ShownTypes DEF Asks
  <2>4. \A held : Sound(cell'[w][k], calls'[w][k], held)
    BY <1>1, <2>2 DEF Sound
  <2> QED BY <1>1, <2>2, <2>3, <2>4, ShownTypes
<1> QED BY <1>1, <1>2 DEF CellsTyped

LEMMA FailAllCells ==
  ASSUME IInv, NEW w \in Window, CellsTyped(w), FailAll(w), conn'[w] # "none"
  PROVE  /\ CellsTyped(w)'
         /\ \A k \in Wants[w] : /\ Asks(conn'[w], cell'[w][k], calls'[w][k])
                                /\ \A held : Sound(cell'[w][k], calls'[w][k], held)
         /\ \A v \in Window \ {w} : cell'[v] = cell[v] /\ calls'[v] = calls[v]
<1>1. /\ \A v \in Window \ {w} : cell'[v] = cell[v] /\ calls'[v] = calls[v]
      /\ \A k \in Wants[w] : /\ cell'[w][k] = Failed
                             /\ calls'[w][k] = Superseded(calls[w][k])
  BY DEF FailAll, IInv, Shape
<1>2. ASSUME NEW k \in Wants[w]
      PROVE  /\ cell'[w][k] \in Shown /\ calls'[w][k] \subseteq Request
             /\ Asks(conn'[w], cell'[w][k], calls'[w][k])
             /\ \A held : Sound(cell'[w][k], calls'[w][k], held)
  <2>1. Superseded(calls[w][k]) \subseteq Request /\ \A r \in Superseded(calls[w][k]) : ~r.current
    BY SupersededTyped DEF CellsTyped
  <2>3. Asks(conn'[w], cell'[w][k], calls'[w][k])
    BY <1>1, Tags DEF Asks
  <2>4. \A held : Sound(cell'[w][k], calls'[w][k], held)
    BY <1>1, <2>1 DEF Sound
  <2> QED BY <1>1, <2>1, <2>3, <2>4, ShownTypes
<1> QED BY <1>1, <1>2 DEF CellsTyped

LEMMA ApplyUpdateCells ==
  ASSUME IInv, NEW w \in Window, CellsTyped(w), NEW key \in Wants[w], NEW v \in Slot,
         ApplyUpdate(w, key, v), conn'[w] # "none"
  PROVE  /\ CellsTyped(w)'
         /\ Asks(conn'[w], cell'[w][key], calls'[w][key])
         /\ Sound(cell'[w][key], calls'[w][key], v)
         /\ \A k \in Wants[w] \ {key} : cell'[w][k] = cell[w][k] /\ calls'[w][k] = calls[w][k]
         /\ \A u \in Window \ {w} : cell'[u] = cell[u] /\ calls'[u] = calls[u]
<1>1. /\ \A u \in Window \ {w} : cell'[u] = cell[u] /\ calls'[u] = calls[u]
      /\ \A k \in Wants[w] \ {key} : cell'[w][k] = cell[w][k] /\ calls'[w][k] = calls[w][k]
      /\ cell'[w][key] = Ready(v) /\ calls'[w][key] = Superseded(calls[w][key])
  BY DEF ApplyUpdate, IInv, Shape
<1>2. /\ Superseded(calls[w][key]) \subseteq Request
      /\ \A r \in Superseded(calls[w][key]) : ~r.current
  BY SupersededTyped DEF CellsTyped
<1>3. Asks(conn'[w], cell'[w][key], calls'[w][key])
  BY <1>1, Tags DEF Asks
<1>4. Sound(cell'[w][key], calls'[w][key], v)
  BY <1>1, <1>2 DEF Sound
<1>5. CellsTyped(w)'
  BY <1>1, <1>2, ShownTypes DEF CellsTyped
<1> QED BY <1>1, <1>3, <1>4, <1>5

-----------------------------------------------------------------------------
(* The other windows.                                                      *)

Untouched(w) ==
  UNCHANGED <<conn[w], wire[w], cursor[w], failures[w], cell[w], calls[w], told[w], gap[w],
              subs[w]>>

LEMMA FramesKept ==
  ASSUME NEW w, wire'[w] = wire[w], subs'[w] = subs[w] PROVE Frames(w)' = Frames(w)
BY DEF Frames, Queue, Carry, UpdateFrame

LEMMA UntouchedOk ==
  ASSUME NEW w \in Window, WindowOk(w), Untouched(w), UNCHANGED <<db, log>> PROVE WindowOk(w)'
<1>1. Frames(w)' = Frames(w)
  BY FramesKept DEF Untouched
<1>2. /\ conn'[w] = conn[w] /\ wire'[w] = wire[w] /\ cursor'[w] = cursor[w]
      /\ failures'[w] = failures[w] /\ cell'[w] = cell[w] /\ calls'[w] = calls[w]
      /\ told'[w] = told[w] /\ gap'[w] = gap[w] /\ subs'[w] = subs[w]
      /\ db' = db /\ log' = log
  BY DEF Untouched
<1>3. PageTyped(w)' /\ CellsTyped(w)'
  BY <1>2 DEF WindowOk, PageTyped, CellsTyped
<1>4. StreamOk(w)'
  BY <1>1, <1>2 DEF WindowOk, StreamOk
<1>5. PageOk(w)'
  BY <1>1, <1>2 DEF WindowOk, PageOk
<1> QED BY <1>3, <1>4, <1>5 DEF WindowOk

\* A step of one window.
LEMMA OneWindow ==
  ASSUME SyncInv, NEW w \in Window, UNCHANGED <<db, log>>, ServerOk', Maps', WindowOk(w)',
         \A v \in Window \ {w} : Untouched(v)
  PROVE  SyncInv'
<1>1. ASSUME NEW v \in Window PROVE WindowOk(v)'
  BY UntouchedOk DEF SyncInv
<1> QED BY <1>1 DEF SyncInv

\* A step of one window that leaves the server's state alone.
LEMMA ServerKept ==
  ASSUME ServerOk, SubscriptionsTypeOK', UNCHANGED <<latest, backlog, db, log, generation>>
  PROVE  ServerOk'
BY DEF ServerOk, FanoutTypeOK

-----------------------------------------------------------------------------
(* Loading, retrying and leaving.                                          *)

\* The cells of w are as good as before for whatever the page is owed.
CellsOk(w) ==
  \A k \in Wants[w] :
    /\ Asks(conn'[w], cell'[w][k], calls'[w][k])
    /\ Sound(cell[w][k], calls[w][k], db[k]) => Sound(cell'[w][k], calls'[w][k], db[k])

\* A step after which the stream of w is not open.
LEMMA NotOpenOk ==
  ASSUME ServerOk, NEW w \in Window, WindowOk(w), CellsTyped(w)', CellsOk(w),
         UNCHANGED <<db, log>>, told'[w] = told[w], gap'[w] = gap[w], cursor'[w] = cursor[w],
         conn'[w] # "open"
  PROVE  StreamOk(w)' /\ PageOk(w)'
<1>1. StreamOk(w)'
  BY DEF WindowOk, StreamOk
<1>2. ASSUME NEW k \in Wants[w], k \notin gap[w]
      PROVE  KeyOk(conn'[w], cell'[w][k], calls'[w][k], db[k], log, told[w], Frames(w)', k)
  <2>1. KeyOk(conn[w], cell[w][k], calls[w][k], db[k], log, told[w], Frames(w), k)
    BY <1>2 DEF WindowOk, PageOk
  <2> QED BY <2>1 DEF KeyOk, CellsOk
<1>3. PageOk(w)'
  BY <1>2 DEF PageOk, CellsOk
<1> QED BY <1>1, <1>3

LEMMA LoadSync == ASSUME IInv, SyncInv, NEW w \in Window, Load(w) PROVE SyncInv'
<1>1. /\ conn[w] = "none" /\ conn' = [conn EXCEPT ![w] = "connecting"] /\ StartAll(w)
      /\ UNCHANGED <<latest, backlog, subs, db, log, generation, wire, cursor, failures, told, gap>>
  BY DEF Load, fanoutVars, serverVars
<1>2. /\ DOMAIN conn' = Window /\ conn'[w] = "connecting"
      /\ conn' = [v \in Window |-> conn'[v]] /\ \A v \in Window \ {w} : conn'[v] = conn[v]
  BY <1>1 DEF SyncInv, Maps
<1>3. WindowOk(w)
  BY DEF SyncInv
<1>4. /\ CellsTyped(w)'
      /\ \A k \in Wants[w] : /\ Asks(conn'[w], cell'[w][k], calls'[w][k])
                             /\ \A held : Sound(cell'[w][k], calls'[w][k], held)
      /\ \A v \in Window \ {w} : cell'[v] = cell[v] /\ calls'[v] = calls[v]
  BY <1>1, <1>2, <1>3, StartAllCells DEF WindowOk
<1>5. CellsOk(w)
  BY <1>4 DEF CellsOk
<1>6. StreamOk(w)' /\ PageOk(w)'
  BY <1>1, <1>2, <1>3, <1>4, <1>5, NotOpenOk DEF SyncInv
<1>7. PageTyped(w)'
  BY <1>1, <1>2, <1>3 DEF WindowOk, PageTyped
<1>8. ServerOk' /\ Maps'
  BY <1>1, <1>2 DEF SyncInv, ServerOk, FanoutTypeOK, SubscriptionsTypeOK, Maps
<1>9. \A v \in Window \ {w} : Untouched(v)
  BY <1>1, <1>2, <1>4 DEF Untouched
<1> QED BY <1>1, <1>4, <1>6, <1>7, <1>8, <1>9, OneWindow DEF WindowOk

\* Waiting and trying again, or giving up.
LEMMA RetrySync ==
  ASSUME IInv, SyncInv, NEW w \in Window, Retry(w), conn[w] \in {"connecting", "open"},
         UNCHANGED <<latest, backlog, db, log, generation, cursor, told, gap>>,
         SubscriptionsTypeOK', ~subs'[w].live, DOMAIN wire' = Window, wire'[w] \in Seq(FrameSet),
         \A v \in Window \ {w} : subs'[v] = subs[v] /\ wire'[v] = wire[v]
  PROVE  SyncInv'
<1>1. WindowOk(w) /\ RETRY_LIMIT \in Nat /\ failures[w] < RETRY_LIMIT
      /\ failures[w] \in 0 .. RETRY_LIMIT
  BY SyncAssumption DEF SyncInv, WindowOk, PageTyped
<1>2. /\ DOMAIN failures' = Window /\ failures'[w] = failures[w] + 1
      /\ failures' = [v \in Window |-> failures'[v]]
      /\ \A v \in Window \ {w} : failures'[v] = failures[v]
  BY DEF Retry, SyncInv, Maps
<1>3. \/ failures'[w] >= RETRY_LIMIT /\ conn' = [conn EXCEPT ![w] = "stopped"] /\ FailAll(w)
      \/ failures'[w] < RETRY_LIMIT /\ conn' = [conn EXCEPT ![w] = "waiting"]
         /\ UNCHANGED <<cell, calls>>
  BY <1>2 DEF Retry
<1>4. /\ DOMAIN conn' = Window /\ conn'[w] \in {"stopped", "waiting"}
      /\ conn' = [v \in Window |-> conn'[v]] /\ \A v \in Window \ {w} : conn'[v] = conn[v]
      /\ conn'[w] = "waiting" => failures'[w] < RETRY_LIMIT
  BY <1>3 DEF SyncInv, Maps
<1>5. CellsTyped(w)' /\ CellsOk(w) /\ \A v \in Window \ {w} : cell'[v] = cell[v] /\ calls'[v] = calls[v]
  <2>1. CASE FailAll(w)
    <3>1. /\ CellsTyped(w)'
          /\ \A k \in Wants[w] : /\ Asks(conn'[w], cell'[w][k], calls'[w][k])
                                 /\ \A held : Sound(cell'[w][k], calls'[w][k], held)
          /\ \A v \in Window \ {w} : cell'[v] = cell[v] /\ calls'[v] = calls[v]
      BY <1>1, <1>4, <2>1, FailAllCells DEF WindowOk
    <3> QED BY <3>1 DEF CellsOk
  <2>2. CASE UNCHANGED <<cell, calls>>
    <3>1. CellsTyped(w)'
      BY <1>1, <2>2 DEF WindowOk, CellsTyped
    <3>2. CellsOk(w)
      BY <1>1, <1>4, <2>2 DEF WindowOk, PageOk, CellsOk, Asks
    <3> QED BY <2>2, <3>1, <3>2
  <2> QED BY <1>3, <2>1, <2>2
<1>6. StreamOk(w)' /\ PageOk(w)'
  BY <1>1, <1>4, <1>5, NotOpenOk DEF SyncInv
<1>7. failures'[w] \in 0 .. RETRY_LIMIT
  BY <1>1, <1>2
<1>8. PageTyped(w)'
  BY <1>1, <1>4, <1>7 DEF WindowOk, PageTyped
<1>9. ServerOk' /\ Maps'
  <2>1. ServerOk'
    BY ServerKept DEF SyncInv
  <2>2. Maps'
    BY <1>2, <1>4 DEF SyncInv, Maps
  <2> QED BY <2>1, <2>2
<1>10. \A v \in Window \ {w} : Untouched(v)
  BY <1>2, <1>4, <1>5 DEF Untouched
<1> QED BY <1>5, <1>6, <1>8, <1>9, <1>10, OneWindow DEF WindowOk

LEMMA RefusedSync == ASSUME IInv, SyncInv, NEW w \in Window, Refused(w) PROVE SyncInv'
<1>1. /\ conn[w] = "connecting" /\ Retry(w)
      /\ UNCHANGED <<latest, backlog, subs, db, log, generation, wire, cursor, told, gap>>
  BY DEF Refused, fanoutVars, serverVars
<1>2. WindowOk(w) /\ SubscriptionsTypeOK /\ DOMAIN wire = Window
  BY DEF SyncInv, ServerOk, Maps
<1>3. ~subs'[w].live /\ wire'[w] \in Seq(FrameSet) /\ DOMAIN wire' = Window
  BY <1>1, <1>2 DEF WindowOk, PageTyped
<1>4. SubscriptionsTypeOK'
  BY <1>1, <1>2 DEF SubscriptionsTypeOK
<1> QED BY <1>1, <1>3, <1>4, RetrySync

LEMMA CutSync == ASSUME IInv, SyncInv, NEW w \in Window, Cut(w) PROVE SyncInv'
<1>1. /\ conn[w] = "open" /\ Hangup(w) /\ Retry(w) /\ wire' = [wire EXCEPT ![w] = <<>>]
      /\ UNCHANGED <<db, log, generation, cursor, told, gap>>
  BY DEF Cut, serverVars
<1>2. /\ subs' = [subs EXCEPT ![w] = [subs[w] EXCEPT !.live = FALSE, !.pending = <<>>, !.rx = <<>>]]
      /\ UNCHANGED <<latest, backlog>>
  BY <1>1 DEF Hangup
<1>3. SubscriptionsTypeOK /\ DOMAIN wire = Window /\ w \in Subscriber /\ Window = Subscriber
  BY SyncAssumption DEF SyncInv, ServerOk, Maps
<1>4. <<>> \in Seq(Event) /\ <<>> \in Seq(FrameSet)
  BY EmptySeq
<1>5. SubscriptionsTypeOK' /\ ~subs'[w].live /\ \A v \in Window \ {w} : subs'[v] = subs[v]
  BY <1>2, <1>3, <1>4 DEF SubscriptionsTypeOK
<1>6. DOMAIN wire' = Window /\ wire'[w] \in Seq(FrameSet)
      /\ \A v \in Window \ {w} : wire'[v] = wire[v]
  BY <1>1, <1>3, <1>4
<1> QED BY <1>1, <1>2, <1>5, <1>6, RetrySync

LEMMA ReconnectSync == ASSUME IInv, SyncInv, NEW w \in Window, Reconnect(w) PROVE SyncInv'
<1>1. /\ conn[w] = "waiting" /\ conn' = [conn EXCEPT ![w] = "connecting"]
      /\ UNCHANGED <<latest, backlog, subs, db, log, generation, wire, cursor, failures, cell,
                     calls, told, gap>>
  BY DEF Reconnect, fanoutVars, serverVars
<1>2. /\ DOMAIN conn' = Window /\ conn'[w] = "connecting"
      /\ conn' = [v \in Window |-> conn'[v]] /\ \A v \in Window \ {w} : conn'[v] = conn[v]
  BY <1>1 DEF SyncInv, Maps
<1>3. WindowOk(w)
  BY DEF SyncInv
<1>4. CellsTyped(w)'
  BY <1>1, <1>3 DEF WindowOk, CellsTyped
<1>5. CellsOk(w)
  BY <1>1, <1>2, <1>3 DEF CellsOk, WindowOk, PageOk, Asks
<1>6. StreamOk(w)' /\ PageOk(w)'
  BY <1>1, <1>2, <1>3, <1>4, <1>5, NotOpenOk DEF SyncInv
<1>7. PageTyped(w)'
  BY <1>1, <1>2, <1>3 DEF WindowOk, PageTyped
<1>8. ServerOk' /\ Maps'
  BY <1>1, <1>2 DEF SyncInv, ServerOk, FanoutTypeOK, SubscriptionsTypeOK, Maps
<1>9. \A v \in Window \ {w} : Untouched(v)
  BY <1>1, <1>2 DEF Untouched
<1> QED BY <1>1, <1>4, <1>6, <1>7, <1>8, <1>9, OneWindow DEF WindowOk

LEMMA UnloadSync == ASSUME IInv, SyncInv, NEW w \in Window, Unload(w) PROVE SyncInv'
<1>1. /\ conn' = [conn EXCEPT ![w] = "none"] /\ subs' = [subs EXCEPT ![w] = Closed]
      /\ wire' = [wire EXCEPT ![w] = <<>>] /\ cursor' = [cursor EXCEPT ![w] = NoSeq]
      /\ failures' = [failures EXCEPT ![w] = 0]
      /\ cell' = [cell EXCEPT ![w] = [k \in Wants[w] |-> Loading]]
      /\ calls' = [calls EXCEPT ![w] = [k \in Wants[w] |-> {}]]
      /\ told' = [told EXCEPT ![w] = 0] /\ gap' = [gap EXCEPT ![w] = {}]
      /\ UNCHANGED <<latest, backlog, db, log, generation>>
  BY DEF Unload, serverVars
<1>2. /\ conn'[w] = "none" /\ wire'[w] = <<>> /\ cursor'[w] = NoSeq /\ failures'[w] = 0
      /\ told'[w] = 0 /\ gap'[w] = {}
      /\ \A v \in Window \ {w} :
           /\ conn'[v] = conn[v] /\ wire'[v] = wire[v] /\ cursor'[v] = cursor[v]
           /\ failures'[v] = failures[v] /\ told'[v] = told[v] /\ gap'[v] = gap[v]
  BY <1>1 DEF SyncInv, Maps
<1>3. Maps'
  BY <1>1 DEF SyncInv, Maps
<1>4. /\ \A k \in Wants[w] : cell'[w][k] = Loading /\ calls'[w][k] = {}
      /\ \A v \in Window \ {w} : cell'[v] = cell[v] /\ calls'[v] = calls[v]
  BY <1>1 DEF IInv, Shape
<1>5. Closed.live = FALSE /\ Closed \in [live : BOOLEAN, pending : Seq(Event), rx : Seq(Event),
                                         upto : Nat \cup {NoSeq}]
  BY EmptySeq DEF Closed
<1>6. SubscriptionsTypeOK' /\ subs'[w].live = FALSE /\ \A v \in Window \ {w} : subs'[v] = subs[v]
  BY <1>1, <1>5, SyncAssumption DEF SyncInv, ServerOk, SubscriptionsTypeOK
<1>7. RETRY_LIMIT \in Nat /\ 0 < RETRY_LIMIT /\ Len(log) \in Nat
  BY SyncAssumption, LenProperties DEF SyncInv, ServerOk
<1>8. PageTyped(w)' /\ CellsTyped(w)' /\ StreamOk(w)'
  <2>1. PageTyped(w)'
    BY <1>2, <1>6, <1>7, EmptySeq DEF PageTyped
  <2>2. CellsTyped(w)'
    BY <1>4, ShownTypes DEF CellsTyped
  <2>3. StreamOk(w)'
    BY <1>1, <1>2, <1>7 DEF StreamOk
  <2> QED BY <2>1, <2>2, <2>3
<1>9. PageOk(w)'
  BY <1>2, <1>4 DEF PageOk, Asks, KeyOk, Sound
<1>10. ServerOk'
  BY <1>1, <1>6, ServerKept DEF SyncInv
<1>11. \A v \in Window \ {w} : Untouched(v)
  BY <1>2, <1>4, <1>6 DEF Untouched
<1> QED BY <1>1, <1>3, <1>8, <1>9, <1>10, <1>11, OneWindow DEF WindowOk

-----------------------------------------------------------------------------
(* Requests.                                                               *)

\* A step of w that changes only the cell and the requests of one key.
LEMMA OneKeySync ==
  ASSUME IInv, SyncInv, NEW w \in Window, NEW k \in Wants[w],
         UNCHANGED <<latest, backlog, subs, db, log, generation, conn, wire, cursor, failures,
                     told, gap>>,
         \A v \in Window \ {w} : cell'[v] = cell[v] /\ calls'[v] = calls[v],
         \A j \in Wants[w] \ {k} : cell'[w][j] = cell[w][j] /\ calls'[w][j] = calls[w][j],
         cell'[w][k] \in Shown, calls'[w][k] \subseteq Request,
         Asks(conn[w], cell'[w][k], calls'[w][k]),
         Sound(cell[w][k], calls[w][k], db[k]) => Sound(cell'[w][k], calls'[w][k], db[k])
  PROVE  SyncInv'
<1>1. WindowOk(w) /\ Frames(w)' = Frames(w)
  BY FramesKept DEF SyncInv
<1>2. PageTyped(w)' /\ StreamOk(w)'
  BY <1>1 DEF WindowOk, PageTyped, StreamOk
<1>3. CellsTyped(w)'
  BY <1>1 DEF WindowOk, CellsTyped
<1>4. PageOk(w)'
  <2>1. ASSUME NEW j \in Wants[w]
        PROVE  /\ Asks(conn'[w], cell'[w][j], calls'[w][j])
               /\ j \notin gap'[w] => KeyOk(conn'[w], cell'[w][j], calls'[w][j], db'[j], log',
                                            told'[w], Frames(w)', j)
    <3>1. /\ Asks(conn[w], cell[w][j], calls[w][j])
          /\ j \notin gap[w] => KeyOk(conn[w], cell[w][j], calls[w][j], db[j], log, told[w],
                                      Frames(w), j)
      BY <1>1 DEF WindowOk, PageOk
    <3>2. CASE j = k
      BY <1>1, <3>1, <3>2 DEF KeyOk
    <3>3. CASE j # k
      BY <1>1, <3>1, <3>3
    <3> QED BY <3>2, <3>3
  <2> QED BY <2>1 DEF PageOk
<1>5. ServerOk' /\ Maps'
  BY DEF SyncInv, ServerOk, FanoutTypeOK, SubscriptionsTypeOK, Maps
<1>6. \A v \in Window \ {w} : Untouched(v)
  BY DEF Untouched
<1> QED BY <1>2, <1>3, <1>4, <1>5, <1>6, OneWindow DEF WindowOk

LEMMA AnswerSync ==
  ASSUME IInv, SyncInv, NEW w \in Window, NEW k \in Wants[w], Answer(w, k) PROVE SyncInv'
<1>1. PICK r \in calls[w][k] :
        /\ ~r.answered
        /\ calls' = [calls EXCEPT ![w][k] =
             (calls[w][k] \ {r}) \cup {[r EXCEPT !.answered = TRUE, !.value = db[k]]}]
        /\ UNCHANGED <<fanoutVars, serverVars, conn, wire, cursor, failures, cell, told, gap>>
  BY DEF Answer
<1> DEFINE new == [r EXCEPT !.answered = TRUE, !.value = db[k]]
<1>2. calls[w][k] \subseteq Request /\ cell[w][k] \in Shown /\ db[k] \in Slot
  <2>1. k \in Key
    BY SyncAssumption, FanoutAssumption
  <2> QED BY <2>1 DEF SyncInv, WindowOk, CellsTyped, ServerOk
<1>3. new \in Request /\ new.current = r.current /\ new.value = db[k]
  BY <1>2 DEF Request
<1>4. /\ \A v \in Window \ {w} : calls'[v] = calls[v]
      /\ \A j \in Wants[w] \ {k} : calls'[w][j] = calls[w][j]
      /\ calls'[w][k] = (calls[w][k] \ {r}) \cup {new}
  BY <1>1 DEF IInv, Shape
<1> HIDE DEF new
<1>5. calls'[w][k] \subseteq Request
  BY <1>2, <1>3, <1>4
<1>6. Asks(conn[w], cell[w][k], calls'[w][k])
  <2>1. Asks(conn[w], cell[w][k], calls[w][k])
    BY DEF SyncInv, WindowOk, PageOk
  <2> QED BY <1>3, <1>4, <2>1 DEF Asks
<1>7. Sound(cell[w][k], calls[w][k], db[k]) => Sound(cell[w][k], calls'[w][k], db[k])
  BY <1>3, <1>4 DEF Sound
<1> QED BY <1>1, <1>2, <1>4, <1>5, <1>6, <1>7, OneKeySync DEF fanoutVars, serverVars

LEMMA SettleSync ==
  ASSUME IInv, SyncInv, NEW w \in Window, NEW k \in Wants[w], Settle(w, k) PROVE SyncInv'
<1>1. PICK r \in calls[w][k], lost \in BOOLEAN :
        /\ r.answered \/ lost
        /\ calls' = [calls EXCEPT ![w][k] = calls[w][k] \ {r}]
        /\ cell' = IF r.current
                     THEN [cell EXCEPT ![w][k] = IF lost THEN Failed ELSE Ready(r.value)]
                     ELSE cell
        /\ UNCHANGED <<fanoutVars, serverVars, conn, wire, cursor, failures, told, gap>>
  BY DEF Settle
<1>2. calls[w][k] \subseteq Request /\ cell[w][k] \in Shown /\ r \in Request
      /\ Asks(conn[w], cell[w][k], calls[w][k])
      /\ OneIsAwaited(calls[w][k], cell[w][k])
  BY DEF SyncInv, WindowOk, CellsTyped, PageOk, IInv, Awaited
<1>3. /\ \A v \in Window \ {w} : calls'[v] = calls[v] /\ cell'[v] = cell[v]
      /\ \A j \in Wants[w] \ {k} : calls'[w][j] = calls[w][j] /\ cell'[w][j] = cell[w][j]
      /\ calls'[w][k] = calls[w][k] \ {r}
      /\ cell'[w][k] = IF r.current THEN IF lost THEN Failed ELSE Ready(r.value) ELSE cell[w][k]
  BY <1>1 DEF IInv, Shape
<1>4. cell'[w][k] \in Shown /\ calls'[w][k] \subseteq Request
  <2>1. r.value \in Slot
    BY <1>2 DEF Request
  <2> QED BY <1>2, <1>3, <2>1, ShownTypes
<1>5. Asks(conn[w], cell'[w][k], calls'[w][k])
  <2>1. conn[w] # "none"
    BY <1>1, <1>2 DEF Asks
  <2>2. CASE r.current
    BY <1>3, <2>1, <2>2, Tags DEF Asks
  <2>3. CASE ~r.current
    BY <1>2, <1>3, <2>1, <2>3 DEF Asks
  <2> QED BY <2>2, <2>3
<1>6. ASSUME Sound(cell[w][k], calls[w][k], db[k]) PROVE Sound(cell'[w][k], calls'[w][k], db[k])
  <2>1. CASE r.current
    <3>1. \A s \in calls'[w][k] : ~s.current
      BY <1>2, <1>3, <2>1 DEF OneIsAwaited
    <3>2. cell'[w][k] \in {Failed, Ready(db[k])}
      BY <1>1, <1>3, <1>6, <2>1 DEF Sound
    <3> QED BY <3>1, <3>2 DEF Sound
  <2>2. CASE ~r.current
    BY <1>3, <1>6, <2>2 DEF Sound
  <2> QED BY <2>1, <2>2
<1> QED BY <1>1, <1>3, <1>4, <1>5, <1>6, OneKeySync DEF fanoutVars, serverVars

-----------------------------------------------------------------------------
(* The stream.                                                             *)

\* A step after which the queue of w is `queue`.
LEMMA FramesNext ==
  ASSUME NEW w, NEW written, wire'[w] = written, NEW queue, Queue(w)' = queue
  PROVE  Frames(w)' = written \o Carry(queue)
<1>1. Carry(Queue(w))' = Carry(Queue(w)')
  BY DEF Carry, UpdateFrame
<1> QED BY <1>1 DEF Frames

LEMMA PumpSync == ASSUME IInv, SyncInv, NEW w \in Window, Pump(w) PROVE SyncInv'
<1>1. /\ TryNext(w) /\ wire' = [wire EXCEPT ![w] = Append(wire[w], UpdateFrame(Head(Queue(w))))]
      /\ UNCHANGED <<latest, backlog, db, log, generation, conn, cursor, failures, cell, calls,
                     told, gap>>
  BY DEF Pump, TryNext, Queue, serverVars
<1>2. WindowOk(w) /\ wire[w] \in Seq(FrameSet) /\ DOMAIN wire = Window /\ w \in Subscriber
      /\ SubscriptionsTypeOK /\ Window = Subscriber
  BY SyncAssumption DEF SyncInv, WindowOk, PageTyped, Maps, ServerOk
<1>3. /\ Queue(w) \in Seq(Event) /\ Queue(w) # <<>> /\ Queue(w)' = Tail(Queue(w))
      /\ SubscriptionsTypeOK' /\ \A v \in Subscriber \ {w} : subs'[v] = subs[v]
      /\ subs'[w].live = subs[w].live
  BY <1>1, <1>2, QueueTaken
<1>4. /\ wire'[w] = Append(wire[w], UpdateFrame(Head(Queue(w)))) /\ DOMAIN wire' = Window
      /\ \A v \in Window \ {w} : wire'[v] = wire[v]
  BY <1>1, <1>2
<1> DEFINE queue == Queue(w)
<1>5. queue \in Seq(Event) /\ queue # <<>> /\ Frames(w) = wire[w] \o Carry(queue)
  BY <1>3 DEF Frames
<1>6. Frames(w)' = Append(wire[w], UpdateFrame(Head(queue))) \o Carry(Tail(queue))
  BY <1>3, <1>4, FramesNext
<1> HIDE DEF queue
<1>7. Frames(w)' = Frames(w) /\ wire'[w] \in Seq(FrameSet)
  BY <1>2, <1>4, <1>5, <1>6, CarryPumped DEF queue
<1>8. PageTyped(w)'
  BY <1>1, <1>2, <1>3, <1>7 DEF WindowOk, PageTyped
<1>9. CellsTyped(w)'
  BY <1>1, <1>2 DEF WindowOk, CellsTyped
<1>10. StreamOk(w)' /\ PageOk(w)'
  BY <1>1, <1>2, <1>7 DEF WindowOk, StreamOk, PageOk
<1>11. ServerOk'
  BY <1>1, <1>3, ServerKept DEF SyncInv
<1>12. Maps'
  BY <1>1, <1>4 DEF SyncInv, Maps
<1>13. \A v \in Window \ {w} : Untouched(v)
  BY <1>1, <1>2, <1>3, <1>4 DEF Untouched
<1> QED BY <1>1, <1>8, <1>9, <1>10, <1>11, <1>12, <1>13, OneWindow DEF WindowOk

-----------------------------------------------------------------------------
(* Opening a stream.                                                       *)

LEMMA EventsProperties ==
  ASSUME NEW list \in Seq(Announcement)
  PROVE  /\ AsEvents(list) \in Seq(Event) /\ Len(AsEvents(list)) = Len(list)
         /\ \A i \in 1 .. Len(list) :
              /\ AsEvents(list)[i] = UpdateEvent(list[i])
              /\ ~ AsEvents(list)[i].resync
              /\ AsEvents(list)[i].seq = list[i].seq
              /\ AsEvents(list)[i].key = list[i].key
              /\ AsEvents(list)[i].value = list[i].value
<1> DEFINE n == Len(list)
<1>1. n \in Nat /\ \A i \in 1 .. n : list[i] \in Announcement
  BY LenProperties, ElementOfSeq
<1>2. \A i \in 1 .. n : UpdateEvent(list[i]) \in Event
  BY <1>1 DEF UpdateEvent, Event, Announcement
<1>3. AsEvents(list) \in [1 .. n -> Event]
  BY <1>2 DEF AsEvents
<1>4. AsEvents(list) \in Seq(Event) /\ Len(AsEvents(list)) = n
  BY <1>1, <1>3
<1>5. \A i \in 1 .. n : AsEvents(list)[i] = UpdateEvent(list[i])
  BY DEF AsEvents
<1> QED BY <1>4, <1>5 DEF UpdateEvent

\* A replay brings every change after the cursor, or a resync.
LEMMA ReplayFlows ==
  ASSUME ServerOk, NEW w \in Window, NEW since \in Nat \cup {NoSeq},
         NEW from \in Nat, since # NoSeq => from <= since
  PROVE  /\ Replay(w, since) \in Seq(Event)
         /\ Flows(Carry(Replay(w, since)), log, Wants[w], from)
         /\ \A k \in Wants[w] : since # NoSeq /\ Beyond(log, since, k) =>
              Brings(Carry(Replay(w, since)), k)
<1> DEFINE N == Len(log)
           want == Wants[w]
<1>1. /\ log \in Seq(Announcement) /\ N \in Nat /\ latest = N /\ NoSeq \notin Nat
      /\ backlog \in Seq(Announcement) /\ Len(backlog) \in Nat /\ Len(backlog) <= N
      /\ \A i \in 1 .. N : log[i].seq = i /\ log[i].value = i
      /\ \A i \in 1 .. Len(backlog) : backlog[i] = log[(N - Len(backlog)) + i]
  BY LenProperties, FanoutAssumption DEF ServerOk, FanoutTypeOK, Numbered, TailOf
<1> HIDE DEF N
<1>2. CASE since = NoSeq \/ since >= latest
  <2>1. Replay(w, since) = <<>> /\ <<>> \in Seq(Event)
    BY <1>2, EmptySeq DEF Replay
  <2>2. \A k : ~(since # NoSeq /\ Beyond(log, since, k))
    <3>1. ASSUME NEW k, since # NoSeq, Beyond(log, since, k) PROVE FALSE
      BY <1>1, <1>2, <3>1 DEF Beyond, N
    <3> QED BY <3>1
  <2> QED BY <2>1, <2>2, CarryNothing, FlowsNothing
<1>3. CASE ~(since = NoSeq \/ since >= latest) /\ ~(backlog # <<>> /\ backlog[1].seq <= since + 1)
  <2>1. Replay(w, since) = <<ResyncAt(N)>>
    BY <1>1, <1>3 DEF Replay
  <2>2. from < Len(log)
    BY <1>1, <1>3 DEF N
  <2>3. ResyncAt(N) \in Event
    BY <1>1 DEF ResyncAt, Event
  <2>4. <<ResyncAt(N)>> \in Seq(Event)
    BY <2>3
  <2> QED BY <1>1, <2>1, <2>2, <2>4, FlowsResync DEF N
<1>4. CASE ~(since = NoSeq \/ since >= latest) /\ backlog # <<>> /\ backlog[1].seq <= since + 1
  <2> DEFINE off == N - Len(backlog)
             events == Replay(w, since)
  <2>1. off \in Nat /\ N = off + Len(backlog) /\ since \in Nat /\ since <= N /\ from <= since
    BY <1>1, <1>4
  <2>2. \A i \in 1 .. Len(backlog) : backlog[i] = log[off + i] /\ backlog[i].seq = off + i
    <3>1. ASSUME NEW i \in 1 .. Len(backlog)
          PROVE  backlog[i] = log[off + i] /\ log[off + i].seq = off + i
      <4>1. off + i \in 1 .. N
        BY <1>1
      <4> QED BY <1>1, <4>1
    <3> QED BY <3>1
  <2>3. off <= since
    <3>1. 1 \in 1 .. Len(backlog)
      BY <1>1, <1>4, EmptySeq
    <3>2. backlog[1].seq = off + 1
      BY <2>2, <3>1
    <3> QED BY <1>4, <2>1, <3>2
  <2>4. WantedAfter(w, since) = Pick(backlog, After(backlog, since, want))
    BY DEF WantedAfter, After
  <2>5. WantedAfter(w, since) \in Seq(Announcement)
    BY <1>1, <2>4, PickedElements
  <2>6. events = AsEvents(WantedAfter(w, since))
    BY <1>4 DEF Replay
  <2>7. /\ events \in Seq(Event)
        /\ Len(events) = Len(Pick(backlog, After(backlog, since, want)))
        /\ \A i \in 1 .. Len(events) :
             /\ ~ events[i].resync
             /\ events[i].seq = Pick(backlog, After(backlog, since, want))[i].seq
             /\ events[i].key = Pick(backlog, After(backlog, since, want))[i].key
             /\ events[i].value = Pick(backlog, After(backlog, since, want))[i].value
    BY <2>4, <2>5, <2>6, EventsProperties
  <2> HIDE DEF events, off, want
  <2>8. Plain(events, since, N, log, want)
    BY <1>1, <2>1, <2>2, <2>3, <2>7, PickedIsPlain
  <2>9. /\ Flows(Carry(events), log, want, from)
        /\ \A k \in want : Beyond(log, since, k) => Brings(Carry(events), k)
    BY <1>1, <2>1, <2>7, <2>8, FlowsPlain DEF N
  <2> QED BY <2>7, <2>9 DEF events, want
<1> QED BY <1>2, <1>3, <1>4

\* What a cell will show is right if the page says so already.
LEMMA ShowingSound ==
  ASSUME NEW w \in Window, NEW k \in Wants[w], OneIsAwaited(calls[w][k], cell[w][k]),
         Showing(w, k) \in {Loading, Failed, Ready(db[k])}
  PROVE  Sound(cell[w][k], calls[w][k], db[k])
<1> DEFINE coming == {r \in calls[w][k] : r.current}
<1>1. CASE coming = {}
  BY <1>1 DEF Showing, Sound
<1>2. CASE coming # {}
  <2> DEFINE one == CHOOSE r \in coming : TRUE
  <2>1. one \in coming /\ Showing(w, k) = IF one.answered THEN Ready(one.value) ELSE Loading
    BY <1>2 DEF Showing
  <2>2. \A r \in calls[w][k] : r.current => r = one
    BY <2>1 DEF OneIsAwaited
  <2>3. one.answered => one.value = db[k]
    BY <2>1, Tags
  <2> QED BY <2>1, <2>2, <2>3 DEF Sound
<1> QED BY <1>1, <1>2

LEMMA AcceptSync == ASSUME IInv, SyncInv, NEW w \in Window, Accept(w) PROVE SyncInv'
<1>1. /\ conn[w] = "connecting" /\ conn' = [conn EXCEPT ![w] = "open"]
      /\ wire' = [wire EXCEPT ![w] = <<ReadyFrame>>]
      /\ subs' = [subs EXCEPT ![w] = [live |-> TRUE, pending |-> Replay(w, cursor[w]), rx |-> <<>>,
                                      upto |-> IF cursor[w] = NoSeq THEN latest ELSE cursor[w]]]
      /\ gap' = [gap EXCEPT ![w] = gap[w] \cup
                   {k \in Passed(w) : Showing(w, k) \notin {Loading, Failed, Ready(db[k])}}]
      /\ UNCHANGED <<latest, backlog, db, log, generation, cursor, failures, cell, calls, told>>
  BY DEF Accept, Subscribe, serverVars
<1>2. /\ WindowOk(w) /\ SubscriptionsTypeOK /\ w \in Subscriber /\ Window = Subscriber
      /\ latest \in Nat /\ cursor[w] \in Nat \cup {NoSeq} /\ NoSeq \notin Nat /\ told[w] \in Nat
      /\ told[w] <= Len(log) /\ generation \in Nat /\ ServerOk
      /\ cursor[w] # NoSeq => told[w] <= cursor[w]
  BY SyncAssumption, FanoutAssumption
    DEF SyncInv, ServerOk, FanoutTypeOK, WindowOk, PageTyped, StreamOk
<1> DEFINE queue == Replay(w, cursor[w])
           frames == Carry(queue)
<1>3. /\ queue \in Seq(Event) /\ Flows(frames, log, Wants[w], told[w])
      /\ \A k \in Wants[w] : cursor[w] # NoSeq /\ Beyond(log, cursor[w], k) => Brings(frames, k)
  BY <1>2, ReplayFlows
<1> HIDE DEF queue, frames
<1>4. /\ conn'[w] = "open" /\ DOMAIN conn' = Window /\ conn' = [v \in Window |-> conn'[v]]
      /\ wire'[w] = <<ReadyFrame>> /\ DOMAIN wire' = Window /\ DOMAIN gap' = Window
      /\ gap'[w] = gap[w] \cup
           {k \in Passed(w) : Showing(w, k) \notin {Loading, Failed, Ready(db[k])}}
      /\ \A v \in Window \ {w} : conn'[v] = conn[v] /\ wire'[v] = wire[v] /\ gap'[v] = gap[v]
  BY <1>1 DEF SyncInv, Maps
<1>5. /\ subs'[w].live /\ subs'[w].pending = queue /\ subs'[w].rx = <<>>
      /\ \A v \in Window \ {w} : subs'[v] = subs[v]
      /\ SubscriptionsTypeOK'
  BY <1>1, <1>2, <1>3, EmptySeq DEF SubscriptionsTypeOK, queue
<1>6. Queue(w)' = queue
  <2>1. Queue(w)' = subs'[w].pending \o subs'[w].rx
    BY DEF Queue
  <2> QED BY <1>3, <1>5, <2>1, ConcatEmptySeq
<1>7. Frames(w)' = <<ReadyFrame>> \o frames
  BY <1>4, <1>6, FramesNext DEF frames
<1>8. /\ Flows(Frames(w)', log, Wants[w], told[w]) /\ wire'[w] \in Seq(FrameSet)
      /\ \A k : Brings(frames, k) => Brings(Frames(w)', k)
  BY <1>2, <1>3, <1>4, <1>7, FlowsReady
<1>9. PageTyped(w)'
  BY <1>1, <1>2, <1>4, <1>5, <1>8 DEF WindowOk, PageTyped
<1>10. CellsTyped(w)' /\ StreamOk(w)'
  BY <1>1, <1>2, <1>8 DEF WindowOk, CellsTyped, StreamOk
<1>11. ASSUME NEW k \in Wants[w]
       PROVE  /\ Asks(conn'[w], cell[w][k], calls[w][k])
              /\ k \notin gap'[w] => KeyOk(conn'[w], cell[w][k], calls[w][k], db[k], log, told[w],
                                           Frames(w)', k)
  <2>1. Asks(conn'[w], cell[w][k], calls[w][k])
    BY <1>1, <1>2, <1>4 DEF WindowOk, PageOk, Asks
  <2>2. ASSUME k \notin gap'[w], ~Sound(cell[w][k], calls[w][k], db[k])
        PROVE  Beyond(log, told[w], k) /\ Brings(Frames(w)', k)
    <3>1. Beyond(log, told[w], k)
      BY <1>2, <1>4, <2>2 DEF WindowOk, PageOk, KeyOk
    <3>2. Showing(w, k) \notin {Loading, Failed, Ready(db[k])}
      BY <2>2, ShowingSound DEF IInv, Awaited
    <3>3. k \notin Passed(w)
      BY <1>4, <2>2, <3>2
    <3>4. PICK n \in 1 .. Len(log) : n > told[w] /\ log[n].key = k
      BY <3>1 DEF Beyond
    <3>5. log[n].seq = n /\ n \in DOMAIN log /\ Len(log) \in Nat
      BY <1>2, LenProperties DEF ServerOk, Numbered
    <3>6. cursor[w] # NoSeq /\ ~(n <= cursor[w])
      BY <3>3, <3>4, <3>5 DEF Passed
    <3>7. Beyond(log, cursor[w], k)
      BY <1>2, <3>4, <3>5, <3>6 DEF Beyond
    <3> QED BY <1>3, <1>8, <3>1, <3>6, <3>7
  <2> QED BY <2>1, <2>2 DEF KeyOk
<1>12. PageOk(w)'
  BY <1>1, <1>11 DEF PageOk
<1>13. ServerOk'
  BY <1>1, <1>2, <1>5, ServerKept
<1>14. Maps'
  BY <1>1, <1>4 DEF SyncInv, Maps
<1>15. \A v \in Window \ {w} : Untouched(v)
  BY <1>1, <1>4, <1>5 DEF Untouched
<1> QED BY <1>1, <1>9, <1>10, <1>12, <1>13, <1>14, <1>15, OneWindow DEF WindowOk

-----------------------------------------------------------------------------
(* Reading a frame.                                                        *)

\* The page reads `frame`, the first of what is on its way.
LEMMA FirstOfFrames ==
  ASSUME ServerOk, NEW w \in Subscriber, WindowOk(w), conn[w] = "open", wire[w] # <<>>,
         wire'[w] = Tail(wire[w]), subs' = subs,
         NEW frame, frame = Head(wire[w])
  PROVE  /\ Frames(w) # <<>> /\ Head(Frames(w)) = frame /\ Frames(w)' = Tail(Frames(w))
         /\ wire'[w] \in Seq(FrameSet) /\ frame \in FrameSet
         /\ frame.resync => frame.name = "update"
         /\ frame.name = "update" => told[w] < frame.seq /\ frame.seq <= Len(log)
         /\ Tells(frame) => /\ frame.key \in Wants[w] /\ frame.value = frame.seq
                            /\ frame.key = log[frame.seq].key
<1> DEFINE queue == Queue(w)
           carried == Carry(queue)
<1>1. queue \in Seq(Event)
  BY ConcatProperties DEF ServerOk, SubscriptionsTypeOK, Queue
<1>2. /\ wire[w] \in Seq(FrameSet) /\ Flows(Frames(w), log, Wants[w], told[w])
      /\ Frames(w) = wire[w] \o carried
  BY DEF WindowOk, PageTyped, StreamOk, Frames
<1>3. Queue(w)' = queue
  BY DEF Queue
<1> HIDE DEF queue
<1>4. carried \in Seq(FrameSet)
  BY <1>1, CarryProperties
<1>5. Frames(w)' = Tail(wire[w]) \o carried
  BY <1>3, FramesNext
<1> HIDE DEF carried
<1>6. Frames(w) # <<>> /\ Head(Frames(w)) = frame /\ Frames(w)' = Tail(Frames(w))
  <2> DEFINE q == wire[w]
  <2>1. q \in Seq(FrameSet) /\ q # <<>> /\ frame = Head(q)
    BY <1>2
  <2>2. Frames(w) = q \o carried /\ Frames(w)' = Tail(q) \o carried
    BY <1>2, <1>5
  <2> HIDE DEF q
  <2>3. q \o carried # <<>> /\ Head(q \o carried) = Head(q) /\ Tail(q \o carried) = Tail(q) \o carried
    BY <1>4, <2>1, TailOfConcat
  <2> QED BY <2>1, <2>2, <2>3
<1>7. wire'[w] \in Seq(FrameSet) /\ frame \in FrameSet
  BY <1>2, HeadTailProperties
<1> DEFINE frames == Frames(w)
<1>8. frames \in Seq(FrameSet) /\ frames # <<>> /\ Honest(frames, log, Wants[w], told[w])
  BY <1>2, <1>6 DEF Flows
<1> HIDE DEF frames
<1>9. 1 \in 1 .. Len(frames) /\ frames[1] = Head(frames)
  BY <1>8, EmptySeq, LenProperties, HeadTailProperties
<1>10. frames[1] = frame
  BY <1>6, <1>9 DEF frames
<1> QED BY <1>6, <1>7, <1>8, <1>9, <1>10 DEF Honest

\* What a frame leaves to be brought.
LEMMA StillOwed ==
  ASSUME NEW lg \in Seq(Announcement), NEW want, NEW from \in Nat, NEW frames,
         Flows(frames, lg, want, from), frames # <<>>,
         NEW frame, frame = Head(frames), ~frame.resync,
         NEW now, now = IF frame.name = "update" THEN frame.seq ELSE from,
         NEW shown, NEW requests, NEW held, NEW k,
         KeyOk("open", shown, requests, held, lg, from, frames, k),
         frame.name = "update" => frame.key # k
  PROVE  KeyOk("open", shown, requests, held, lg, now, Tail(frames), k)
<1>1. CASE Sound(shown, requests, held)
  BY <1>1 DEF KeyOk
<1>2. CASE ~Sound(shown, requests, held)
  <2>1. Beyond(lg, from, k) /\ Brings(frames, k)
    BY <1>2 DEF KeyOk
  <2>2. ~Admits(Head(frames)) /\ (Tells(Head(frames)) => Head(frames).key # k)
    BY DEF Admits, Tells
  <2>3. /\ Brings(Tail(frames), k)
        /\ Tells(Head(frames)) => Beyond(lg, Head(frames).seq, k)
    BY <2>1, <2>2, BringsTail
  <2>4. Beyond(lg, now, k)
    BY <2>1, <2>3 DEF Tells
  <2> QED BY <2>3, <2>4 DEF KeyOk
<1> QED BY <1>1, <1>2

LEMMA ReceiveSync == ASSUME IInv, SyncInv, NEW w \in Window, Receive(w) PROVE SyncInv'
<1> DEFINE frame == Head(wire[w])
<1>1. /\ conn[w] = "open" /\ wire[w] # <<>> /\ wire' = [wire EXCEPT ![w] = Tail(wire[w])]
      /\ failures' = [failures EXCEPT ![w] = 0]
      /\ cursor' = [cursor EXCEPT ![w] = Advanced(w, frame)]
      /\ told' = [told EXCEPT ![w] =
                    IF frame.name = "update" /\ frame.seq > told[w] THEN frame.seq ELSE told[w]]
      /\ gap' = [gap EXCEPT ![w] = Unhanded(w, frame)]
      /\ UNCHANGED <<latest, backlog, subs, db, log, generation, conn>>
  BY DEF Receive, fanoutVars, serverVars
<1>2. \/ frame.name = "resync"
      \/ /\ frame.name = "update" /\ ~Seen(w, frame) /\ frame.key \in Wants[w]
         /\ ApplyUpdate(w, frame.key, frame.value)
      \/ /\ frame.name = "update" => Seen(w, frame) \/ frame.key \notin Wants[w]
         /\ UNCHANGED <<cell, calls>>
  BY DEF Receive
<1> HIDE DEF frame
<1>3. /\ WindowOk(w) /\ ServerOk /\ w \in Subscriber /\ Window = Subscriber
      /\ told[w] \in Nat /\ told[w] <= Len(log) /\ cursor[w] \in Nat \cup {NoSeq}
      /\ NoSeq \notin Nat /\ NoSeq \notin Int /\ log \in Seq(Announcement) /\ Len(log) \in Nat
      /\ IF cursor[w] = NoSeq THEN told[w] = 0 ELSE told[w] <= cursor[w]
      /\ Flows(Frames(w), log, Wants[w], told[w])
  BY <1>1, SyncAssumption, FanoutAssumption, LenProperties
    DEF SyncInv, ServerOk, WindowOk, PageTyped, StreamOk
<1>4. /\ wire'[w] = Tail(wire[w]) /\ failures'[w] = 0 /\ cursor'[w] = Advanced(w, frame)
      /\ told'[w] = IF frame.name = "update" /\ frame.seq > told[w] THEN frame.seq ELSE told[w]
      /\ gap'[w] = Unhanded(w, frame)
      /\ \A v \in Window \ {w} :
           /\ wire'[v] = wire[v] /\ failures'[v] = failures[v] /\ cursor'[v] = cursor[v]
           /\ told'[v] = told[v] /\ gap'[v] = gap[v]
  BY <1>1 DEF SyncInv, Maps
<1>5. Maps'
  BY <1>1 DEF SyncInv, Maps
<1>6. /\ Frames(w) # <<>> /\ Head(Frames(w)) = frame /\ Frames(w)' = Tail(Frames(w))
      /\ wire'[w] \in Seq(FrameSet) /\ frame \in FrameSet
      /\ frame.resync => frame.name = "update"
      /\ frame.name = "update" => told[w] < frame.seq /\ frame.seq <= Len(log)
      /\ Tells(frame) => /\ frame.key \in Wants[w] /\ frame.value = frame.seq
                         /\ frame.key = log[frame.seq].key
  BY <1>1, <1>3, <1>4, FirstOfFrames DEF frame
<1>7. /\ frame.name \in {"ready", "update"} /\ frame.seq \in Nat /\ frame.value \in Slot
      /\ frame.resync \in BOOLEAN
  BY <1>6 DEF FrameSet
<1>8. told'[w] = (IF frame.name = "update" THEN frame.seq ELSE told[w]) /\ told'[w] \in Nat
  BY <1>3, <1>4, <1>6, <1>7
<1>9. StreamOk(w)'
  <2>1. Flows(Frames(w)', log, Wants[w], told'[w])
    <3> DEFINE frames == Frames(w)
               now == told'[w]
    <3>1. /\ Flows(frames, log, Wants[w], told[w]) /\ frames # <<>>
          /\ now = IF Head(frames).name = "update" THEN Head(frames).seq ELSE told[w]
      BY <1>3, <1>6, <1>8
    <3> HIDE DEF frames, now
    <3>2. Flows(Tail(frames), log, Wants[w], now)
      BY <1>3, <3>1, FlowsTail
    <3> QED BY <1>6, <3>2 DEF frames, now
  <2>2. told'[w] <= Len(log)
    BY <1>3, <1>6, <1>8
  <2>3. cursor'[w] \in Nat /\ cursor'[w] # NoSeq /\ told'[w] <= cursor'[w]
    BY <1>3, <1>4, <1>7, <1>8 DEF Advanced, Seen
  <2> QED BY <1>1, <2>1, <2>2, <2>3 DEF StreamOk
<1>10. PageTyped(w)'
  <2>1. cursor'[w] \in Nat
    BY <1>3, <1>4, <1>7 DEF Advanced, Seen
  <2>2. 0 \in 0 .. RETRY_LIMIT /\ 0 < RETRY_LIMIT
    BY SyncAssumption
  <2> QED BY <1>1, <1>3, <1>4, <1>6, <1>8, <2>1, <2>2 DEF WindowOk, PageTyped
<1>11. CASE /\ frame.name = "update" /\ ~Seen(w, frame) /\ frame.key \in Wants[w]
            /\ ApplyUpdate(w, frame.key, frame.value)
  <2> DEFINE key == frame.key
             value == frame.value
  <2>1. key \in Wants[w] /\ value \in Slot /\ ApplyUpdate(w, key, value) /\ conn'[w] # "none"
        /\ CellsTyped(w)
    BY <1>1, <1>3, <1>7, <1>11 DEF WindowOk
  <2> HIDE DEF key, value
  <2>2. /\ CellsTyped(w)' /\ Asks(conn'[w], cell'[w][key], calls'[w][key])
        /\ Sound(cell'[w][key], calls'[w][key], value)
        /\ \A k \in Wants[w] \ {key} : cell'[w][k] = cell[w][k] /\ calls'[w][k] = calls[w][k]
        /\ \A u \in Window \ {w} : cell'[u] = cell[u] /\ calls'[u] = calls[u]
    BY <2>1, ApplyUpdateCells
  <2>3. \A k \in Wants[w] : Asks(conn'[w], cell'[w][k], calls'[w][k])
    BY <1>1, <1>3, <2>2 DEF WindowOk, PageOk
  <2>4. CASE frame.resync
    <3>1. gap'[w] = Wants[w]
      BY <1>4, <2>4 DEF Unhanded
    <3>2. PageOk(w)'
      BY <2>3, <3>1 DEF PageOk
    <3>3. ServerOk' /\ \A v \in Window \ {w} : Untouched(v)
      BY <1>1, <1>3, <1>4, <2>2, ServerKept DEF ServerOk, SubscriptionsTypeOK, Untouched
    <3> QED BY <1>1, <1>5, <1>9, <1>10, <2>2, <3>2, <3>3, OneWindow DEF WindowOk
  <2>5. CASE ~frame.resync
    <3>1. gap'[w] = gap[w] \ {key} /\ Tells(frame)
      BY <1>4, <1>11, <2>5 DEF Unhanded, Tells, key
    <3>2. ASSUME NEW k \in Wants[w], k \notin gap'[w]
          PROVE  KeyOk("open", cell'[w][k], calls'[w][k], db[k], log, told'[w], Frames(w)', k)
      <4>1. CASE k = key
        <5>1. frame.seq \in 1 .. Len(log) /\ log[frame.seq].key = key /\ value = frame.seq
          BY <1>3, <1>6, <1>7, <1>11, <3>1 DEF key, value
        <5>2. key \in Key
          BY <2>1, <1>3, FanoutAssumption
        <5>3. db[key] = value \/ Beyond(log, frame.seq, key)
          BY <1>3, <5>1, <5>2 DEF ServerOk, HoldsTheLast
        <5>4. CASE db[key] = value
          BY <2>2, <4>1, <5>4 DEF KeyOk
        <5>5. CASE Beyond(log, frame.seq, key)
          <6>1. Brings(Tail(Frames(w)), key)
            BY <1>3, <1>6, <2>1, <3>1, <5>5, BringsMore DEF key
          <6> QED BY <1>6, <1>8, <1>11, <4>1, <5>5, <6>1 DEF KeyOk
        <5> QED BY <5>3, <5>4, <5>5
      <4>2. CASE k # key
        <5>1. k \notin gap[w] /\ cell'[w][k] = cell[w][k] /\ calls'[w][k] = calls[w][k]
          BY <2>2, <3>1, <3>2, <4>2
        <5>2. KeyOk("open", cell[w][k], calls[w][k], db[k], log, told[w], Frames(w), k)
          BY <1>1, <1>3, <5>1 DEF WindowOk, PageOk
        <5>3. KeyOk("open", cell[w][k], calls[w][k], db[k], log, told'[w], Tail(Frames(w)), k)
          BY <1>3, <1>6, <1>8, <2>5, <4>2, <5>2, StillOwed DEF key
        <5> QED BY <1>6, <5>1, <5>3
      <4> QED BY <4>1, <4>2
    <3>3. PageOk(w)'
      BY <1>1, <2>3, <3>2 DEF PageOk
    <3>4. ServerOk' /\ \A v \in Window \ {w} : Untouched(v)
      BY <1>1, <1>3, <1>4, <2>2, ServerKept DEF ServerOk, SubscriptionsTypeOK, Untouched
    <3> QED BY <1>1, <1>5, <1>9, <1>10, <2>2, <3>3, <3>4, OneWindow DEF WindowOk
  <2> QED BY <2>4, <2>5
<1>12. CASE /\ frame.name = "update" => Seen(w, frame) \/ frame.key \notin Wants[w]
            /\ UNCHANGED <<cell, calls>>
  <2>1. CellsTyped(w)' /\ \A k \in Wants[w] : Asks(conn'[w], cell'[w][k], calls'[w][k])
    BY <1>1, <1>3, <1>12 DEF WindowOk, CellsTyped, PageOk
  <2>2. ASSUME NEW k \in Wants[w], k \notin gap'[w]
        PROVE  KeyOk("open", cell[w][k], calls[w][k], db[k], log, told'[w], Frames(w)', k)
    <3>1. ~frame.resync
      BY <1>4, <2>2 DEF Unhanded
    <3>2. k \notin gap[w] /\ (frame.name = "update" => frame.key # k)
      <4>1. CASE frame.name = "update"
        <5>1. frame.key \in Wants[w] /\ Seen(w, frame) /\ frame.seq > told[w]
          BY <1>3, <1>6, <1>7, <1>12, <3>1, <4>1 DEF Tells
        <5>2. gap'[w] = gap[w] \cup ({frame.key} \cap Wants[w])
          BY <1>4, <3>1, <4>1, <5>1 DEF Unhanded
        <5> QED BY <2>2, <5>1, <5>2
      <4>2. CASE frame.name # "update"
        BY <1>4, <2>2, <3>1, <4>2 DEF Unhanded
      <4> QED BY <4>1, <4>2
    <3>3. KeyOk("open", cell[w][k], calls[w][k], db[k], log, told[w], Frames(w), k)
      BY <1>1, <1>3, <3>2 DEF WindowOk, PageOk
    <3>4. KeyOk("open", cell[w][k], calls[w][k], db[k], log, told'[w], Tail(Frames(w)), k)
      BY <1>3, <1>6, <1>8, <3>1, <3>2, <3>3, StillOwed
    <3> QED BY <1>6, <3>4
  <2>3. PageOk(w)'
    BY <1>1, <1>12, <2>1, <2>2 DEF PageOk
  <2>4. ServerOk' /\ \A v \in Window \ {w} : Untouched(v)
    BY <1>1, <1>3, <1>4, <1>12, ServerKept DEF ServerOk, SubscriptionsTypeOK, Untouched
  <2> QED BY <1>1, <1>5, <1>9, <1>10, <2>1, <2>3, <2>4, OneWindow DEF WindowOk
<1> QED BY <1>2, <1>7, <1>11, <1>12

-----------------------------------------------------------------------------
(* Writing.                                                                *)

\* What is kept of a list is its newest part.
LEMMA KeepNewestTail ==
  ASSUME NEW list \in Seq(Announcement)
  PROVE  /\ KeepNewest(list) \in Seq(Announcement) /\ Len(KeepNewest(list)) <= Backlog
         /\ TailOf(KeepNewest(list), list)
<1> DEFINE first == Len(list) - Backlog + 1
           kept == SubSeq(list, first, Len(list))
<1>1. Len(list) \in Nat /\ Backlog \in Nat \ {0}
  BY FanoutAssumption, LenProperties
<1>2. CASE Len(list) > Backlog
  <2>1. first \in 1 .. Len(list) /\ Len(list) - first + 1 = Backlog
    BY <1>1, <1>2
  <2>2. \A i \in first .. Len(list) : list[i] \in Announcement
    BY <1>1, <2>1, ElementOfSeq
  <2>3. /\ kept \in Seq(Announcement) /\ Len(kept) = Backlog
        /\ \A i \in 1 .. Backlog : kept[i] = list[first + i - 1]
    <3>1. first \in Int /\ Len(list) \in Int /\ first <= Len(list)
      BY <1>1, <2>1
    <3> HIDE DEF first
    <3> QED BY <2>1, <2>2, <3>1, SubSeqProperties
  <2>4. KeepNewest(list) = kept
    BY <1>2 DEF KeepNewest
  <2>5. \A i \in 1 .. Backlog : first + i - 1 = (Len(list) - Backlog) + i
    BY <1>1
  <2> HIDE DEF kept, first
  <2> QED BY <1>1, <1>2, <2>3, <2>4, <2>5 DEF TailOf
<1>3. CASE ~(Len(list) > Backlog)
  BY <1>1, <1>3 DEF KeepNewest, TailOf
<1> QED BY <1>2, <1>3

LEMMA WantedOfOne ==
  ASSUME NEW u \in Announcement, NEW w
  PROVE  WantedBy(w, <<u>>) = IF u.key \in Wants[w] THEN <<u>> ELSE <<>>
<1> DEFINE list == <<u>>
           wanted == {i \in 1 .. Len(list) : list[i].key \in Wants[w]}
<1>1. list \in Seq(Announcement) /\ Len(list) = 1 /\ list[1] = u
  OBVIOUS
<1>2. WantedBy(w, list) = Pick(list, wanted)
  BY DEF WantedBy
<1>3. 1 \in wanted <=> u.key \in Wants[w]
  BY <1>1
<1> HIDE DEF list, wanted
<1>4. Pick(list, wanted) = IF 1 \in wanted THEN list ELSE <<>>
  BY <1>1, PickOfOne
<1> QED BY <1>2, <1>3, <1>4 DEF list

LEMMA OneEvent ==
  ASSUME NEW u \in Announcement
  PROVE  /\ UpdateEvent(u) \in Event /\ AsEvents(<<u>>) = <<UpdateEvent(u)>>
         /\ AsEvents(<<>>) = <<>>
<1> DEFINE list == <<u>>
           events == AsEvents(list)
           one == <<UpdateEvent(u)>>
           none == AsEvents(<<>>)
<1>1. list \in Seq(Announcement) /\ Len(list) = 1 /\ list[1] = u
      /\ <<>> \in Seq(Announcement) /\ Len(<<>>) = 0
  BY EmptySeq
<1>2. UpdateEvent(u) \in Event
  BY DEF UpdateEvent, Event, Announcement
<1>3. one \in Seq(Event) /\ Len(one) = 1 /\ one[1] = UpdateEvent(u)
  BY <1>2
<1> HIDE DEF list, one
<1>4. events \in Seq(Event) /\ Len(events) = 1 /\ events[1] = UpdateEvent(u)
  <2>1. /\ AsEvents(list) \in Seq(Event) /\ Len(AsEvents(list)) = Len(list)
        /\ \A i \in 1 .. Len(list) : AsEvents(list)[i] = UpdateEvent(list[i])
    BY <1>1, EventsProperties
  <2> QED BY <1>1, <2>1
<1>5. none \in Seq(Event) /\ Len(none) = 0
  BY <1>1, EventsProperties
<1> HIDE DEF events, none
<1>6. events = one
  BY <1>3, <1>4, SeqEqual
<1>7. none = <<>>
  BY <1>5, EmptySeq
<1> QED BY <1>2, <1>6, <1>7 DEF events, one, none, list

\* The server's half of a write.
LEMMA WriteServer ==
  ASSUME ServerOk, NEW k \in Key, NEW u, u = [seq |-> Len(log) + 1, key |-> k, value |-> Len(log) + 1],
         Len(log) < MaxSeq, db' = [db EXCEPT ![k] = u.value], log' = Append(log, u),
         latest' = u.seq, backlog' = KeepNewest(Append(backlog, u)), generation' = generation,
         SubscriptionsTypeOK'
  PROVE  ServerOk' /\ u \in Announcement
<1> DEFINE N == Len(log)
           L == Len(backlog)
           both == Append(backlog, u)
<1>1. /\ log \in Seq(Announcement) /\ N \in Nat /\ backlog \in Seq(Announcement) /\ L \in Nat
      /\ L <= N /\ \A i \in 1 .. L : backlog[i] = log[(N - L) + i]
      /\ Numbered(log) /\ HoldsTheLast(log, db) /\ db \in [Key -> Slot]
  BY LenProperties DEF ServerOk, FanoutTypeOK, TailOf
<1>2. u \in Announcement /\ u.seq = N + 1 /\ u.key = k /\ u.value = N + 1 /\ u.value \in Slot
  <2>1. MaxSeq \in Nat /\ MaxNum \in Nat /\ MaxSeq <= MaxNum
    BY SyncAssumption, FanoutAssumption
  <2>2. N + 1 \in Number
    BY <1>1, <2>1 DEF Number
  <2>3. N + 1 \in Slot /\ N + 1 \in Nat
    BY <1>1, <2>2 DEF Slot, Json
  <2> QED BY <2>3 DEF Announcement
<1>3. /\ log' \in Seq(Announcement) /\ Len(log') = N + 1 /\ log'[N + 1] = u
      /\ \A i \in 1 .. N : log'[i] = log[i]
  BY <1>1, <1>2, AppendProperties
<1>4. /\ both \in Seq(Announcement) /\ Len(both) = L + 1 /\ both[L + 1] = u
      /\ \A i \in 1 .. L : both[i] = backlog[i]
  BY <1>1, <1>2, AppendProperties
<1> HIDE DEF both
<1>5. /\ KeepNewest(both) \in Seq(Announcement) /\ Len(KeepNewest(both)) <= Backlog
      /\ TailOf(KeepNewest(both), both)
  BY <1>4, KeepNewestTail
<1> DEFINE kept == KeepNewest(both)
           K == Len(kept)
<1>6. K \in Nat /\ K <= L + 1 /\ \A i \in 1 .. K : kept[i] = both[((L + 1) - K) + i]
  BY <1>4, <1>5, LenProperties DEF TailOf
<1>7. backlog' = kept
  BY DEF both
<1> HIDE DEF kept, N, L
<1>8. TailOf(backlog', log')
  <2>1. ASSUME NEW i \in 1 .. K PROVE kept[i] = log'[((N + 1) - K) + i]
    <3> DEFINE j == ((L + 1) - K) + i
    <3>1. j \in 1 .. L + 1 /\ (N - L) + j = ((N + 1) - K) + i
      BY <1>1, <1>6
    <3>2. kept[i] = both[j]
      BY <1>6
    <3> HIDE DEF j
    <3>3. CASE j = L + 1
      <4>1. (N - L) + j = N + 1
        BY <1>1, <3>3
      <4>2. both[j] = log'[N + 1]
        BY <1>3, <1>4, <3>3
      <4> QED BY <3>1, <3>2, <4>1, <4>2
    <3>4. CASE j # L + 1
      <4>1. j \in 1 .. L
        BY <1>1, <3>1, <3>4
      <4>2. (N - L) + j \in 1 .. N
        BY <1>1, <4>1
      <4>3. both[j] = log[(N - L) + j]
        BY <1>1, <1>4, <4>1
      <4>4. log'[(N - L) + j] = log[(N - L) + j]
        BY <1>3, <4>2
      <4> QED BY <3>1, <3>2, <4>3, <4>4
    <3> QED BY <3>3, <3>4
  <2>2. K <= N + 1
    BY <1>1, <1>6
  <2> QED BY <1>3, <1>6, <1>7, <2>1, <2>2 DEF TailOf
<1>9. Numbered(log')
  <2>1. ASSUME NEW i \in 1 .. N + 1 PROVE log'[i].seq = i /\ log'[i].value = i
    <3>1. CASE i = N + 1
      BY <1>2, <1>3, <3>1
    <3>2. CASE i # N + 1
      <4>1. i \in 1 .. N
        BY <1>1, <3>2
      <4> QED BY <1>1, <1>3, <4>1 DEF Numbered, N
    <3> QED BY <3>1, <3>2
  <2> QED BY <1>3, <2>1 DEF Numbered
<1>10. HoldsTheLast(log', db')
  <2> SUFFICES ASSUME NEW j \in Key, NEW n \in 1 .. N + 1, log'[n].key = j
               PROVE  db'[j] = n \/ Beyond(log', n, j)
    BY <1>3 DEF HoldsTheLast
  <2>1. CASE n = N + 1
    BY <1>1, <1>2, <1>3, <2>1
  <2>2. CASE n # N + 1
    <3>1. n \in 1 .. N /\ log[n].key = j
      BY <1>1, <1>3, <2>2
    <3>2. CASE j = k
      <4>1. N + 1 \in 1 .. Len(log') /\ N + 1 > n /\ log'[N + 1].key = j
        BY <1>1, <1>2, <1>3, <3>1, <3>2
      <4> QED BY <4>1 DEF Beyond
    <3>3. CASE j # k
      <4>1. db'[j] = db[j]
        BY <1>1, <3>3
      <4>2. db[j] = n \/ Beyond(log, n, j)
        BY <1>1, <3>1 DEF HoldsTheLast, N
      <4>3. Beyond(log, n, j) => Beyond(log', n, j)
        BY <1>1, <1>3 DEF Beyond, N
      <4> QED BY <4>1, <4>2, <4>3
    <3> QED BY <3>2, <3>3
  <2> QED BY <2>1, <2>2
<1>11. db' \in [Key -> Slot]
  BY <1>1, <1>2
<1>12. Len(log') <= MaxSeq
  BY <1>1, <1>3, SyncAssumption DEF N
<1>13. latest' = Len(log') /\ latest' \in Nat
  BY <1>1, <1>2, <1>3
<1> QED BY <1>2, <1>3, <1>5, <1>7, <1>8, <1>9, <1>10, <1>11, <1>12, <1>13
     DEF ServerOk, FanoutTypeOK, kept

\* What one announced change does to a subscription.
LEMMA QueueMore ==
  ASSUME SubscriptionsTypeOK, NEW u \in Announcement, u.seq \in Nat,
         subs' = [s \in Subscriber |->
                    IF subs[s].live
                      THEN [subs[s] EXCEPT !.rx = @ \o AsEvents(WantedBy(s, <<u>>))]
                      ELSE subs[s]]
  PROVE  /\ SubscriptionsTypeOK'
         /\ \A w \in Subscriber :
              /\ subs'[w].live = subs[w].live
              /\ Queue(w)' = IF subs[w].live /\ u.key \in Wants[w]
                               THEN Append(Queue(w), UpdateEvent(u)) ELSE Queue(w)
<1>1. UpdateEvent(u) \in Event
  BY OneEvent
<1>2. ASSUME NEW w \in Subscriber
      PROVE  /\ subs'[w].live = subs[w].live
             /\ Queue(w)' = IF subs[w].live /\ u.key \in Wants[w]
                              THEN Append(Queue(w), UpdateEvent(u)) ELSE Queue(w)
             /\ subs'[w] \in [live : BOOLEAN, pending : Seq(Event), rx : Seq(Event),
                              upto : Nat \cup {NoSeq}]
  <2> DEFINE q == subs[w].pending
             r == subs[w].rx
             e == UpdateEvent(u)
  <2>1. /\ q \in Seq(Event) /\ r \in Seq(Event) /\ e \in Event /\ subs[w].live \in BOOLEAN
        /\ subs[w] \in [live : BOOLEAN, pending : Seq(Event), rx : Seq(Event),
                        upto : Nat \cup {NoSeq}]
    BY <1>1 DEF SubscriptionsTypeOK
  <2>2. Queue(w) = q \o r /\ Queue(w)' = subs'[w].pending \o subs'[w].rx
    BY DEF Queue
  <2>3. CASE ~subs[w].live
    <3>1. subs'[w] = subs[w]
      BY <2>3
    <3> QED BY <2>1, <2>2, <2>3, <3>1
  <2>4. CASE subs[w].live /\ u.key \notin Wants[w]
    <3>1. AsEvents(WantedBy(w, <<u>>)) = <<>>
      BY <2>4, WantedOfOne, OneEvent
    <3>2. subs'[w] = [subs[w] EXCEPT !.rx = r \o <<>>]
      BY <2>4, <3>1
    <3>3. r \o <<>> = r
      BY <2>1, ConcatEmptySeq
    <3>4. subs'[w] = subs[w]
      BY <2>1, <3>2, <3>3
    <3> QED BY <2>1, <2>2, <2>4, <3>4
  <2>5. CASE subs[w].live /\ u.key \in Wants[w]
    <3>1. AsEvents(WantedBy(w, <<u>>)) = <<e>>
      BY <2>5, WantedOfOne, OneEvent
    <3>2. subs'[w] = [subs[w] EXCEPT !.rx = r \o <<e>>]
      BY <2>5, <3>1
    <3>3. <<e>> \in Seq(Event)
      BY <2>1
    <3> HIDE DEF e
    <3>4. r \o <<e>> \in Seq(Event)
      BY <2>1, <3>3, ConcatProperties
    <3>5. /\ subs'[w].pending = q /\ subs'[w].rx = r \o <<e>> /\ subs'[w].live = subs[w].live
          /\ subs'[w] \in [live : BOOLEAN, pending : Seq(Event), rx : Seq(Event),
                           upto : Nat \cup {NoSeq}]
      BY <2>1, <3>2, <3>4
    <3> HIDE DEF q, r
    <3>6. q \o (r \o <<e>>) = (q \o r) \o <<e>>
      BY <2>1, <3>3, ConcatAssociative
    <3>7. q \o r \in Seq(Event)
      BY <2>1, ConcatProperties
    <3>8. (q \o r) \o <<e>> = Append(q \o r, e)
      BY <2>1, <3>7, AppendIsConcat
    <3>9. Queue(w)' = Append(Queue(w), e)
      BY <2>2, <3>5, <3>6, <3>8 DEF q, r
    <3> QED BY <2>5, <3>5, <3>9 DEF e
  <2> QED BY <2>1, <2>3, <2>4, <2>5
<1>3. SubscriptionsTypeOK'
  BY <1>2 DEF SubscriptionsTypeOK
<1> QED BY <1>2, <1>3

\* What one announced change adds to what is on its way.
LEMMA FramesMore ==
  ASSUME ServerOk, NEW w \in Subscriber, wire[w] \in Seq(FrameSet), wire'[w] = wire[w],
         NEW event \in Event,
         Queue(w)' = Append(Queue(w), event)
  PROVE  Frames(w)' = Append(Frames(w), UpdateFrame(event))
<1> DEFINE queue == Queue(w)
           longer == Append(queue, event)
           written == wire[w]
<1>1. queue \in Seq(Event) /\ written \in Seq(FrameSet)
  BY ConcatProperties DEF ServerOk, SubscriptionsTypeOK, Queue
<1>2. Frames(w)' = written \o Carry(longer)
  BY FramesNext
<1>3. Frames(w) = written \o Carry(queue)
  BY DEF Frames
<1> HIDE DEF queue, written
<1>4. written \o Carry(longer) = Append(written \o Carry(queue), UpdateFrame(event))
  BY <1>1, CarryMore
<1> QED BY <1>2, <1>3, <1>4

\* More is on its way.
LEMMA BringsGrows ==
  ASSUME NEW frames \in Seq(FrameSet), NEW frame \in FrameSet, NEW k
  PROVE  /\ Brings(frames, k) => Brings(Append(frames, frame), k)
         /\ Tells(frame) /\ frame.key = k => Brings(Append(frames, frame), k)
<1> DEFINE L == Len(frames)
           more == Append(frames, frame)
<1>1. L \in Nat /\ Len(more) = L + 1 /\ more[L + 1] = frame /\ \A i \in 1 .. L : more[i] = frames[i]
  BY AppendProperties
<1>2. L + 1 \in 1 .. Len(more) /\ \A i \in 1 .. L : i \in 1 .. Len(more)
  BY <1>1
<1> HIDE DEF L, more
<1>3. ASSUME Brings(frames, k) PROVE Brings(more, k)
  <2>1. PICK i \in 1 .. L : Admits(frames[i]) \/ (Tells(frames[i]) /\ frames[i].key = k)
    BY <1>3 DEF Brings, L
  <2> QED BY <1>1, <1>2, <2>1 DEF Brings
<1>4. ASSUME Tells(frame), frame.key = k PROVE Brings(more, k)
  BY <1>1, <1>2, <1>4 DEF Brings
<1> QED BY <1>3, <1>4 DEF more

\* A window's half of a write.
LEMMA WriteWindow ==
  ASSUME ServerOk, NEW k \in Key, NEW u \in Announcement, u.seq = Len(log) + 1, u.key = k,
         u.value = u.seq, db' = [db EXCEPT ![k] = u.value], log' = Append(log, u),
         NEW w \in Window, WindowOk(w),
         UNCHANGED <<conn, wire, cursor, failures, cell, calls, told, gap>>,
         subs'[w].live = subs[w].live,
         Queue(w)' = IF subs[w].live /\ u.key \in Wants[w]
                       THEN Append(Queue(w), UpdateEvent(u)) ELSE Queue(w)
  PROVE  WindowOk(w)'
<1> DEFINE N == Len(log)
           want == Wants[w]
           from == told[w]
           frames == Frames(w)
           frame == UpdateFrame(UpdateEvent(u))
<1>1. /\ log \in Seq(Announcement) /\ N \in Nat /\ db \in [Key -> Slot] /\ w \in Subscriber
      /\ from \in Nat /\ from <= N /\ wire[w] \in Seq(FrameSet)
      /\ want \subseteq Key
  BY SyncAssumption, FanoutAssumption, LenProperties
    DEF ServerOk, WindowOk, PageTyped, StreamOk
<1>2. /\ log' \in Seq(Announcement) /\ Len(log') = N + 1 /\ log'[N + 1] = u
      /\ \A i \in 1 .. N : log'[i] = log[i]
  BY <1>1, AppendProperties
<1>3. UpdateEvent(u) \in Event /\ frame \in FrameSet
  BY OneEvent, FrameOfEvent
<1>4. Tells(frame) /\ frame.seq = u.seq /\ frame.key = u.key /\ frame.value = u.value
  BY DEF UpdateFrame, UpdateEvent, Tells
<1> HIDE DEF frame
<1>5. \A j \in want : Beyond(log, from, j) => Beyond(log', from, j)
  BY <1>1, <1>2 DEF Beyond, N
<1>6. Beyond(log', from, k)
  <2>1. N + 1 \in 1 .. Len(log') /\ N + 1 > from /\ log'[N + 1].key = k
    BY <1>1, <1>2
  <2> QED BY <2>1 DEF Beyond
<1>7. PageTyped(w)' /\ CellsTyped(w)'
  BY DEF WindowOk, PageTyped, CellsTyped
<1>8. conn[w] = "open" <=> subs[w].live
  BY DEF WindowOk, PageTyped
<1>9. conn[w] = "open" => /\ Flows(Frames(w)', log', want, from)
                          /\ \A j \in want : Brings(frames, j) => Brings(Frames(w)', j)
                          /\ k \in want => Brings(Frames(w)', k)
  <2> SUFFICES ASSUME conn[w] = "open"
               PROVE  /\ Flows(Frames(w)', log', want, from)
                      /\ \A j \in want : Brings(frames, j) => Brings(Frames(w)', j)
                      /\ k \in want => Brings(Frames(w)', k)
    OBVIOUS
  <2>1. Flows(frames, log, want, from) /\ frames \in Seq(FrameSet)
    BY DEF WindowOk, StreamOk, Flows
  <2>2. CASE k \in want
    <3>1. Frames(w)' = Append(frames, frame)
      BY <1>1, <1>3, <1>8, <2>2, FramesMore DEF frame
    <3> HIDE DEF frames, want, from
    <3>2. Flows(Append(frames, frame), Append(log, u), want, from)
      BY <1>1, <1>3, <1>4, <2>1, <2>2, FlowsMore DEF N
    <3>3. /\ \A j : Brings(frames, j) => Brings(Append(frames, frame), j)
          /\ Brings(Append(frames, frame), k)
      BY <1>3, <1>4, <2>1, BringsGrows
    <3> QED BY <3>1, <3>2, <3>3
  <2>3. CASE k \notin want
    <3>1. Queue(w)' = Queue(w)
      BY <2>3
    <3>2. Frames(w)' = wire[w] \o Carry(Queue(w))
      BY <3>1, FramesNext
    <3>3. Frames(w)' = frames
      BY <3>2 DEF Frames
    <3> HIDE DEF frames, want, from
    <3>4. Flows(frames, Append(log, u), want, from)
      BY <1>1, <2>1, <2>3, FlowsPast
    <3> QED BY <2>3, <3>3, <3>4
  <2> QED BY <2>2, <2>3
<1>10. StreamOk(w)'
  BY <1>1, <1>2, <1>9 DEF WindowOk, StreamOk
<1>11. ASSUME NEW j \in want
       PROVE  /\ Asks(conn[w], cell[w][j], calls[w][j])
              /\ j \notin gap[w] =>
                   KeyOk(conn[w], cell[w][j], calls[w][j], db'[j], log', from, Frames(w)', j)
  <2>1. /\ Asks(conn[w], cell[w][j], calls[w][j])
        /\ j \notin gap[w] =>
             KeyOk(conn[w], cell[w][j], calls[w][j], db[j], log, from, frames, j)
    BY DEF WindowOk, PageOk
  <2>2. CASE j = k
    BY <1>6, <1>9, <2>1, <2>2 DEF KeyOk
  <2>3. CASE j # k
    <3>1. db'[j] = db[j]
      BY <1>1, <2>3
    <3> QED BY <1>5, <1>9, <2>1, <3>1 DEF KeyOk
  <2> QED BY <2>2, <2>3
<1>12. PageOk(w)'
  BY <1>11 DEF PageOk
<1> QED BY <1>7, <1>10, <1>12 DEF WindowOk

LEMMA WriteSync == ASSUME SyncInv, NEW k \in Key, Write(k) PROVE SyncInv'
<1> DEFINE u == [seq |-> Len(log) + 1, key |-> k, value |-> Len(log) + 1]
<1>1. /\ Len(log) < MaxSeq /\ latest = Len(log) /\ ServerOk /\ Maps
      /\ backlog \in Seq(Announcement) /\ SubscriptionsTypeOK /\ Window = Subscriber
      /\ Len(log) \in Nat
  BY SyncAssumption, LenProperties DEF Write, SyncInv, ServerOk, FanoutTypeOK
<1>2. /\ db' = [db EXCEPT ![k] = u.value] /\ log' = Append(log, u) /\ PublishAll(<<u>>)
      /\ UNCHANGED <<generation, conn, wire, cursor, failures, cell, calls, told, gap>>
  BY <1>1 DEF Write, pageVars
<1>3. <<u>> # <<>> /\ Len(<<u>>) = 1 /\ <<u>>[1] = u
  OBVIOUS
<1>4. u.seq = Len(log) + 1 /\ u.key = k /\ u.value = u.seq /\ u.seq \in Nat
  BY <1>1
<1> HIDE DEF u
<1>5. /\ latest' = u.seq /\ backlog' = KeepNewest(backlog \o <<u>>)
      /\ subs' = [s \in Subscriber |->
                    IF subs[s].live
                      THEN [subs[s] EXCEPT !.rx = @ \o AsEvents(WantedBy(s, <<u>>))]
                      ELSE subs[s]]
  BY <1>2, <1>3 DEF PublishAll
<1>6. u \in Announcement
  <2>1. MaxSeq \in Nat /\ MaxNum \in Nat /\ MaxSeq <= MaxNum
    BY SyncAssumption, FanoutAssumption
  <2>2. Len(log) + 1 \in Number /\ Len(log) + 1 \in Nat
    BY <1>1, <2>1 DEF Number
  <2> QED BY <2>2 DEF Announcement, Slot, Json, u
<1>7. backlog \o <<u>> = Append(backlog, u)
  BY <1>1, <1>6, AppendIsConcat
<1>8. /\ SubscriptionsTypeOK'
      /\ \A w \in Subscriber :
           /\ subs'[w].live = subs[w].live
           /\ Queue(w)' = IF subs[w].live /\ u.key \in Wants[w]
                            THEN Append(Queue(w), UpdateEvent(u)) ELSE Queue(w)
  BY <1>1, <1>4, <1>5, <1>6, QueueMore
<1>9. ServerOk'
  BY <1>1, <1>2, <1>5, <1>7, <1>8, WriteServer DEF u
<1>10. \A w \in Window : WindowOk(w)'
  <2>1. ASSUME NEW w \in Window PROVE WindowOk(w)'
    <3>1. WindowOk(w)
      BY DEF SyncInv
    <3> QED BY <1>1, <1>2, <1>4, <1>6, <1>8, <3>1, WriteWindow
  <2> QED BY <2>1
<1>11. Maps'
  BY <1>1, <1>2 DEF Maps
<1> QED BY <1>9, <1>10, <1>11 DEF SyncInv

-----------------------------------------------------------------------------
(* Restarting.                                                             *)

\* The subscriptions do not survive a restart.
LEMMA ClosedByRestart ==
  ASSUME SubscriptionsTypeOK, NEW position, FanoutOpen(position)
  PROVE  SubscriptionsTypeOK' /\ \A w \in Subscriber : ~subs'[w].live
<1>1. <<>> \in Seq(Event)
  BY EmptySeq
<1>2. subs' = [s \in Subscriber |-> [subs[s] EXCEPT !.live = FALSE, !.pending = <<>>, !.rx = <<>>]]
  BY DEF FanoutOpen
<1>3. ASSUME NEW w \in Subscriber
      PROVE  /\ ~subs'[w].live
             /\ subs'[w] \in [live : BOOLEAN, pending : Seq(Event), rx : Seq(Event),
                              upto : Nat \cup {NoSeq}]
  <2>1. subs[w] \in [live : BOOLEAN, pending : Seq(Event), rx : Seq(Event),
                     upto : Nat \cup {NoSeq}]
    BY DEF SubscriptionsTypeOK
  <2>2. subs'[w] = [subs[w] EXCEPT !.live = FALSE, !.pending = <<>>, !.rx = <<>>]
    BY <1>2
  <2> QED BY <1>1, <2>1, <2>2
<1> QED BY <1>2, <1>3 DEF SubscriptionsTypeOK

LEMMA RestartSync == ASSUME SyncInv, Restart PROVE SyncInv'
<1>1. /\ \A w \in Window : conn[w] # "open" /\ WindowOk(w)
      /\ generation' = 0 /\ UNCHANGED <<conn, wire, cursor, failures, cell, calls>>
      /\ ServerOk /\ Maps /\ Window = Subscriber /\ SubscriptionsTypeOK
  BY SyncAssumption DEF Restart, SyncInv, ServerOk
<1>2. <<>> \in Seq(Announcement) /\ Len(<<>>) = 0 /\ Backlog \in Nat
      /\ Len(log) \in Nat /\ log \in Seq(Announcement) /\ MaxSeq \in Nat
  BY <1>1, EmptySeq, LenProperties, FanoutAssumption, SyncAssumption DEF ServerOk
<1>3. CASE FanoutOpen(latest) /\ UNCHANGED <<db, log, told, gap>>
  <2>1. SubscriptionsTypeOK' /\ \A w \in Window : ~subs'[w].live
    BY <1>1, <1>3, ClosedByRestart
  <2>2. latest' = latest /\ backlog' = <<>>
    BY <1>3 DEF FanoutOpen
  <2>3. ServerOk'
    BY <1>1, <1>2, <1>3, <2>1, <2>2 DEF ServerOk, FanoutTypeOK, TailOf
  <2>4. ASSUME NEW w \in Window PROVE WindowOk(w)'
    <3>1. PageTyped(w)' /\ CellsTyped(w)'
      BY <1>1, <1>3, <2>1 DEF WindowOk, PageTyped, CellsTyped
    <3>2. CellsOk(w)
      BY <1>1 DEF CellsOk, WindowOk, PageOk
    <3>3. StreamOk(w)' /\ PageOk(w)'
      BY <1>1, <1>3, <3>1, <3>2, NotOpenOk
    <3> QED BY <3>1, <3>3 DEF WindowOk
  <2>5. Maps'
    BY <1>1, <1>3 DEF Maps
  <2> QED BY <2>3, <2>4, <2>5 DEF SyncInv
<1>4. CASE /\ FanoutOpen(0) /\ db' = [k \in Key |-> None] /\ log' = <<>>
           /\ told' = [w \in Window |-> 0]
           /\ gap' = [w \in Window |-> IF conn[w] = "none" THEN {} ELSE Wants[w]]
  <2>1. SubscriptionsTypeOK' /\ \A w \in Window : ~subs'[w].live
    BY <1>1, <1>4, ClosedByRestart
  <2>2. latest' = 0 /\ backlog' = <<>>
    BY <1>4 DEF FanoutOpen
  <2>3. Numbered(log') /\ HoldsTheLast(log', db') /\ TailOf(backlog', log')
    BY <1>2, <1>4, <2>2 DEF Numbered, HoldsTheLast, TailOf
  <2>4. db' \in [Key -> Slot]
    BY <1>4, ShownTypes
  <2>5. Len(log') = 0 /\ log' \in Seq(Announcement) /\ 0 <= MaxSeq /\ Len(backlog') <= Backlog
    BY <1>2, <1>4, <2>2
  <2>6. ServerOk'
    BY <1>1, <1>2, <2>1, <2>2, <2>3, <2>4, <2>5 DEF ServerOk, FanoutTypeOK
  <2>7. ASSUME NEW w \in Window PROVE WindowOk(w)'
    <3>1. told'[w] = 0 /\ gap'[w] = IF conn[w] = "none" THEN {} ELSE Wants[w]
      BY <1>4
    <3>2. PageTyped(w)' /\ CellsTyped(w)'
      BY <1>1, <2>1, <3>1 DEF WindowOk, PageTyped, CellsTyped
    <3>3. StreamOk(w)'
      BY <1>1, <2>5, <3>1 DEF WindowOk, PageTyped, StreamOk
    <3>4. PageOk(w)'
      BY <1>1, <3>1 DEF WindowOk, PageOk, Asks, KeyOk, Sound
    <3> QED BY <3>2, <3>3, <3>4 DEF WindowOk
  <2>8. Maps'
    BY <1>1, <1>4 DEF Maps
  <2> QED BY <2>6, <2>7, <2>8 DEF SyncInv
<1> QED BY <1>3, <1>4 DEF Restart

-----------------------------------------------------------------------------
(* The invariant.                                                          *)

LEMMA InitSync == ASSUME Init PROVE SyncInv
<1>1. /\ latest = 0 /\ backlog = <<>> /\ subs = [s \in Subscriber |-> Closed]
      /\ db = [k \in Key |-> None] /\ log = <<>> /\ generation \in Nat /\ Window = Subscriber
      /\ conn = [w \in Window |-> "none"] /\ wire = [w \in Window |-> <<>>]
      /\ cursor = [w \in Window |-> NoSeq] /\ failures = [w \in Window |-> 0]
      /\ cell = [w \in Window |-> [k \in Wants[w] |-> Loading]]
      /\ calls = [w \in Window |-> [k \in Wants[w] |-> {}]]
      /\ told = [w \in Window |-> 0] /\ gap = [w \in Window |-> {}]
  BY SyncAssumption DEF Init, FanoutInit
<1>2. /\ <<>> \in Seq(Announcement) /\ <<>> \in Seq(Event) /\ <<>> \in Seq(FrameSet)
      /\ Len(<<>>) = 0 /\ Backlog \in Nat /\ MaxSeq \in Nat /\ 0 < RETRY_LIMIT
      /\ RETRY_LIMIT \in Nat
  BY EmptySeq, FanoutAssumption, SyncAssumption
<1>3. Numbered(log) /\ HoldsTheLast(log, db) /\ TailOf(backlog, log)
  BY <1>1, <1>2 DEF Numbered, HoldsTheLast, TailOf
<1>4. Closed \in [live : BOOLEAN, pending : Seq(Event), rx : Seq(Event), upto : Nat \cup {NoSeq}]
      /\ ~Closed.live
  BY <1>2 DEF Closed
<1>5. SubscriptionsTypeOK
  BY <1>1, <1>4 DEF SubscriptionsTypeOK
<1>6. ServerOk
  BY <1>1, <1>2, <1>3, <1>5, ShownTypes DEF ServerOk, FanoutTypeOK
<1>7. Maps
  BY <1>1 DEF Maps
<1>8. ASSUME NEW w \in Window PROVE WindowOk(w)
  <2>1. PageTyped(w)
    BY <1>1, <1>2, <1>4 DEF PageTyped
  <2>2. CellsTyped(w)
    BY <1>1, ShownTypes DEF CellsTyped
  <2>3. StreamOk(w)
    BY <1>1, <1>2 DEF StreamOk
  <2>4. PageOk(w)
    BY <1>1 DEF PageOk, Asks, KeyOk, Sound
  <2> QED BY <2>1, <2>2, <2>3, <2>4 DEF WindowOk
<1> QED BY <1>6, <1>7, <1>8 DEF SyncInv

LEMMA NextSync == ASSUME IInv, SyncInv, [Next]_vars PROVE SyncInv'
<1>1. CASE Next
  BY <1>1, WriteSync, LoadSync, AcceptSync, PumpSync, ReceiveSync, RefusedSync, CutSync,
     ReconnectSync, UnloadSync, AnswerSync, SettleSync, RestartSync DEF Next
<1>2. CASE UNCHANGED vars
  <2>1. UNCHANGED <<latest, backlog, subs, db, log, generation, conn, wire, cursor, failures,
                    cell, calls, told, gap>>
    BY <1>2 DEF vars, fanoutVars, serverVars, pageVars
  <2>2. ServerOk' /\ Maps'
    BY <2>1 DEF SyncInv, ServerOk, FanoutTypeOK, SubscriptionsTypeOK, Maps
  <2>3. ASSUME NEW w \in Window PROVE WindowOk(w)'
    BY <2>1, UntouchedOk DEF SyncInv, Untouched
  <2> QED BY <2>2, <2>3 DEF SyncInv
<1> QED BY <1>1, <1>2

LEMMA SyncAlways == Spec => [](IInv /\ SyncInv)
<1>1. Init => IInv /\ SyncInv
  BY InitIInv, InitSync
<1>2. IInv /\ SyncInv /\ [Next]_vars => (IInv /\ SyncInv)'
  BY NextIInv, NextSync
<1> QED BY <1>1, <1>2, PTL DEF Spec

-----------------------------------------------------------------------------
(* Results.                                                                *)

\* Every variable has its type, and no cell waits for two answers
\* (store.js, `remoteCell`).
THEOREM TypeCorrect == Spec => []TypeOK
<1>1. ASSUME IInv, SyncInv PROVE TypeOK
  <2>1. \A w \in Window : WindowOk(w)
    BY <1>1 DEF SyncInv
  <2>2. FanoutTypeOK /\ SubscriptionsTypeOK /\ db \in [Key -> Slot]
    BY <1>1 DEF SyncInv, ServerOk
  <2>3. /\ conn \in [Window -> {"none", "connecting", "open", "waiting", "stopped"}]
        /\ cursor \in [Window -> Nat \cup {NoSeq}]
        /\ failures \in [Window -> 0 .. RETRY_LIMIT]
        /\ \A w \in Window : conn[w] = "open" <=> subs[w].live
    BY <1>1, <2>1 DEF SyncInv, Maps, WindowOk, PageTyped
  <2>4. ASSUME NEW w \in Window, NEW k \in Wants[w]
        PROVE  /\ cell[w][k] \in Shown /\ calls[w][k] \in SUBSET Request
               /\ Cardinality({r \in calls[w][k] : r.current}) <= 1
    <3>1. cell[w][k] \in Shown /\ calls[w][k] \in SUBSET Request
      BY <2>1 DEF WindowOk, CellsTyped
    <3> DEFINE awaited == {r \in calls[w][k] : r.current}
    <3>2. awaited = {} \/ \E r : awaited = {r}
      BY <1>1 DEF IInv, Awaited, OneIsAwaited
    <3>3. Cardinality(awaited) = 0 \/ Cardinality(awaited) = 1
      <4> HIDE DEF awaited
      <4> QED BY <3>2, FS_EmptySet, FS_Singleton
    <3> QED BY <3>1, <3>3
  <2> QED BY <2>2, <2>3, <2>4 DEF TypeOK
<1> QED BY <1>1, SyncAlways, PTL

\* A connected page with nothing under way shows what the store holds, or
\* that its read failed: every change that was not lost on the way (gap) was
\* either in an answer, in a replay or in a pushed frame (server.rs, the
\* held stream; store.js, `receive`).
THEOREM ResumedPagesAlwaysCurrent == Spec => []ResumedPagesAreCurrent
<1>1. ASSUME IInv, SyncInv PROVE ResumedPagesAreCurrent
  <2> SUFFICES ASSUME NEW w \in Window, Quiet(w), NEW k \in Wants[w], k \notin gap[w]
               PROVE  cell[w][k] \in {Failed, Ready(db[k])}
    BY DEF ResumedPagesAreCurrent
  <2>1. /\ conn[w] = "open" /\ wire[w] = <<>> /\ subs[w].pending = <<>> /\ subs[w].rx = <<>>
        /\ calls[w][k] = {}
    BY DEF Quiet
  <2>2. Frames(w) = <<>>
    <3>1. <<>> \o <<>> = <<>>
      BY ConcatEmptySeq, EmptySeq
    <3>2. Queue(w) = <<>>
      BY <2>1, <3>1 DEF Queue
    <3> QED BY <2>1, <3>1, <3>2, CarryNothing DEF Frames
  <2>3. ~Brings(Frames(w), k)
    BY <2>2, EmptySeq DEF Brings
  <2>4. /\ Asks(conn[w], cell[w][k], calls[w][k])
        /\ KeyOk(conn[w], cell[w][k], calls[w][k], db[k], log, told[w], Frames(w), k)
    BY <1>1 DEF SyncInv, WindowOk, PageOk
  <2>5. Sound(cell[w][k], calls[w][k], db[k])
    BY <2>1, <2>3, <2>4 DEF KeyOk
  <2> QED BY <2>1, <2>4, <2>5 DEF Sound, Asks
<1> QED BY <1>1, SyncAlways, PTL
=============================================================================
