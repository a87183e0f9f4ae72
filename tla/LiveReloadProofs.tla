-------------------------- MODULE LiveReloadProofs --------------------------
(***************************************************************************)
(* LiveReload for any set of pages and any bounds: its type invariant, and *)
(* that no rebuild is lost.                                                *)
(***************************************************************************)
EXTENDS LiveReload, TLAPS

FrameSet == [name : {"ready", "reload"}, id : Nat]

\* TypeOK, and what EXCEPT needs of the functions.
Typed ==
  /\ TypeOK
  /\ restarts \in Nat
  /\ tab \in [Page -> {"closed", "loaded", "listening"}]
  /\ shown \in [Page -> 0 .. MaxEdits]
  /\ wire \in [Page -> Seq(FrameSet)]
  /\ lastId \in [Page -> Nat \cup {NoId}]
  /\ met \in [Page -> Nat \cup {NoId}]
  /\ born \in [Page -> Nat]
  /\ orphans \subseteq Page

LEMMA InitTyped == ASSUME Init PROVE Typed
BY ReloadAssumption DEF Init, Typed, TypeOK

LEMMA NextTyped == ASSUME Typed, [Next]_vars PROVE Typed'
<1> USE ReloadAssumption DEF Typed, TypeOK
<1>1. ASSUME Save PROVE Typed'
  BY <1>1 DEF Save, serverVars, pageVars
<1>2. ASSUME Changed PROVE Typed'
  BY <1>2 DEF Changed, pageVars
<1>3. ASSUME Compile PROVE Typed'
  BY <1>3 DEF Compile, pageVars
<1>4. ASSUME Publish PROVE Typed'
  <2> DEFINE told == [name |-> "reload", id |-> generation + 1]
  <2>1. told \in FrameSet
    BY DEF FrameSet
  <2>2. \A w \in Page : Append(wire[w], told) \in Seq(FrameSet)
    BY <2>1
  <2>3. wire' \in [Page -> Seq(FrameSet)]
    BY <1>4, <2>2 DEF Publish
  <2> QED BY <1>4, <2>3 DEF Publish, FrameSet
<1>5. ASSUME Stop PROVE Typed'
  BY <1>5 DEF Stop
<1>6. ASSUME Boot \/ Bind PROVE Typed'
  BY <1>6 DEF Boot, Bind, pageVars
<1>7. ASSUME NEW w \in Page, Fetch(w) PROVE Typed'
  BY <1>7 DEF Fetch, serverVars
<1>8. ASSUME NEW w \in Page, Listen(w) PROVE Typed'
  <2>1. Frame(Resume(lastId[w])) \in FrameSet
    BY DEF Frame, Resume, FrameSet
  <2>2. <<Frame(Resume(lastId[w]))>> \in Seq(FrameSet)
    BY <2>1
  <2> QED BY <1>8, <2>2 DEF Listen, serverVars, FrameSet
<1>9. ASSUME NEW w \in Page, Hear(w) PROVE Typed'
  <2>1. Head(wire[w]) \in FrameSet /\ Tail(wire[w]) \in Seq(FrameSet)
    BY <1>9 DEF Hear
  <2>2. CASE Reload(w)
    BY <1>9, <2>2 DEF Hear, Reload, serverVars, FrameSet
  <2>3. CASE ~Reload(w)
    <3>1. Head(wire[w]).id \in Nat
      BY <2>1 DEF FrameSet
    <3>2. /\ met' = [met EXCEPT ![w] = Head(wire[w]).id]
          /\ lastId' = [lastId EXCEPT ![w] = Head(wire[w]).id]
          /\ wire' = [wire EXCEPT ![w] = Tail(wire[w])]
          /\ UNCHANGED <<tab, clients, orphans>>
      BY <1>9, <2>3 DEF Hear, Typed
    <3>3. UNCHANGED <<source, stamped, built, site, generation, loop, restarts, shown, born>>
      BY <1>9 DEF Hear, serverVars
    <3>4. /\ wire' \in [Page -> Seq(FrameSet)]
          /\ met' \in [Page -> Nat \cup {NoId}] /\ lastId' \in [Page -> Nat \cup {NoId}]
      BY <2>1, <3>1, <3>2
    <3> QED BY <3>2, <3>3, <3>4 DEF FrameSet
  <2> QED BY <2>2, <2>3
<1>10. ASSUME NEW w \in Page, Drop(w) PROVE Typed'
  BY <1>10 DEF Drop, serverVars
<1>11. ASSUME UNCHANGED vars PROVE Typed'
  BY <1>11 DEF vars, serverVars, pageVars
<1> QED BY <1>1, <1>2, <1>3, <1>4, <1>5, <1>6, <1>7, <1>8, <1>9, <1>10, <1>11 DEF Next, Run

-----------------------------------------------------------------------------
(* The inductive invariant.                                                *)

\* While the server is down, every page still open was fetched before.
DownOrphans == ~Up => \A w \in Page : tab[w] # "closed" => w \in orphans

\* A frame that says "ready" comes first, and none is ahead of the server.
FramesInOrder ==
  \A w \in Page :
    /\ \A i \in 1 .. Len(wire[w]) :
         /\ wire[w][i].id <= generation
         /\ i > 1 => wire[w][i].name = "reload"
    /\ tab[w] # "listening" => wire[w] = <<>>

\* What is remembered is what was heard, and nothing is remembered of a
\* page that is closed.
MetIsHeard ==
  \A w \in Page :
    /\ lastId[w] = met[w]
    /\ tab[w] = "closed" => met[w] = NoId

\* A page of this server was fetched under a generation it had, and the
\* generation tells what was served.
BornIsShown ==
  \A w \in Page \ orphans : tab[w] # "closed" =>
    /\ born[w] <= generation
    /\ born[w] = generation => shown[w] = site
    /\ met[w] # NoId => met[w] <= generation

\* A listening page that is behind, or is about to hear that it is, has a
\* reload on its way.
BehindIsTold ==
  \A w \in Page : tab[w] = "listening" =>
    /\ met[w] # NoId /\ met[w] < generation
         => \E i \in 1 .. Len(wire[w]) : wire[w][i].name = "reload"
    /\ wire[w] # <<>> /\ wire[w][1].name = "ready" /\ wire[w][1].id < generation
         => Len(wire[w]) > 1

IInv == Typed /\ DownOrphans /\ FramesInOrder /\ MetIsHeard /\ BornIsShown /\ BehindIsTold

LEMMA InitIInv == ASSUME Init PROVE IInv
BY InitTyped, ReloadAssumption
   DEF Init, IInv, DownOrphans, FramesInOrder, MetIsHeard, BornIsShown, BehindIsTold, Up

\* A rebuild: every listening page is told, and the others read the new site
\* when they are fetched.
LEMMA PublishKeeps == ASSUME IInv, Publish PROVE IInv'
<1> DEFINE told == [name |-> "reload", id |-> generation + 1]
<1>1. Typed' /\ generation \in Nat
  BY NextTyped DEF IInv, Next, Run, Typed, TypeOK
<1>2. ASSUME NEW w \in Page, tab[w] = "listening"
      PROVE  /\ wire'[w] = Append(wire[w], told)
             /\ Len(wire'[w]) = Len(wire[w]) + 1 /\ Len(wire[w]) \in Nat
             /\ \A i \in 1 .. Len(wire[w]) : wire'[w][i] = wire[w][i]
             /\ wire'[w][Len(wire[w]) + 1] = told
  <2>1. w \in clients /\ wire[w] \in Seq(FrameSet)
    BY <1>2 DEF IInv, Typed, TypeOK
  <2>2. wire'[w] = Append(wire[w], told)
    BY <2>1 DEF Publish
  <2> QED BY <2>1, <2>2
<1>3. ASSUME NEW w \in Page, tab[w] # "listening" PROVE wire'[w] = wire[w] /\ wire[w] = <<>>
  BY <1>3 DEF Publish, IInv, Typed, TypeOK, FramesInOrder
<1>4. DownOrphans'
  BY DEF Publish, IInv, DownOrphans, Up
<1>5. FramesInOrder'
  <2> SUFFICES ASSUME NEW w \in Page
               PROVE  /\ \A i \in 1 .. Len(wire'[w]) :
                           /\ wire'[w][i].id <= generation'
                           /\ i > 1 => wire'[w][i].name = "reload"
                      /\ tab'[w] # "listening" => wire'[w] = <<>>
    BY DEF FramesInOrder
  <2>1. CASE tab[w] = "listening"
    <3>1. ASSUME NEW i \in 1 .. Len(wire'[w])
          PROVE  wire'[w][i].id <= generation' /\ (i > 1 => wire'[w][i].name = "reload")
      <4>1. CASE i = Len(wire[w]) + 1
        BY <4>1, <1>1, <1>2, <2>1 DEF Publish
      <4>2. CASE i # Len(wire[w]) + 1
        <5>1. i \in 1 .. Len(wire[w]) /\ wire'[w][i] = wire[w][i]
          BY <4>2, <1>2, <2>1
        <5>2. wire[w][i].id <= generation /\ wire[w][i].id \in Nat
              /\ (i > 1 => wire[w][i].name = "reload")
          <6>1. wire[w] \in Seq(FrameSet)
            BY DEF IInv, Typed
          <6>2. wire[w][i] \in FrameSet
            BY <5>1, <6>1
          <6>3. wire[w][i].id \in Nat
            BY <6>2 DEF FrameSet
          <6> QED BY <5>1, <6>3 DEF IInv, FramesInOrder
        <5> QED BY <5>1, <5>2, <1>1 DEF Publish
      <4> QED BY <4>1, <4>2
    <3> QED BY <3>1, <2>1 DEF Publish
  <2>2. CASE tab[w] # "listening"
    <3>1. wire'[w] = <<>>
      BY <1>3, <2>2
    <3>2. Len(wire'[w]) = 0
      BY <3>1
    <3> QED BY <3>1, <3>2
  <2> QED BY <2>1, <2>2
<1>6. MetIsHeard'
  BY DEF Publish, IInv, MetIsHeard
<1>7. BornIsShown'
  BY <1>1 DEF Publish, IInv, BornIsShown, Typed
<1>8. BehindIsTold'
  <2> SUFFICES ASSUME NEW w \in Page, tab[w] = "listening"
               PROVE  /\ \E i \in 1 .. Len(wire'[w]) : wire'[w][i].name = "reload"
                      /\ wire'[w][1].name = "ready" => Len(wire'[w]) > 1
    BY DEF BehindIsTold, Publish
  <2>1. Len(wire[w]) + 1 \in 1 .. Len(wire'[w])
    BY <1>2
  <2>2. wire'[w][Len(wire[w]) + 1].name = "reload"
    BY <1>2
  <2>3. wire'[w][1].name = "ready" => Len(wire[w]) + 1 # 1
    BY <2>2
  <2> QED BY <2>1, <2>2, <2>3, <1>2
<1> QED BY <1>1, <1>4, <1>5, <1>6, <1>7, <1>8 DEF IInv

\* A page reads a frame.
LEMMA HearKeeps == ASSUME IInv, NEW w \in Page, Hear(w) PROVE IInv'
<1>1. Typed' /\ generation \in Nat /\ wire[w] \in Seq(FrameSet) /\ wire[w] # <<>>
  BY NextTyped DEF IInv, Next, Typed, TypeOK, Hear
<1>2. UNCHANGED <<generation, site, loop, shown, born>>
  BY DEF Hear, serverVars
<1>3. CASE Reload(w)
  BY <1>1, <1>2, <1>3
     DEF Reload, IInv, Typed, DownOrphans, FramesInOrder, MetIsHeard, BornIsShown, BehindIsTold, Up
<1>4. CASE ~Reload(w)
  <2> DEFINE frame == wire[w][1]
  <2>1. /\ frame = Head(wire[w]) /\ frame \in FrameSet
        /\ frame.name = "ready" /\ met[w] \in {NoId, frame.id}
        /\ met' = [met EXCEPT ![w] = frame.id]
        /\ lastId' = [lastId EXCEPT ![w] = frame.id]
        /\ wire' = [wire EXCEPT ![w] = Tail(@)]
        /\ UNCHANGED <<tab, orphans>>
    BY <1>1, <1>4 DEF Hear
  <2>2. /\ Len(wire'[w]) = Len(wire[w]) - 1 /\ Len(wire[w]) \in Nat \ {0}
        /\ \A i \in 1 .. Len(wire'[w]) : wire'[w][i] = wire[w][i + 1]
    BY <1>1, <2>1 DEF IInv, Typed
  <2>3. \A i \in 1 .. Len(wire'[w]) : wire'[w][i].name = "reload" /\ wire'[w][i].id <= generation
    BY <2>2 DEF IInv, FramesInOrder
  <2>4. \A v \in Page : v # w => wire'[v] = wire[v] /\ met'[v] = met[v] /\ lastId'[v] = lastId[v]
    BY <2>1 DEF IInv, Typed
  <2>5. met'[w] = frame.id /\ lastId'[w] = frame.id /\ frame.id \in Nat /\ frame.id <= generation
    BY <2>1, <2>2 DEF IInv, Typed, FramesInOrder, FrameSet
  <2>6. tab[w] = "listening"
    BY DEF Hear
  <2>7. DownOrphans'
    BY <1>2, <2>1 DEF IInv, DownOrphans, Up
  <2>8. FramesInOrder'
    BY <1>2, <2>1, <2>3, <2>4, <2>6 DEF IInv, FramesInOrder
  <2>9. MetIsHeard'
    BY <2>1, <2>4, <2>5, <2>6 DEF IInv, MetIsHeard
  <2>10. BornIsShown'
    BY <1>2, <2>1, <2>4, <2>5 DEF IInv, BornIsShown
  <2>11. frame.id < generation => Len(wire'[w]) > 0
    BY <1>1, <2>1, <2>2, <2>6 DEF IInv, BehindIsTold
  <2>12. BehindIsTold'
    BY <1>2, <2>1, <2>2, <2>3, <2>4, <2>5, <2>11 DEF IInv, BehindIsTold
  <2> QED BY <1>1, <2>7, <2>8, <2>9, <2>10, <2>12 DEF IInv
<1> QED BY <1>3, <1>4

\* The stream of a page reaches the server.
LEMMA ListenKeeps == ASSUME IInv, NEW w \in Page, Listen(w) PROVE IInv'
<1> DEFINE frame == Frame(Resume(lastId[w]))
<1>1. Typed' /\ generation \in Nat
  BY NextTyped DEF IInv, Next, Typed, TypeOK
<1>2. /\ wire'[w] = <<frame>> /\ Len(wire'[w]) = 1 /\ wire'[w][1] = frame
      /\ \A v \in Page : v # w => wire'[v] = wire[v] /\ tab'[v] = tab[v]
      /\ tab'[w] = "listening" /\ tab[w] = "loaded"
  BY DEF Listen, IInv, Typed
<1>3. UNCHANGED <<generation, site, loop, shown, born, met, lastId, orphans>>
  BY DEF Listen, serverVars
<1>4. frame.id = generation
      /\ frame.name = (IF lastId[w] # NoId /\ lastId[w] < generation THEN "reload" ELSE "ready")
  BY DEF Frame, Resume
<1>5. DownOrphans' /\ MetIsHeard' /\ BornIsShown'
  BY <1>2, <1>3 DEF IInv, DownOrphans, MetIsHeard, BornIsShown, Up
<1>6. FramesInOrder'
  BY <1>1, <1>2, <1>3, <1>4 DEF IInv, FramesInOrder
<1>7. BehindIsTold'
  BY <1>1, <1>2, <1>3, <1>4 DEF IInv, BehindIsTold, MetIsHeard
<1> QED BY <1>1, <1>5, <1>6, <1>7 DEF IInv

LEMMA NextIInv == ASSUME IInv, [Next]_vars PROVE IInv'
<1>1. Typed'
  BY NextTyped DEF IInv
<1> USE DEF IInv, DownOrphans, FramesInOrder, MetIsHeard, BornIsShown, BehindIsTold
<1>2. ASSUME Save \/ Changed \/ Compile \/ Boot \/ UNCHANGED vars PROVE IInv'
  BY <1>1, <1>2 DEF Save, Changed, Compile, Boot, vars, serverVars, pageVars, Up
<1>3. ASSUME Bind PROVE IInv'
  BY <1>1, <1>3 DEF Bind, pageVars, Up
<1>4. ASSUME Stop PROVE IInv'
  BY <1>1, <1>4 DEF Stop, Up, Typed, TypeOK
<1>5. ASSUME NEW w \in Page, Fetch(w) PROVE IInv'
  BY <1>1, <1>5 DEF Fetch, serverVars, Up, Typed, TypeOK
<1>6. ASSUME NEW w \in Page, Drop(w) PROVE IInv'
  <2>1. /\ wire'[w] = <<>> /\ tab'[w] = "loaded" /\ tab[w] = "listening"
        /\ \A v \in Page : v # w => wire'[v] = wire[v] /\ tab'[v] = tab[v]
        /\ UNCHANGED <<generation, site, loop, shown, lastId, met, born, orphans>>
    BY <1>6 DEF Drop, serverVars, Typed
  <2>2. Len(wire'[w]) = 0
    BY <2>1
  <2>3. DownOrphans' /\ MetIsHeard' /\ BornIsShown'
    BY <2>1 DEF Up
  <2>4. FramesInOrder'
    BY <2>1, <2>2
  <2>5. BehindIsTold'
    BY <2>1
  <2> QED BY <1>1, <2>3, <2>4, <2>5
<1> QED BY <1>2, <1>3, <1>4, <1>5, <1>6, PublishKeeps, HearKeeps, ListenKeeps DEF Next, Run

LEMMA Invariance == Spec => []IInv
BY InitIInv, NextIInv, PTL DEF Spec

-----------------------------------------------------------------------------
(* Results.                                                                *)

\* The watcher's versions, the registered streams and the frames are what
\* TypeOK says; in particular a stream is registered exactly while it is
\* held (server.rs, `clients`).
THEOREM TypeCorrect == Spec => []TypeOK
BY Invariance, PTL DEF IInv, Typed

\* Whatever drops, reconnects and rebuilds in between, a page that met the
\* generation it was fetched under and is not what is served has a reload
\* on its way (server.rs, `publish` and `stream`; sse.rs, `resume`).
THEOREM NoRebuildIsLostAlways == Spec => []NoRebuildIsLost
<1>1. IInv => NoRebuildIsLost
  <2> SUFFICES ASSUME IInv, NEW w \in Page \ orphans,
                      tab[w] = "listening", met[w] # NoId, met[w] = born[w], shown[w] # site
               PROVE  ReloadIsComing(w)
    BY DEF NoRebuildIsLost
  <2>1. born[w] \in Nat /\ generation \in Nat
    BY DEF IInv, Typed, TypeOK
  <2>2. born[w] <= generation /\ born[w] # generation
    BY DEF IInv, BornIsShown
  <2>3. met[w] < generation
    BY <2>1, <2>2
  <2> QED BY <2>3 DEF IInv, BehindIsTold, ReloadIsComing
<1> QED BY <1>1, Invariance, PTL
=============================================================================
