---------------------------- MODULE RuntimeProofs ----------------------------
(***************************************************************************)
(* What the browser's runtime keeps: its reactivity core and its keyed     *)
(* lists.                                                                  *)
(*                                                                         *)
(* Reactivity, for every program the compiler emits, any cells, effects    *)
(* and limit: a disposed effect is subscribed to nothing and is not        *)
(* running, although drains, recomputed deriveds and first runs nest on    *)
(* one stack, and an effect disposes others in the middle of a drain.  The *)
(* stack is what an invariant has to describe: which operations a frame    *)
(* may have left (Fits), where on the stack it may stand (Stands) and what *)
(* two frames have to do with each other (Apart).  From these, whoever     *)
(* disposes an arm runs above no effect of that arm (ArmIsNotRunning).     *)
(*                                                                         *)
(* Keyed lists, for any keys, lengths and failures: the region is the rows *)
(* of the list, in its order; every departed row is released; no row moves *)
(* that could stay.  The argument is about order only: a list of distinct  *)
(* nodes in a given order is one list at most (OneOrder), so it suffices   *)
(* that the rows left alone are in the new order already and that every    *)
(* insertion adds its row to those that stand in order (InsertedNodes).    *)
(* The rows left alone are as many as there are piles, and no two rows of  *)
(* a set in order are on one pile (SettledIsLongest).                      *)
(***************************************************************************)
EXTENDS Signals, KeyedList, ListsProofs, FiniteSetTheorems, TLAPS

(***************************************************************************)
(* What a frame may have to do, and where on the stack it may stand.       *)
(***************************************************************************)
Tests(p) == {"test"} \X Readable(p)
Mounts(names) == {"mount"} \X names

\* The operations of a frame, by what runs in it.
Allowed(p, n, bo) ==
  IF n = Page THEN Mounts(Names(p)) \cup ({"read"} \X Readable(p))
  ELSE IF n \in Derived THEN Tests(p) \cup Pure(p)
  ELSE IF bo[n] \in Bindings(p) THEN Tests(p) \cup Binding(p)
  ELSE Tests(p) \cup Binding(p) \cup Swaps(p) \cup Mounts(Bindings(p)) \cup {<<"keep">>}

\* Nothing is mounted inside a derived or a binding.
Quiet(p, n, bo) == n \in Derived \/ (n \in Effect /\ bo[n] \in Bindings(p))

\* A frame: its operations; a body tests before it does anything else; what
\* it has mounted is live and not yet anybody's arm.
Fits(p, f, lv, bo, ar) ==
  /\ DOMAIN f = {"node", "todo", "first", "seen", "made"}
  /\ f.node \in Computation \cup {Page} /\ f.first \in BOOLEAN
  /\ f.node \in Effect => f.node \in lv
  /\ f.node \in Derived => f.node \in DOMAIN p.body
  /\ f.todo \in Seq(Allowed(p, f.node, bo))
  /\ f.seen \in Seq(ToSet(f.seen))
  /\ \A i \in 1 .. Len(f.seen) : f.seen[i].key \in Val
  /\ f.node # Page /\ f.seen = <<>> => f.todo # <<>> /\ Head(f.todo)[1] = "test"
  /\ f.made \in Seq(Effect)
  /\ \A e \in ToSet(f.made) :
       /\ e \in lv /\ e \notin ToSet(ar)
       /\ f.node # Page => bo[e] \in Bindings(p)
  /\ f.first => f.node \in Effect /\ f.node \notin ToSet(f.made) /\ f.node \notin ToSet(ar)

\* The page is at the bottom; an effect that runs again is at the bottom of a
\* drain; one that runs for the first time is above what mounts it.
Stands(p, s, i, fl, b, bo) ==
  /\ s[i].node = Page => i = 1
  /\ s[i].node \in Effect /\ ~s[i].first => fl /\ i = b + 1
  /\ s[i].first =>
       /\ i > 1 /\ ~(fl /\ i = b + 1)
       /\ s[i - 1].node = Page \/ bo[s[i].node] \in Bindings(p)

\* Of two frames: above a quiet one, up to the bottom of a drain, there are
\* only deriveds; and nothing is mounted twice.
Apart(p, s, i, j, fl, b, bo) ==
  /\ ~(fl /\ i <= b /\ b < j) /\ Quiet(p, s[i].node, bo) => s[j].node \in Derived
  /\ s[i].first /\ s[j].first => s[i].node # s[j].node
  /\ s[i].first => s[i].node \notin ToSet(s[j].made)
  /\ s[j].first => s[j].node \notin ToSet(s[i].made)
  /\ \A e \in ToSet(s[i].made) : e \notin ToSet(s[j].made)

Stacked(p, s, fl, b, lv, bo, ar) ==
  /\ s \in Seq(ToSet(s))
  /\ b \in Nat /\ fl \in BOOLEAN
  /\ fl => b <= Len(s)
  /\ \A i \in 1 .. Len(s) : Fits(p, s[i], lv, bo, ar)
  /\ \A i \in 1 .. Len(s) : Stands(p, s, i, fl, b, bo)
  /\ \A i, j \in 1 .. Len(s) : i < j => Apart(p, s, i, j, fl, b, bo)

-----------------------------------------------------------------------------
(* Sequences.                                                              *)

LEMMA OwnElements ==
  ASSUME NEW S, NEW s \in Seq(S)
  PROVE  /\ s \in Seq(ToSet(s)) /\ ToSet(s) \subseteq S
         /\ \A i \in 1 .. Len(s) : s[i] \in ToSet(s)
         /\ \A x \in ToSet(s) : \E i \in 1 .. Len(s) : x = s[i]
<1>1. Len(s) \in Nat /\ DOMAIN s = 1 .. Len(s) /\ s \in [1 .. Len(s) -> S]
  BY LenProperties
<1>2. s \in [1 .. Len(s) -> ToSet(s)]
  BY <1>1 DEF ToSet
<1>3. s \in Seq(ToSet(s))
  BY <1>1, <1>2, SeqDef
<1> QED BY <1>1, <1>3 DEF ToSet

LEMMA Appended ==
  ASSUME NEW s, s \in Seq(ToSet(s)), NEW x
  PROVE  /\ Append(s, x) \in Seq(ToSet(Append(s, x)))
         /\ Len(Append(s, x)) = Len(s) + 1 /\ Len(s) \in Nat
         /\ \A k \in 1 .. Len(s) : Append(s, x)[k] = s[k]
         /\ Append(s, x)[Len(s) + 1] = x
         /\ ToSet(Append(s, x)) = ToSet(s) \cup {x}
<1> DEFINE S == ToSet(s) \cup {x}
           t == Append(s, x)
<1>1. s \in Seq(S)
  BY SeqMonotonic
<1>2. x \in S
  OBVIOUS
<1>3. /\ t \in Seq(S) /\ Len(t) = Len(s) + 1 /\ Len(s) \in Nat
      /\ \A k \in 1 .. Len(s) : t[k] = s[k]
      /\ t[Len(s) + 1] = x
  <2> HIDE DEF S
  <2> QED BY <1>1, <1>2, AppendProperties, LenProperties
<1>4. t \in Seq(ToSet(t))
  BY <1>3, OwnElements
<1>5. ToSet(t) = S
  <2>1. DOMAIN t = 1 .. Len(s) + 1 /\ DOMAIN s = 1 .. Len(s)
    BY <1>3, <1>1, LenProperties
  <2>2. \A y \in ToSet(t) : y \in S
    BY <2>1, <1>3 DEF ToSet
  <2>3. \A y \in S : y \in ToSet(t)
    BY <2>1, <1>3 DEF ToSet
  <2> QED BY <2>2, <2>3
<1> QED BY <1>3, <1>4, <1>5

LEMMA Topped ==
  ASSUME NEW s, s \in Seq(ToSet(s)), s # <<>>, NEW x
  PROVE  LET t == [s EXCEPT ![Len(s)] = x]
         IN /\ t \in Seq(ToSet(t)) /\ Len(t) = Len(s) /\ Len(s) \in Nat /\ Len(s) >= 1
            /\ \A k \in 1 .. Len(s) - 1 : t[k] = s[k]
            /\ t[Len(s)] = x
<1> DEFINE S == ToSet(s) \cup {x}
           t == [s EXCEPT ![Len(s)] = x]
<1>1. s \in Seq(S) /\ x \in S
  BY SeqMonotonic
<1>2. Len(s) \in Nat /\ Len(s) >= 1
  BY <1>1, EmptySeq
<1>3. t \in Seq(S) /\ Len(t) = Len(s) /\ \A k \in 1 .. Len(s) : t[k] = IF k = Len(s) THEN x ELSE s[k]
  <2> HIDE DEF S
  <2>1. Len(s) \in 1 .. Len(s)
    BY <1>2
  <2> QED BY <1>1, <2>1, ExceptSeq
<1>4. t \in Seq(ToSet(t))
  BY <1>3, OwnElements
<1> QED BY <1>2, <1>3, <1>4

LEMMA Cut ==
  ASSUME NEW s, s \in Seq(ToSet(s)), NEW n \in 0 .. Len(s)
  PROVE  LET t == SubSeq(s, 1, n)
         IN t \in Seq(ToSet(t)) /\ Len(t) = n /\ \A k \in 1 .. n : t[k] = s[k]
<1> DEFINE t == SubSeq(s, 1, n)
<1>1. Len(s) \in Nat /\ \A k \in 1 .. n : s[k] \in ToSet(s)
  BY LenProperties, ElementOfSeq
<1>2. t \in Seq(ToSet(s)) /\ Len(t) = (IF 1 <= n THEN n - 1 + 1 ELSE 0)
      /\ \A k \in 1 .. n - 1 + 1 : t[k] = s[1 + k - 1]
  BY <1>1, SubSeqProperties
<1>3. Len(t) = n /\ \A k \in 1 .. n : t[k] = s[k]
  <2>1. Len(t) = n
    BY <1>1, <1>2
  <2>2. ASSUME NEW k \in 1 .. n PROVE t[k] = s[k]
    <3>1. k \in 1 .. n - 1 + 1 /\ 1 + k - 1 = k
      OBVIOUS
    <3> QED BY <1>2, <3>1
  <2> QED BY <2>1, <2>2
<1> QED BY <1>2, <1>3, OwnElements

-----------------------------------------------------------------------------
(* The stack.                                                              *)

(* What is left when bodies end.                                           *)
LEMMA Prefix ==
  ASSUME NEW p, NEW s, NEW fl, NEW b, NEW lv, NEW bo, NEW ar, Stacked(p, s, fl, b, lv, bo, ar),
         NEW t, t \in Seq(ToSet(t)), Len(t) \in 0 .. Len(s), fl => b <= Len(t),
         \A k \in 1 .. Len(t) : t[k] = s[k]
  PROVE  Stacked(p, t, fl, b, lv, bo, ar)
<1>0. Len(s) \in Nat
  BY LenProperties DEF Stacked
<1>1. \A i \in 1 .. Len(t) : Fits(p, t[i], lv, bo, ar)
  BY <1>0 DEF Stacked
<1>2. ASSUME NEW i \in 1 .. Len(t) PROVE Stands(p, t, i, fl, b, bo)
  <2>1. Stands(p, s, i, fl, b, bo) /\ t[i] = s[i] /\ (i > 1 => t[i - 1] = s[i - 1])
    BY <1>0 DEF Stacked
  <2> QED BY <2>1 DEF Stands
<1>3. ASSUME NEW i \in 1 .. Len(t), NEW j \in 1 .. Len(t), i < j
      PROVE  Apart(p, t, i, j, fl, b, bo)
  <2>1. Apart(p, s, i, j, fl, b, bo) /\ t[i] = s[i] /\ t[j] = s[j]
    BY <1>0, <1>3 DEF Stacked
  <2> QED BY <2>1 DEF Apart
<1> QED BY <1>1, <1>2, <1>3 DEF Stacked

(* A body begins.                                                          *)
LEMMA Push ==
  ASSUME NEW p, NEW s, NEW fl, NEW b, NEW lv, NEW bo, NEW ar, Stacked(p, s, fl, b, lv, bo, ar),
         NEW f, Fits(p, f, lv, bo, ar),
         LET t == Append(s, f)
             n == Len(s) + 1
         IN /\ Stands(p, t, n, fl, b, bo)
            /\ \A i \in 1 .. Len(s) : Apart(p, t, i, n, fl, b, bo)
  PROVE  Stacked(p, Append(s, f), fl, b, lv, bo, ar)
<1> DEFINE t == Append(s, f)
           n == Len(s) + 1
<1>0. /\ t \in Seq(ToSet(t)) /\ Len(t) = n /\ Len(s) \in Nat
      /\ \A k \in 1 .. Len(s) : t[k] = s[k]
      /\ t[n] = f
  BY Appended DEF Stacked
<1> HIDE DEF t
<1>1. ASSUME NEW i \in 1 .. n PROVE Fits(p, t[i], lv, bo, ar) /\ Stands(p, t, i, fl, b, bo)
  <2>1. CASE i = n
    BY <2>1, <1>0 DEF t
  <2>2. CASE i < n
    <3>1. Fits(p, s[i], lv, bo, ar) /\ Stands(p, s, i, fl, b, bo)
      BY <1>0, <2>2 DEF Stacked
    <3>2. t[i] = s[i] /\ (i > 1 => t[i - 1] = s[i - 1])
      BY <1>0, <2>2
    <3>3. Stands(p, t, i, fl, b, bo)
      BY <3>1, <3>2 DEF Stands
    <3> QED BY <3>1, <3>2, <3>3
  <2> QED BY <2>1, <2>2, <1>0
<1>2. ASSUME NEW i \in 1 .. n, NEW j \in 1 .. n, i < j
      PROVE  Apart(p, t, i, j, fl, b, bo)
  <2>1. CASE j = n
    BY <2>1, <1>0, <1>2 DEF t
  <2>2. CASE j < n
    <3>1. Apart(p, s, i, j, fl, b, bo) /\ t[i] = s[i] /\ t[j] = s[j]
      BY <1>0, <1>2, <2>2 DEF Stacked
    <3> QED BY <3>1 DEF Apart
  <2> QED BY <2>1, <2>2, <1>0
<1>3. b \in Nat /\ fl \in BOOLEAN /\ (fl => b <= Len(t))
  BY <1>0 DEF Stacked
<1> QED BY <1>0, <1>1, <1>2, <1>3 DEF Stacked, t

(* The innermost body takes a step: it may have mounted more, which nobody *)
(* else has.                                                               *)
LEMMA Retouch ==
  ASSUME NEW p, NEW s, NEW fl, NEW b, NEW lv, NEW bo, NEW ar, Stacked(p, s, fl, b, lv, bo, ar),
         s # <<>>, NEW f, Fits(p, f, lv, bo, ar),
         f.node = s[Len(s)].node, f.first = s[Len(s)].first,
         \A e \in ToSet(f.made) :
           \/ e \in ToSet(s[Len(s)].made)
           \/ \A i \in 1 .. Len(s) : /\ s[i].first => s[i].node # e
                                     /\ i < Len(s) => e \notin ToSet(s[i].made)
  PROVE  Stacked(p, [s EXCEPT ![Len(s)] = f], fl, b, lv, bo, ar)
<1> DEFINE n == Len(s)
           t == [s EXCEPT ![Len(s)] = f]
<1>0. /\ t \in Seq(ToSet(t)) /\ Len(t) = n /\ n \in Nat /\ n >= 1
      /\ \A k \in 1 .. n - 1 : t[k] = s[k]
      /\ t[n] = f
  BY Topped DEF Stacked
<1> HIDE DEF t
<1>1. ASSUME NEW i \in 1 .. n PROVE /\ t[i].node = s[i].node /\ t[i].first = s[i].first
                                    /\ i < n => t[i] = s[i]
  BY <1>0
<1>2. ASSUME NEW i \in 1 .. n PROVE Fits(p, t[i], lv, bo, ar) /\ Stands(p, t, i, fl, b, bo)
  <2>1. Fits(p, t[i], lv, bo, ar)
    BY <1>0, <1>1 DEF Stacked
  <2>2. Stands(p, s, i, fl, b, bo)
    BY <1>0 DEF Stacked
  <2>3. i > 1 => t[i - 1].node = s[i - 1].node
    BY <1>0
  <2> QED BY <2>1, <2>2, <2>3, <1>1 DEF Stands
<1>3. ASSUME NEW i \in 1 .. n, NEW j \in 1 .. n, i < j
      PROVE  Apart(p, t, i, j, fl, b, bo)
  <2>1. Apart(p, s, i, j, fl, b, bo) /\ t[i] = s[i] /\ t[i].node = s[i].node
        /\ t[j].node = s[j].node /\ t[j].first = s[j].first
    BY <1>0, <1>1, <1>3 DEF Stacked
  <2>2. CASE j < n
    BY <2>1, <2>2, <1>1 DEF Apart
  <2>3. CASE j = n
    <3>1. t[j] = f
      BY <2>3, <1>0
    <3>2. \A e \in ToSet(f.made) : e \in ToSet(s[j].made)
                                   \/ ((s[i].first => s[i].node # e) /\ e \notin ToSet(s[i].made))
      BY <2>3, <1>3
    <3> QED BY <2>1, <3>1, <3>2 DEF Apart
  <2> QED BY <2>2, <2>3, <1>0
<1>4. b \in Nat /\ fl \in BOOLEAN /\ (fl => b <= Len(t))
  BY <1>0 DEF Stacked
<1> QED BY <1>0, <1>2, <1>3, <1>4 DEF Stacked, t

(* Effects are mounted and disposed, elsewhere than on the stack.          *)
LEMMA Elsewhere ==
  ASSUME NEW p, NEW s, NEW fl, NEW b, NEW lv, NEW bo, NEW ar, Stacked(p, s, fl, b, lv, bo, ar),
         NEW lv2, NEW bo2, NEW ar2,
         \A i \in 1 .. Len(s) :
           /\ s[i].node \in Effect => s[i].node \in lv2 /\ bo2[s[i].node] = bo[s[i].node]
           /\ s[i].first => s[i].node \notin ToSet(ar2)
           /\ \A e \in ToSet(s[i].made) : e \in lv2 /\ e \notin ToSet(ar2) /\ bo2[e] = bo[e]
  PROVE  Stacked(p, s, fl, b, lv2, bo2, ar2)
<1>1. ASSUME NEW i \in 1 .. Len(s) PROVE Fits(p, s[i], lv2, bo2, ar2)
  <2>1. Fits(p, s[i], lv, bo, ar)
    BY DEF Stacked
  <2>2. Allowed(p, s[i].node, bo2) = Allowed(p, s[i].node, bo)
    <3>1. s[i].node \in Effect \/ s[i].node \in Derived \/ s[i].node = Page
      BY <2>1 DEF Fits, Computation
    <3> QED BY <3>1 DEF Allowed
  <2> QED BY <2>1, <2>2 DEF Fits
<1>2. ASSUME NEW i \in 1 .. Len(s) PROVE Stands(p, s, i, fl, b, bo2)
  <2>1. Stands(p, s, i, fl, b, bo) /\ Fits(p, s[i], lv, bo, ar)
    BY DEF Stacked
  <2>2. s[i].first => bo2[s[i].node] = bo[s[i].node]
    BY <2>1 DEF Fits
  <2> QED BY <2>1, <2>2 DEF Stands
<1>3. ASSUME NEW i \in 1 .. Len(s), NEW j \in 1 .. Len(s), i < j
      PROVE  Apart(p, s, i, j, fl, b, bo2)
  <2>1. Apart(p, s, i, j, fl, b, bo)
    BY <1>3 DEF Stacked
  <2>2. Quiet(p, s[i].node, bo2) <=> Quiet(p, s[i].node, bo)
    BY DEF Quiet
  <2> QED BY <2>1, <2>2 DEF Apart
<1> QED BY <1>1, <1>2, <1>3 DEF Stacked

(* A drain begins or ends: nothing of it is on the stack.                  *)
LEMMA AtRest ==
  ASSUME NEW p, NEW s, NEW fl, NEW b, NEW lv, NEW bo, NEW ar, Stacked(p, s, fl, b, lv, bo, ar),
         fl => b = Len(s),
         NEW fl2 \in BOOLEAN, NEW b2 \in Nat, fl2 => b2 = Len(s)
  PROVE  Stacked(p, s, fl2, b2, lv, bo, ar)
<1>0. Len(s) \in Nat
  BY LenProperties DEF Stacked
<1>1. ASSUME NEW i \in 1 .. Len(s) PROVE Stands(p, s, i, fl2, b2, bo)
  <2>1. Stands(p, s, i, fl, b, bo)
    BY DEF Stacked
  <2>2. i # Len(s) + 1
    BY <1>0
  <2> QED BY <2>1, <2>2 DEF Stands
<1>2. ASSUME NEW i \in 1 .. Len(s), NEW j \in 1 .. Len(s), i < j
      PROVE  Apart(p, s, i, j, fl2, b2, bo)
  <2>1. Apart(p, s, i, j, fl, b, bo)
    BY <1>2 DEF Stacked
  <2>2. ~ (Len(s) < j)
    BY <1>0
  <2> QED BY <2>1, <2>2 DEF Apart
<1>3. \A i \in 1 .. Len(s) : Fits(p, s[i], lv, bo, ar)
  BY DEF Stacked
<1>4. s \in Seq(ToSet(s)) /\ (fl2 => b2 <= Len(s))
  BY <1>0 DEF Stacked
<1> QED BY <1>1, <1>2, <1>3, <1>4 DEF Stacked

LEMMA EmptyStack ==
  ASSUME NEW p, NEW fl \in BOOLEAN, NEW b \in Nat, fl => b = 0, NEW lv, NEW bo, NEW ar
  PROVE  Stacked(p, <<>>, fl, b, lv, bo, ar)
<1>1. <<>> \in Seq(ToSet(<<>>)) /\ Len(<<>>) = 0 /\ 1 .. 0 = {}
  BY EmptySeq
<1> QED BY <1>1 DEF Stacked

-----------------------------------------------------------------------------
(***************************************************************************)
(* Lists of computations.                                                  *)
(***************************************************************************)
Subscribers(rs, T) ==
  /\ DOMAIN rs = Cell
  /\ \A c \in Cell : rs[c] \in Seq(T) /\ IsInjective(rs[c])

LEMMA PickInjective ==
  ASSUME NEW T, NEW queue \in Seq(T), IsInjective(queue), NEW out
  PROVE  /\ Pick(queue, {i \in DOMAIN queue : queue[i] \notin out}) \in Seq(T \ out)
         /\ IsInjective(Pick(queue, {i \in DOMAIN queue : queue[i] \notin out}))
<1> DEFINE wanted == {i \in DOMAIN queue : queue[i] \notin out}
           kept == Pick(queue, wanted)
<1>0. DOMAIN queue = 1 .. Len(queue) /\ \A i \in 1 .. Len(queue) : queue[i] \in T
  BY LenProperties, ElementOfSeq
<1>1. PICK at \in [1 .. Len(kept) -> wanted \cap (1 .. Len(queue))] :
        /\ \A i \in 1 .. Len(kept) : kept[i] = queue[at[i]]
        /\ \A i, j \in 1 .. Len(kept) : i < j => at[i] < at[j]
  <2> HIDE DEF wanted
  <2> QED BY PickProperties
<1>2. kept \in Seq(T)
  <2> HIDE DEF wanted
  <2> QED BY PickProperties
<1>3. Len(kept) \in Nat /\ DOMAIN kept = 1 .. Len(kept) /\ kept \in [1 .. Len(kept) -> T]
  BY <1>2, LenProperties
<1>4. \A i \in 1 .. Len(kept) : at[i] \in DOMAIN queue /\ queue[at[i]] \notin out /\ at[i] \in Int
  BY <1>0, <1>1
<1>5. kept \in [1 .. Len(kept) -> T \ out]
  BY <1>1, <1>3, <1>4, <1>0
<1>6. kept \in Seq(T \ out)
  BY <1>3, <1>5, SeqDef
<1>7. IsInjective(kept)
  <2>1. ASSUME NEW i \in 1 .. Len(kept), NEW j \in 1 .. Len(kept), kept[i] = kept[j]
        PROVE  i = j
    <3>1. queue[at[i]] = queue[at[j]]
      BY <1>1, <2>1
    <3>2. at[i] = at[j]
      BY <3>1, <1>4 DEF IsInjective
    <3>3. ~ (i < j) /\ ~ (j < i)
      BY <3>2, <1>1, <1>4
    <3> QED BY <3>3, <1>3
  <2> QED BY <2>1, <1>3 DEF IsInjective
<1> QED BY <1>6, <1>7

(* clearSources.                                                           *)
LEMMA ClearedSubscribers ==
  ASSUME NEW rs, NEW T, Subscribers(rs, T), NEW nodes
  PROVE  Subscribers(Cleared(rs, nodes), T \ nodes)
<1>1. ASSUME NEW c \in Cell
      PROVE  /\ Cleared(rs, nodes)[c] \in Seq(T \ nodes)
             /\ IsInjective(Cleared(rs, nodes)[c])
  <2>1. Cleared(rs, nodes)[c] = Pick(rs[c], {i \in DOMAIN rs[c] : rs[c][i] \notin nodes})
    BY DEF Cleared
  <2>2. rs[c] \in Seq(T) /\ IsInjective(rs[c])
    BY DEF Subscribers
  <2> QED BY <2>1, <2>2, PickInjective, Zenon
<1>2. DOMAIN Cleared(rs, nodes) = Cell
  BY DEF Cleared
<1> QED BY <1>1, <1>2 DEF Subscribers

LEMMA OnceMore ==
  ASSUME NEW T, NEW queue \in Seq(T), IsInjective(queue), NEW x \in T, x \notin ToSet(queue),
         NEW longer, longer = Append(queue, x)
  PROVE  longer \in Seq(T) /\ IsInjective(longer)
<1> DEFINE n == Len(queue)
<1>1. /\ longer \in Seq(T) /\ n \in Nat /\ DOMAIN longer = 1 .. n + 1 /\ DOMAIN queue = 1 .. n
      /\ \A i \in 1 .. n : longer[i] = queue[i]
      /\ longer[n + 1] = x
  BY AppendProperties, LenProperties
<1>2. \A i \in 1 .. n : queue[i] # x
  BY <1>1 DEF ToSet
<1>3. ASSUME NEW i \in 1 .. n + 1, NEW j \in 1 .. n + 1, longer[i] = longer[j] PROVE i = j
  <2>1. CASE i = n + 1 /\ j # n + 1
    BY <1>1, <1>2, <1>3, <2>1
  <2>2. CASE j = n + 1 /\ i # n + 1
    BY <1>1, <1>2, <1>3, <2>2
  <2>3. CASE i # n + 1 /\ j # n + 1
    <3>1. i \in 1 .. n /\ j \in 1 .. n
      BY <1>1, <2>3
    <3>2. queue[i] = queue[j]
      BY <1>1, <1>3, <3>1
    <3> QED BY <3>1, <3>2, <1>1 DEF IsInjective
  <2> QED BY <2>1, <2>2, <2>3
<1> QED BY <1>1, <1>3 DEF IsInjective

(* A read subscribes its reader once.                                      *)
LEMMA TrackedSubscribers ==
  ASSUME NEW rs, NEW T, Subscribers(rs, T), NEW c \in Cell, NEW n \in T \cup {Page}
  PROVE  Subscribers(Tracked(rs, c, n), T)
<1>1. CASE n = Page \/ n \in ToSet(rs[c])
  BY <1>1 DEF Tracked
<1>2. CASE ~ (n = Page \/ n \in ToSet(rs[c]))
  <2> DEFINE longer == Append(rs[c], n)
  <2>1. Tracked(rs, c, n) = [rs EXCEPT ![c] = longer]
    BY <1>2 DEF Tracked
  <2>2. longer \in Seq(T) /\ IsInjective(longer)
    <3>1. rs[c] \in Seq(T) /\ IsInjective(rs[c]) /\ n \in T /\ n \notin ToSet(rs[c])
      BY <1>2 DEF Subscribers
    <3>2. longer = Append(rs[c], n)
      OBVIOUS
    <3> HIDE DEF longer
    <3> QED BY <3>1, <3>2, OnceMore
  <2> HIDE DEF longer
  <2> QED BY <2>1, <2>2 DEF Subscribers
<1> QED BY <1>1, <1>2

(* A mark is kept once.                                                    *)
LEMMA MarkedQueue ==
  ASSUME NEW T, NEW queue \in Seq(T), IsInjective(queue), NEW nodes \in Seq(T), IsInjective(nodes)
  PROVE  Marked(queue, nodes) \in Seq(T) /\ IsInjective(Marked(queue, nodes))
<1> DEFINE more == Pick(nodes, {i \in DOMAIN nodes : nodes[i] \notin ToSet(queue)})
           both == queue \o more
           L == Len(queue)
           M == Len(more)
<1>1. more \in Seq(T \ ToSet(queue)) /\ IsInjective(more)
  BY PickInjective, Zenon
<1>2. Marked(queue, nodes) = both
  BY DEF Marked
<1> HIDE DEF more
<1>3. more \in Seq(T) /\ L \in Nat /\ M \in Nat /\ DOMAIN queue = 1 .. L /\ DOMAIN more = 1 .. M
      /\ \A i \in 1 .. M : more[i] \notin ToSet(queue)
  BY <1>1, SeqMonotonic, LenProperties, ElementOfSeq
<1>4. both \in Seq(T) /\ Len(both) = L + M
      /\ \A i \in 1 .. L + M : both[i] = IF i <= L THEN queue[i] ELSE more[i - L]
  BY <1>3, ConcatProperties
<1>5. DOMAIN both = 1 .. L + M
  BY <1>4, LenProperties
<1> HIDE DEF both
<1>6. \A i \in 1 .. L : queue[i] \in ToSet(queue)
  BY <1>3 DEF ToSet
<1>7. ASSUME NEW i \in 1 .. L + M, NEW j \in 1 .. L + M, both[i] = both[j], i <= j PROVE i = j
  <2>1. CASE j <= L
    <3>1. i \in 1 .. L /\ j \in 1 .. L /\ queue[i] = queue[j]
      BY <1>3, <1>4, <1>7, <2>1
    <3> QED BY <3>1, <1>3 DEF IsInjective
  <2>2. CASE i <= L /\ j > L
    <3>1. i \in 1 .. L /\ j - L \in 1 .. M
      BY <1>3, <2>2
    <3>2. both[i] = queue[i] /\ both[j] = more[j - L]
      BY <1>4, <1>3, <2>2
    <3>3. queue[i] = more[j - L]
      BY <3>2, <1>7
    <3> QED BY <3>1, <3>3, <1>3, <1>6
  <2>3. CASE i > L
    <3>1. i - L \in 1 .. M /\ j - L \in 1 .. M /\ i > L /\ j > L
      BY <1>3, <1>7, <2>3
    <3>2. both[i] = more[i - L] /\ both[j] = more[j - L]
      BY <1>4, <1>3, <3>1
    <3>3. i - L = j - L
      BY <3>1, <3>2, <1>7, <1>1, <1>3 DEF IsInjective
    <3> QED BY <3>3, <1>3
  <2> QED BY <2>1, <2>2, <2>3, <1>3
<1>8. ASSUME NEW i \in 1 .. L + M, NEW j \in 1 .. L + M, both[i] = both[j] PROVE i = j
  <2>1. i <= j \/ j <= i
    BY <1>3
  <2> QED BY <2>1, <1>7, <1>8
<1>9. IsInjective(both)
  BY <1>5, <1>8 DEF IsInjective
<1> QED BY <1>2, <1>4, <1>9

-----------------------------------------------------------------------------
(* Frames.                                                                 *)

LEMMA Operations ==
  ASSUME NEW p, NEW bo, NEW n \in Computation \cup {Page}, NEW op \in Allowed(p, n, bo)
  PROVE  /\ op[1] = "test" => n # Page /\ op[2] \in Readable(p)
         /\ op[1] = "read" => op[2] \in Readable(p)
         /\ op[1] = "set" => n \in Effect /\ op[2] \in Signal /\ op[3] \in Val
         /\ op[1] = "mount" => /\ op[2] \in Names(p)
                               /\ n = Page \/ (~ Quiet(p, n, bo) /\ op[2] \in Bindings(p))
         /\ op[1] = "swap" => ~ Quiet(p, n, bo) /\ n \in Effect /\ op[3] \in Seq(Bindings(p))
         /\ op[1] = "keep" => ~ Quiet(p, n, bo) /\ n \in Effect
<1>0. Cell \cap Effect = {} /\ Page \notin Cell \cup Effect /\ Derived \subseteq Cell
      /\ Bindings(p) \subseteq Names(p)
  BY SignalsAssumption DEF Cell, Bindings
<1>1. CASE n = Page
  <2>1. op \in {"mount"} \X Names(p) \/ op \in {"read"} \X Readable(p)
    BY <1>1 DEF Allowed, Mounts
  <2> QED BY <2>1, <1>1
<1>2. CASE n \in Derived
  <2>1. op \in {"test"} \X Readable(p) \/ op \in {"read"} \X Readable(p) \/ op = <<"throw">>
    BY <1>0, <1>2 DEF Allowed, Tests, Pure
  <2> QED BY <2>1, <1>0, <1>2
<1>3. CASE n \in Effect /\ bo[n] \in Bindings(p)
  <2>1. \/ op \in {"test"} \X Readable(p) \/ op \in {"read"} \X Readable(p) \/ op = <<"throw">>
        \/ op \in {"set"} \X Signal \X Val
    BY <1>0, <1>3 DEF Allowed, Tests, Pure, Binding
  <2> QED BY <2>1, <1>0, <1>3
<1>4. CASE n \in Effect /\ bo[n] \notin Bindings(p)
  <2>1. \/ op \in {"test"} \X Readable(p) \/ op \in {"read"} \X Readable(p) \/ op = <<"throw">>
        \/ op \in {"set"} \X Signal \X Val
        \/ op \in {"swap"} \X {p.tagOf[v] : v \in Val} \X Seq(Bindings(p))
        \/ op \in {"mount"} \X Bindings(p) \/ op = <<"keep">>
    BY <1>0, <1>4 DEF Allowed, Tests, Pure, Binding, Mounts, Swaps
  <2>2. ~ Quiet(p, n, bo)
    BY <1>0, <1>4 DEF Quiet
  <2> QED BY <2>1, <2>2, <1>0, <1>4
<1> QED BY <1>1, <1>2, <1>3, <1>4 DEF Computation

(* What a body does once its test is answered.                             *)
LEMMA BodyAllowed ==
  ASSUME NEW p, Compiled(p), NEW bo, NEW n \in Computation, NEW name, NEW v \in Val,
         n \in Derived => name = n /\ n \in DOMAIN p.body,
         n \in Effect => name = bo[n] /\ name \in Names(p)
  PROVE  p.body[name].then[v] \in Seq(Allowed(p, n, bo))
<1>0. Cell \cap Effect = {} /\ Page \notin Cell \cup Effect /\ Derived \subseteq Cell
  BY SignalsAssumption DEF Cell
<1>1. CASE n \in Derived
  <2>1. p.body[n].then \in [Val -> Seq(Pure(p))]
    BY <1>1 DEF Compiled
  <2>2. Pure(p) \subseteq Allowed(p, n, bo)
    BY <1>0, <1>1 DEF Allowed
  <2>3. p.body[n].then[v] \in Seq(Pure(p))
    BY <2>1
  <2> QED BY <2>2, <2>3, <1>1, SeqMonotonic
<1>2. CASE n \in Effect /\ bo[n] \in Bindings(p)
  <2>1. p.body[name].then \in [Val -> Seq(Binding(p))]
    BY <1>2 DEF Bindings
  <2>2. Binding(p) \subseteq Allowed(p, n, bo)
    BY <1>0, <1>2 DEF Allowed
  <2>3. p.body[name].then[v] \in Seq(Binding(p))
    BY <2>1
  <2> QED BY <2>2, <2>3, SeqMonotonic
<1>3. CASE n \in Effect /\ bo[n] \notin Bindings(p)
  <2>1. p.body[name].then \in [Val -> Seq(Binding(p) \cup Swaps(p))]
    BY <1>3 DEF Compiled
  <2>2. Binding(p) \cup Swaps(p) \subseteq Allowed(p, n, bo)
    BY <1>0, <1>3 DEF Allowed
  <2>3. p.body[name].then[v] \in Seq(Binding(p) \cup Swaps(p))
    BY <2>1
  <2> QED BY <2>2, <2>3, SeqMonotonic
<1> QED BY <1>1, <1>2, <1>3 DEF Computation

(* A body that begins.                                                     *)
LEMMA BodyFits ==
  ASSUME NEW p, Compiled(p), p = program, NEW lv, NEW bo, NEW ar, NEW n \in Computation, NEW name,
         n \in Derived => name = n /\ n \in DOMAIN p.body,
         n \in Effect => name = bo[n] /\ name \in Names(p) /\ n \in lv,
         NEW first \in BOOLEAN, first => n \in Effect /\ n \notin ToSet(ar)
  PROVE  Fits(p, BodyFrame(n, name, first), lv, bo, ar)
<1> DEFINE op == <<"test", p.body[name].test>>
           f == BodyFrame(n, name, first)
<1>0. Cell \cap Effect = {} /\ Page \notin Cell \cup Effect /\ Derived \subseteq Cell
  BY SignalsAssumption DEF Cell
<1>1. f = [node |-> n, todo |-> <<op>>, first |-> first, seen |-> <<>>, made |-> <<>>]
  BY DEF BodyFrame, Frame
<1>2. name \in DOMAIN p.body
  BY <1>0 DEF Names, Computation
<1>3. op \in Allowed(p, n, bo)
  <2>1. op \in Tests(p)
    BY <1>2 DEF Compiled, Tests
  <2> QED BY <2>1, <1>0 DEF Allowed, Computation
<1>4. <<op>> \in Seq(Allowed(p, n, bo)) /\ <<op>> # <<>> /\ Head(<<op>>)[1] = "test"
  <2> HIDE DEF op
  <2>1. <<op>> \in Seq(Allowed(p, n, bo)) /\ <<op>> # <<>> /\ Head(<<op>>) = op
    BY <1>3
  <2>2. op[1] = "test"
    BY DEF op
  <2> QED BY <2>1, <2>2
<1> HIDE DEF op
<1>5. ToSet(<<>>) = {} /\ <<>> \in Seq(Effect) /\ <<>> \in Seq(ToSet(<<>>)) /\ 1 .. Len(<<>>) = {}
  BY EmptySeq DEF ToSet
<1> QED BY <1>0, <1>1, <1>4, <1>5 DEF Fits, Computation

-----------------------------------------------------------------------------
(***************************************************************************)
(* The invariant.                                                          *)
(***************************************************************************)
Typed ==
  /\ program \in Programs
  /\ value \in [Signal -> Val]
  /\ DOMAIN memo = Derived /\ \A d \in Derived : memo[d].key \in Val
  /\ stale \subseteq Derived
  /\ Subscribers(readers, Derived \cup live)
  /\ pending \in Seq(Computation) /\ IsInjective(pending)
  /\ ready \in Seq(Computation)
  /\ flushing \in BOOLEAN /\ failure \in BOOLEAN /\ batched \in BOOLEAN
  /\ steps \in 0 .. STEP_LIMIT
  /\ live \subseteq Effect
  /\ DOMAIN bodyOf = Effect
  /\ \A e \in live : bodyOf[e] \in Names(program)
  /\ arm \in Seq(Effect)
  /\ \A e \in ToSet(arm) : e \in live /\ bodyOf[e] \in Bindings(program)

StackOK == Stacked(program, stack, flushing, base, live, bodyOf, arm)

IInv == Typed /\ StackOK

LEMMA Apartness ==
  /\ Cell \cap Effect = {} /\ Page \notin Cell \cup Effect
  /\ Derived \subseteq Cell /\ Signal \subseteq Cell /\ Cell = Signal \cup Derived
  /\ Signal \cap Derived = {} /\ Derived \cap Effect = {}
  /\ Computation = Derived \cup Effect /\ Page \notin Computation
  /\ Effect \subseteq Computation /\ Derived \subseteq Computation
BY SignalsAssumption DEF Cell, Computation

-----------------------------------------------------------------------------
(* The innermost body.                                                     *)

LEMMA TopOfStack ==
  ASSUME IInv, stack # <<>>
  PROVE  /\ Len(stack) \in Nat /\ Len(stack) >= 1 /\ Top = stack[Len(stack)]
         /\ Fits(program, Top, live, bodyOf, arm)
         /\ Stands(program, stack, Len(stack), flushing, base, bodyOf)
         /\ Top.node \in Computation \cup {Page}
<1>1. Len(stack) \in Nat /\ Len(stack) >= 1
  BY EmptySeq DEF IInv, StackOK, Stacked
<1>2. Top = stack[Len(stack)] /\ Len(stack) \in 1 .. Len(stack)
  BY <1>1 DEF Top, Last
<1> QED BY <1>1, <1>2 DEF IInv, StackOK, Stacked, Fits

LEMMA TopOperation ==
  ASSUME IInv, stack # <<>>, Top.todo # <<>>
  PROVE  /\ Op \in Allowed(program, Top.node, bodyOf)
         /\ Tail(Top.todo) \in Seq(Allowed(program, Top.node, bodyOf))
         /\ Op[1] = "test" => Top.node # Page /\ Op[2] \in Readable(program)
         /\ Op[1] = "read" => Op[2] \in Readable(program)
         /\ Op[1] = "set" => Top.node \in Effect /\ Op[2] \in Signal /\ Op[3] \in Val
         /\ Op[1] = "mount" => /\ Op[2] \in Names(program)
                               /\ Top.node = Page \/ (~ Quiet(program, Top.node, bodyOf)
                                                      /\ Op[2] \in Bindings(program))
         /\ Op[1] = "swap" => /\ ~ Quiet(program, Top.node, bodyOf) /\ Top.node \in Effect
                              /\ Op[3] \in Seq(Bindings(program))
         /\ Op[1] = "keep" => ~ Quiet(program, Top.node, bodyOf) /\ Top.node \in Effect
<1> DEFINE A == Allowed(program, Top.node, bodyOf)
           n == Top.node
<1>1. Top.todo \in Seq(A) /\ n \in Computation \cup {Page}
  BY TopOfStack DEF Fits
<1>2. Op \in A /\ Tail(Top.todo) \in Seq(A)
  <2> HIDE DEF A
  <2> QED BY <1>1, HeadTailProperties DEF Op
<1> HIDE DEF n
<1>3. Op \in Allowed(program, n, bodyOf)
  BY <1>2 DEF n
<1> QED BY <1>1, <1>2, <1>3, Operations DEF n

(* One operation less to do.                                               *)
LEMMA FrameGoesOn ==
  ASSUME NEW p, NEW f, NEW lv, NEW bo, NEW ar, Fits(p, f, lv, bo, ar),
         f.todo # <<>>, Head(f.todo)[1] # "test"
  PROVE  Fits(p, [f EXCEPT !.todo = Tail(f.todo)], lv, bo, ar)
<1> DEFINE g == [f EXCEPT !.todo = Tail(f.todo)]
           A == Allowed(p, f.node, bo)
<1>1. Tail(f.todo) \in Seq(A)
  <2>1. f.todo \in Seq(A)
    BY DEF Fits
  <2> HIDE DEF A
  <2> QED BY <2>1, HeadTailProperties
<1>2. DOMAIN g = DOMAIN f /\ g.node = f.node /\ g.first = f.first /\ g.seen = f.seen
      /\ g.made = f.made /\ g.todo = Tail(f.todo)
  BY DEF Fits
<1>3. f.node = Page \/ f.seen # <<>>
  BY DEF Fits
<1> HIDE DEF g
<1>4. Fits(p, g, lv, bo, ar)
  BY <1>1, <1>2, <1>3 DEF Fits
<1> QED BY <1>4 DEF g

(* A read is answered.                                                     *)
LEMMA FrameReads ==
  ASSUME NEW p, NEW f, NEW lv, NEW bo, NEW ar, Fits(p, f, lv, bo, ar),
         NEW rest \in Seq(Allowed(p, f.node, bo)), NEW got, got.key \in Val
  PROVE  Fits(p, [f EXCEPT !.todo = rest, !.seen = Append(f.seen, got)], lv, bo, ar)
<1> DEFINE longer == Append(f.seen, got)
           g == [f EXCEPT !.todo = rest, !.seen = longer]
<1>1. /\ longer \in Seq(ToSet(longer)) /\ Len(longer) = Len(f.seen) + 1 /\ Len(f.seen) \in Nat
      /\ \A k \in 1 .. Len(f.seen) : longer[k] = f.seen[k]
      /\ longer[Len(f.seen) + 1] = got
  <2>1. f.seen \in Seq(ToSet(f.seen))
    BY DEF Fits
  <2> QED BY <2>1, Appended
<1>2. longer # <<>>
  <2>1. Len(longer) # Len(<<>>)
    BY <1>1, EmptySeq
  <2> QED BY <2>1
<1> HIDE DEF longer
<1>3. \A i \in 1 .. Len(longer) : longer[i].key \in Val
  <2>1. \A i \in 1 .. Len(f.seen) : f.seen[i].key \in Val
    BY DEF Fits
  <2>2. ASSUME NEW i \in 1 .. Len(longer) PROVE longer[i].key \in Val
    <3>1. i \in 1 .. Len(f.seen) \/ i = Len(f.seen) + 1
      BY <1>1
    <3> QED BY <3>1, <2>1, <1>1
  <2> QED BY <2>2
<1>4. DOMAIN g = DOMAIN f /\ g.node = f.node /\ g.first = f.first /\ g.seen = longer
      /\ g.made = f.made /\ g.todo = rest
  BY DEF Fits
<1> HIDE DEF g
<1>5. Fits(p, g, lv, bo, ar)
  BY <1>1, <1>2, <1>3, <1>4 DEF Fits
<1> QED BY <1>5 DEF g, longer

(* Its operations and what it has mounted are others.                      *)
LEMMA FrameTurns ==
  ASSUME NEW p, NEW f, NEW lv, NEW bo, NEW ar, Fits(p, f, lv, bo, ar),
         NEW g, DOMAIN g = DOMAIN f, g.node = f.node, g.first = f.first, g.seen = f.seen,
         g.node = Page \/ g.seen # <<>>,
         g.todo \in Seq(Allowed(p, f.node, bo)),
         g.made \in Seq(Effect), ToSet(g.made) \subseteq ToSet(f.made)
  PROVE  Fits(p, g, lv, bo, ar)
BY DEF Fits

(* It has mounted one more.                                                *)
\* An effect a frame may hold as mounted.
MayHold(p, f, lv, bo, ar, e) ==
  /\ e \in Effect /\ e \in lv /\ e \notin ToSet(ar)
  /\ f.node # Page => bo[e] \in Bindings(p)
  /\ f.first => e # f.node

\* The frame, holding it too.
Grown(f, grown, e) ==
  /\ DOMAIN grown = DOMAIN f /\ grown.node = f.node /\ grown.first = f.first
  /\ grown.seen = f.seen /\ grown.todo = f.todo
  /\ grown.made = Append(f.made, e)

LEMMA FrameMade ==
  ASSUME NEW p, NEW f, NEW lv, NEW bo, NEW ar, Fits(p, f, lv, bo, ar),
         NEW e, MayHold(p, f, lv, bo, ar, e),
         NEW grown, Grown(f, grown, e)
  PROVE  Fits(p, grown, lv, bo, ar) /\ ToSet(grown.made) = ToSet(f.made) \cup {e}
<1>0. /\ e \in Effect /\ e \in lv /\ e \notin ToSet(ar)
      /\ f.node # Page => bo[e] \in Bindings(p)
      /\ f.first => e # f.node
  BY DEF MayHold
<1>1. grown.made \in Seq(Effect) /\ ToSet(grown.made) = ToSet(f.made) \cup {e}
  <2>1. f.made \in Seq(Effect)
    BY DEF Fits
  <2>2. f.made \in Seq(ToSet(f.made))
    BY <2>1, OwnElements
  <2>3. grown.made = Append(f.made, e)
    BY DEF Grown
  <2> QED BY <1>0, <2>1, <2>2, <2>3, Appended, AppendProperties
<1>2. /\ DOMAIN grown = DOMAIN f /\ grown.node = f.node /\ grown.first = f.first
      /\ grown.seen = f.seen /\ grown.todo = f.todo
  BY DEF Grown
<1>3. Fits(p, grown, lv, bo, ar)
  BY <1>0, <1>1, <1>2 DEF Fits
<1> QED BY <1>1, <1>3

-----------------------------------------------------------------------------
LEMMA MoreSubscribers ==
  ASSUME NEW rs, NEW S, Subscribers(rs, S), NEW T, S \subseteq T
  PROVE  Subscribers(rs, T)
<1>1. \A c \in Cell : rs[c] \in Seq(T)
  BY SeqMonotonic DEF Subscribers
<1> QED BY <1>1 DEF Subscribers

LEMMA NothingInjective ==
  \A T : <<>> \in Seq(T) /\ IsInjective(<<>>) /\ ToSet(<<>>) = {}
BY EmptySeq DEF IsInjective, ToSet

-----------------------------------------------------------------------------
(* The steps of a drain.                                                   *)

LEMMA SnapshotStep == ASSUME IInv, Snapshot PROVE IInv'
<1>1. Typed'
  BY NothingInjective DEF Snapshot, IInv, Typed, regionVars, historyVars
<1>2. StackOK'
  BY DEF Snapshot, IInv, StackOK, regionVars, historyVars
<1> QED BY <1>1, <1>2 DEF IInv

LEMMA RunNextStep == ASSUME IInv, RunNext PROVE IInv'
<1> USE DEF IInv, regionVars, historyVars
<1>0. /\ steps' \in 0 .. STEP_LIMIT
      /\ UNCHANGED <<program, value, memo, batched, live, shown, flushing, base,
                 failure, regionVars, historyVars>>
  BY SignalsAssumption DEF RunNext, Typed
<1>1. ready' \in Seq(Computation) /\ Head(ready) \in Computation
  BY HeadTailProperties DEF RunNext, Typed
<1>2. CASE Head(ready) \in Derived
  <2> DEFINE d == Head(ready)
  <2>1. stale' = stale \cup {d} /\ pending' = Marked(pending, readers[d]) /\ UNCHANGED <<readers, stack>>
    BY <1>2 DEF RunNext, MarkDerived
  <2>2. readers[d] \in Seq(Computation) /\ IsInjective(readers[d])
    <3>1. d \in Cell /\ Derived \cup live \subseteq Computation
      BY <1>2, Apartness DEF Typed
    <3>2. readers[d] \in Seq(Derived \cup live) /\ IsInjective(readers[d])
      BY <3>1 DEF Typed, Subscribers
    <3> QED BY <3>1, <3>2, SeqMonotonic
  <2>3. pending' \in Seq(Computation) /\ IsInjective(pending')
    <3>1. pending \in Seq(Computation) /\ IsInjective(pending)
      BY DEF Typed
    <3> HIDE DEF d
    <3>2. Marked(pending, readers[d]) \in Seq(Computation) /\ IsInjective(Marked(pending, readers[d]))
      BY <3>1, <2>2, MarkedQueue
    <3> QED BY <3>2, <2>1
  <2>4. Typed'
    BY <1>0, <1>1, <1>2, <2>1, <2>3 DEF Typed
  <2>5. StackOK'
    BY <1>0, <2>1 DEF StackOK
  <2> QED BY <2>4, <2>5
<1>3. CASE Head(ready) \notin Derived
  <2> DEFINE e == Head(ready)
  <2>0. e \in Effect /\ e \notin Derived /\ RunEffect(e)
    BY <1>1, <1>3, Apartness DEF RunNext
  <2>1. CASE e \notin live
    <3>1. UNCHANGED <<readers, stack, stale, pending>>
      BY <2>0, <2>1 DEF RunEffect
    <3>2. Typed'
      BY <1>0, <1>1, <3>1 DEF Typed
    <3>3. StackOK'
      BY <1>0, <3>1 DEF StackOK
    <3> QED BY <3>2, <3>3
  <2>2. CASE e \in live
    <3> DEFINE f == BodyFrame(e, bodyOf[e], FALSE)
               n == Len(stack) + 1
               t == Append(stack, f)
    <3>1. readers' = Cleared(readers, {e}) /\ stack' = t /\ UNCHANGED <<stale, pending>>
      BY <2>0, <2>2 DEF RunEffect
    <3>2. Subscribers(readers', Derived \cup live)
      <4>1. Subscribers(readers, Derived \cup live)
        BY DEF Typed
      <4> DEFINE T == Derived \cup live
      <4>2. T \ {e} \subseteq T
        OBVIOUS
      <4> HIDE DEF T
      <4>3. Subscribers(readers', T \ {e})
        BY <3>1, <4>1, ClearedSubscribers DEF T
      <4>4. Subscribers(readers', T)
        BY <4>2, <4>3, MoreSubscribers
      <4> QED BY <4>4 DEF T
    <3>3. Typed'
      BY <1>0, <1>1, <3>1, <3>2 DEF Typed
    <3>4. Fits(program, f, live, bodyOf, arm)
      <4>1. Compiled(program) /\ e \in Computation /\ bodyOf[e] \in Names(program)
        BY <2>0, <2>2, ProgramsAssumption, Apartness DEF Typed
      <4> HIDE DEF f
      <4> QED BY <4>1, <2>0, <2>2, BodyFits DEF f
    <3>5. /\ f.node = e /\ ~ f.first /\ ToSet(f.made) = {}
      BY NothingInjective DEF BodyFrame, Frame
    <3>6. /\ t[n] = f /\ n = base + 1 /\ flushing /\ n \in Nat /\ base \in Nat
      <4>1. Len(stack) = base /\ flushing /\ base \in Nat
        BY DEF RunNext, StackOK, Stacked
      <4>2. t[n] = f /\ Len(stack) \in Nat
        <5> HIDE DEF f
        <5>1. stack \in Seq(ToSet(stack))
          BY DEF StackOK, Stacked
        <5> QED BY <5>1, Appended
      <4> HIDE DEF t
      <4> QED BY <4>1, <4>2
    <3> HIDE DEF f, t
    <3>7. Stands(program, t, n, flushing, base, bodyOf)
      BY <3>5, <3>6, <2>0, Apartness DEF Stands
    <3>8. \A i \in 1 .. Len(stack) : Apart(program, t, i, n, flushing, base, bodyOf)
      BY <3>5, <3>6 DEF Apart
    <3>9. Stacked(program, t, flushing, base, live, bodyOf, arm)
      <4> HIDE DEF n
      <4> QED BY <3>4, <3>7, <3>8, Push DEF StackOK, n, t
    <3>10. StackOK'
      BY <3>9, <3>1, <1>0 DEF StackOK
    <3> QED BY <3>3, <3>10
  <2> QED BY <2>1, <2>2
<1> QED BY <1>2, <1>3

LEMMA GiveUpStep == ASSUME IInv, GiveUp PROVE IInv'
<1> USE DEF IInv, regionVars, historyVars
<1>1. /\ ready' = <<>> /\ flushing' = FALSE /\ failure' = FALSE /\ stack' = <<>>
      /\ UNCHANGED <<program, value, memo, stale, readers, batched, live, shown, pending,
                 base, steps, regionVars, halfArm, faults>>
  BY DEF GiveUp
<1>2. Typed'
  BY <1>1, NothingInjective DEF Typed
<1>3. StackOK'
  <2>1. base \in Nat /\ flushing' \in BOOLEAN /\ ~ flushing'
    BY <1>1 DEF StackOK, Stacked
  <2> QED BY <1>1, <2>1, EmptyStack DEF StackOK
<1> QED BY <1>2, <1>3

LEMMA SettleStep == ASSUME IInv, Settle PROVE IInv'
<1> USE DEF IInv, regionVars, historyVars
<1>1. /\ flushing' = FALSE /\ failure' = FALSE /\ stack' = (IF failure THEN <<>> ELSE stack)
      /\ Len(stack) = base
      /\ UNCHANGED <<program, value, memo, stale, readers, batched, live, shown, pending,
                 ready, base, steps, regionVars, halfArm, overrun, faults>>
  BY DEF Settle
<1>2. Typed'
  BY <1>1 DEF Typed
<1>3. StackOK'
  <2>1. base \in Nat /\ flushing' \in BOOLEAN /\ ~ flushing'
    BY <1>1 DEF StackOK, Stacked
  <2>2. CASE failure
    BY <1>1, <2>1, <2>2, EmptyStack DEF StackOK
  <2>3. CASE ~ failure
    <3>1. Stacked(program, stack, flushing', base, live, bodyOf, arm)
      BY <1>1, <2>1, AtRest DEF StackOK
    <3> QED BY <1>1, <2>3, <3>1 DEF StackOK
  <2> QED BY <2>2, <2>3
<1> QED BY <1>2, <1>3

-----------------------------------------------------------------------------
(* Writes.                                                                 *)

LEMMA Written ==
  ASSUME IInv, NEW s \in Signal, NEW v \in Val, WriteSignal(s, v, Len(stack))
  PROVE  /\ value' \in [Signal -> Val]
         /\ pending' \in Seq(Computation) /\ IsInjective(pending')
         /\ ready' = ready /\ failure' = failure
         /\ flushing' \in BOOLEAN /\ steps' \in 0 .. STEP_LIMIT
         /\ Stacked(program, stack, flushing', base', live, bodyOf, arm)
<1> USE DEF IInv, drainVars
<1>1. CASE value[s] = v
  BY <1>1 DEF WriteSignal, Typed, StackOK
<1>2. CASE value[s] # v
  <2>1. /\ value' = [value EXCEPT ![s] = v] /\ pending' = Marked(pending, readers[s])
        /\ Flush(~ batched, Len(stack)) /\ ready' = ready /\ failure' = failure
    BY <1>2 DEF WriteSignal
  <2>2. value' \in [Signal -> Val]
    BY <2>1 DEF Typed
  <2>3. readers[s] \in Seq(Computation) /\ IsInjective(readers[s])
    <3>1. s \in Cell /\ Derived \cup live \subseteq Computation
      BY Apartness DEF Typed
    <3>2. readers[s] \in Seq(Derived \cup live) /\ IsInjective(readers[s])
      BY <3>1 DEF Typed, Subscribers
    <3> QED BY <3>1, <3>2, SeqMonotonic
  <2>4. pending' \in Seq(Computation) /\ IsInjective(pending')
    <3>1. pending \in Seq(Computation) /\ IsInjective(pending)
      BY DEF Typed
    <3>2. Marked(pending, readers[s]) \in Seq(Computation) /\ IsInjective(Marked(pending, readers[s]))
      BY <3>1, <2>3, MarkedQueue
    <3> QED BY <3>2, <2>1
  <2>5. flushing' \in BOOLEAN /\ steps' \in 0 .. STEP_LIMIT
    BY <2>1, SignalsAssumption DEF Flush, Typed
  <2>6. Stacked(program, stack, flushing', base', live, bodyOf, arm)
    <3>0. Len(stack) \in Nat /\ base \in Nat
      BY LenProperties DEF StackOK, Stacked
    <3>1. CASE flushing
      <4>1. flushing' = flushing /\ base' = base
        BY <2>1, <3>1, <2>5 DEF Flush, Typed
      <4> QED BY <4>1 DEF StackOK
    <3>2. CASE ~ flushing
      <4>1. base' \in Nat /\ (flushing' => base' = Len(stack))
        BY <2>1, <3>0, <3>2 DEF Flush
      <4> QED BY <4>1, <3>2, <2>5, AtRest DEF StackOK
    <3> QED BY <3>1, <3>2
  <2> QED BY <2>1, <2>2, <2>4, <2>5, <2>6
<1> QED BY <1>1, <1>2

(* A flush with nothing on the stack.                                      *)
LEMMA FlushedEmpty ==
  ASSUME IInv, NEW enter \in BOOLEAN, Flush(enter, 0), ~ flushing \/ base = 0
  PROVE  /\ flushing' \in BOOLEAN /\ steps' \in 0 .. STEP_LIMIT
         /\ Stacked(program, <<>>, flushing', base', live, bodyOf, arm)
<1>1. flushing' \in BOOLEAN /\ steps' \in 0 .. STEP_LIMIT
      /\ base' \in Nat /\ (flushing' => base' = 0)
  BY SignalsAssumption DEF IInv, Typed, Flush, StackOK, Stacked
<1> QED BY <1>1, EmptyStack

LEMMA WriteStep ==
  ASSUME IInv, NEW s \in Signal, NEW v \in Val, Write(s, v)
  PROVE  IInv'
<1> USE DEF IInv, regionVars, historyVars
<1>1. Len(stack) = 0 /\ WriteSignal(s, v, Len(stack))
  BY EmptySeq DEF Write, Idle
<1>2. UNCHANGED <<program, memo, stale, readers, batched, stack, live, shown, regionVars>>
  BY DEF Write
<1>3. Typed'
  BY <1>1, <1>2, Written DEF Typed
<1>4. StackOK'
  BY <1>1, <1>2, Written DEF StackOK
<1> QED BY <1>3, <1>4

LEMMA HandlerStartsStep == ASSUME IInv, HandlerStarts PROVE IInv'
<1>1. Typed'
  BY DEF HandlerStarts, IInv, Typed, regionVars, historyVars, drainVars
<1>2. StackOK'
  BY DEF HandlerStarts, IInv, StackOK, regionVars, historyVars, drainVars
<1> QED BY <1>1, <1>2 DEF IInv

LEMMA HandlerEndsStep == ASSUME IInv, HandlerEnds PROVE IInv'
<1> USE DEF IInv, regionVars, historyVars
<1>1. /\ batched' = FALSE /\ Flush(TRUE, 0) /\ ~ flushing /\ stack = <<>>
      /\ UNCHANGED <<program, value, memo, stale, readers, stack, live, shown, pending,
                 ready, failure, regionVars, historyVars>>
  BY DEF HandlerEnds, Idle
<1>2. /\ flushing' \in BOOLEAN /\ steps' \in 0 .. STEP_LIMIT
      /\ Stacked(program, <<>>, flushing', base', live, bodyOf, arm)
  BY <1>1, FlushedEmpty
<1>3. Typed'
  BY <1>1, <1>2 DEF Typed
<1>4. StackOK'
  BY <1>1, <1>2 DEF StackOK
<1> QED BY <1>3, <1>4

LEMMA HandlerReadsStep ==
  ASSUME IInv, NEW d \in Derived \cap DOMAIN program.body, HandlerReads(d)
  PROVE  IInv'
<1> USE DEF IInv, regionVars, historyVars, drainVars
<1> DEFINE op == <<"read", d>>
           f == Frame(Page, <<op>>, FALSE)
<1>1. /\ ~ flushing /\ stack = <<>> /\ stack' = <<f>>
      /\ UNCHANGED <<program, value, memo, stale, readers, batched, live, shown, drainVars,
                 regionVars, historyVars>>
  BY DEF HandlerReads, Idle
<1>2. Typed'
  BY <1>1 DEF Typed
<1>3. f.node = Page /\ ~ f.first /\ ToSet(f.made) = {}
  BY NothingInjective DEF Frame
<1>4. Fits(program, f, live, bodyOf, arm)
  <2>1. op \in Allowed(program, Page, bodyOf)
    BY DEF Allowed, Readable
  <2>2. <<op>> \in Seq(Allowed(program, Page, bodyOf))
    BY <2>1
  <2>3. f = [node |-> Page, todo |-> <<op>>, first |-> FALSE, seen |-> <<>>, made |-> <<>>]
    BY DEF Frame
  <2>4. ToSet(<<>>) = {} /\ <<>> \in Seq(Effect) /\ <<>> \in Seq(ToSet(<<>>)) /\ 1 .. Len(<<>>) = {}
    BY EmptySeq DEF ToSet
  <2> HIDE DEF op, f
  <2> QED BY <2>2, <2>3, <2>4, Apartness DEF Fits
<1> HIDE DEF f
<1>5. StackOK'
  <2>1. Stacked(program, <<f>>, flushing, base, live, bodyOf, arm)
    <3> DEFINE t == <<f>>
    <3>1. t \in Seq(ToSet(t)) /\ Len(t) = 1 /\ t[1] = f
      <4>1. t \in Seq({f}) /\ Len(t) = 1 /\ t[1] = f
        OBVIOUS
      <4> HIDE DEF t
      <4> QED BY <4>1, OwnElements
    <3> HIDE DEF t
    <3>2. Stands(program, t, 1, flushing, base, bodyOf)
      BY <1>3, <3>1, Apartness DEF Stands
    <3>3. base \in Nat /\ flushing \in BOOLEAN
      BY DEF StackOK, Stacked
    <3>4. Stacked(program, t, flushing, base, live, bodyOf, arm)
      BY <1>1, <1>4, <3>1, <3>2, <3>3 DEF Stacked
    <3> QED BY <3>4 DEF t
  <2> QED BY <1>1, <2>1 DEF StackOK
<1> QED BY <1>2, <1>5

-----------------------------------------------------------------------------
(***************************************************************************)
(* The steps of a body.                                                    *)
(***************************************************************************)

LEMMA BodyRuns ==
  ASSUME NEW kind, Next1(kind)
  PROVE  stack # <<>> /\ Top.todo # <<>> /\ Op[1] = kind /\ (flushing => Len(stack) > base)
BY DEF Next1, Running

\* What the top is replaced by, when it mounts nothing.
LEMMA Replaced ==
  ASSUME IInv, stack # <<>>, NEW f, Fits(program, f, live, bodyOf, arm),
         f.node = Top.node, f.first = Top.first, ToSet(f.made) \subseteq ToSet(Top.made)
  PROVE  Stacked(program, OnTop(f), flushing, base, live, bodyOf, arm)
<1>1. Top = stack[Len(stack)]
  BY TopOfStack
<1> QED BY <1>1, Retouch DEF IInv, StackOK, OnTop

LEMMA Readers ==
  ASSUME IInv, stack # <<>>, NEW c \in Cell
  PROVE  Subscribers(Tracked(readers, c, Top.node), Derived \cup live)
<1>1. Top.node \in (Derived \cup live) \cup {Page}
  BY TopOfStack, Apartness DEF Fits
<1>2. Subscribers(readers, Derived \cup live)
  BY DEF IInv, Typed
<1> QED BY <1>1, <1>2, TrackedSubscribers

LEMMA ReadStep == ASSUME IInv, Read PROVE IInv'
<1> DEFINE c == Op[2]
           got == Reading(c)
           name == IF Top.node \in Effect THEN bodyOf[Top.node] ELSE Top.node
           rest == IF Op[1] = "test" THEN program.body[name].then[got.key] ELSE Tail(Top.todo)
           f == [Top EXCEPT !.todo = rest, !.seen = Append(Top.seen, got)]
           A == Allowed(program, Top.node, bodyOf)
<1>0. /\ stack # <<>> /\ Top.todo # <<>> /\ Op[1] \in {"test", "read"}
      /\ readers' = Tracked(readers, c, Top.node)
      /\ c \notin stale
      /\ stack' = OnTop(f)
      /\ UNCHANGED <<program, value, memo, stale, batched, live, shown, drainVars,
                 regionVars, historyVars>>
  BY DEF Read, Next1, Running
<1>1. c \in Readable(program) /\ (Op[1] = "test" => Top.node # Page)
  BY <1>0, TopOperation
<1>2. c \in Cell
  BY <1>1, Apartness DEF Readable
<1>3. got.key \in Val
  <2>1. CASE c \in Signal
    BY <2>1 DEF Reading, IInv, Typed
  <2>2. CASE c \notin Signal
    BY <1>2, <2>2, Apartness DEF Reading, IInv, Typed
  <2> QED BY <2>1, <2>2
<1>4. Subscribers(readers', Derived \cup live)
  BY <1>0, <1>2, Readers
<1>5. rest \in Seq(A)
  <2>1. CASE Op[1] = "test"
    <3>1. Top.node \in Computation /\ Compiled(program)
      BY <1>0, <1>1, <2>1, TopOfStack, ProgramsAssumption DEF IInv, Typed
    <3>2. Top.node \in Derived => name = Top.node /\ Top.node \in DOMAIN program.body
      BY <1>0, TopOfStack, Apartness DEF Fits
    <3>3. Top.node \in Effect => name = bodyOf[Top.node] /\ name \in Names(program)
      BY <1>0, TopOfStack DEF Fits, IInv, Typed
    <3> HIDE DEF name, got
    <3>4. program.body[name].then[got.key] \in Seq(A)
      BY <3>1, <3>2, <3>3, <1>3, BodyAllowed
    <3> QED BY <2>1, <3>4
  <2>2. CASE Op[1] # "test"
    <3>1. Tail(Top.todo) \in Seq(A)
      BY <1>0, TopOperation
    <3> HIDE DEF A
    <3> QED BY <2>2, <3>1
  <2> QED BY <2>1, <2>2
<1> HIDE DEF rest, got
<1>6. Fits(program, f, live, bodyOf, arm)
  BY <1>0, <1>3, <1>5, TopOfStack, FrameReads
<1>7. f.node = Top.node /\ f.first = Top.first /\ f.made = Top.made
  BY <1>0, TopOfStack DEF Fits
<1> HIDE DEF f
<1>8. Stacked(program, OnTop(f), flushing, base, live, bodyOf, arm)
  BY <1>0, <1>6, <1>7, Replaced
<1>9. Typed'
  BY <1>0, <1>4 DEF IInv, Typed, drainVars, regionVars, historyVars
<1>10. StackOK'
  BY <1>0, <1>8 DEF StackOK, drainVars, regionVars, historyVars
<1> QED BY <1>9, <1>10 DEF IInv

LEMMA RecomputeStep == ASSUME IInv, Recompute PROVE IInv'
<1> DEFINE d == Op[2]
           f == BodyFrame(d, d, FALSE)
           n == Len(stack) + 1
           t == Append(stack, f)
<1>0. /\ stack # <<>> /\ Top.todo # <<>> /\ Op[1] \in {"test", "read"}
      /\ d \in stale
      /\ readers' = Cleared(Tracked(readers, d, Top.node), {d})
      /\ stack' = t
      /\ UNCHANGED <<program, value, memo, stale, batched, live, shown, drainVars,
                 regionVars, historyVars>>
  BY DEF Recompute, Next1, Running
<1>1. d \in Readable(program) /\ d \in Derived
  BY <1>0, TopOperation DEF IInv, Typed
<1>2. d \in Cell /\ d \in DOMAIN program.body /\ d \in Computation /\ d \notin Effect
  BY <1>1, Apartness DEF Readable
<1>3. Subscribers(readers', Derived \cup live)
  <2> DEFINE T == Derived \cup live
             R == Tracked(readers, d, Top.node)
  <2>1. Subscribers(R, T)
    BY <1>0, <1>2, Readers
  <2>2. T \ {d} \subseteq T
    OBVIOUS
  <2>3. readers' = Cleared(R, {d})
    BY <1>0
  <2> HIDE DEF T, R
  <2>4. Subscribers(readers', T \ {d})
    BY <2>1, <2>3, ClearedSubscribers
  <2>5. Subscribers(readers', T)
    BY <2>2, <2>4, MoreSubscribers
  <2> QED BY <2>5 DEF T
<1>4. Fits(program, f, live, bodyOf, arm)
  <2>1. Compiled(program)
    BY ProgramsAssumption DEF IInv, Typed
  <2> HIDE DEF f, d
  <2> QED BY <2>1, <1>1, <1>2, BodyFits DEF f
<1>5. f.node = d /\ ~ f.first /\ ToSet(f.made) = {}
  BY NothingInjective DEF BodyFrame, Frame
<1>6. t[n] = f
  <2> HIDE DEF f
  <2>1. stack \in Seq(ToSet(stack))
    BY DEF IInv, StackOK, Stacked
  <2> QED BY <2>1, Appended
<1> HIDE DEF f, t, d
<1>7. Stands(program, t, n, flushing, base, bodyOf)
  BY <1>1, <1>2, <1>5, <1>6, Apartness DEF Stands
<1>8. \A i \in 1 .. Len(stack) : Apart(program, t, i, n, flushing, base, bodyOf)
  BY <1>1, <1>5, <1>6 DEF Apart
<1>9. Stacked(program, t, flushing, base, live, bodyOf, arm)
  <2> HIDE DEF n
  <2> QED BY <1>4, <1>7, <1>8, Push DEF IInv, StackOK, n, t
<1>10. Typed'
  BY <1>0, <1>3 DEF IInv, Typed, drainVars, regionVars, historyVars
<1>11. StackOK'
  BY <1>0, <1>9 DEF StackOK, drainVars, regionVars, historyVars
<1> QED BY <1>10, <1>11 DEF IInv

LEMMA DoneFits ==
  ASSUME IInv, stack # <<>>, Top.todo # <<>>, Op[1] # "test"
  PROVE  /\ Fits(program, Done, live, bodyOf, arm)
         /\ Done.node = Top.node /\ Done.first = Top.first /\ Done.made = Top.made
         /\ Done = [Top EXCEPT !.todo = Tail(Top.todo)]
<1>1. Done = [Top EXCEPT !.todo = Tail(Top.todo)]
  BY DEF Done
<1>2. Fits(program, Top, live, bodyOf, arm)
  BY TopOfStack
<1>3. Fits(program, Done, live, bodyOf, arm)
  BY <1>1, <1>2, FrameGoesOn DEF Op
<1> QED BY <1>1, <1>2, <1>3 DEF Fits

LEMMA SetStep == ASSUME IInv, Set PROVE IInv'
<1> USE DEF regionVars, historyVars
<1>0. /\ stack # <<>> /\ Top.todo # <<>> /\ Op[1] = "set"
      /\ WriteSignal(Op[2], Op[3], Len(stack)) /\ stack' = OnTop(Done)
      /\ UNCHANGED <<program, memo, stale, readers, batched, live, shown, regionVars, historyVars>>
  BY DEF Set, Next1, Running
<1>1. Op[2] \in Signal /\ Op[3] \in Val
  BY <1>0, TopOperation
<1>2. /\ value' \in [Signal -> Val]
      /\ pending' \in Seq(Computation) /\ IsInjective(pending')
      /\ ready' = ready /\ failure' = failure
      /\ flushing' \in BOOLEAN /\ steps' \in 0 .. STEP_LIMIT
      /\ Stacked(program, stack, flushing', base', live, bodyOf, arm)
  BY <1>0, <1>1, Written
<1>3. Typed'
  BY <1>0, <1>2 DEF IInv, Typed
<1>4. Stacked(program, OnTop(Done), flushing', base', live, bodyOf, arm)
  <2>1. Top = stack[Len(stack)]
    BY <1>0, TopOfStack
  <2>2. Fits(program, Done, live, bodyOf, arm) /\ Done.node = Top.node
        /\ Done.first = Top.first /\ Done.made = Top.made
    BY <1>0, DoneFits
  <2> DEFINE g == Done
  <2> HIDE DEF g
  <2>3. Fits(program, g, live, bodyOf, arm) /\ g.node = stack[Len(stack)].node
        /\ g.first = stack[Len(stack)].first /\ g.made = stack[Len(stack)].made
    BY <2>1, <2>2 DEF g
  <2>4. Stacked(program, [stack EXCEPT ![Len(stack)] = g], flushing', base', live, bodyOf, arm)
    BY <1>0, <1>2, <2>3, Retouch
  <2> QED BY <2>4 DEF OnTop, g
<1>5. StackOK'
  BY <1>0, <1>4 DEF StackOK
<1> QED BY <1>3, <1>5 DEF IInv

LEMMA ThrowStep == ASSUME IInv, Throw PROVE IInv'
<1> USE DEF regionVars
<1>0. /\ stack # <<>> /\ Running
      /\ stack' = (IF flushing THEN SubSeq(stack, 1, base) ELSE <<>>)
      /\ failure' = flushing /\ batched' = FALSE /\ Flush(batched, 0)
      /\ UNCHANGED <<program, value, memo, stale, readers, live, shown, pending, ready, regionVars>>
  BY DEF Throw, Next1, Running
<1>1. CASE flushing
  <2>1. flushing' = flushing /\ base' = base /\ steps' = steps
    BY <1>0, <1>1 DEF Flush, IInv, Typed
  <2>2. Typed'
    BY <1>0, <1>1, <2>1 DEF IInv, Typed
  <2> DEFINE t == SubSeq(stack, 1, base)
  <2>3. base \in 0 .. Len(stack) /\ stack \in Seq(ToSet(stack)) /\ Len(stack) \in Nat
    BY <1>1, LenProperties DEF IInv, StackOK, Stacked
  <2>4. t \in Seq(ToSet(t)) /\ Len(t) = base /\ \A k \in 1 .. base : t[k] = stack[k]
    BY <2>3, Cut
  <2> HIDE DEF t
  <2>5. Stacked(program, t, flushing, base, live, bodyOf, arm)
    BY <2>3, <2>4, Prefix DEF IInv, StackOK
  <2>6. StackOK'
    BY <1>0, <1>1, <2>1, <2>5 DEF StackOK, t
  <2> QED BY <2>2, <2>6 DEF IInv
<1>2. CASE ~ flushing
  <2>1. /\ flushing' \in BOOLEAN /\ steps' \in 0 .. STEP_LIMIT
        /\ Stacked(program, <<>>, flushing', base', live, bodyOf, arm)
    BY <1>0, <1>2, FlushedEmpty DEF IInv, Typed
  <2>2. Typed'
    BY <1>0, <1>2, <2>1 DEF IInv, Typed
  <2>3. StackOK'
    BY <1>0, <1>2, <2>1 DEF StackOK
  <2> QED BY <2>2, <2>3 DEF IInv
<1> QED BY <1>1, <1>2

-----------------------------------------------------------------------------
LEMMA ReturnStep == ASSUME IInv, Return PROVE IInv'
<1> DEFINE n == Len(stack)
           m == n - 1
           node == Top.node
           rest == Front(stack)
           below == rest[m]
           f == [below EXCEPT !.made = Append(below.made, node)]
<1>0. /\ stack # <<>> /\ Top.todo = <<>> /\ (flushing => n > base)
      /\ stack' = (IF Top.first THEN [rest EXCEPT ![Len(rest)].made = Append(@, node)] ELSE rest)
      /\ UNCHANGED <<program, value, readers, batched, live, drainVars, regionVars,
                 halfArm, overrun, faults>>
  BY DEF Return, Running
<1>1. /\ n \in Nat /\ n >= 1 /\ Top = stack[n] /\ Fits(program, Top, live, bodyOf, arm)
      /\ Stands(program, stack, n, flushing, base, bodyOf)
      /\ node \in Computation \cup {Page}
  BY <1>0, TopOfStack
<1>2. Typed'
  <2>1. CASE node \in Derived
    <3>1. /\ memo' = [memo EXCEPT ![node] = [key |-> Top.seen[1].key, from |-> Top.seen]]
          /\ stale' = stale \ {node}
      BY <2>1 DEF Return
    <3>2. Top.seen[1].key \in Val
      <4>1. Top.seen # <<>> /\ Top.seen \in Seq(ToSet(Top.seen))
            /\ \A i \in 1 .. Len(Top.seen) : Top.seen[i].key \in Val
        BY <1>0, <1>1, <2>1, Apartness DEF Fits
      <4>2. 1 \in 1 .. Len(Top.seen)
        BY <4>1, EmptySeq
      <4> QED BY <4>1, <4>2
    <3>3. DOMAIN memo' = Derived /\ \A d \in Derived : memo'[d].key \in Val
      BY <3>1, <3>2 DEF IInv, Typed
    <3>4. stale' \subseteq Derived
      BY <3>1 DEF IInv, Typed
    <3> QED BY <1>0, <3>3, <3>4 DEF IInv, Typed, drainVars, regionVars
  <2>2. CASE node \notin Derived
    <3>1. UNCHANGED <<memo, stale>>
      BY <2>2 DEF Return
    <3> QED BY <1>0, <3>1 DEF IInv, Typed, drainVars, regionVars
  <2> QED BY <2>1, <2>2
<1>3. /\ rest \in Seq(ToSet(rest)) /\ Len(rest) = m /\ \A k \in 1 .. m : rest[k] = stack[k]
  <2>1. rest = SubSeq(stack, 1, m) /\ m \in 0 .. Len(stack) /\ stack \in Seq(ToSet(stack))
    BY <1>1 DEF Front, IInv, StackOK, Stacked
  <2> HIDE DEF m, rest
  <2> QED BY <2>1, Cut
<1> HIDE DEF rest
<1>4. Stacked(program, rest, flushing, base, live, bodyOf, arm)
  <2>1. base \in Nat
    BY DEF IInv, StackOK, Stacked
  <2>2. Len(rest) \in 0 .. Len(stack) /\ (flushing => base <= Len(rest))
    BY <1>0, <1>1, <1>3, <2>1
  <2>3. \A k \in 1 .. Len(rest) : rest[k] = stack[k]
    BY <1>3
  <2> QED BY <1>3, <2>2, <2>3, Prefix DEF IInv, StackOK
<1>5. CASE ~ Top.first
  <2>1. StackOK'
    BY <1>0, <1>4, <1>5 DEF StackOK, drainVars, regionVars
  <2> QED BY <1>2, <2>1 DEF IInv
<1>6. CASE Top.first
  <2>1. /\ n > 1 /\ m \in 1 .. n /\ m < n /\ below = stack[m] /\ node \in Effect /\ node \in live
        /\ node \notin ToSet(arm)
        /\ below.node # Page => bodyOf[node] \in Bindings(program)
    <3>1. n > 1 /\ (stack[n - 1].node = Page \/ bodyOf[node] \in Bindings(program))
      BY <1>1, <1>6 DEF Stands
    <3>2. node \in Effect /\ node \in live /\ node \notin ToSet(arm)
      BY <1>1, <1>6 DEF Fits
    <3> QED BY <3>1, <3>2, <1>1, <1>3
  <2>2. \A i \in 1 .. m : Apart(program, stack, i, n, flushing, base, bodyOf)
    BY <1>1 DEF IInv, StackOK, Stacked
  <2>3. \A i \in 1 .. m : /\ rest[i].first => rest[i].node # node
                          /\ node \notin ToSet(rest[i].made)
    BY <1>1, <1>3, <1>6, <2>2 DEF Apart
  <2>4. Fits(program, below, live, bodyOf, arm)
    BY <1>3, <1>4, <2>1 DEF Stacked
  <2>5. Fits(program, f, live, bodyOf, arm) /\ ToSet(Append(below.made, node)) = ToSet(below.made) \cup {node}
    <3>1. MayHold(program, below, live, bodyOf, arm, node)
      BY <2>1, <2>3 DEF MayHold
    <3>3. Grown(below, f, node)
      BY <2>4 DEF Grown, Fits
    <3>4. f.made = Append(below.made, node)
      BY <2>4 DEF Fits
    <3> HIDE DEF below, node, f
    <3>5. Fits(program, f, live, bodyOf, arm) /\ ToSet(f.made) = ToSet(below.made) \cup {node}
      BY <2>4, <3>1, <3>3, FrameMade
    <3> QED BY <3>4, <3>5
  <2>6. f.node = below.node /\ f.first = below.first /\ ToSet(f.made) = ToSet(below.made) \cup {node}
    BY <2>4, <2>5 DEF Fits
  <2>7. stack' = [rest EXCEPT ![m] = f]
    BY <1>0, <1>3, <1>6
  <2> HIDE DEF f
  <2>8. rest # <<>>
    BY <1>3, <2>1, EmptySeq
  <2>9. Stacked(program, [rest EXCEPT ![Len(rest)] = f], flushing, base, live, bodyOf, arm)
    <3>1. \A e \in ToSet(f.made) :
            \/ e \in ToSet(rest[Len(rest)].made)
            \/ \A i \in 1 .. Len(rest) : /\ rest[i].first => rest[i].node # e
                                         /\ i < Len(rest) => e \notin ToSet(rest[i].made)
      BY <1>3, <2>3, <2>6
    <3>2. f.node = rest[Len(rest)].node /\ f.first = rest[Len(rest)].first
      BY <1>3, <2>6
    <3> QED BY <1>4, <2>5, <2>8, <3>1, <3>2, Retouch
  <2>10. StackOK'
    BY <1>0, <1>3, <2>7, <2>9 DEF StackOK, drainVars, regionVars
  <2> QED BY <1>2, <2>10 DEF IInv
<1> QED BY <1>5, <1>6

-----------------------------------------------------------------------------
(* The region.                                                             *)

(* Whoever swaps is above no effect of the arm.                            *)
LEMMA ArmIsNotRunning ==
  ASSUME IInv, stack # <<>>, ~ Quiet(program, Top.node, bodyOf), Top.node \in Effect,
         NEW i \in 1 .. Len(stack)
  PROVE  stack[i].node \notin ToSet(arm)
<1> DEFINE n == Len(stack)
           e == stack[i].node
<1>0. n \in Nat /\ n >= 1 /\ Top = stack[n]
  BY TopOfStack
<1> SUFFICES ASSUME e \in ToSet(arm) PROVE FALSE
  OBVIOUS
<1>1. e \in Effect /\ bodyOf[e] \in Bindings(program)
  BY DEF IInv, Typed
<1>2. Quiet(program, e, bodyOf)
  BY <1>1 DEF Quiet
<1>3. ~ stack[i].first
  BY DEF IInv, StackOK, Stacked, Fits
<1>4. flushing /\ i = base + 1 /\ base \in Nat
  BY <1>1, <1>3 DEF IInv, StackOK, Stacked, Stands
<1>5. CASE i = n
  BY <1>0, <1>2, <1>5
<1>6. CASE i < n
  <2>1. Apart(program, stack, i, n, flushing, base, bodyOf)
    BY <1>0, <1>6 DEF IInv, StackOK, Stacked
  <2>2. ~ (i <= base)
    BY <1>4
  <2>3. stack[n].node \in Derived
    BY <1>2, <2>1, <2>2 DEF Apart
  <2> QED BY <1>0, <2>3, Apartness
<1> QED BY <1>0, <1>5, <1>6

LEMMA OnTopFrames ==
  ASSUME IInv, stack # <<>>, NEW f
  PROVE  /\ Len(OnTop(f)) = Len(stack) /\ OnTop(f)[Len(stack)] = f
         /\ \A k \in 1 .. Len(stack) - 1 : OnTop(f)[k] = stack[k]
<1>1. stack \in Seq(ToSet(stack))
  BY DEF IInv, StackOK, Stacked
<1> QED BY <1>1, Topped DEF OnTop

LEMMA SwapStep == ASSUME IInv, Swap PROVE IInv'
<1>0. /\ stack # <<>> /\ Top.todo # <<>> /\ Op[1] = "swap" /\ Op[1] # "test"
      /\ UNCHANGED <<program, value, memo, stale, batched, shown, drainVars, home, bodyOf,
                     historyVars>>
  BY DEF Swap, Next1, Running
<1>1. /\ ~ Quiet(program, Top.node, bodyOf) /\ Top.node \in Effect
      /\ Op[3] \in Seq(Bindings(program))
      /\ Tail(Top.todo) \in Seq(Allowed(program, Top.node, bodyOf))
  BY <1>0, TopOperation
<1>2. /\ Fits(program, Done, live, bodyOf, arm)
      /\ Done.node = Top.node /\ Done.first = Top.first /\ Done.made = Top.made
      /\ Done = [Top EXCEPT !.todo = Tail(Top.todo)]
  BY <1>0, DoneFits
<1>3. CASE Op[2] = tag
  <2>1. stack' = OnTop(Done) /\ UNCHANGED <<tag, arm, live, readers>>
    BY <1>3 DEF Swap
  <2>2. Typed'
    BY <1>0, <2>1 DEF IInv, Typed, drainVars, historyVars
  <2>3. Stacked(program, OnTop(Done), flushing, base, live, bodyOf, arm)
    <3>1. ToSet(Done.made) \subseteq ToSet(Top.made)
      BY <1>2
    <3> QED BY <1>0, <1>2, <3>1, Replaced
  <2>4. StackOK'
    BY <1>0, <2>1, <2>3 DEF StackOK, drainVars
  <2> QED BY <2>2, <2>4 DEF IInv
<1>4. CASE Op[2] # tag
  <2> DEFINE A == Allowed(program, Top.node, bodyOf)
             mounts == [i \in 1 .. Len(Op[3]) |-> <<"mount", Op[3][i]>>]
             rest == mounts \o <<<<"keep">>>> \o Done.todo
             f == [Done EXCEPT !.todo = rest]
             lv == live \ ToSet(arm)
  <2>1. /\ arm' = <<>> /\ live' = lv /\ readers' = Cleared(readers, ToSet(arm))
        /\ stack' = OnTop(f)
    BY <1>4 DEF Swap
  <2>2. Typed'
    <3>1. Subscribers(readers', Derived \cup lv)
      <4> DEFINE T == Derived \cup live
      <4>1. Subscribers(readers, T)
        BY DEF IInv, Typed
      <4>2. T \ ToSet(arm) \subseteq Derived \cup lv
        OBVIOUS
      <4> HIDE DEF T, lv
      <4>3. Subscribers(readers', T \ ToSet(arm))
        BY <2>1, <4>1, ClearedSubscribers
      <4> QED BY <4>2, <4>3, MoreSubscribers
    <3>2. lv \subseteq Effect /\ \A e \in lv : bodyOf[e] \in Names(program)
      BY DEF IInv, Typed
    <3> QED BY <1>0, <2>1, <3>1, <3>2, NothingInjective DEF IInv, Typed, drainVars, historyVars
  <2>3. rest \in Seq(A)
    <3>1. {"mount"} \X Bindings(program) \subseteq A /\ <<"keep">> \in A
      BY <1>1, Apartness DEF Allowed, Mounts, Quiet
    <3>2. mounts \in Seq({"mount"} \X Bindings(program))
      <4>1. Len(Op[3]) \in Nat /\ \A i \in 1 .. Len(Op[3]) : Op[3][i] \in Bindings(program)
        BY <1>1, LenProperties, ElementOfSeq
      <4>2. \A i \in 1 .. Len(Op[3]) : <<"mount", Op[3][i]>> \in {"mount"} \X Bindings(program)
        BY <4>1
      <4> QED BY <4>1, <4>2, IsASeq
    <3>3. mounts \in Seq(A)
      BY <3>1, <3>2, SeqMonotonic
    <3>4. <<<<"keep">>>> \in Seq(A)
      BY <3>1
    <3>5. Done.todo \in Seq(A)
      BY <1>1, <1>2 DEF Fits
    <3> HIDE DEF A, mounts
    <3>6. mounts \o <<<<"keep">>>> \in Seq(A)
      BY <3>3, <3>4, ConcatProperties
    <3> QED BY <3>5, <3>6, ConcatProperties
  <2> HIDE DEF rest
  <2>4. Fits(program, f, live, bodyOf, arm)
    <3> DEFINE g == Done
    <3>1. Fits(program, g, live, bodyOf, arm) /\ g.node = Top.node
      BY <1>2
    <3>2. /\ Top.seen # <<>> /\ g.seen = Top.seen
      BY <1>0, <1>1, <1>2, TopOfStack, Apartness DEF Fits, Op
    <3>3. f = [g EXCEPT !.todo = rest]
      OBVIOUS
    <3> HIDE DEF g, f, A
    <3>4. /\ DOMAIN f = DOMAIN g /\ f.node = g.node /\ f.first = g.first /\ f.seen = g.seen
          /\ f.todo = rest /\ f.made = g.made /\ g.made \in Seq(Effect)
      BY <3>1, <3>3 DEF Fits
    <3>5. f.todo \in Seq(Allowed(program, g.node, bodyOf)) /\ f.seen # <<>>
      BY <2>3, <3>1, <3>2, <3>4 DEF A
    <3> QED BY <3>1, <3>4, <3>5, FrameTurns
  <2>5. f.node = Top.node /\ f.first = Top.first /\ f.made = Top.made
    BY <1>2 DEF Fits
  <2> HIDE DEF f
  <2>6. Stacked(program, OnTop(f), flushing, base, live, bodyOf, arm)
    <3>1. ToSet(f.made) \subseteq ToSet(Top.made)
      BY <2>5
    <3> QED BY <1>0, <2>4, <2>5, <3>1, Replaced
  <2>7. ASSUME NEW i \in 1 .. Len(OnTop(f))
        PROVE  /\ OnTop(f)[i].node = stack[i].node
               /\ OnTop(f)[i].made = stack[i].made
    <3>1. Top = stack[Len(stack)] /\ Len(stack) \in Nat
      BY <1>0, TopOfStack
    <3>2. CASE i = Len(stack)
      BY <3>1, <3>2, <2>5, <1>0, OnTopFrames
    <3>3. CASE i # Len(stack)
      <4>1. i \in 1 .. Len(stack) - 1
        BY <3>1, <3>3, <1>0, OnTopFrames
      <4> QED BY <4>1, <1>0, OnTopFrames
    <3> QED BY <3>2, <3>3
  <2>8. Len(OnTop(f)) = Len(stack)
    BY <1>0, OnTopFrames
  <2>9. \A i \in 1 .. Len(stack) : stack[i].node \notin ToSet(arm)
    BY <1>0, <1>1, ArmIsNotRunning
  <2>10. Stacked(program, OnTop(f), flushing, base, lv, bodyOf, <<>>)
    <3>1. ASSUME NEW i \in 1 .. Len(OnTop(f))
          PROVE  LET g == OnTop(f)[i]
                 IN /\ g.node \in Effect => g.node \in lv /\ bodyOf[g.node] = bodyOf[g.node]
                    /\ g.first => g.node \notin ToSet(<<>>)
                    /\ \A e \in ToSet(g.made) :
                         e \in lv /\ e \notin ToSet(<<>>) /\ bodyOf[e] = bodyOf[e]
      <4>1. Fits(program, stack[i], live, bodyOf, arm)
        BY <2>8 DEF IInv, StackOK, Stacked
      <4> QED BY <4>1, <2>7, <2>8, <2>9, NothingInjective DEF Fits
    <3> HIDE DEF lv
    <3> QED BY <2>6, <3>1, Elsewhere
  <2>11. StackOK'
    BY <1>0, <2>1, <2>10 DEF StackOK, drainVars
  <2> QED BY <2>2, <2>11 DEF IInv
<1> QED BY <1>3, <1>4

LEMMA KeepStep == ASSUME IInv, Keep PROVE IInv'
<1> DEFINE f == [Done EXCEPT !.made = <<>>]
           n == Len(stack)
<1>0. /\ stack # <<>> /\ Top.todo # <<>> /\ Op[1] = "keep" /\ Op[1] # "test"
      /\ arm' = Top.made /\ stack' = OnTop(f)
      /\ UNCHANGED <<program, value, memo, stale, readers, batched, live, shown, drainVars,
                     tag, home, bodyOf, historyVars>>
  BY DEF Keep, Next1, Running
<1>1. ~ Quiet(program, Top.node, bodyOf) /\ Top.node \in Effect
  BY <1>0, TopOperation
<1>2. /\ Fits(program, Done, live, bodyOf, arm)
      /\ Done.node = Top.node /\ Done.first = Top.first /\ Done.made = Top.made
      /\ Done = [Top EXCEPT !.todo = Tail(Top.todo)]
  BY <1>0, DoneFits
<1>3. /\ n \in Nat /\ n >= 1 /\ Top = stack[n] /\ Fits(program, Top, live, bodyOf, arm)
  BY <1>0, TopOfStack
<1>4. /\ Top.made \in Seq(Effect)
      /\ \A e \in ToSet(Top.made) : e \in live /\ bodyOf[e] \in Bindings(program)
  BY <1>1, <1>3, Apartness DEF Fits
<1>5. Typed'
  BY <1>0, <1>4 DEF IInv, Typed, drainVars, historyVars
<1>6. /\ Fits(program, f, live, bodyOf, arm)
      /\ f.node = Top.node /\ f.first = Top.first /\ f.made = <<>>
  <2> DEFINE g == Done
  <2>1. Fits(program, g, live, bodyOf, arm) /\ g.node = Top.node /\ g.first = Top.first
    BY <1>2
  <2>2. /\ Top.seen # <<>> /\ g.seen = Top.seen
    BY <1>0, <1>1, <1>2, <1>3, Apartness DEF Fits, Op
  <2>3. f = [g EXCEPT !.made = <<>>]
    OBVIOUS
  <2> HIDE DEF g, f
  <2>4. /\ DOMAIN f = DOMAIN g /\ f.node = g.node /\ f.first = g.first /\ f.seen = g.seen
        /\ f.todo = g.todo /\ f.made = <<>>
    BY <2>1, <2>3 DEF Fits
  <2>5. f.todo \in Seq(Allowed(program, g.node, bodyOf)) /\ f.seen # <<>>
    BY <2>1, <2>2, <2>4 DEF Fits
  <2>6. f.made \in Seq(Effect) /\ ToSet(f.made) \subseteq ToSet(g.made)
    BY <2>4, NothingInjective
  <2>7. Fits(program, f, live, bodyOf, arm)
    BY <2>1, <2>4, <2>5, <2>6, FrameTurns
  <2> QED BY <2>1, <2>4, <2>7
<1> HIDE DEF f
<1>7. Stacked(program, OnTop(f), flushing, base, live, bodyOf, arm)
  <2>1. ToSet(f.made) \subseteq ToSet(Top.made)
    BY <1>6, NothingInjective
  <2> QED BY <1>0, <1>6, <2>1, Replaced
<1>8. Len(OnTop(f)) = n /\ OnTop(f)[n] = f /\ \A k \in 1 .. n - 1 : OnTop(f)[k] = stack[k]
  BY <1>0, OnTopFrames
<1>9. Stacked(program, OnTop(f), flushing, base, live, bodyOf, Top.made)
  <2>1. ASSUME NEW i \in 1 .. Len(OnTop(f))
        PROVE  LET g == OnTop(f)[i]
               IN /\ g.node \in Effect => g.node \in live /\ bodyOf[g.node] = bodyOf[g.node]
                  /\ g.first => g.node \notin ToSet(Top.made)
                  /\ \A e \in ToSet(g.made) :
                       e \in live /\ e \notin ToSet(Top.made) /\ bodyOf[e] = bodyOf[e]
    <3>1. CASE i = n
      <4>1. OnTop(f)[i] = f /\ ToSet(f.made) = {}
        BY <1>6, <1>8, <3>1, NothingInjective
      <4> QED BY <4>1, <1>3, <1>6 DEF Fits
    <3>2. CASE i # n
      <4>1. i \in 1 .. n /\ i < n /\ OnTop(f)[i] = stack[i]
        BY <1>3, <1>8, <3>2
      <4>2. Apart(program, stack, i, n, flushing, base, bodyOf) /\ Fits(program, stack[i], live, bodyOf, arm)
        BY <1>3, <4>1 DEF IInv, StackOK, Stacked
      <4> QED BY <1>3, <4>1, <4>2 DEF Apart, Fits
    <3> QED BY <3>1, <3>2
  <2> QED BY <1>7, <2>1, Elsewhere
<1>10. StackOK'
  BY <1>0, <1>9 DEF StackOK, drainVars
<1> QED BY <1>5, <1>10 DEF IInv

-----------------------------------------------------------------------------
LEMMA MountStep == ASSUME IInv, Mount PROVE IInv'
<1> DEFINE e == CHOOSE x \in Fresh : TRUE
           name == Op[2]
           n == Len(stack)
           u == OnTop(Done)
           bo == [bodyOf EXCEPT ![e] = name]
           lv == live \cup {e}
           yes == TRUE
           f == BodyFrame(e, name, yes)
           t == Append(u, f)
<1>0. /\ stack # <<>> /\ Top.todo # <<>> /\ Op[1] = "mount" /\ Op[1] # "test"
      /\ (flushing => n > base)
      /\ Fresh # {}
      /\ live' = lv /\ bodyOf' = bo /\ stack' = t
      /\ UNCHANGED <<program, value, memo, stale, readers, batched, drainVars,
                     tag, arm, halfArm, overrun, faults>>
  BY DEF Mount, Next1, Running
<1>1. e \in Effect /\ e \notin live /\ yes \in BOOLEAN /\ yes
  <2>1. e \in Fresh
    BY <1>0
  <2> HIDE DEF e
  <2> QED BY <2>1 DEF Fresh, Held
<1> HIDE DEF yes
<1>2. /\ name \in Names(program)
      /\ Top.node = Page \/ (~ Quiet(program, Top.node, bodyOf) /\ name \in Bindings(program))
  BY <1>0, TopOperation
<1>3. /\ n \in Nat /\ n >= 1 /\ Top = stack[n] /\ Top.node \in Computation \cup {Page}
      /\ Stands(program, stack, n, flushing, base, bodyOf)
  BY <1>0, TopOfStack
<1> HIDE DEF e, name
<1>4. /\ DOMAIN bo = Effect /\ bo[e] = name
      /\ \A x \in Effect : x # e => bo[x] = bodyOf[x]
  BY <1>1 DEF IInv, Typed
<1> HIDE DEF bo
<1>5. /\ e \notin ToSet(arm) /\ \A x \in ToSet(arm) : x \in Effect /\ x # e
  BY <1>1 DEF IInv, Typed
<1>6. Typed'
  <2>1. Subscribers(readers, Derived \cup lv)
    BY MoreSubscribers DEF IInv, Typed
  <2>2. \A x \in lv : bo[x] \in Names(program)
    BY <1>1, <1>2, <1>4 DEF IInv, Typed
  <2>3. \A x \in ToSet(arm) : x \in lv /\ bo[x] \in Bindings(program)
    BY <1>4, <1>5 DEF IInv, Typed
  <2>4. lv \subseteq Effect
    BY <1>1 DEF IInv, Typed
  <2> HIDE DEF lv
  <2> QED BY <1>0, <1>4, <2>1, <2>2, <2>3, <2>4 DEF IInv, Typed, drainVars
<1>7. Stacked(program, u, flushing, base, live, bodyOf, arm)
  BY <1>0, DoneFits, Replaced
<1>8. Len(u) = n /\ u[n] = Done /\ \A k \in 1 .. n - 1 : u[k] = stack[k]
  BY <1>0, OnTopFrames
<1>9. Done.node = Top.node /\ Done.first = Top.first /\ Done.made = Top.made
  BY <1>0, DoneFits
<1> HIDE DEF u
<1>10. ASSUME NEW i \in 1 .. n
       PROVE  /\ u[i].node \in Effect => u[i].node \in live
              /\ u[i].node \in Effect \/ u[i].node \in Derived \/ u[i].node = Page
              /\ u[i].first => u[i].node \notin ToSet(arm)
              /\ \A x \in ToSet(u[i].made) : x \in live /\ x \notin ToSet(arm)
  BY <1>7, <1>8 DEF Stacked, Fits, Computation
<1>11. Stacked(program, u, flushing, base, lv, bo, arm)
  <2>1. live \subseteq Effect
    BY DEF IInv, Typed
  <2>2. ASSUME NEW i \in 1 .. Len(u)
        PROVE  /\ u[i].node \in Effect => u[i].node \in lv /\ bo[u[i].node] = bodyOf[u[i].node]
               /\ u[i].first => u[i].node \notin ToSet(arm)
               /\ \A x \in ToSet(u[i].made) : x \in lv /\ x \notin ToSet(arm) /\ bo[x] = bodyOf[x]
    BY <1>1, <1>4, <1>8, <1>10, <2>1
  <2> HIDE DEF lv
  <2> QED BY <1>7, <2>2, Elsewhere
<1>12. Fits(program, f, lv, bo, arm)
  <2>1. Compiled(program)
    BY ProgramsAssumption DEF IInv, Typed
  <2>2. e \in Computation /\ e \notin Derived
    BY <1>1, Apartness
  <2> HIDE DEF f
  <2> QED BY <2>1, <2>2, <1>1, <1>2, <1>4, <1>5, BodyFits DEF f
<1>13. f.node = e /\ f.first = yes /\ ToSet(f.made) = {}
  BY NothingInjective DEF BodyFrame, Frame
<1> HIDE DEF f
<1>14. /\ Len(t) = n + 1 /\ t[n + 1] = f /\ \A k \in 1 .. n : t[k] = u[k]
  BY <1>7, <1>8, Appended DEF Stacked
<1> HIDE DEF t
<1>15. Stands(program, t, n + 1, flushing, base, bo)
  <2>1. n + 1 > 1 /\ ~ (flushing /\ n + 1 = base + 1)
    BY <1>0, <1>3 DEF IInv, StackOK, Stacked
  <2>2. t[n].node = Top.node
    BY <1>3, <1>8, <1>9, <1>14
  <2>3. (n + 1) - 1 = n
    BY <1>3
  <2>4. e # Page
    BY <1>1, Apartness
  <2> QED BY <1>1, <1>2, <1>4, <1>13, <1>14, <2>1, <2>2, <2>3, <2>4 DEF Stands
<1>16. ASSUME NEW i \in 1 .. n PROVE Apart(program, t, i, n + 1, flushing, base, bo)
  <2>1. t[i] = u[i] /\ t[n + 1] = f
    BY <1>14
  <2>2. /\ u[i].node # e
        /\ e \notin ToSet(u[i].made)
    BY <1>1, <1>10
  <2>3. Quiet(program, u[i].node, bo) <=> Quiet(program, u[i].node, bodyOf)
    BY <1>4, <2>2 DEF Quiet
  <2>4. Quiet(program, u[i].node, bodyOf) => flushing /\ i <= base /\ base < n + 1
    <3>1. CASE i = n
      <4>1. u[i].node = Top.node
        BY <1>8, <1>9, <3>1
      <4> QED BY <4>1, <1>2, Apartness DEF Quiet
    <3>2. CASE i < n
      <4>1. Apart(program, u, i, n, flushing, base, bodyOf) /\ u[n].node = Top.node
        BY <1>3, <1>7, <1>8, <1>9, <3>2 DEF Stacked
      <4>2. Top.node \notin Derived
        BY <1>2, Apartness DEF Quiet
      <4>3. base \in Nat
        BY DEF IInv, StackOK, Stacked
      <4> QED BY <4>1, <4>2, <4>3, <1>3 DEF Apart
    <3> QED BY <3>1, <3>2, <1>3
  <2> QED BY <2>1, <2>2, <2>3, <2>4, <1>13 DEF Apart
<1>17. Stacked(program, t, flushing, base, lv, bo, arm)
  <2>1. /\ Stands(program, Append(u, f), Len(u) + 1, flushing, base, bo)
        /\ \A i \in 1 .. Len(u) : Apart(program, Append(u, f), i, Len(u) + 1, flushing, base, bo)
    BY <1>8, <1>15, <1>16 DEF t
  <2> HIDE DEF lv
  <2>2. Stacked(program, Append(u, f), flushing, base, lv, bo, arm)
    BY <1>11, <1>12, <2>1, Push
  <2> QED BY <2>2 DEF t
<1>18. StackOK'
  BY <1>0, <1>17 DEF StackOK, drainVars
<1> QED BY <1>6, <1>18 DEF IInv

-----------------------------------------------------------------------------
LEMMA InitIInv == ASSUME Init PROVE IInv
<1> DEFINE todo == [i \in 1 .. Len(program.roots) |-> <<"mount", program.roots[i]>>]
           f == Frame(Page, todo, FALSE)
           A == Allowed(program, Page, bodyOf)
<1>1. Typed
  <2>1. Subscribers(readers, Derived \cup live)
    BY NothingInjective DEF Init, Subscribers
  <2>2. ToSet(arm) = {} /\ arm \in Seq(Effect)
    BY NothingInjective DEF Init
  <2>3. \A d \in Derived : memo[d].key \in Val
    BY SignalsAssumption DEF Init
  <2>4. value \in [Signal -> Val]
    BY SignalsAssumption DEF Init
  <2>5. pending \in Seq(Computation) /\ IsInjective(pending) /\ ready \in Seq(Computation)
    BY NothingInjective DEF Init
  <2>6. steps \in 0 .. STEP_LIMIT
    BY SignalsAssumption DEF Init
  <2> QED BY <2>1, <2>2, <2>3, <2>4, <2>5, <2>6 DEF Init, Typed
<1>2. todo \in Seq(A)
  <2>1. program.roots \in Seq(Names(program))
    BY ProgramsAssumption DEF Init, Compiled
  <2>2. Len(program.roots) \in Nat
        /\ \A i \in 1 .. Len(program.roots) : program.roots[i] \in Names(program)
    BY <2>1, LenProperties, ElementOfSeq
  <2>3. \A i \in 1 .. Len(program.roots) : todo[i] \in A
    BY <2>2 DEF Allowed, Mounts
  <2>4. todo \in [1 .. Len(program.roots) -> A]
    BY <2>3
  <2> HIDE DEF A, todo
  <2> QED BY <2>2, <2>4, SeqDef
<1> HIDE DEF todo
<1>3. DOMAIN f = {"node", "todo", "first", "seen", "made"} /\ f.node = Page /\ f.todo = todo
      /\ f.first = FALSE /\ f.seen = <<>> /\ f.made = <<>>
  BY DEF Frame
<1> HIDE DEF f
<1>4. Fits(program, f, live, bodyOf, arm)
  <2>1. ToSet(f.made) = {} /\ f.made \in Seq(Effect) /\ f.seen \in Seq(ToSet(f.seen)) /\ Len(f.seen) = 0
    BY <1>3, NothingInjective, EmptySeq
  <2>2. \A i \in 1 .. Len(f.seen) : f.seen[i].key \in Val
    BY <2>1
  <2> HIDE DEF A
  <2>3. f.todo \in Seq(Allowed(program, f.node, bodyOf))
    BY <1>2, <1>3 DEF A
  <2> QED BY <1>3, <2>1, <2>2, <2>3, Apartness DEF Fits
<1>5. Stacked(program, Append(<<>>, f), flushing, base, live, bodyOf, arm)
  <2>1. flushing \in BOOLEAN /\ base \in Nat /\ ~ flushing /\ base = 0
    BY DEF Init
  <2>2. Stacked(program, <<>>, flushing, base, live, bodyOf, arm)
    BY <2>1, EmptyStack
  <2>3. Len(<<>>) = 0 /\ Append(<<>>, f)[1] = f
    BY EmptySeq
  <2>4. Stands(program, Append(<<>>, f), 1, flushing, base, bodyOf)
    BY <1>3, <2>3, Apartness DEF Stands
  <2> DEFINE z == <<>>
  <2>5. /\ Stacked(program, z, flushing, base, live, bodyOf, arm) /\ Len(z) = 0
        /\ Stands(program, Append(z, f), Len(z) + 1, flushing, base, bodyOf)
    BY <2>2, <2>3, <2>4
  <2>6. Append(z, f) = Append(<<>>, f)
    OBVIOUS
  <2> HIDE DEF z
  <2>7. \A i \in 1 .. Len(z) : Apart(program, Append(z, f), i, Len(z) + 1, flushing, base, bodyOf)
    BY <2>5
  <2>8. Stacked(program, Append(z, f), flushing, base, live, bodyOf, arm)
    BY <1>4, <2>5, <2>7, Push
  <2> QED BY <2>6, <2>8
<1>6. stack = Append(<<>>, f)
  BY DEF Init, f, todo
<1> QED BY <1>1, <1>5, <1>6 DEF IInv, StackOK

LEMMA Unmoved == ASSUME IInv, UNCHANGED vars PROVE IInv'
<1>1. Typed'
  BY DEF vars, IInv, Typed, drainVars, regionVars, historyVars
<1>2. StackOK'
  BY DEF vars, IInv, StackOK, drainVars, regionVars, historyVars
<1> QED BY <1>1, <1>2 DEF IInv

LEMMA NextIInv == ASSUME IInv, [Next]_vars PROVE IInv'
<1>1. CASE Drain
  BY <1>1, SnapshotStep, RunNextStep, GiveUpStep, SettleStep DEF Drain
<1>2. CASE BodyStep
  BY <1>2, ReadStep, RecomputeStep, SetStep, ReturnStep, ThrowStep, SwapStep, MountStep, KeepStep
     DEF BodyStep
<1>3. CASE \E s \in Signal, v \in Val : Write(s, v)
  BY <1>3, WriteStep
<1>4. CASE HandlerStarts
  BY <1>4, HandlerStartsStep
<1>5. CASE \E d \in Derived \cap DOMAIN program.body : HandlerReads(d)
  BY <1>5, HandlerReadsStep
<1>6. CASE HandlerEnds
  BY <1>6, HandlerEndsStep
<1>7. CASE UNCHANGED vars
  BY <1>7, Unmoved
<1> QED BY <1>1, <1>2, <1>3, <1>4, <1>5, <1>6, <1>7 DEF Next

(* Whatever the page, a drain or a mounted arm does next, the stack stays  *)
(* one signal.js can have.                                                 *)
THEOREM Invariance == Spec => []IInv
<1>1. Init => IInv
  BY InitIInv
<1>2. IInv /\ [Next]_vars => IInv'
  BY NextIInv
<1> QED BY <1>1, <1>2, PTL DEF Spec

(* The page's bookkeeping is well typed.                                   *)
THEOREM TypeCorrect == Spec => []TypeOK
<1>1. ASSUME IInv PROVE TypeOK
  <2>1. /\ program \in Programs /\ value \in [Signal -> Val]
        /\ \A d \in Derived : memo[d].key \in Val
        /\ stale \subseteq Derived /\ flushing \in BOOLEAN /\ failure \in BOOLEAN
        /\ batched \in BOOLEAN /\ steps \in 0 .. STEP_LIMIT
        /\ live \subseteq Effect /\ ToSet(arm) \subseteq live
    BY <1>1 DEF IInv, Typed
  <2>2. ASSUME NEW c \in Cell
        PROVE  ToSet(readers[c]) \subseteq Computation /\ IsInjective(readers[c])
    <3>1. readers[c] \in Seq(Derived \cup live) /\ IsInjective(readers[c])
      BY <1>1 DEF IInv, Typed, Subscribers
    <3>2. ToSet(readers[c]) \subseteq Derived \cup live
      BY <3>1, OwnElements
    <3> QED BY <3>1, <3>2, <2>1, Apartness
  <2>3. ToSet(pending) \subseteq Computation /\ IsInjective(pending)
        /\ ToSet(ready) \subseteq Computation
    BY <1>1, OwnElements DEF IInv, Typed
  <2>4. base \in 0 .. Len(stack) \/ ~ flushing
    <3>1. Len(stack) \in Nat /\ base \in Nat /\ (flushing => base <= Len(stack))
      BY <1>1, LenProperties DEF IInv, StackOK, Stacked
    <3> QED BY <3>1
  <2>5. \A i \in 1 .. Len(stack) : stack[i].node \in Computation \cup {Page}
    BY <1>1 DEF IInv, StackOK, Stacked, Fits
  <2> QED BY <2>1, <2>2, <2>3, <2>4, <2>5 DEF TypeOK
<1> QED BY <1>1, Invariance, PTL

(* A disposed effect is subscribed to nothing and is not running, however  *)
(* a program of the compiler's nests its writes, reads, regions and drains. *)
THEOREM DisposedEffectsAreSilentAlways == Spec => []DisposedEffectsAreSilent
<1>1. ASSUME IInv, NEW e \in Effect \ live
      PROVE  /\ \A c \in Cell : e \notin ToSet(readers[c])
             /\ \A i \in 1 .. Len(stack) : stack[i].node # e
  <2>1. ASSUME NEW c \in Cell PROVE e \notin ToSet(readers[c])
    <3>1. readers[c] \in Seq(Derived \cup live)
      BY <1>1 DEF IInv, Typed, Subscribers
    <3>2. ToSet(readers[c]) \subseteq Derived \cup live
      BY <3>1, OwnElements
    <3> QED BY <3>2, Apartness
  <2>2. \A i \in 1 .. Len(stack) : stack[i].node # e
    BY <1>1 DEF IInv, StackOK, Stacked, Fits
  <2> QED BY <2>1, <2>2
<1>2. IInv => DisposedEffectsAreSilent
  BY <1>1 DEF DisposedEffectsAreSilent
<1> QED BY <1>2, Invariance, PTL

-----------------------------------------------------------------------------
(***************************************************************************)
(* Keyed lists.                                                            *)
(***************************************************************************)

(***************************************************************************)
(* Nodes and their order.                                                  *)
(***************************************************************************)

\* The nodes rows with these keys are rendered with.
NodesOf(K) ==
  {n \in [key : Key, part : {"first", "second"}] :
     n.key \in K /\ (n.part = "second" => n.key \in Twofold)}

\* The order of two nodes when their keys are ordered by place.
Before(a, b, place) ==
  \/ place[a.key] < place[b.key]
  \/ a.key = b.key /\ a.part = "first" /\ b.part = "second"

\* The nodes with these keys stand in that order, whatever is between them.
InOrder(s, K, place) ==
  \A i, j \in 1 .. Len(s) :
    i < j /\ s[i].key \in K /\ s[j].key \in K => Before(s[i], s[j], place)

LEMMA RenderedNodes ==
  ASSUME NEW k \in Key
  PROVE  /\ Rendered(k) \in Seq(NodesOf(Key))
         /\ Len(Rendered(k)) >= 1 /\ Len(Rendered(k)) \in Nat
         /\ Rendered(k)[1] = Node(k, "first")
         /\ ToSet(Rendered(k)) = NodesOf({k})
         /\ \A place : InOrder(Rendered(k), Key, place)
<1> DEFINE a == Node(k, "first")
           b == Node(k, "second")
<1>1. /\ a \in NodesOf(Key) /\ a \in NodesOf({k}) /\ a.key = k /\ a.part = "first"
      /\ b.key = k /\ b.part = "second"
      /\ k \in Twofold => b \in NodesOf(Key) /\ b \in NodesOf({k})
  BY DEF NodesOf, Node
<1>2. \A n \in NodesOf({k}) : n = a \/ (k \in Twofold /\ n = b)
  BY DEF NodesOf, Node
<1> HIDE DEF a, b
<1>3. CASE k \in Twofold
  <2>1. Rendered(k) = <<a, b>>
    BY <1>3 DEF Rendered, a, b
  <2>2. /\ <<a, b>> \in Seq(NodesOf(Key)) /\ Len(<<a, b>>) = 2 /\ <<a, b>>[1] = a /\ <<a, b>>[2] = b
        /\ ToSet(<<a, b>>) = {a, b}
    BY <1>1, <1>3 DEF ToSet
  <2>3. ToSet(<<a, b>>) = NodesOf({k})
    BY <1>1, <1>2, <1>3, <2>2
  <2>4. \A place : InOrder(<<a, b>>, Key, place)
    <3>1. ASSUME NEW i \in 1 .. 2, NEW j \in 1 .. 2, i < j PROVE i = 1 /\ j = 2
      BY <3>1
    <3> QED BY <1>1, <2>2, <3>1 DEF InOrder, Before
  <2> QED BY <2>1, <2>2, <2>3, <2>4 DEF a
<1>4. CASE k \notin Twofold
  <2>1. Rendered(k) = <<a>>
    BY <1>4 DEF Rendered, a
  <2>2. <<a>> \in Seq(NodesOf(Key)) /\ Len(<<a>>) = 1 /\ <<a>>[1] = a /\ ToSet(<<a>>) = {a}
    BY <1>1 DEF ToSet
  <2>3. ToSet(<<a>>) = NodesOf({k})
    BY <1>1, <1>2, <1>4, <2>2
  <2>4. \A place : InOrder(<<a>>, Key, place)
    BY <2>2 DEF InOrder
  <2> QED BY <2>1, <2>2, <2>3, <2>4 DEF a
<1> QED BY <1>3, <1>4

(* What is drawn from a list without changing the order.                   *)
LEMMA Drawn ==
  ASSUME NEW s, NEW t, NEW at \in [1 .. Len(t) -> 1 .. Len(s)], Len(t) \in Nat,
         \A i \in 1 .. Len(t) : t[i] = s[at[i]],
         \A i, j \in 1 .. Len(t) : i < j => at[i] < at[j],
         NEW K, NEW place, InOrder(s, K, place)
  PROVE  InOrder(t, K, place)
BY DEF InOrder

\* at says where the elements of t stand in s: at the wanted places, in order.
Draws(s, t, wanted, at) ==
  /\ at \in [1 .. Len(t) -> wanted \cap (1 .. Len(s))]
  /\ \A i \in 1 .. Len(t) : t[i] = s[at[i]]
  /\ \A i, j \in 1 .. Len(t) : i < j => at[i] < at[j]
  /\ \A n \in wanted \cap (1 .. Len(s)) : \E i \in 1 .. Len(t) : at[i] = n

LEMMA PickDraws ==
  ASSUME NEW T, NEW s \in Seq(T), NEW wanted
  PROVE  /\ Pick(s, wanted) \in Seq(T)
         /\ \E at : Draws(s, Pick(s, wanted), wanted, at)
<1> DEFINE t == Pick(s, wanted)
<1>1. /\ t \in Seq(T)
      /\ \E at \in [1 .. Len(t) -> wanted \cap (1 .. Len(s))] :
           /\ \A i \in 1 .. Len(t) : t[i] = s[at[i]]
           /\ \A i, j \in 1 .. Len(t) : i < j => at[i] < at[j]
           /\ \A n \in wanted \cap (1 .. Len(s)) : \E i \in 1 .. Len(t) : at[i] = n
  BY PickProperties
<1> HIDE DEF t
<1> QED BY <1>1 DEF Draws, t

(* Kept nodes keep their order.                                            *)
LEMMA KeptNodes ==
  ASSUME NEW T, NEW s \in Seq(T), NEW away
  PROVE  /\ Kept(s, away) \in Seq(T)
         /\ ToSet(Kept(s, away)) = ToSet(s) \ away
         /\ \A K, place : InOrder(s, K, place) => InOrder(Kept(s, away), K, place)
<1> DEFINE wanted == {i \in DOMAIN s : s[i] \notin away}
           t == Pick(s, wanted)
<1>0. t = Kept(s, away) /\ DOMAIN s = 1 .. Len(s)
  BY LenProperties DEF Kept
<1>1. t \in Seq(T) /\ \E at : Draws(s, t, wanted, at)
  <2> HIDE DEF wanted
  <2> QED BY PickDraws
<1> HIDE DEF t
<1>2. PICK at : Draws(s, t, wanted, at)
  BY <1>1
<1>a. /\ at \in [1 .. Len(t) -> wanted \cap (1 .. Len(s))]
      /\ \A i \in 1 .. Len(t) : t[i] = s[at[i]]
      /\ \A i, j \in 1 .. Len(t) : i < j => at[i] < at[j]
      /\ \A n \in wanted \cap (1 .. Len(s)) : \E i \in 1 .. Len(t) : at[i] = n
  BY <1>2 DEF Draws
<1>3. DOMAIN t = 1 .. Len(t) /\ Len(t) \in Nat
  BY <1>1, LenProperties
<1>4. ToSet(t) = ToSet(s) \ away
  <2>1. \A x \in ToSet(t) : x \in ToSet(s) /\ x \notin away
    BY <1>0, <1>a, <1>3 DEF ToSet
  <2>2. ASSUME NEW x \in ToSet(s), x \notin away PROVE x \in ToSet(t)
    <3>1. PICK n \in 1 .. Len(s) : x = s[n]
      BY <1>0 DEF ToSet
    <3>2. n \in wanted \cap (1 .. Len(s))
      BY <1>0, <2>2, <3>1
    <3>3. PICK i \in 1 .. Len(t) : at[i] = n
      BY <1>a, <3>2
    <3> QED BY <1>a, <1>3, <3>1, <3>3 DEF ToSet
  <2> QED BY <2>1, <2>2
<1>5. at \in [1 .. Len(t) -> 1 .. Len(s)]
  BY <1>a
<1>6. ASSUME NEW K, NEW place, InOrder(s, K, place) PROVE InOrder(t, K, place)
  BY <1>a, <1>3, <1>5, <1>6, Drawn
<1> QED BY <1>0, <1>1, <1>4, <1>6

(* Two lists one after the other.                                          *)
LEMMA Joined ==
  ASSUME NEW T, NEW s \in Seq(T), NEW t \in Seq(T)
  PROVE  /\ s \o t \in Seq(T) /\ ToSet(s \o t) = ToSet(s) \cup ToSet(t)
         /\ \A K, place :
              /\ InOrder(s, K, place) /\ InOrder(t, K, place)
              /\ \A a \in ToSet(s), b \in ToSet(t) :
                   a.key \in K /\ b.key \in K => Before(a, b, place)
              => InOrder(s \o t, K, place)
<1> DEFINE u == s \o t
           m == Len(s)
           n == Len(t)
<1>1. /\ u \in Seq(T) /\ Len(u) = m + n /\ m \in Nat /\ n \in Nat
      /\ \A i \in 1 .. m + n : u[i] = IF i <= m THEN s[i] ELSE t[i - m]
      /\ DOMAIN u = 1 .. m + n /\ DOMAIN s = 1 .. m /\ DOMAIN t = 1 .. n
  BY ConcatProperties, LenProperties
<1> HIDE DEF u
<1>b. m \in Nat /\ n \in Nat /\ Len(u) = m + n
  BY <1>1
<1>2. /\ \A i \in 1 .. m : u[i] = s[i] /\ i \in 1 .. m + n /\ s[i] \in ToSet(s)
      /\ \A i \in 1 .. n : u[m + i] = t[i] /\ m + i \in 1 .. m + n /\ t[i] \in ToSet(t)
  <2>1. ASSUME NEW i \in 1 .. m PROVE u[i] = s[i] /\ i \in 1 .. m + n /\ s[i] \in ToSet(s)
    <3>1. i \in 1 .. m + n /\ i <= m
      BY <1>1
    <3>2. s[i] \in ToSet(s)
      BY <1>1 DEF ToSet
    <3> HIDE DEF m, n
    <3> QED BY <1>1, <3>1, <3>2
  <2>2. ASSUME NEW i \in 1 .. n PROVE u[m + i] = t[i] /\ m + i \in 1 .. m + n /\ t[i] \in ToSet(t)
    <3>1. m + i \in 1 .. m + n /\ ~ (m + i <= m) /\ (m + i) - m = i
      BY <1>1
    <3>2. u[m + i] = t[(m + i) - m]
      BY <1>1, <3>1
    <3> QED BY <1>1, <3>1, <3>2 DEF ToSet
  <2> QED BY <2>1, <2>2
<1>3. ToSet(u) = ToSet(s) \cup ToSet(t)
  <2>1. \A x \in ToSet(s) \cup ToSet(t) : x \in ToSet(u)
    <3>1. ASSUME NEW x \in ToSet(s) PROVE x \in ToSet(u)
      <4>1. PICK i \in 1 .. m : x = s[i]
        BY <1>1 DEF ToSet
      <4> QED BY <1>1, <1>2, <4>1 DEF ToSet
    <3>2. ASSUME NEW x \in ToSet(t) PROVE x \in ToSet(u)
      <4>1. PICK i \in 1 .. n : x = t[i]
        BY <1>1 DEF ToSet
      <4>2. u[m + i] = x /\ m + i \in DOMAIN u
        BY <1>1, <1>2, <4>1
      <4> QED BY <4>2 DEF ToSet
    <3> QED BY <3>1, <3>2
  <2>2. ASSUME NEW i \in 1 .. m + n PROVE u[i] \in ToSet(s) \cup ToSet(t)
    <3>1. i \in 1 .. m \/ i - m \in 1 .. n
      BY <1>1
    <3>2. i - m \in 1 .. n => u[i] = t[i - m]
      BY <1>1
    <3> QED BY <1>2, <3>1, <3>2
  <2>3. \A x \in ToSet(u) : x \in ToSet(s) \cup ToSet(t)
    BY <1>1, <2>2 DEF ToSet
  <2> QED BY <2>1, <2>3
<1>4. ASSUME NEW K, NEW place, InOrder(s, K, place), InOrder(t, K, place),
             \A a \in ToSet(s), b \in ToSet(t) : a.key \in K /\ b.key \in K => Before(a, b, place)
      PROVE  InOrder(u, K, place)
  <2>1. ASSUME NEW i \in 1 .. Len(u), NEW j \in 1 .. Len(u), i < j,
               u[i].key \in K, u[j].key \in K
        PROVE  Before(u[i], u[j], place)
    <3>1. CASE j <= m
      <4>1. i \in 1 .. m /\ j \in 1 .. m
        BY <1>b, <2>1, <3>1
      <4> QED BY <1>2, <1>4, <2>1, <4>1 DEF InOrder
    <3>2. CASE i > m
      <4>1. i - m \in 1 .. n /\ j - m \in 1 .. n /\ i - m < j - m
            /\ m + (i - m) = i /\ m + (j - m) = j
        BY <1>b, <2>1, <3>2
      <4>2. u[i] = t[i - m] /\ u[j] = t[j - m]
        BY <1>2, <4>1
      <4> HIDE DEF m, n
      <4>3. Before(t[i - m], t[j - m], place)
        BY <1>4, <2>1, <4>1, <4>2 DEF InOrder, n
      <4> QED BY <4>2, <4>3
    <3>3. CASE i <= m /\ j > m
      <4>1. i \in 1 .. m /\ j - m \in 1 .. n /\ m + (j - m) = j
        BY <1>b, <2>1, <3>3
      <4> QED BY <1>2, <1>4, <2>1, <4>1
    <3> QED BY <1>b, <2>1, <3>1, <3>2, <3>3
  <2> QED BY <2>1 DEF InOrder
<1> QED BY <1>1, <1>3, <1>4 DEF u

(* One list at most stands in an order.                                    *)
LEMMA OneOrder ==
  ASSUME NEW T, NEW s \in Seq(T), NEW t \in Seq(T), ToSet(s) = ToSet(t),
         NEW K, NEW place, \A n \in ToSet(s) : n.key \in K /\ place[n.key] \in Int,
         InOrder(s, K, place), InOrder(t, K, place)
  PROVE  s = t
<1> DEFINE m == Len(s)
           n == Len(t)
<1>1. /\ m \in Nat /\ n \in Nat
      /\ DOMAIN s = 1 .. m /\ DOMAIN t = 1 .. n
      /\ \A i \in 1 .. m : s[i] \in ToSet(s) /\ \E j \in 1 .. n : s[i] = t[j]
      /\ \A j \in 1 .. n : t[j] \in ToSet(s) /\ \E i \in 1 .. m : t[j] = s[i]
  BY LenProperties DEF ToSet
<1>a. m \in Nat /\ n \in Nat
  BY <1>1
<1>2. \A x, y \in ToSet(s) : Before(x, y, place) => ~ Before(y, x, place)
  BY DEF Before
<1>3. /\ \A i, j \in 1 .. m : i < j => Before(s[i], s[j], place)
      /\ \A i, j \in 1 .. n : i < j => Before(t[i], t[j], place)
  BY <1>1 DEF InOrder
<1> HIDE DEF m, n
<1> DEFINE P(l) == \A i \in 1 .. l : i <= n /\ t[i] = s[i]
           G == {l \in 0 .. m : P(l)}
<1>4. 0 \in G
  BY <1>1
<1>5. ASSUME NEW l \in 0 .. m - 1, l \in G PROVE l + 1 \in G
  <2> DEFINE c == l + 1
  <2>0. \A x \in 1 .. l : x <= n /\ t[x] = s[x]
    BY <1>5
  <2>1. c \in 1 .. m /\ c \in Nat
    BY <1>a
  <2>2. PICK j \in 1 .. n : s[c] = t[j]
    BY <1>1, <2>1
  <2>3. j >= c
    <3>1. CASE j <= l
      <4>1. t[j] = s[j] /\ j \in 1 .. m /\ j < c
        <5>1. j \in 1 .. l /\ l < c /\ l \in 0 .. m
          BY <1>a, <3>1
        <5> QED BY <1>a, <2>0, <5>1
      <4>2. Before(s[j], s[c], place) /\ s[j] = s[c]
        BY <1>3, <2>1, <2>2, <4>1
      <4> QED BY <1>1, <1>2, <2>1, <4>2
    <3> QED BY <1>a, <3>1
  <2>4. c \in 1 .. n
    BY <1>a, <2>1, <2>3
  <2>5. PICK i \in 1 .. m : t[c] = s[i]
    BY <1>1, <2>4
  <2>6. i >= c
    <3>1. CASE i <= l
      <4>1. t[i] = s[i] /\ i \in 1 .. n /\ i < c
        BY <1>a, <2>0, <2>4, <3>1
      <4>2. Before(t[i], t[c], place) /\ t[i] = t[c]
        BY <1>3, <2>4, <2>5, <4>1
      <4> QED BY <1>1, <1>2, <2>4, <4>2
    <3> QED BY <1>a, <3>1
  <2>7. t[c] = s[c]
    <3>1. CASE j = c
      BY <2>2, <3>1
    <3>2. CASE i = c
      BY <2>5, <3>2
    <3>3. CASE j > c /\ i > c
      <4>1. Before(t[c], t[j], place)
        BY <1>3, <2>4, <3>3
      <4>2. Before(s[c], s[i], place)
        BY <1>3, <2>1, <3>3
      <4> QED BY <1>1, <1>2, <2>1, <2>2, <2>4, <2>5, <4>1, <4>2
    <3> QED BY <1>a, <2>1, <2>3, <2>6, <3>1, <3>2, <3>3
  <2>8. P(c)
    <3>1. ASSUME NEW x \in 1 .. c PROVE x <= n /\ t[x] = s[x]
      <4>1. x \in 1 .. l \/ x = c
        BY <2>1
      <4>2. CASE x \in 1 .. l
        BY <2>0, <4>2
      <4>3. CASE x = c
        BY <2>4, <2>7, <4>3
      <4> QED BY <4>1, <4>2, <4>3
    <3> QED BY <3>1
  <2> QED BY <2>1, <2>8
<1>6. P(m) /\ m <= n
  <2>1. 0 .. m \subseteq G
    <3> HIDE DEF G
    <3> QED BY <1>1, <1>4, <1>5, UpTo
  <2>2. m \in G
    BY <1>a, <2>1
  <2>3. P(m)
    BY <2>2
  <2> QED BY <1>1, <2>3
<1>7. m = n
  <2>1. CASE m < n
    <3>1. m + 1 \in 1 .. n
      BY <1>a, <2>1
    <3>2. PICK i \in 1 .. m : t[m + 1] = s[i]
      BY <1>1, <3>1
    <3>3. t[i] = s[i] /\ i \in 1 .. n /\ i < m + 1
      <4>1. t[i] = s[i] /\ i <= n
        BY <1>6, <3>2
      <4> QED BY <1>a, <3>2, <4>1
    <3>4. Before(t[i], t[m + 1], place) /\ t[i] = t[m + 1]
      BY <1>3, <3>1, <3>2, <3>3
    <3> QED BY <1>1, <1>2, <3>1, <3>4
  <2> QED BY <1>a, <1>6, <2>1
<1> QED BY <1>1, <1>6, <1>7, SeqEqual DEF m, n

(***************************************************************************)
(* A computation that goes from one set of states to the next, and the     *)
(* document it builds.                                                     *)
(***************************************************************************)
\* Each step leads from one set of states to the next.
Leads(n, S, origin, step) ==
  origin \in S[0] /\ \A i \in 1 .. n : \A x \in S[i - 1] : step[i][x] \in S[i]

\* A run of these steps.
Visits(n, S, origin, step, run) ==
  /\ DOMAIN run = 0 .. n
  /\ run = [i \in 0 .. n |-> run[i]]
  /\ run[0] = origin
  /\ \A i \in 1 .. n : run[i] = step[i][run[i - 1]]
  /\ \A i \in 0 .. n : run[i] \in S[i]

LEMMA StagesExist ==
  ASSUME NEW n \in Nat, NEW S, NEW origin, NEW step, Leads(n, S, origin, step)
  PROVE  \E run : Visits(n, S, origin, step, run)
<1>0. origin \in S[0] /\ \A i \in 1 .. n : \A x \in S[i - 1] : step[i][x] \in S[i]
  BY DEF Leads
<1> DEFINE U == UNION {S[i] : i \in 0 .. n}
           total == [i \in 1 .. n |-> [x \in U |-> IF x \in S[i - 1] THEN step[i][x] ELSE origin]]
<1>1. origin \in U /\ \A i \in 0 .. n : S[i] \subseteq U
  <2>1. 0 \in 0 .. n
    OBVIOUS
  <2> QED BY <1>0, <2>1
<1>2. total \in [1 .. n -> [U -> U]]
  <2>1. ASSUME NEW i \in 1 .. n, NEW x \in U
        PROVE  (IF x \in S[i - 1] THEN step[i][x] ELSE origin) \in U
    <3>1. i \in 0 .. n
      OBVIOUS
    <3> HIDE DEF U
    <3> QED BY <1>0, <1>1, <3>1
  <2> HIDE DEF U
  <2> QED BY <2>1
<1>3. PICK run : Goes(n, U, origin, total, run)
  <2> HIDE DEF U, total
  <2> QED BY <1>1, <1>2, RunExists
<1>4. run \in [0 .. n -> U] /\ run[0] = origin /\ \A i \in 1 .. n : run[i] = total[i][run[i - 1]]
  BY <1>3 DEF Goes
<1> DEFINE G == {i \in 0 .. n : run[i] \in S[i]}
<1>5. 0 \in G
  BY <1>0, <1>4
<1>6. ASSUME NEW i \in 1 .. n, run[i - 1] \in S[i - 1]
      PROVE  run[i] = step[i][run[i - 1]] /\ run[i] \in S[i]
  <2>1. i - 1 \in 0 .. n
    OBVIOUS
  <2>2. run[i - 1] \in U
    <3> HIDE DEF U
    <3> QED BY <1>4, <2>1
  <2>3. total[i][run[i - 1]] = step[i][run[i - 1]]
    BY <1>6, <2>2
  <2> QED BY <1>0, <1>4, <1>6, <2>3
<1>7. ASSUME NEW i \in 0 .. n - 1, i \in G PROVE i + 1 \in G
  <2>1. i + 1 \in 1 .. n /\ i + 1 \in 0 .. n /\ (i + 1) - 1 = i /\ run[i] \in S[i]
    BY <1>7
  <2>2. run[i + 1] \in S[i + 1]
    BY <1>6, <2>1
  <2> QED BY <2>1, <2>2
<1>8. 0 .. n \subseteq G
  <2> HIDE DEF G
  <2> QED BY <1>5, <1>7, UpTo
<1>9. \A i \in 0 .. n : run[i] \in S[i]
  BY <1>8
<1>10. ASSUME NEW i \in 1 .. n PROVE run[i] = step[i][run[i - 1]]
  <2>1. i - 1 \in 0 .. n
    OBVIOUS
  <2> QED BY <1>6, <1>9, <2>1
<1>11. run = [i \in 0 .. n |-> run[i]] /\ DOMAIN run = 0 .. n
  <2> HIDE DEF U
  <2> QED BY <1>4
<1>12. Visits(n, S, origin, step, run)
  BY <1>4, <1>9, <1>10, <1>11 DEF Visits
<1> QED BY <1>12

(* What goes on as the steps do stays in the sets.                         *)
LEMMA StaysIn ==
  ASSUME NEW n \in Nat, NEW S, NEW f, NEW first \in 0 .. n, f[first] \in S[first],
         \A i \in first + 1 .. n : f[i - 1] \in S[i - 1] => f[i] \in S[i]
  PROVE  \A i \in first .. n : f[i] \in S[i]
<1> DEFINE G == {i \in 0 .. n : i >= first => f[i] \in S[i]}
<1>1. 0 \in G
  BY SMT
<1>2. ASSUME NEW i \in 0 .. n - 1, i \in G PROVE i + 1 \in G
  <2>1. i + 1 \in 0 .. n /\ (i + 1) - 1 = i /\ (i >= first => f[i] \in S[i])
    BY <1>2
  <2>2. CASE i + 1 > first
    <3>1. i + 1 \in first + 1 .. n /\ i >= first
      BY <2>1, <2>2
    <3>2. f[(i + 1) - 1] \in S[(i + 1) - 1]
      BY <2>1, <3>1
    <3>3. f[i + 1] \in S[i + 1]
      BY <3>1, <3>2
    <3> QED BY <2>1, <3>3
  <2>3. CASE i + 1 = first
    BY <2>1, <2>3
  <2>4. CASE i + 1 < first
    BY <2>1, <2>4
  <2> QED BY <2>1, <2>2, <2>3, <2>4
<1>3. 0 .. n \subseteq G
  <2> HIDE DEF G
  <2> QED BY <1>1, <1>2, UpTo
<1> QED BY <1>3

(* The rows' nodes in one list.                                            *)
LEMMA Flattened ==
  ASSUME NEW keys \in Seq(Key), NEW nodes \in Seq(Seq(NodesOf(Key))), Len(nodes) = Len(keys),
         \A i \in 1 .. Len(keys) : nodes[i] = Rendered(keys[i]),
         NEW place, \A i, j \in 1 .. Len(keys) : i < j => place[keys[i]] < place[keys[j]]
  PROVE  /\ FlattenSeq(nodes) \in Seq(NodesOf(Key))
         /\ ToSet(FlattenSeq(nodes)) = NodesOf(ToSet(keys))
         /\ InOrder(FlattenSeq(nodes), Key, place)
<1> DEFINE L == Len(keys)
           T == NodesOf(Key)
           upTo(i) == {keys[j] : j \in 1 .. i}
           S == [i \in 0 .. L |-> {x \in Seq(T) : /\ ToSet(x) = NodesOf(upTo(i))
                                                  /\ InOrder(x, Key, place)}]
           step == [i \in 1 .. L |-> [x \in Seq(T) |-> x \o nodes[i]]]
           none == <<>>
<1>0. L \in Nat /\ \A i \in 1 .. L : keys[i] \in Key
  BY LenProperties, ElementOfSeq
<1>1. none \in S[0]
  <2>1. none \in Seq(T) /\ ToSet(none) = {} /\ InOrder(none, Key, place)
    BY EmptySeq DEF ToSet, InOrder
  <2>2. NodesOf(upTo(0)) = {} /\ 0 \in 0 .. L
    BY <1>0 DEF NodesOf
  <2> HIDE DEF none, upTo, T
  <2> QED BY <2>1, <2>2
<1>2. ASSUME NEW i \in 1 .. L, NEW x \in S[i - 1] PROVE step[i][x] \in S[i]
  <2>1. i - 1 \in 0 .. L /\ i \in 0 .. L /\ keys[i] \in Key
    BY <1>0
  <2>2. x \in Seq(T) /\ ToSet(x) = NodesOf(upTo(i - 1)) /\ InOrder(x, Key, place)
    <3> HIDE DEF upTo, T
    <3> QED BY <2>1
  <2>3. /\ nodes[i] \in Seq(T) /\ ToSet(nodes[i]) = NodesOf({keys[i]})
        /\ InOrder(nodes[i], Key, place)
    BY <2>1, RenderedNodes
  <2>4. \A a \in ToSet(x), b \in ToSet(nodes[i]) : Before(a, b, place)
    <3>1. ASSUME NEW a \in ToSet(x), NEW b \in ToSet(nodes[i]) PROVE Before(a, b, place)
      <4>1. PICK j \in 1 .. i - 1 : a.key = keys[j]
        BY <2>2 DEF NodesOf
      <4>2. b.key = keys[i]
        BY <2>3 DEF NodesOf
      <4>3. place[keys[j]] < place[keys[i]]
        BY <1>0, <2>1, <4>1
      <4> QED BY <4>1, <4>2, <4>3 DEF Before
    <3> QED BY <3>1
  <2> DEFINE y == x \o nodes[i]
  <2>5. y \in Seq(T) /\ ToSet(y) = ToSet(x) \cup ToSet(nodes[i]) /\ InOrder(y, Key, place)
    <3> DEFINE z == nodes[i]
    <3>1. /\ z \in Seq(T) /\ InOrder(z, Key, place)
          /\ \A a \in ToSet(x), b \in ToSet(z) : a.key \in Key /\ b.key \in Key => Before(a, b, place)
      BY <2>3, <2>4
    <3> HIDE DEF T, z
    <3>2. x \o z \in Seq(T) /\ ToSet(x \o z) = ToSet(x) \cup ToSet(z) /\ InOrder(x \o z, Key, place)
      <4>1. x \in Seq(T) /\ InOrder(x, Key, place)
        BY <2>2
      <4>2. /\ x \o z \in Seq(T) /\ ToSet(x \o z) = ToSet(x) \cup ToSet(z)
            /\ \A K, p : /\ InOrder(x, K, p) /\ InOrder(z, K, p)
                         /\ \A a \in ToSet(x), b \in ToSet(z) :
                              a.key \in K /\ b.key \in K => Before(a, b, p)
                         => InOrder(x \o z, K, p)
        BY <3>1, <4>1, Joined
      <4> QED BY <3>1, <4>1, <4>2
    <3> QED BY <3>2 DEF z
  <2>6. NodesOf(upTo(i)) = NodesOf(upTo(i - 1)) \cup NodesOf({keys[i]})
    <3>1. upTo(i) = upTo(i - 1) \cup {keys[i]}
      <4>1. 1 .. i = (1 .. i - 1) \cup {i}
        BY <2>1
      <4> QED BY <4>1
    <3> HIDE DEF upTo
    <3> QED BY <3>1 DEF NodesOf
  <2>7. step[i][x] = y
    BY <2>2
  <2> HIDE DEF upTo, T, y, step
  <2> QED BY <2>1, <2>2, <2>3, <2>5, <2>6, <2>7
<1>3. PICK run : Visits(L, S, none, step, run)
  <2>1. Leads(L, S, none, step)
    BY <1>1, <1>2 DEF Leads
  <2> HIDE DEF L, S, step, none
  <2> QED BY <1>0, <2>1, StagesExist
<1>a. /\ run[0] = none
      /\ \A i \in 1 .. L : run[i] = step[i][run[i - 1]]
      /\ \A i \in 0 .. L : run[i] \in S[i]
  <2> HIDE DEF L, S, step, none
  <2> QED BY <1>3 DEF Visits
<1>4. /\ \A i \in 0 .. L : /\ run[i] \in Seq(T) /\ ToSet(run[i]) = NodesOf(upTo(i))
                           /\ InOrder(run[i], Key, place)
      /\ \A i \in 1 .. L : run[i] = run[i - 1] \o nodes[i]
  <2>1. \A i \in 0 .. L : /\ run[i] \in Seq(T) /\ ToSet(run[i]) = NodesOf(upTo(i))
                          /\ InOrder(run[i], Key, place)
    <3> HIDE DEF upTo, T
    <3> QED BY <1>a
  <2>2. ASSUME NEW i \in 1 .. L PROVE run[i] = run[i - 1] \o nodes[i]
    <3>1. i - 1 \in 0 .. L
      BY <1>0
    <3> HIDE DEF upTo, T
    <3> QED BY <1>a, <2>1, <3>1
  <2> QED BY <2>1, <2>2
<1>5. NodesOf(upTo(L)) = NodesOf(ToSet(keys))
  <2>1. DOMAIN keys = 1 .. L
    BY LenProperties
  <2> QED BY <2>1 DEF ToSet
<1>6. CASE L = 0
  <2>1. nodes = <<>> /\ FlattenSeq(nodes) = nodes
    BY <1>6, EmptySeq DEF FlattenSeq
  <2>2. nodes = run[L] /\ L \in 0 .. L
    BY <1>a, <1>6, <2>1
  <2> HIDE DEF L, T, upTo
  <2> QED BY <1>4, <1>5, <2>1, <2>2
<1>7. CASE L > 0
  <2> DEFINE Def(f) == [i \in 1 .. L |-> IF i = 1 THEN nodes[i] ELSE f[i - 1] \o nodes[i]]
             made == CHOOSE f : f = Def(f)
             part == [i \in 1 .. L |-> run[i]]
  <2>1. run[1] = nodes[1] /\ 1 \in 1 .. L
    <3>1. 1 \in 1 .. L /\ nodes[1] \in Seq(T) /\ 1 - 1 = 0
      BY <1>0, <1>7, RenderedNodes
    <3>2. run[1] = <<>> \o nodes[1]
      BY <1>a, <1>4, <3>1
    <3> HIDE DEF T
    <3> QED BY <3>1, <3>2, ConcatEmptySeq
  <2>2. part = Def(part)
    <3>1. ASSUME NEW i \in 1 .. L PROVE part[i] = Def(part)[i]
      <4>1. CASE i = 1
        BY <2>1, <4>1
      <4>2. CASE i # 1
        <5>1. i - 1 \in 1 .. L
          BY <1>0, <4>2
        <5> QED BY <1>4, <4>2, <5>1
      <4> QED BY <4>1, <4>2
    <3> QED BY <3>1
  <2>3. made = Def(made)
    <3> HIDE DEF Def
    <3> QED BY <2>2
  <2>4. \A i \in 1 .. L : made[i] = IF i = 1 THEN nodes[i] ELSE made[i - 1] \o nodes[i]
    <3> HIDE DEF made
    <3>1. \A i \in 1 .. L : made[i] = Def(made)[i]
      BY <2>3
    <3> QED BY <3>1
  <2>5. FlattenSeq(nodes) = made[L]
    BY <1>7 DEF FlattenSeq
  <2> HIDE DEF made, part, Def
  <2>6. made[L] \in S[L]
    <3> DEFINE one == 1
    <3>1. made[one] \in S[one] /\ one \in 0 .. L
      <4>1. 1 \in 0 .. L /\ 1 \in 1 .. L
        BY <1>0, <1>7
      <4> HIDE DEF S, L
      <4>2. run[1] \in S[1]
        BY <1>a, <4>1
      <4>3. made[1] = run[1]
        BY <2>1, <2>4
      <4> QED BY <4>1, <4>2, <4>3
    <3>2. ASSUME NEW i \in one + 1 .. L, made[i - 1] \in S[i - 1] PROVE made[i] \in S[i]
      <4>1. i \in 1 .. L /\ i # 1 /\ i - 1 \in 0 .. L
        BY <1>0, <3>2
      <4>2. made[i] = made[i - 1] \o nodes[i] /\ made[i - 1] \in Seq(T)
        <5> HIDE DEF upTo, T
        <5> QED BY <2>4, <3>2, <4>1
      <4>3. step[i][made[i - 1]] = made[i]
        <5> HIDE DEF T
        <5> QED BY <4>1, <4>2
      <4>4. step[i][made[i - 1]] \in S[i]
        <5> HIDE DEF S, step
        <5> QED BY <1>2, <3>2, <4>1
      <4> QED BY <4>3, <4>4
    <3> HIDE DEF L, one, S
    <3>3. \A i \in one .. L : made[i] \in S[i]
      BY <1>0, <3>1, <3>2, StaysIn
    <3> QED BY <1>0, <1>7, <3>3 DEF one
  <2>7. FlattenSeq(nodes) = made[L] /\ L \in 0 .. L
    BY <1>0, <1>7, <2>5
  <2>8. made[L] \in Seq(T) /\ ToSet(made[L]) = NodesOf(upTo(L)) /\ InOrder(made[L], Key, place)
    <3> HIDE DEF L, upTo, T
    <3> QED BY <2>6, <2>7
  <2> HIDE DEF L, upTo
  <2> QED BY <1>5, <2>7, <2>8
<1> QED BY <1>0, <1>6, <1>7

(***************************************************************************)
(* Insertion.                                                              *)
(***************************************************************************)
(* A list taken apart.                                                     *)
LEMMA Parted ==
  ASSUME NEW T, NEW s \in Seq(T), NEW at \in 1 .. Len(s) + 1
  PROVE  /\ SubSeq(s, 1, at - 1) \in Seq(T) /\ SubSeq(s, at, Len(s)) \in Seq(T)
         /\ ToSet(s) = ToSet(SubSeq(s, 1, at - 1)) \cup ToSet(SubSeq(s, at, Len(s)))
         /\ \A x \in ToSet(SubSeq(s, 1, at - 1)) : \E i \in 1 .. Len(s) : i < at /\ x = s[i]
         /\ \A x \in ToSet(SubSeq(s, at, Len(s))) : \E i \in 1 .. Len(s) : i >= at /\ x = s[i]
         /\ \A K, place : InOrder(s, K, place) =>
              InOrder(SubSeq(s, 1, at - 1), K, place) /\ InOrder(SubSeq(s, at, Len(s)), K, place)
<1> DEFINE n == Len(s)
           l == SubSeq(s, 1, at - 1)
           r == SubSeq(s, at, n)
           m == n - at + 1
<1>1. n \in Nat /\ at \in Nat /\ m \in Nat /\ \A i \in 1 .. n : s[i] \in T /\ DOMAIN s = 1 .. n
  BY LenProperties, ElementOfSeq
<1>2. /\ l \in Seq(T) /\ Len(l) = at - 1
      /\ \A i \in 1 .. at - 1 : l[i] = s[i] /\ i \in 1 .. n
  <2>1. \A i \in 1 .. at - 1 : s[i] \in T
    BY <1>1
  <2>2. 1 \in Int /\ at - 1 \in Int
    BY <1>1
  <2>3. l \in Seq(T) /\ Len(l) = (IF 1 <= at - 1 THEN (at - 1) - 1 + 1 ELSE 0)
        /\ \A i \in 1 .. (at - 1) - 1 + 1 : l[i] = s[1 + i - 1]
    BY <2>1, <2>2, SubSeqProperties
  <2> HIDE DEF l
  <2> QED BY <1>1, <2>3
<1>3. /\ r \in Seq(T) /\ Len(r) = m
      /\ \A i \in 1 .. m : r[i] = s[at + i - 1] /\ at + i - 1 \in 1 .. n /\ at + i - 1 >= at
  <2>1. \A i \in at .. n : s[i] \in T
    BY <1>1
  <2>2. at \in Int /\ n \in Int
    BY <1>1
  <2>3. r \in Seq(T) /\ Len(r) = (IF at <= n THEN n - at + 1 ELSE 0)
        /\ \A i \in 1 .. n - at + 1 : r[i] = s[at + i - 1]
    BY <2>1, <2>2, SubSeqProperties
  <2> HIDE DEF r
  <2> QED BY <1>1, <2>3
<1> HIDE DEF l, r
<1>4. DOMAIN l = 1 .. at - 1 /\ DOMAIN r = 1 .. m /\ DOMAIN s = 1 .. n
  BY <1>2, <1>3, LenProperties
<1> HIDE DEF m, n
<1>5. /\ \A x \in ToSet(l) : \E i \in 1 .. n : i < at /\ x = s[i]
      /\ \A x \in ToSet(r) : \E i \in 1 .. n : i >= at /\ x = s[i]
  <2>1. \A i \in 1 .. at - 1 : i \in 1 .. n /\ i < at
    BY <1>1, <1>2
  <2> QED BY <1>2, <1>3, <1>4, <2>1 DEF ToSet
<1>6. ToSet(s) = ToSet(l) \cup ToSet(r)
  <2>1. ASSUME NEW i \in 1 .. n PROVE s[i] \in ToSet(l) \cup ToSet(r)
    <3>1. CASE i < at
      <4>1. i \in 1 .. at - 1
        BY <1>1, <3>1
      <4>2. l[i] \in ToSet(l)
        BY <1>4, <4>1 DEF ToSet
      <4> QED BY <1>2, <4>1, <4>2
    <3>2. CASE i >= at
      <4>1. i - at + 1 \in 1 .. m /\ at + (i - at + 1) - 1 = i
        BY <1>1, <3>2 DEF m
      <4>2. r[i - at + 1] \in ToSet(r)
        BY <1>4, <4>1 DEF ToSet
      <4>3. r[i - at + 1] = s[i]
        BY <1>3, <4>1
      <4> QED BY <4>2, <4>3
    <3> QED BY <1>1, <3>1, <3>2
  <2>2. \A x \in ToSet(s) : x \in ToSet(l) \cup ToSet(r)
    BY <1>4, <2>1 DEF ToSet
  <2>3. \A x \in ToSet(l) \cup ToSet(r) : x \in ToSet(s)
    BY <1>4, <1>5 DEF ToSet
  <2> QED BY <2>2, <2>3
<1>7. ASSUME NEW K, NEW place, InOrder(s, K, place)
      PROVE  InOrder(l, K, place) /\ InOrder(r, K, place)
  <2>1. InOrder(l, K, place)
    <3> DEFINE pos == [i \in 1 .. Len(l) |-> i]
    <3>1. /\ pos \in [1 .. Len(l) -> 1 .. Len(s)] /\ Len(l) \in Nat
          /\ \A i \in 1 .. Len(l) : l[i] = s[pos[i]]
          /\ \A i, j \in 1 .. Len(l) : i < j => pos[i] < pos[j]
      BY <1>1, <1>2 DEF n
    <3> HIDE DEF pos
    <3> QED BY <1>7, <3>1, Drawn
  <2>2. InOrder(r, K, place)
    <3> DEFINE pos == [i \in 1 .. Len(r) |-> at + i - 1]
    <3>1. /\ pos \in [1 .. Len(r) -> 1 .. Len(s)] /\ Len(r) \in Nat
          /\ \A i \in 1 .. Len(r) : r[i] = s[pos[i]]
          /\ \A i, j \in 1 .. Len(r) : i < j => pos[i] < pos[j]
      <4>1. \A i \in 1 .. m : at + i - 1 \in 1 .. n /\ r[i] = s[at + i - 1]
        BY <1>3
      <4>2. \A i, j \in 1 .. m : i < j => at + i - 1 < at + j - 1
        BY <1>1
      <4> QED BY <1>1, <1>3, <4>1, <4>2 DEF n
    <3> HIDE DEF pos
    <3> QED BY <1>7, <3>1, Drawn
  <2> QED BY <2>1, <2>2
<1> QED BY <1>2, <1>3, <1>5, <1>6, <1>7 DEF l, r, n

\* Where a row is inserted: before the first node of the row that comes next
\* of those in F, or at the end if none does.
Follows(nodes, k, cursor, F, place) ==
  \/ cursor = <<>> /\ \A x \in F : place[x] < place[k]
  \/ \E c \in F : /\ cursor = <<Node(c, "first")>> /\ Node(c, "first") \in ToSet(nodes)
                  /\ \A x \in F : place[x] < place[k] \/ place[x] >= place[c]
                  /\ place[k] < place[c]

(* A row is inserted into the order of those that already stand in it,     *)
(* wherever its nodes were before.                                         *)
LEMMA InsertedNodes ==
  ASSUME NEW nodes \in Seq(NodesOf(Key)), NEW k \in Key, NEW cursor,
         NEW F \in SUBSET Key, k \notin F, NEW place, \A x \in Key : place[x] \in Int,
         InOrder(nodes, F, place), Follows(nodes, k, cursor, F, place),
         NEW result, result = Inserted(nodes, Rendered(k), cursor)
  PROVE  /\ result \in Seq(NodesOf(Key)) /\ ToSet(result) = ToSet(nodes) \cup NodesOf({k})
         /\ InOrder(result, F \cup {k}, place)
<1> DEFINE T == NodesOf(Key)
           row == Rendered(k)
           rest == Kept(nodes, ToSet(row))
           at == IF cursor = <<>> THEN Len(rest) + 1
                 ELSE CHOOSE i \in DOMAIN rest : rest[i] = cursor[1]
           l == SubSeq(rest, 1, at - 1)
           r == SubSeq(rest, at, Len(rest))
<1>1. /\ row \in Seq(T) /\ ToSet(row) = NodesOf({k}) /\ InOrder(row, F \cup {k}, place)
  BY RenderedNodes DEF InOrder
<1>2. result = l \o row \o r
  BY DEF Inserted
<1> HIDE DEF row
<1>3. /\ rest \in Seq(T) /\ ToSet(rest) = ToSet(nodes) \ NodesOf({k}) /\ InOrder(rest, F, place)
  <2> HIDE DEF T
  <2> QED BY <1>1, KeptNodes DEF T
<1> HIDE DEF rest
<1>4. \A x \in ToSet(rest) : x \in T /\ x.key \in Key /\ x.key # k
  <2>1. \A x \in ToSet(rest) : x \in T
    BY <1>3, OwnElements
  <2> QED BY <1>3, <2>1 DEF NodesOf
<1>5. InOrder(rest, F \cup {k}, place)
  <2>1. \A i \in 1 .. Len(rest) : rest[i] \in ToSet(rest)
    BY <1>3, OwnElements
  <2> QED BY <1>3, <1>4, <2>1 DEF InOrder
<1>6. /\ at \in 1 .. Len(rest) + 1
      /\ \A i \in 1 .. Len(rest) : i < at /\ rest[i].key \in F => place[rest[i].key] < place[k]
      /\ \A i \in 1 .. Len(rest) : i >= at /\ rest[i].key \in F => place[k] < place[rest[i].key]
  <2>0. Len(rest) \in Nat /\ DOMAIN rest = 1 .. Len(rest)
    BY <1>3, LenProperties
  <2>1. CASE cursor = <<>> /\ \A x \in F : place[x] < place[k]
    BY <2>0, <2>1
  <2>2. CASE ~ (cursor = <<>> /\ \A x \in F : place[x] < place[k])
    <3>1. PICK c \in F : /\ cursor = <<Node(c, "first")>> /\ Node(c, "first") \in ToSet(nodes)
                         /\ \A x \in F : place[x] < place[k] \/ place[x] >= place[c]
                         /\ place[k] < place[c]
      BY <2>2 DEF Follows
    <3> DEFINE mark == Node(c, "first")
    <3>2. mark.key = c /\ mark.part = "first" /\ mark \notin NodesOf({k})
      BY DEF Node, NodesOf
    <3> HIDE DEF mark
    <3>3. cursor # <<>> /\ cursor[1] = mark /\ mark \in ToSet(rest)
      BY <1>3, <3>1, <3>2 DEF mark
    <3>4. \E i \in DOMAIN rest : rest[i] = cursor[1]
      BY <3>3 DEF ToSet
    <3>5. at \in 1 .. Len(rest) /\ rest[at] = mark
      BY <2>0, <3>3, <3>4
    <3> HIDE DEF at
    <3>6. ASSUME NEW i \in 1 .. Len(rest), i < at, rest[i].key \in F
          PROVE  place[rest[i].key] < place[k]
      <4>1. Before(rest[i], mark, place)
        BY <1>3, <3>1, <3>2, <3>5, <3>6 DEF InOrder
      <4>2. place[rest[i].key] < place[c]
        BY <3>2, <4>1 DEF Before
      <4>3. place[rest[i].key] \in Int /\ place[c] \in Int
        BY <3>6
      <4> QED BY <3>1, <3>6, <4>2, <4>3
    <3>7. ASSUME NEW i \in 1 .. Len(rest), i >= at, rest[i].key \in F
          PROVE  place[k] < place[rest[i].key]
      <4>0. place[rest[i].key] \in Int /\ place[c] \in Int /\ place[k] \in Int
        BY <3>7
      <4>1. CASE i = at
        BY <3>1, <3>2, <3>5, <4>1
      <4>2. CASE i > at
        <5>1. Before(mark, rest[i], place)
          BY <1>3, <3>1, <3>2, <3>5, <3>7, <4>2 DEF InOrder
        <5>2. place[c] < place[rest[i].key] \/ rest[i].key = c
          BY <3>2, <5>1 DEF Before
        <5> QED BY <3>1, <4>0, <5>2
      <4>3. i \in Int /\ at \in Int
        BY <3>5
      <4> QED BY <3>7, <4>1, <4>2, <4>3
    <3>8. at \in 1 .. Len(rest) + 1
      BY <2>0, <3>5
    <3> QED BY <3>6, <3>7, <3>8
  <2> QED BY <2>1, <2>2
<1> HIDE DEF at
<1>7. /\ l \in Seq(T) /\ r \in Seq(T) /\ ToSet(rest) = ToSet(l) \cup ToSet(r)
      /\ \A x \in ToSet(l) : \E i \in 1 .. Len(rest) : i < at /\ x = rest[i]
      /\ \A x \in ToSet(r) : \E i \in 1 .. Len(rest) : i >= at /\ x = rest[i]
      /\ InOrder(l, F \cup {k}, place) /\ InOrder(r, F \cup {k}, place)
  <2> HIDE DEF T
  <2> QED BY <1>3, <1>5, <1>6, Parted
<1> HIDE DEF l, r
<1>8. /\ \A a \in ToSet(l) : a.key \in F \cup {k} => place[a.key] < place[k]
      /\ \A b \in ToSet(r) : b.key \in F \cup {k} => place[k] < place[b.key]
  <2>1. \A x \in ToSet(l) \cup ToSet(r) : x.key # k
    BY <1>4, <1>7
  <2> QED BY <1>6, <1>7, <2>1
<1>9. \A a \in ToSet(row) : a.key = k
  BY <1>1 DEF NodesOf
<1> DEFINE lr == l \o row
           K == F \cup {k}
<1>10. lr \in Seq(T) /\ ToSet(lr) = ToSet(l) \cup ToSet(row) /\ InOrder(lr, K, place)
  <2>1. \A a \in ToSet(l), b \in ToSet(row) : a.key \in K /\ b.key \in K => Before(a, b, place)
    BY <1>8, <1>9 DEF Before
  <2>2. InOrder(l, K, place) /\ InOrder(row, K, place)
    BY <1>1, <1>7
  <2>3. l \in Seq(T) /\ row \in Seq(T)
    BY <1>1, <1>7
  <2> HIDE DEF T, K
  <2>4. lr \in Seq(T) /\ ToSet(lr) = ToSet(l) \cup ToSet(row)
    BY <2>3, Joined
  <2>5. InOrder(lr, K, place)
    BY <2>1, <2>2, <2>3, Joined
  <2> QED BY <2>4, <2>5
<1>11. lr \o r \in Seq(T) /\ ToSet(lr \o r) = ToSet(lr) \cup ToSet(r) /\ InOrder(lr \o r, K, place)
  <2>1. \A a \in ToSet(lr), b \in ToSet(r) : a.key \in K /\ b.key \in K => Before(a, b, place)
    <3>1. ASSUME NEW a \in ToSet(lr), NEW b \in ToSet(r), a.key \in K, b.key \in K
          PROVE  Before(a, b, place)
      <4>1. place[k] < place[b.key] /\ b.key \in Key
        BY <1>8, <3>1
      <4>2. a.key = k \/ place[a.key] < place[k]
        BY <1>8, <1>9, <1>10, <3>1
      <4>3. place[k] \in Int /\ place[b.key] \in Int /\ place[a.key] \in Int
        BY <3>1, <4>1
      <4> QED BY <4>1, <4>2, <4>3 DEF Before
    <3> QED BY <3>1
  <2>2. InOrder(r, K, place)
    BY <1>7
  <2> HIDE DEF T, K, lr
  <2> QED BY <1>7, <1>10, <2>1, <2>2, Joined
<1>12. ToSet(lr \o r) = ToSet(nodes) \cup NodesOf({k})
  BY <1>1, <1>3, <1>7, <1>10, <1>11
<1> QED BY <1>2, <1>11, <1>12

(***************************************************************************)
(* Pass 3.                                                                 *)
(***************************************************************************)
\* The keys of the last n rows, and of those that stand in order by then.
LastKeys(keys, n) == {keys[j] : j \in Len(keys) - n + 1 .. Len(keys)}
Standing(keys, settled, n) == {keys[j] : j \in settled} \cup LastKeys(keys, n)

\* After the last n rows.
Document == [nodes : Seq(NodesOf(Key)), cursor : Seq(NodesOf(Key))]
Stage(keys, settled, old, place, n) ==
  {x \in Document :
     /\ ToSet(x.nodes) = NodesOf(old \cup LastKeys(keys, n))
     /\ InOrder(x.nodes, Standing(keys, settled, n), place)
     /\ x.cursor = IF n = 0 THEN <<>> ELSE <<Node(keys[Len(keys) + 1 - n], "first")>>}

\* What the pass starts from: each row once, rendered from its key, and the
\* settled ones in place.
Prepared(keys, rows, settled, old, place, nodes) ==
  /\ keys \in Seq(Key) /\ \A i, j \in 1 .. Len(keys) : keys[i] = keys[j] => i = j
  /\ Len(rows) = Len(keys) /\ \A i \in 1 .. Len(keys) : rows[i].nodes = Rendered(keys[i])
  /\ \A x \in Key : place[x] \in Int
  /\ \A i \in 1 .. Len(keys) : place[keys[i]] = i
  /\ old \subseteq ToSet(keys)
  /\ settled \subseteq 1 .. Len(keys) /\ \A i \in settled : keys[i] \in old
  /\ nodes \in Seq(NodesOf(Key)) /\ ToSet(nodes) = NodesOf(old)
  /\ InOrder(nodes, {keys[i] : i \in settled}, place)

LEMMA NodesOfUnion == ASSUME NEW A, NEW B PROVE NodesOf(A \cup B) = NodesOf(A) \cup NodesOf(B)
BY DEF NodesOf

LEMMA PlacedOne ==
  ASSUME NEW keys, NEW rows, NEW settled, NEW old, NEW place, NEW nodes,
         Prepared(keys, rows, settled, old, place, nodes),
         NEW n \in 1 .. Len(keys), NEW x \in Stage(keys, settled, old, place, n - 1)
  PROVE  PlacedRow(rows, settled, Len(keys) + 1 - n, x) \in Stage(keys, settled, old, place, n)
<1> DEFINE T == NodesOf(Key)
           L == Len(keys)
           i == L + 1 - n
           k == keys[i]
           row == Rendered(k)
           y == PlacedRow(rows, settled, i, x)
           F == Standing(keys, settled, n - 1)
           mark == Node(k, "first")
<1>0. L \in Nat /\ i \in 1 .. L /\ n \in Nat /\ \A j \in 1 .. L : keys[j] \in Key
  BY LenProperties, ElementOfSeq DEF Prepared
<1>1. k \in Key /\ rows[i].nodes = row
  BY <1>0 DEF Prepared
<1>2. /\ x.nodes \in Seq(T) /\ ToSet(x.nodes) = NodesOf(old \cup LastKeys(keys, n - 1))
      /\ InOrder(x.nodes, F, place)
      /\ x.cursor = IF n - 1 = 0 THEN <<>> ELSE <<Node(keys[L + 1 - (n - 1)], "first")>>
  <2> HIDE DEF T
  <2> QED BY DEF Stage, Document, T
<1>3. LastKeys(keys, n) = LastKeys(keys, n - 1) \cup {k}
  <2>1. L - n + 1 .. L = (L - (n - 1) + 1 .. L) \cup {i}
    BY <1>0
  <2> HIDE DEF L, i
  <2> QED BY <2>1 DEF LastKeys, L
<1>4. Standing(keys, settled, n) = F \cup {k}
  BY <1>3 DEF Standing
<1>5. mark \in T /\ row[1] = mark /\ y.cursor = <<mark>>
      /\ y.nodes = IF i \in settled THEN x.nodes ELSE Inserted(x.nodes, row, x.cursor)
  <2>1. mark \in T
    BY <1>1 DEF Node, NodesOf
  <2>2. row[1] = mark
    BY <1>1, RenderedNodes
  <2> QED BY <1>1, <2>1, <2>2 DEF PlacedRow
<1>6. NodesOf(old \cup LastKeys(keys, n)) = NodesOf(old \cup LastKeys(keys, n - 1)) \cup NodesOf({k})
  BY <1>3, NodesOfUnion
<1>7. /\ y.nodes \in Seq(T) /\ ToSet(y.nodes) = NodesOf(old \cup LastKeys(keys, n))
      /\ InOrder(y.nodes, F \cup {k}, place)
  <2>1. CASE i \in settled
    <3>1. k \in old /\ k \in F
      BY <2>1 DEF Prepared, Standing
    <3>2. F \cup {k} = F /\ NodesOf({k}) \subseteq NodesOf(old \cup LastKeys(keys, n - 1))
      BY <3>1 DEF NodesOf
    <3>3. y.nodes = x.nodes
      BY <1>5, <2>1
    <3> HIDE DEF y, F, k, T
    <3> QED BY <1>2, <1>6, <3>2, <3>3
  <2>2. CASE i \notin settled
    <3>0. \A a \in F : \E j \in 1 .. L : a = keys[j] /\ j # i
      <4>1. \A j \in L - (n - 1) + 1 .. L : j \in 1 .. L /\ j # i
        BY <1>0
      <4>2. \A j \in settled : j \in 1 .. L /\ j # i
        BY <2>2 DEF Prepared
      <4> QED BY <4>1, <4>2 DEF Standing, LastKeys
    <3>1. F \in SUBSET Key /\ k \notin F
      <4>1. \A j \in 1 .. L : keys[j] \in Key /\ (keys[j] = k => j = i)
        BY <1>0 DEF Prepared
      <4> HIDE DEF F, L, k
      <4> QED BY <3>0, <4>1
    <3>2. \A a \in F : \E j \in 1 .. L : a = keys[j] /\ place[a] = j /\ j # i
      <4>1. \A j \in 1 .. L : place[keys[j]] = j
        BY DEF Prepared
      <4> HIDE DEF F, L
      <4> QED BY <3>0, <4>1
    <3>3. place[k] = i
      BY <1>0 DEF Prepared
    <3>4. Follows(x.nodes, k, x.cursor, F, place)
      <4>1. CASE n = 1
        <5>1. i = L /\ x.cursor = <<>>
          BY <1>0, <1>2, <4>1
        <5>2. \A a \in F : place[a] < place[k]
          BY <1>0, <3>2, <3>3, <5>1
        <5> QED BY <5>1, <5>2 DEF Follows
      <4>2. CASE n # 1
        <5> DEFINE c == keys[i + 1]
        <5>1. i + 1 \in 1 .. L /\ L + 1 - (n - 1) = i + 1 /\ i + 1 \in L - (n - 1) + 1 .. L
          BY <1>0, <4>2
        <5>2. x.cursor = <<Node(c, "first")>>
          BY <1>0, <1>2, <4>2, <5>1
        <5>3. c \in LastKeys(keys, n - 1) /\ c \in F /\ c \in Key /\ place[c] = i + 1
          <6>1. c \in LastKeys(keys, n - 1)
            BY <5>1 DEF LastKeys
          <6>2. place[c] = i + 1
            BY <5>1 DEF Prepared
          <6> QED BY <1>0, <5>1, <6>1, <6>2 DEF Standing
        <5>4. Node(c, "first") \in ToSet(x.nodes)
          <6>1. Node(c, "first") \in NodesOf(old \cup LastKeys(keys, n - 1))
            BY <5>3 DEF NodesOf, Node
          <6> QED BY <1>2, <6>1
        <5>5. \A a \in F : place[a] < place[k] \/ place[a] >= place[c]
          BY <1>0, <3>2, <3>3, <5>3
        <5>6. place[k] < place[c]
          BY <1>0, <3>3, <5>3
        <5> QED BY <5>2, <5>3, <5>4, <5>5, <5>6 DEF Follows
      <4> QED BY <4>1, <4>2
    <3>5. y.nodes = Inserted(x.nodes, Rendered(k), x.cursor)
      BY <1>5, <2>2
    <3>6. \A a \in Key : place[a] \in Int
      BY DEF Prepared
    <3> DEFINE from == x.nodes
               to == y.nodes
               cursor == x.cursor
    <3>7. to = Inserted(from, Rendered(k), cursor) /\ Follows(from, k, cursor, F, place)
          /\ from \in Seq(NodesOf(Key)) /\ InOrder(from, F, place)
      BY <1>2, <3>4, <3>5
    <3> HIDE DEF from, to, cursor, F, k
    <3>8. /\ to \in Seq(NodesOf(Key)) /\ ToSet(to) = ToSet(from) \cup NodesOf({k})
          /\ InOrder(to, F \cup {k}, place)
      BY <1>1, <3>1, <3>6, <3>7, InsertedNodes
    <3>9. ToSet(from) = NodesOf(old \cup LastKeys(keys, n - 1))
      BY <1>2 DEF from
    <3>10. ToSet(to) = NodesOf(old \cup LastKeys(keys, n))
      BY <1>6, <3>8, <3>9
    <3> QED BY <3>8, <3>10 DEF to
  <2> QED BY <2>1, <2>2
<1>8. y \in Document
  <2>1. y = [nodes |-> y.nodes, cursor |-> y.cursor]
    BY DEF PlacedRow
  <2>2. y.cursor \in Seq(T)
    <3>1. mark \in T /\ y.cursor = <<mark>>
      BY <1>5
    <3> HIDE DEF mark, T, y
    <3> QED BY <3>1
  <2> HIDE DEF y, T
  <2> QED BY <1>7, <2>1, <2>2 DEF Document, T
<1>9. y.cursor = IF n = 0 THEN <<>> ELSE <<Node(keys[L + 1 - n], "first")>>
  BY <1>0, <1>5
<1> HIDE DEF y, F, k, L
<1> QED BY <1>4, <1>7, <1>8, <1>9 DEF Stage, L, y

LEMMA PlacedInOrder ==
  ASSUME NEW keys, NEW rows, NEW settled, NEW old, NEW place, NEW nodes,
         Prepared(keys, rows, settled, old, place, nodes)
  PROVE  LET result == PlacedNodes(nodes, rows, settled)
         IN /\ result \in Seq(NodesOf(Key)) /\ ToSet(result) = NodesOf(ToSet(keys))
            /\ InOrder(result, ToSet(keys), place)
<1> DEFINE L == Len(keys)
           origin == [nodes |-> nodes, cursor |-> <<>>]
           S == [n \in 0 .. L |-> Stage(keys, settled, old, place, n)]
           step == [n \in 1 .. L |-> [x \in Document |-> PlacedRow(rows, settled, L + 1 - n, x)]]
           Def(f) == [n \in 0 .. L |-> IF n = 0 THEN origin
                                       ELSE PlacedRow(rows, settled, L + 1 - n, f[n - 1])]
           made == CHOOSE f : f = Def(f)
<1>0. L \in Nat /\ Len(rows) = L /\ DOMAIN keys = 1 .. L
  BY LenProperties DEF Prepared
<1>1. origin \in S[0]
  <2>1. LastKeys(keys, 0) = {}
    BY <1>0 DEF LastKeys
  <2>2. old \cup LastKeys(keys, 0) = old /\ Standing(keys, settled, 0) = {keys[j] : j \in settled}
    BY <2>1 DEF Standing
  <2>3. origin \in Document
    BY DEF Document, Prepared
  <2>4. origin \in Stage(keys, settled, old, place, 0)
    BY <2>2, <2>3 DEF Stage, Prepared
  <2> QED BY <1>0, <2>4
<1>2. ASSUME NEW n \in 1 .. L, NEW x \in S[n - 1]
      PROVE  /\ PlacedRow(rows, settled, L + 1 - n, x) \in S[n]
             /\ step[n][x] = PlacedRow(rows, settled, L + 1 - n, x)
  <2>1. n - 1 \in 0 .. L /\ n \in 0 .. L
    BY <1>0
  <2>2. x \in Stage(keys, settled, old, place, n - 1)
    BY <2>1
  <2>3. x \in Document
    BY <2>2 DEF Stage
  <2>4. PlacedRow(rows, settled, L + 1 - n, x) \in Stage(keys, settled, old, place, n)
    BY <2>2, PlacedOne
  <2> QED BY <2>1, <2>3, <2>4
<1>3. PICK run : Visits(L, S, origin, step, run)
  <2>1. \A n \in 1 .. L : \A x \in S[n - 1] : step[n][x] \in S[n]
    <3> HIDE DEF S, step
    <3> QED BY <1>2
  <2>2. Leads(L, S, origin, step)
    <3> HIDE DEF S, step, origin, L
    <3> QED BY <1>1, <2>1 DEF Leads
  <2> HIDE DEF L, S, step, origin
  <2> QED BY <1>0, <2>2, StagesExist
<1>4. /\ run = [i \in 0 .. L |-> run[i]]
      /\ run[0] = origin
      /\ \A n \in 1 .. L : run[n] = step[n][run[n - 1]]
      /\ \A n \in 0 .. L : run[n] \in S[n]
  <2> HIDE DEF L, S, step, origin
  <2> QED BY <1>3 DEF Visits
<1>5. run = Def(run)
  <2>1. ASSUME NEW n \in 0 .. L PROVE run[n] = Def(run)[n]
    <3>1. CASE n = 0
      BY <1>4, <3>1
    <3>2. CASE n # 0
      <4>1. n \in 1 .. L /\ n - 1 \in 0 .. L
        BY <1>0, <3>2
      <4>2. run[n] = step[n][run[n - 1]] /\ run[n - 1] \in S[n - 1]
        <5> HIDE DEF S, step, origin, L
        <5> QED BY <1>4, <4>1
      <4>3. run[n] = PlacedRow(rows, settled, L + 1 - n, run[n - 1])
        <5> HIDE DEF S, step
        <5> QED BY <1>2, <4>1, <4>2
      <4> QED BY <3>2, <4>3
    <3> QED BY <3>1, <3>2
  <2> HIDE DEF origin
  <2> QED BY <1>4, <2>1
<1>6. made = Def(made)
  <2> HIDE DEF Def
  <2> QED BY <1>5
<1>7. made[0] = origin /\ \A n \in 1 .. L : made[n] = PlacedRow(rows, settled, L + 1 - n, made[n - 1])
  <2> HIDE DEF made
  <2>1. \A n \in 0 .. L : made[n] = Def(made)[n]
    BY <1>6
  <2> HIDE DEF origin
  <2> QED BY <1>0, <2>1
<1>8. PlacedNodes(nodes, rows, settled) = made[L].nodes
  BY <1>0 DEF PlacedNodes
<1> HIDE DEF made
<1>9. \A n \in 0 .. L : made[n] \in S[n]
  <2> DEFINE zero == 0
  <2>1. made[zero] \in S[zero] /\ zero \in 0 .. L
    BY <1>0, <1>1, <1>7
  <2>2. ASSUME NEW n \in zero + 1 .. L, made[n - 1] \in S[n - 1] PROVE made[n] \in S[n]
    <3>1. n \in 1 .. L
      OBVIOUS
    <3> HIDE DEF S, L
    <3> QED BY <1>2, <1>7, <2>2, <3>1
  <2> HIDE DEF L, S, zero
  <2>3. \A n \in zero .. L : made[n] \in S[n]
    BY <1>0, <2>1, <2>2, StaysIn
  <2> QED BY <2>3 DEF zero
<1>10. made[L] \in Stage(keys, settled, old, place, L)
  BY <1>0, <1>9
<1>11. LastKeys(keys, L) = ToSet(keys)
  <2>1. L - L + 1 .. L = 1 .. L
    BY <1>0
  <2> QED BY <1>0, <2>1 DEF LastKeys, ToSet
<1>12. old \cup ToSet(keys) = ToSet(keys) /\ Standing(keys, settled, L) = ToSet(keys)
  <2>1. {keys[j] : j \in settled} \subseteq ToSet(keys)
    BY <1>0 DEF Prepared, ToSet
  <2> QED BY <1>11, <2>1 DEF Standing, Prepared
<1> HIDE DEF L
<1> QED BY <1>8, <1>10, <1>11, <1>12 DEF Stage, Document

(***************************************************************************)
(* The rows that stay.                                                     *)
(***************************************************************************)
LEMMA Interval ==
  ASSUME NEW n \in Nat
  PROVE  IsFiniteSet(1 .. n) /\ Cardinality(1 .. n) = n
<1>1. IsFiniteSet(1 .. n) /\ Cardinality(1 .. n) = IF 1 > n THEN 0 ELSE n - 1 + 1
  BY FS_Interval
<1> QED BY <1>1

(* A set that holds whatever is below its elements is an interval.         *)
LEMMA LowerPart ==
  ASSUME NEW m \in Nat, NEW D \in SUBSET (1 .. m), \A a \in D, b \in 1 .. m : b < a => b \in D
  PROVE  Cardinality(D) \in 0 .. m /\ D = 1 .. Cardinality(D)
<1> DEFINE G == {q \in 0 .. m : \E l \in 0 .. q : D \cap (1 .. q) = 1 .. l}
<1>1. 0 \in G
  <2>1. D \cap (1 .. 0) = 1 .. 0
    OBVIOUS
  <2> QED BY <2>1
<1>2. ASSUME NEW q \in 0 .. m - 1, q \in G PROVE q + 1 \in G
  <2>1. PICK l \in 0 .. q : D \cap (1 .. q) = 1 .. l
    BY <1>2
  <2>2. 1 .. q + 1 = (1 .. q) \cup {q + 1} /\ q + 1 \in 0 .. m /\ q + 1 \in 1 .. m
    OBVIOUS
  <2>3. CASE q + 1 \in D
    <3>1. \A b \in 1 .. q + 1 : b \in D
      <4>1. ASSUME NEW b \in 1 .. q PROVE b \in D
        <5>1. b < q + 1 /\ b \in 1 .. m
          OBVIOUS
        <5> QED BY <2>3, <5>1
      <4> QED BY <2>2, <2>3, <4>1
    <3>2. D \cap (1 .. q + 1) = 1 .. q + 1
      BY <3>1
    <3> QED BY <2>2, <3>2
  <2>4. CASE q + 1 \notin D
    <3>1. D \cap (1 .. q + 1) = 1 .. l
      BY <2>1, <2>2, <2>4
    <3>2. l \in 0 .. q + 1
      OBVIOUS
    <3> QED BY <2>2, <3>1, <3>2
  <2> QED BY <2>3, <2>4
<1>3. 0 .. m \subseteq G
  <2> HIDE DEF G
  <2> QED BY <1>1, <1>2, UpTo
<1>4. PICK l \in 0 .. m : D \cap (1 .. m) = 1 .. l
  <2>1. m \in G
    BY <1>3
  <2> QED BY <2>1
<1>5. D = 1 .. l
  BY <1>4
<1>6. Cardinality(1 .. l) = l
  BY Interval
<1> QED BY <1>5, <1>6

\* a row may stand directly before the row b.
Precedes(from, a, b) == a < b /\ from[a] # New /\ from[a] < from[b]

\* What the first i rows leave.
Runs(from, i) ==
  {x \in [tails : Seq(1 .. Len(from)), previous : [1 .. Len(from) -> 0 .. Len(from)]] :
     /\ \A n \in 1 .. Len(x.tails) : x.tails[n] <= i /\ from[x.tails[n]] # New
     /\ \A m, n \in 1 .. Len(x.tails) : m < n => from[x.tails[m]] < from[x.tails[n]]
     /\ \A j \in 1 .. Len(from) : x.previous[j] # 0 => Precedes(from, x.previous[j], j)}

\* Where the row i goes: on the first run that does not end below it.
Lands(from, x, i, low, y) ==
  /\ low \in 0 .. Len(x.tails)
  /\ \A n \in 1 .. Len(x.tails) : n <= low <=> from[x.tails[n]] < from[i]
  /\ y \in [tails : Seq(1 .. Len(from)), previous : [1 .. Len(from) -> 0 .. Len(from)]]
  /\ Len(y.tails) = IF low = Len(x.tails) THEN Len(x.tails) + 1 ELSE Len(x.tails)
  /\ y.tails[low + 1] = i
  /\ \A n \in 1 .. Len(x.tails) : n # low + 1 => y.tails[n] = x.tails[n]
  /\ y.previous[i] = IF low = 0 THEN 0 ELSE x.tails[low]
  /\ \A j \in 1 .. Len(from) : j # i => y.previous[j] = x.previous[j]

LEMMA PlacedLands ==
  ASSUME NEW from \in Seq(Int), NEW i \in 1 .. Len(from), NEW x \in Runs(from, i - 1), from[i] # New
  PROVE  \E low : Lands(from, x, i, low, Placed(from, x, i))
<1> DEFINE L == Len(from)
           t == x.tails
           m == Len(t)
           D == {n \in DOMAIN t : from[t[n]] < from[i]}
           low == Cardinality(D)
           t2 == IF low = m THEN Append(t, i) ELSE [t EXCEPT ![low + 1] = i]
           p2 == [x.previous EXCEPT ![i] = IF low = 0 THEN 0 ELSE t[low]]
           y == [tails |-> t2, previous |-> p2]
<1>0. L \in Nat /\ i \in Nat /\ \A j \in 1 .. L : from[j] \in Int
  BY LenProperties, ElementOfSeq
<1>1. /\ t \in Seq(1 .. L) /\ x.previous \in [1 .. L -> 0 .. L]
      /\ \A a, b \in 1 .. m : a < b => from[t[a]] < from[t[b]]
  BY DEF Runs
<1>2. m \in Nat /\ DOMAIN t = 1 .. m /\ \A n \in 1 .. m : t[n] \in 1 .. L /\ from[t[n]] \in Int
  BY <1>0, <1>1, LenProperties, ElementOfSeq
<1>3. Placed(from, x, i) = y
  BY DEF Placed
<1>4. low \in 0 .. m /\ D = 1 .. low
  <2>1. D \in SUBSET (1 .. m)
    BY <1>2
  <2>2. ASSUME NEW a \in D, NEW b \in 1 .. m, b < a PROVE b \in D
    <3>1. a \in 1 .. m /\ from[t[a]] < from[i] /\ from[t[b]] < from[t[a]]
      BY <1>1, <1>2, <2>2
    <3>2. from[t[a]] \in Int /\ from[t[b]] \in Int /\ from[i] \in Int
      BY <1>0, <1>2, <3>1
    <3>3. from[t[b]] < from[i]
      <4> DEFINE p == from[t[b]]
                 q == from[t[a]]
                 r == from[i]
      <4>1. p < q /\ q < r /\ p \in Int /\ q \in Int /\ r \in Int
        BY <3>1, <3>2
      <4> HIDE DEF p, q, r
      <4>2. p < r
        BY <4>1
      <4> QED BY <4>2 DEF p, r
    <3> QED BY <1>2, <3>3
  <2> HIDE DEF D, m
  <2> QED BY <1>2, <2>1, <2>2, LowerPart
<1>5. \A n \in 1 .. m : n <= low <=> from[t[n]] < from[i]
  <2>1. \A n \in 1 .. m : n \in 1 .. low <=> from[t[n]] < from[i]
    BY <1>2, <1>4
  <2>2. \A n \in 1 .. m : n <= low <=> n \in 1 .. low
    BY <1>4
  <2> HIDE DEF low
  <2> QED BY <2>1, <2>2
<1> HIDE DEF D, low
<1>6. /\ p2 \in [1 .. L -> 0 .. L] /\ p2[i] = IF low = 0 THEN 0 ELSE t[low]
      /\ \A j \in 1 .. L : j # i => p2[j] = x.previous[j]
  <2> DEFINE e == IF low = 0 THEN 0 ELSE t[low]
  <2>1. e \in 0 .. L
    <3>1. CASE low = 0
      BY <1>0, <3>1
    <3>2. CASE low # 0
      <4>1. low \in 1 .. m
        BY <1>2, <1>4, <3>2
      <4>2. t[low] \in 1 .. L
        BY <1>2, <4>1
      <4> QED BY <3>2, <4>2
    <3> QED BY <3>1, <3>2
  <2> HIDE DEF e
  <2>2. p2 = [x.previous EXCEPT ![i] = e]
    BY DEF e
  <2> HIDE DEF p2
  <2>3. p2 \in [1 .. L -> 0 .. L] /\ p2[i] = e /\ \A j \in 1 .. L : j # i => p2[j] = x.previous[j]
    BY <1>1, <2>1, <2>2
  <2> QED BY <2>3 DEF e
<1>7. /\ t2 \in Seq(1 .. L) /\ Len(t2) = IF low = m THEN m + 1 ELSE m
      /\ t2[low + 1] = i /\ \A n \in 1 .. m : n # low + 1 => t2[n] = t[n]
  <2>1. CASE low = m
    <3>1. t2 = Append(t, i)
      BY <2>1
    <3> HIDE DEF t2, t
    <3>2. t2 \in Seq(1 .. L) /\ Len(t2) = Len(t) + 1 /\ t2[Len(t) + 1] = i
          /\ \A n \in 1 .. Len(t) : t2[n] = t[n]
      BY <1>1, <3>1, AppendProperties
    <3> QED BY <2>1, <3>2
  <2>2. CASE low # m
    <3> DEFINE l1 == low + 1
    <3>1. t2 = [t EXCEPT ![l1] = i]
      BY <2>2
    <3>2. l1 \in 1 .. Len(t)
      BY <1>2, <1>4, <2>2
    <3> HIDE DEF l1, t, t2, m, L, p2
    <3>3. t2 \in Seq(1 .. L) /\ Len(t2) = Len(t)
          /\ \A n \in 1 .. Len(t) : t2[n] = IF n = l1 THEN i ELSE t[n]
      <4> DEFINE U == 1 .. L
      <4>1. t \in Seq(U) /\ i \in U
        BY <1>1 DEF L
      <4> HIDE DEF U
      <4>2. t2 \in Seq(U) /\ Len(t2) = Len(t)
            /\ \A n \in 1 .. Len(t) : t2[n] = IF n = l1 THEN i ELSE t[n]
        BY <3>1, <3>2, <4>1, ExceptSeq
      <4> QED BY <4>2 DEF U
    <3>4. t2[l1] = i /\ \A n \in 1 .. Len(t) : n # l1 => t2[n] = t[n]
      BY <3>2, <3>3
    <3> QED BY <2>2, <3>3, <3>4 DEF l1, m
  <2> QED BY <2>1, <2>2
<1>8. y \in [tails : Seq(1 .. L), previous : [1 .. L -> 0 .. L]] /\ y.tails = t2 /\ y.previous = p2
  BY <1>6, <1>7
<1> HIDE DEF y, t2, p2
<1>9. Lands(from, x, i, low, y)
  BY <1>4, <1>5, <1>6, <1>7, <1>8 DEF Lands
<1> QED BY <1>3, <1>9

LEMMA PlacedRuns ==
  ASSUME NEW from \in Seq(Int), NEW i \in 1 .. Len(from), NEW x \in Runs(from, i - 1)
  PROVE  Placed(from, x, i) \in Runs(from, i)
<1> DEFINE L == Len(from)
           t == x.tails
           m == Len(t)
           y == Placed(from, x, i)
           t2 == y.tails
<1>0. L \in Nat /\ i \in Nat /\ \A j \in 1 .. L : from[j] \in Int
  BY LenProperties, ElementOfSeq
<1>1. /\ t \in Seq(1 .. L) /\ x.previous \in [1 .. L -> 0 .. L]
      /\ \A n \in 1 .. m : t[n] <= i - 1 /\ from[t[n]] # New
      /\ \A a, b \in 1 .. m : a < b => from[t[a]] < from[t[b]]
      /\ \A j \in 1 .. L : x.previous[j] # 0 => Precedes(from, x.previous[j], j)
  BY DEF Runs
<1>2. m \in Nat /\ DOMAIN t = 1 .. m /\ \A n \in 1 .. m : t[n] \in 1 .. L /\ from[t[n]] \in Int
  BY <1>0, <1>1, LenProperties, ElementOfSeq
<1>3. CASE from[i] = New
  <2>1. y = x
    BY <1>3 DEF Placed
  <2>2. \A n \in 1 .. m : t[n] <= i
    BY <1>0, <1>1, <1>2
  <2>3. x \in [tails : Seq(1 .. Len(from)), previous : [1 .. Len(from) -> 0 .. Len(from)]]
    BY DEF Runs
  <2> QED BY <1>1, <2>1, <2>2, <2>3 DEF Runs
<1>4. CASE from[i] # New
  <2>1. PICK low : Lands(from, x, i, low, y)
    BY <1>4, PlacedLands
  <2> HIDE DEF y, t
  <2>2. /\ low \in 0 .. m /\ \A n \in 1 .. m : n <= low <=> from[t[n]] < from[i]
        /\ Len(t2) = (IF low = m THEN m + 1 ELSE m) /\ t2[low + 1] = i
        /\ \A n \in 1 .. m : n # low + 1 => t2[n] = t[n]
        /\ y.previous[i] = (IF low = 0 THEN 0 ELSE t[low])
        /\ \A j \in 1 .. L : j # i => y.previous[j] = x.previous[j]
        /\ y \in [tails : Seq(1 .. L), previous : [1 .. L -> 0 .. L]]
    BY <2>1 DEF Lands, t
  <2> HIDE DEF L, m, t2
  <2>3. \A n \in 1 .. Len(t2) : n = low + 1 \/ (n \in 1 .. m /\ n # low + 1)
    BY <1>2, <2>2
  <2>4. \A j \in 1 .. L : y.previous[j] # 0 => Precedes(from, y.previous[j], j)
    <3>1. ASSUME low # 0 PROVE Precedes(from, t[low], i)
      <4>1. low \in 1 .. m /\ low <= low
        BY <2>2, <3>1
      <4>2. t[low] <= i - 1 /\ from[t[low]] # New /\ from[t[low]] < from[i] /\ t[low] \in 1 .. L
        BY <1>1, <1>2, <2>2, <4>1 DEF m
      <4> QED BY <1>0, <4>2 DEF Precedes
    <3> QED BY <1>1, <2>2, <3>1 DEF L
  <2>5. ASSUME NEW n \in 1 .. Len(t2) PROVE t2[n] <= i /\ from[t2[n]] # New
    <3>1. CASE n = low + 1
      <4>1. t2[n] = i /\ i <= i
        BY <1>0, <2>2, <3>1
      <4> QED BY <1>4, <4>1
    <3>2. CASE n # low + 1
      <4>1. n \in 1 .. m /\ t2[n] = t[n]
        BY <2>2, <2>3, <3>2
      <4>2. t[n] <= i - 1 /\ from[t[n]] # New /\ t[n] \in Int
        BY <1>1, <1>2, <4>1 DEF m
      <4> QED BY <1>0, <4>1, <4>2
    <3> QED BY <3>1, <3>2
  <2>6. ASSUME NEW a \in 1 .. Len(t2), NEW b \in 1 .. Len(t2), a < b PROVE from[t2[a]] < from[t2[b]]
    <3>1. CASE a = low + 1
      <4>1. b \in 1 .. m /\ b # low + 1 /\ a \in 1 .. m
        BY <1>2, <2>2, <2>3, <2>6, <3>1
      <4>2. t2[a] = i /\ t2[b] = t[b] /\ from[t[a]] < from[t[b]] /\ ~ (from[t[a]] < from[i])
        <5>1. ~ (a <= low)
          BY <2>2, <3>1
        <5> QED BY <1>1, <2>2, <2>6, <3>1, <4>1, <5>1 DEF m
      <4>3. from[t[a]] \in Int /\ from[t[b]] \in Int /\ from[i] \in Int
        BY <1>0, <1>2, <4>1 DEF L
      <4> QED BY <4>2, <4>3
    <3>2. CASE b = low + 1
      <4>1. a \in 1 .. m /\ a # low + 1 /\ a <= low
        BY <1>2, <2>2, <2>3, <2>6, <3>2
      <4>2. t2[a] = t[a] /\ t2[b] = i /\ from[t[a]] < from[i]
        BY <2>2, <3>2, <4>1
      <4> QED BY <4>2
    <3>3. CASE a # low + 1 /\ b # low + 1
      <4>1. a \in 1 .. m /\ b \in 1 .. m /\ t2[a] = t[a] /\ t2[b] = t[b]
        BY <2>2, <2>3, <3>3
      <4>2. from[t[a]] < from[t[b]]
        BY <1>1, <2>6, <4>1 DEF m
      <4> QED BY <4>1, <4>2
    <3> QED BY <3>1, <3>2, <3>3
  <2>7. y \in Runs(from, i)
    BY <2>2, <2>4, <2>5, <2>6 DEF Runs, L, t2
  <2> QED BY <2>7 DEF y
<1> QED BY <1>3, <1>4

\* pile[j]: how long the longest run is that ends at the row j, of the first i.
Piled(from, x, i, pile) ==
  /\ pile \in [1 .. Len(from) -> Nat]
  /\ \A n \in 1 .. Len(x.tails) : pile[x.tails[n]] = n
  /\ \A j \in 1 .. i : from[j] # New =>
       /\ pile[j] \in 1 .. Len(x.tails) /\ from[x.tails[pile[j]]] <= from[j]
       /\ IF x.previous[j] = 0 THEN pile[j] = 1 ELSE pile[x.previous[j]] = pile[j] - 1
  /\ \A j, k \in 1 .. i :
       j < k /\ from[j] # New /\ from[k] # New /\ from[j] < from[k] => pile[j] < pile[k]

\* What the first i rows leave, and such piles with it.
Sorted(from, i) == {x \in Runs(from, i) : \E pile : Piled(from, x, i, pile)}

(* The pile a row goes on is the longest run that ends there.              *)
LEMMA PlacedPiled ==
  ASSUME NEW from \in Seq(Int), NEW i \in 1 .. Len(from), NEW x \in Runs(from, i - 1),
         NEW pile, Piled(from, x, i - 1, pile), from[i] # New,
         NEW low, NEW y, Lands(from, x, i, low, y)
  PROVE  Piled(from, y, i, [pile EXCEPT ![i] = low + 1])
<1> DEFINE L == Len(from)
           t == x.tails
           m == Len(t)
           u == y.tails
           n2 == Len(u)
           p2 == [pile EXCEPT ![i] = low + 1]
<1>0. L \in Nat /\ i \in Nat /\ i \in 1 .. L /\ \A j \in 1 .. L : from[j] \in Int
  BY LenProperties, ElementOfSeq
<1>1. /\ t \in Seq(1 .. L) /\ \A n \in 1 .. m : t[n] <= i - 1
      /\ \A j \in 1 .. L : x.previous[j] # 0 => Precedes(from, x.previous[j], j)
      /\ x.previous \in [1 .. L -> 0 .. L]
  BY DEF Runs
<1>2. m \in Nat /\ \A n \in 1 .. m : t[n] \in 1 .. L /\ from[t[n]] \in Int /\ t[n] # i /\ t[n] \in 1 .. i - 1
  <2>1. m \in Nat /\ \A n \in 1 .. m : t[n] \in 1 .. L
    BY <1>1, LenProperties, ElementOfSeq
  <2> HIDE DEF m, t
  <2> QED BY <1>0, <1>1, <2>1
<1>3. /\ pile \in [1 .. L -> Nat]
      /\ \A n \in 1 .. m : pile[t[n]] = n
      /\ \A j \in 1 .. i - 1 : from[j] # New =>
           /\ pile[j] \in 1 .. m /\ from[t[pile[j]]] <= from[j]
           /\ IF x.previous[j] = 0 THEN pile[j] = 1 ELSE pile[x.previous[j]] = pile[j] - 1
      /\ \A j, k \in 1 .. i - 1 :
           j < k /\ from[j] # New /\ from[k] # New /\ from[j] < from[k] => pile[j] < pile[k]
  BY DEF Piled
<1>4. /\ low \in 0 .. m /\ \A n \in 1 .. m : n <= low <=> from[t[n]] < from[i]
      /\ n2 = (IF low = m THEN m + 1 ELSE m) /\ u[low + 1] = i
      /\ \A n \in 1 .. m : n # low + 1 => u[n] = t[n]
      /\ y.previous[i] = (IF low = 0 THEN 0 ELSE t[low])
      /\ \A j \in 1 .. L : j # i => y.previous[j] = x.previous[j]
  BY DEF Lands
<1>5. /\ p2 \in [1 .. L -> Nat] /\ p2[i] = low + 1
      /\ \A j \in 1 .. L : j # i => p2[j] = pile[j]
  <2>1. low + 1 \in Nat
    BY <1>2, <1>4
  <2> QED BY <1>0, <1>3, <2>1
<1> HIDE DEF p2, L, m, t, u, n2
<1>6. low \in Nat /\ low + 1 \in 1 .. n2 /\ 1 .. m \subseteq 1 .. n2
      /\ \A n \in 1 .. n2 : n = low + 1 \/ (n \in 1 .. m /\ n # low + 1)
  BY <1>2, <1>4
<1>7. ASSUME NEW n \in 1 .. n2 PROVE p2[u[n]] = n
  <2>1. CASE n = low + 1
    BY <1>4, <1>5, <2>1
  <2>2. CASE n # low + 1
    <3>1. n \in 1 .. m /\ u[n] = t[n] /\ t[n] \in 1 .. L /\ t[n] # i
      BY <1>2, <1>4, <1>6, <2>2
    <3> QED BY <1>3, <1>5, <3>1
  <2> QED BY <2>1, <2>2
<1>8. ASSUME NEW j \in 1 .. i - 1 PROVE j \in 1 .. L /\ j # i /\ p2[j] = pile[j] /\ y.previous[j] = x.previous[j]
  <2>1. j \in 1 .. L /\ j # i
    BY <1>0
  <2> QED BY <1>4, <1>5, <2>1
<1>9. \A j \in 1 .. i : j \in 1 .. i - 1 \/ j = i
  BY <1>0
<1>10. ASSUME NEW j \in 1 .. i - 1, from[j] # New
       PROVE  /\ p2[j] \in 1 .. n2 /\ from[u[p2[j]]] <= from[j]
              /\ IF y.previous[j] = 0 THEN p2[j] = 1 ELSE p2[y.previous[j]] = p2[j] - 1
  <2> DEFINE q == pile[j]
             b == x.previous[j]
  <2>1. q \in 1 .. m /\ from[t[q]] <= from[j] /\ (IF b = 0 THEN q = 1 ELSE pile[b] = q - 1)
        /\ p2[j] = q /\ y.previous[j] = b
    BY <1>3, <1>8, <1>10
  <2>2. from[u[q]] <= from[j]
    <3>1. CASE q = low + 1
      <4>1. u[q] = i /\ ~ (from[t[q]] < from[i])
        <5>1. ~ (q <= low)
          BY <1>6, <3>1
        <5> QED BY <1>4, <2>1, <3>1, <5>1
      <4> DEFINE f1 == from[t[q]]
                 f2 == from[i]
                 f3 == from[j]
      <4>2. f1 \in Int /\ f2 \in Int /\ f3 \in Int /\ f1 <= f3 /\ ~ (f1 < f2)
        BY <1>0, <1>2, <1>8, <2>1, <4>1
      <4> HIDE DEF f1, f2, f3
      <4>3. f2 <= f3
        BY <4>2
      <4> QED BY <4>1, <4>3 DEF f2, f3
    <3>2. CASE q # low + 1
      BY <1>4, <2>1, <3>2
    <3> QED BY <3>1, <3>2
  <2>3. ASSUME b # 0 PROVE p2[b] = pile[b]
    <3>1. b < j /\ b \in 1 .. L
      <4>1. b \in 0 .. L /\ b < j
        BY <1>1, <1>8, <2>3 DEF Precedes
      <4> HIDE DEF b
      <4> QED BY <1>0, <2>3, <4>1
    <3>2. b # i
      <4> HIDE DEF b
      <4> QED BY <1>0, <3>1
    <3> QED BY <1>5, <3>1, <3>2
  <2> HIDE DEF q, b
  <2> QED BY <1>6, <2>1, <2>2, <2>3
<1>11. /\ p2[i] \in 1 .. n2 /\ from[u[p2[i]]] <= from[i]
       /\ IF y.previous[i] = 0 THEN p2[i] = 1 ELSE p2[y.previous[i]] = p2[i] - 1
  <2>1. p2[i] \in 1 .. n2 /\ from[u[p2[i]]] <= from[i]
    <3>1. u[p2[i]] = i /\ from[i] \in Int
      BY <1>0, <1>4, <1>5
    <3> QED BY <1>5, <1>6, <3>1
  <2>2. CASE low = 0
    BY <1>4, <1>5, <2>1, <2>2
  <2>3. CASE low # 0
    <3>1. low \in 1 .. m
      BY <1>2, <1>4, <2>3
    <3>2. t[low] \in 1 .. L /\ t[low] # i /\ pile[t[low]] = low /\ t[low] # 0
      BY <1>2, <1>3, <3>1
    <3>3. y.previous[i] = t[low] /\ p2[t[low]] = low
      BY <1>4, <1>5, <2>3, <3>2
    <3>4. p2[i] - 1 = low
      BY <1>5, <1>6
    <3> QED BY <2>1, <3>2, <3>3, <3>4
  <2> QED BY <2>2, <2>3
<1>12. ASSUME NEW j \in 1 .. i, NEW k \in 1 .. i,
              j < k, from[j] # New, from[k] # New, from[j] < from[k]
       PROVE  p2[j] < p2[k]
  <2>1. j \in 1 .. i - 1
    BY <1>0, <1>12
  <2>2. CASE k \in 1 .. i - 1
    BY <1>3, <1>8, <1>12, <2>1, <2>2
  <2>3. CASE k = i
    <3> DEFINE q == pile[j]
    <3>1. q \in 1 .. m /\ from[t[q]] <= from[j] /\ from[j] < from[i] /\ p2[j] = q
      BY <1>3, <1>8, <1>12, <2>1, <2>3
    <3> DEFINE f1 == from[t[q]]
               f2 == from[i]
               f3 == from[j]
    <3>2. f1 \in Int /\ f2 \in Int /\ f3 \in Int /\ f1 <= f3 /\ f3 < f2
      BY <1>0, <1>2, <1>8, <2>1, <3>1
    <3> HIDE DEF f1, f2, f3
    <3>3. f1 < f2
      BY <3>2
    <3>4. q <= low
      BY <1>4, <3>1, <3>3 DEF f1, f2
    <3> HIDE DEF q
    <3> QED BY <1>5, <1>6, <2>3, <3>1, <3>4
  <2> QED BY <1>9, <2>2, <2>3
<1>13. Piled(from, y, i, p2)
  <2>1. \A j \in 1 .. i : from[j] # New =>
           /\ p2[j] \in 1 .. n2 /\ from[u[p2[j]]] <= from[j]
           /\ IF y.previous[j] = 0 THEN p2[j] = 1 ELSE p2[y.previous[j]] = p2[j] - 1
    <3> DEFINE Q(j) == /\ p2[j] \in 1 .. n2 /\ from[u[p2[j]]] <= from[j]
                       /\ IF y.previous[j] = 0 THEN p2[j] = 1 ELSE p2[y.previous[j]] = p2[j] - 1
    <3>1. \A j \in 1 .. i - 1 : from[j] # New => Q(j)
      BY <1>10
    <3>2. Q(i)
      BY <1>11
    <3> HIDE DEF Q
    <3>3. \A j \in 1 .. i : from[j] # New => Q(j)
      BY <1>9, <3>1, <3>2
    <3> QED BY <3>3 DEF Q
  <2>2. \A j, k \in 1 .. i :
          j < k /\ from[j] # New /\ from[k] # New /\ from[j] < from[k] => p2[j] < p2[k]
    BY <1>12
  <2>3. p2 \in [1 .. Len(from) -> Nat] /\ \A n \in 1 .. n2 : p2[u[n]] = n
    BY <1>5, <1>7 DEF L
  <2> QED BY <2>1, <2>2, <2>3 DEF Piled, u, n2
<1> QED BY <1>13 DEF p2

(* Placing a row keeps both.                                               *)
LEMMA PlacedSorted ==
  ASSUME NEW from \in Seq(Int), NEW i \in 1 .. Len(from), NEW x \in Sorted(from, i - 1)
  PROVE  Placed(from, x, i) \in Sorted(from, i)
<1> DEFINE y == Placed(from, x, i)
<1>1. x \in Runs(from, i - 1) /\ \E pile : Piled(from, x, i - 1, pile)
  BY DEF Sorted
<1>2. PICK pile : Piled(from, x, i - 1, pile)
  BY <1>1
<1>3. y \in Runs(from, i)
  BY <1>1, PlacedRuns
<1>4. CASE from[i] = New
  <2>1. y = x
    BY <1>4 DEF Placed
  <2> HIDE DEF y
  <2>2. \A j \in 1 .. i : j \in 1 .. i - 1 \/ j = i
    BY LenProperties
  <2>3. Piled(from, x, i, pile)
    <3>1. \A j \in 1 .. i : from[j] # New => j \in 1 .. i - 1
      BY <1>4, <2>2
    <3> QED BY <1>2, <3>1 DEF Piled
  <2> QED BY <1>3, <2>1, <2>3 DEF Sorted, y
<1>5. CASE from[i] # New
  <2>1. PICK low : Lands(from, x, i, low, y)
    BY <1>1, <1>5, PlacedLands
  <2> HIDE DEF y
  <2>2. Piled(from, y, i, [pile EXCEPT ![i] = low + 1])
    BY <1>1, <1>2, <1>5, <2>1, PlacedPiled
  <2> QED BY <1>3, <2>2 DEF Sorted, y
<1> QED BY <1>4, <1>5 DEF y

LEMMA PatienceRuns ==
  ASSUME NEW from \in Seq(Int)
  PROVE  Patience(from) \in Sorted(from, Len(from))
<1> DEFINE L == Len(from)
           origin == [tails |-> <<>>, previous |-> [j \in DOMAIN from |-> 0]]
           S == [i \in 0 .. L |-> Sorted(from, i)]
           Bare == [tails : Seq(1 .. L), previous : [1 .. L -> 0 .. L]]
           step == [i \in 1 .. L |-> [x \in Bare |-> Placed(from, x, i)]]
           Def(f) == [i \in 0 .. L |-> IF i = 0 THEN origin ELSE Placed(from, f[i - 1], i)]
           made == CHOOSE f : f = Def(f)
<1>0. L \in Nat /\ DOMAIN from = 1 .. L
  BY LenProperties
<1>1. origin \in S[0]
  <2>1. origin \in Bare
    BY <1>0
  <2>2. origin.tails = <<>> /\ Len(<<>>) = 0 /\ \A j \in 1 .. L : origin.previous[j] = 0
    BY <1>0
  <2> HIDE DEF origin
  <2>3. origin \in Runs(from, 0)
    BY <2>1, <2>2 DEF Runs
  <2>4. Piled(from, origin, 0, [j \in 1 .. L |-> 0])
    BY <2>2 DEF Piled
  <2>5. origin \in Sorted(from, 0)
    BY <2>3, <2>4 DEF Sorted
  <2> QED BY <1>0, <2>5
<1>2. ASSUME NEW i \in 1 .. L, NEW x \in S[i - 1]
      PROVE  Placed(from, x, i) \in S[i] /\ step[i][x] = Placed(from, x, i)
  <2>1. i - 1 \in 0 .. L /\ i \in 0 .. L
    BY <1>0
  <2>2. x \in Sorted(from, i - 1)
    BY <2>1
  <2>3. x \in Bare
    BY <2>2 DEF Sorted, Runs
  <2>4. Placed(from, x, i) \in Sorted(from, i)
    BY <2>2, PlacedSorted
  <2> QED BY <2>1, <2>3, <2>4
<1>3. PICK run : Visits(L, S, origin, step, run)
  <2>1. \A i \in 1 .. L : \A x \in S[i - 1] : step[i][x] \in S[i]
    <3> HIDE DEF S, step
    <3> QED BY <1>2
  <2>2. Leads(L, S, origin, step)
    <3> HIDE DEF S, step, origin, L
    <3> QED BY <1>1, <2>1 DEF Leads
  <2> HIDE DEF L, S, step, origin
  <2> QED BY <1>0, <2>2, StagesExist
<1>4. /\ run = [i \in 0 .. L |-> run[i]]
      /\ run[0] = origin
      /\ \A i \in 1 .. L : run[i] = step[i][run[i - 1]]
      /\ \A i \in 0 .. L : run[i] \in S[i]
  <2> HIDE DEF L, S, step, origin
  <2> QED BY <1>3 DEF Visits
<1>5. run = Def(run)
  <2>1. ASSUME NEW i \in 0 .. L PROVE run[i] = Def(run)[i]
    <3>1. CASE i = 0
      BY <1>4, <3>1
    <3>2. CASE i # 0
      <4>1. i \in 1 .. L /\ i - 1 \in 0 .. L
        BY <1>0, <3>2
      <4>2. run[i] = step[i][run[i - 1]] /\ run[i - 1] \in S[i - 1]
        <5> HIDE DEF S, step, origin, L
        <5> QED BY <1>4, <4>1
      <4>3. run[i] = Placed(from, run[i - 1], i)
        <5> HIDE DEF S, step
        <5> QED BY <1>2, <4>1, <4>2
      <4> QED BY <3>2, <4>3
    <3> QED BY <3>1, <3>2
  <2> HIDE DEF origin
  <2> QED BY <1>4, <2>1
<1>6. made = Def(made)
  <2> HIDE DEF Def
  <2> QED BY <1>5
<1>7. made[0] = origin /\ \A i \in 1 .. L : made[i] = Placed(from, made[i - 1], i)
  <2> HIDE DEF made
  <2>1. \A i \in 0 .. L : made[i] = Def(made)[i]
    BY <1>6
  <2> HIDE DEF origin
  <2> QED BY <1>0, <2>1
<1>8. Patience(from) = made[L]
  BY DEF Patience
<1> HIDE DEF made
<1>9. \A i \in 0 .. L : made[i] \in S[i]
  <2> DEFINE zero == 0
  <2>1. made[zero] \in S[zero] /\ zero \in 0 .. L
    BY <1>0, <1>1, <1>7
  <2>2. ASSUME NEW i \in zero + 1 .. L, made[i - 1] \in S[i - 1] PROVE made[i] \in S[i]
    <3>1. i \in 1 .. L
      OBVIOUS
    <3> HIDE DEF S, L
    <3> QED BY <1>2, <1>7, <2>2, <3>1
  <2> HIDE DEF L, S, zero
  <2>3. \A i \in zero .. L : made[i] \in S[i]
    BY <1>0, <2>1, <2>2, StaysIn
  <2> QED BY <2>3 DEF zero
<1>10. made[L] \in Sorted(from, L)
  BY <1>0, <1>9
<1> QED BY <1>8, <1>10

\* Rows that were there and stand in order already.
Ascending(from, rows) ==
  /\ rows \subseteq 1 .. Len(from)
  /\ \A i \in rows : from[i] # New
  /\ \A i, j \in rows : i < j => from[i] < from[j]

\* On the way back: what is kept ascends, and what comes next precedes it.
Walks(from) ==
  {w \in [at : 0 .. Len(from), kept : SUBSET (1 .. Len(from))] :
     /\ Ascending(from, w.kept)
     /\ w.at # 0 => from[w.at] # New /\ \A k \in w.kept : Precedes(from, w.at, k)}

LEMMA BackWalks ==
  ASSUME NEW from \in Seq(Int), NEW previous \in [1 .. Len(from) -> 0 .. Len(from)],
         \A j \in 1 .. Len(from) : previous[j] # 0 => Precedes(from, previous[j], j),
         NEW w \in Walks(from)
  PROVE  Back(previous, w) \in Walks(from)
<1> DEFINE L == Len(from)
           c == w.at
           b == previous[c]
           kept == w.kept \cup {c}
<1>0. L \in Nat /\ \A j \in 1 .. L : from[j] \in Int
  BY LenProperties, ElementOfSeq
<1>1. /\ c \in 0 .. L /\ w.kept \in SUBSET (1 .. L) /\ Ascending(from, w.kept)
      /\ c # 0 => from[c] # New /\ \A k \in w.kept : Precedes(from, c, k)
  BY DEF Walks
<1>2. CASE c = 0
  BY <1>2 DEF Back
<1>3. CASE c # 0
  <2>1. c \in 1 .. L /\ b \in 0 .. L /\ (b # 0 => Precedes(from, b, c))
    <3>1. c \in 1 .. L
      BY <1>0, <1>1, <1>3
    <3> QED BY <3>1
  <2>2. Back(previous, w) = [at |-> b, kept |-> kept]
    BY <1>3 DEF Back
  <2> HIDE DEF b
  <2>3. \A k \in w.kept : c < k /\ from[c] < from[k] /\ k \in 1 .. L
    BY <1>1, <1>3 DEF Precedes
  <2>4. Ascending(from, kept)
    <3>1. \A i \in kept : i \in 1 .. L /\ from[i] # New
      BY <1>1, <1>3, <2>1 DEF Ascending
    <3>2. ASSUME NEW i \in kept, NEW j \in kept, i < j PROVE from[i] < from[j]
      <4>1. CASE i = c /\ j = c
        BY <2>1, <3>2, <4>1
      <4>2. CASE i = c /\ j \in w.kept
        BY <2>3, <4>2
      <4>3. CASE i \in w.kept /\ j = c
        <5>1. c < i /\ i < c /\ i \in Int /\ c \in Int
          BY <2>1, <2>3, <3>2, <4>3
        <5> QED BY <5>1
      <4>4. CASE i \in w.kept /\ j \in w.kept
        BY <1>1, <3>2, <4>4 DEF Ascending
      <4> QED BY <4>1, <4>2, <4>3, <4>4
    <3> QED BY <3>1, <3>2 DEF Ascending
  <2>5. ASSUME b # 0 PROVE from[b] # New /\ \A k \in kept : Precedes(from, b, k)
    <3>1. b < c /\ from[b] # New /\ from[b] < from[c] /\ b \in 1 .. L
      BY <1>0, <2>1, <2>5 DEF Precedes
    <3>2. ASSUME NEW k \in w.kept PROVE Precedes(from, b, k)
      <4>1. c < k /\ from[c] < from[k] /\ k \in Int /\ c \in Int /\ b \in Int
            /\ from[b] \in Int /\ from[c] \in Int /\ from[k] \in Int
        BY <1>0, <2>1, <2>3, <3>1
      <4> QED BY <3>1, <4>1 DEF Precedes
    <3>3. Precedes(from, b, c)
      BY <3>1 DEF Precedes
    <3> QED BY <3>1, <3>2, <3>3
  <2> DEFINE y == [at |-> b, kept |-> kept]
  <2>6. y \in [at : 0 .. L, kept : SUBSET (1 .. L)] /\ y.at = b /\ y.kept = kept
    BY <1>1, <2>1
  <2> HIDE DEF y, kept
  <2>7. y \in Walks(from)
    BY <2>4, <2>5, <2>6 DEF Walks
  <2> QED BY <2>2, <2>7 DEF y
<1> QED BY <1>2, <1>3

\* After n steps back along the longest run; what is kept is as long as that
\* run when its first row has been reached.
Trails(from, x, pile, n) ==
  {w \in Walks(from) :
     /\ w.at = 0 => Cardinality(w.kept) = Len(x.tails)
     /\ w.at # 0 => Cardinality(w.kept) = n /\ pile[w.at] = Len(x.tails) - n}

LEMMA BackTrails ==
  ASSUME NEW from \in Seq(Int), NEW x \in Runs(from, Len(from)),
         NEW pile, Piled(from, x, Len(from), pile),
         NEW n \in 1 .. Len(from), NEW w \in Trails(from, x, pile, n - 1)
  PROVE  Back(x.previous, w) \in Trails(from, x, pile, n)
<1> DEFINE L == Len(from)
           m == Len(x.tails)
           c == w.at
           b == x.previous[c]
           kept == w.kept \cup {c}
           v == Back(x.previous, w)
<1>0. L \in Nat /\ n \in Nat /\ m \in Nat /\ Len(from) = L
  BY LenProperties DEF Runs
<1>1. /\ x.previous \in [1 .. L -> 0 .. L]
      /\ \A j \in 1 .. L : x.previous[j] # 0 => Precedes(from, x.previous[j], j)
  BY DEF Runs
<1>2. /\ w \in Walks(from) /\ c \in 0 .. L /\ w.kept \in SUBSET (1 .. L)
      /\ c # 0 => from[c] # New /\ \A k \in w.kept : Precedes(from, c, k)
      /\ c = 0 => Cardinality(w.kept) = m
      /\ c # 0 => Cardinality(w.kept) = n - 1 /\ pile[c] = m - (n - 1)
  BY DEF Trails, Walks
<1>3. v \in Walks(from)
  BY <1>1, <1>2, BackWalks
<1>4. CASE c = 0
  <2>1. v = w
    BY <1>4 DEF Back
  <2> QED BY <1>2, <1>3, <1>4, <2>1 DEF Trails
<1>5. CASE c # 0
  <2>1. c \in 1 .. L
    <3> HIDE DEF c, L
    <3> QED BY <1>0, <1>2, <1>5
  <2>2. v.at = b /\ v.kept = kept /\ v = [at |-> b, kept |-> kept]
    BY <1>5 DEF Back
  <2>3. Cardinality(kept) = n
    <3>1. IsFiniteSet(w.kept)
      <4>1. IsFiniteSet(1 .. L)
        <5> HIDE DEF L
        <5> QED BY <1>0, Interval
      <4> QED BY <1>2, <4>1, FS_Subset
    <3>2. c \notin w.kept
      <4>1. ~ (c < c)
        BY <2>1
      <4> QED BY <1>2, <1>5, <4>1 DEF Precedes
    <3>3. Cardinality(kept) = Cardinality(w.kept) + 1
      <4> HIDE DEF c
      <4> QED BY <3>1, <3>2, FS_AddElement
    <3> HIDE DEF kept, c
    <3> QED BY <1>0, <1>2, <1>5, <3>3
  <2>4. IF b = 0 THEN pile[c] = 1 ELSE pile[b] = pile[c] - 1
    <3>1. from[c] # New
      BY <1>2, <1>5
    <3> HIDE DEF c
    <3> QED BY <2>1, <3>1 DEF Piled
  <2>5. pile[c] = m - (n - 1)
    BY <1>2, <1>5
  <2> HIDE DEF b, c, kept, v, m
  <2>6. CASE b = 0
    <3>1. Cardinality(v.kept) = m
      BY <1>0, <2>2, <2>3, <2>4, <2>5, <2>6
    <3> QED BY <1>3, <2>2, <2>6, <3>1 DEF Trails, m, v
  <2>7. CASE b # 0
    <3>1. Cardinality(v.kept) = n /\ pile[v.at] = m - n
      BY <1>0, <2>2, <2>3, <2>4, <2>5, <2>7
    <3> QED BY <1>3, <2>2, <2>7, <3>1 DEF Trails, m, v
  <2> QED BY <2>6, <2>7
<1> QED BY <1>4, <1>5

(* No row goes on two piles of an ascending set.                           *)
LEMMA AscendingIsNoLonger ==
  ASSUME NEW from \in Seq(Int), NEW x \in Runs(from, Len(from)),
         NEW pile, Piled(from, x, Len(from), pile), NEW rows, Ascending(from, rows)
  PROVE  IsFiniteSet(rows) /\ Cardinality(rows) <= Len(x.tails)
<1> DEFINE L == Len(from)
           m == Len(x.tails)
           f == [j \in rows |-> pile[j]]
           P == 1 .. m
<1>0. m \in Nat /\ L \in Nat
  BY LenProperties DEF Runs
<1>1. /\ rows \subseteq 1 .. L /\ \A j \in rows : from[j] # New
      /\ \A j, k \in rows : j < k => from[j] < from[k]
  BY DEF Ascending
<1>2. /\ \A j \in rows : pile[j] \in P
      /\ \A j, k \in rows : j < k => pile[j] < pile[k]
  <2>1. \A j \in rows : pile[j] \in P
    BY <1>1 DEF Piled
  <2>2. ASSUME NEW j \in rows, NEW k \in rows, j < k PROVE pile[j] < pile[k]
    <3>1. j \in 1 .. L /\ k \in 1 .. L /\ from[j] # New /\ from[k] # New /\ from[j] < from[k]
      BY <1>1, <2>2
    <3> QED BY <2>2, <3>1 DEF Piled
  <2> QED BY <2>1, <2>2
<1>3. \A j, k \in rows : f[j] = f[k] => j = k
  <2>1. ASSUME NEW j \in rows, NEW k \in rows, pile[j] = pile[k] PROVE j = k
    <3>1. pile[j] \in Int /\ pile[k] \in Int /\ j \in Int /\ k \in Int
      BY <1>1, <1>2
    <3>2. ~ (j < k) /\ ~ (k < j)
      BY <1>2, <2>1, <3>1
    <3> QED BY <3>1, <3>2
  <2> QED BY <2>1
<1>4. f \in Injection(rows, P)
  <2>1. f \in [rows -> P]
    BY <1>2
  <2> HIDE DEF f, P
  <2> QED BY <1>3, <2>1 DEF Injection, IsInjective
<1>5. IsFiniteSet(P) /\ Cardinality(P) = m
  <2> HIDE DEF m
  <2> QED BY <1>0, Interval
<1> HIDE DEF f, P, m
<1>6. IsFiniteSet(rows) /\ Cardinality(rows) <= Cardinality(P)
  BY <1>4, <1>5, FS_Injection
<1> QED BY <1>5, <1>6 DEF m

(* What stays ascends, and no set that ascends is larger.                  *)
LEMMA SettledIsLongest ==
  ASSUME NEW from \in Seq(Int)
  PROVE  /\ Ascending(from, SettledRows(from))
         /\ \A rows : Ascending(from, rows) => Cardinality(rows) <= Cardinality(SettledRows(from))
<1> DEFINE L == Len(from)
           runs == Patience(from)
           last == IF runs.tails = <<>> THEN 0 ELSE Last(runs.tails)
           previous == runs.previous
           origin == [at |-> last, kept |-> {}]
           pile == CHOOSE q : Piled(from, runs, Len(from), q)
           S == [n \in 0 .. L |-> Trails(from, runs, pile, n)]
           step == [n \in 1 .. L |-> [x \in Walks(from) |-> Back(previous, x)]]
           Def(f) == [n \in 0 .. L |-> IF n = 0 THEN origin ELSE Back(previous, f[n - 1])]
           made == CHOOSE f : f = Def(f)
<1>0. L \in Nat /\ DOMAIN from = 1 .. L
  BY LenProperties
<1>a. runs \in Runs(from, L) /\ Piled(from, runs, L, pile)
  <2>1. runs \in Runs(from, L) /\ \E q : Piled(from, runs, L, q)
    BY PatienceRuns DEF Sorted
  <2> HIDE DEF runs
  <2> QED BY <2>1
<1>b. SettledRows(from) = made[L].kept
  BY DEF SettledRows
<1> HIDE DEF runs, pile
<1>c. /\ previous \in [1 .. L -> 0 .. L]
      /\ \A j \in 1 .. L : previous[j] # 0 => Precedes(from, previous[j], j)
  BY <1>a DEF Runs
<1>d. /\ last \in 0 .. L /\ (last # 0 => from[last] # New)
      /\ Len(runs.tails) \in Nat
      /\ IF last = 0 THEN Len(runs.tails) = 0 ELSE pile[last] = Len(runs.tails)
  <2> DEFINE t == runs.tails
  <2>1. t \in Seq(1 .. L) /\ Len(t) \in Nat
        /\ \A n \in 1 .. Len(t) : from[t[n]] # New /\ pile[t[n]] = n
    BY <1>a, LenProperties DEF Runs, Piled
  <2> HIDE DEF t
  <2>2. CASE t = <<>>
    <3>1. last = 0 /\ Len(t) = 0
      BY <2>2, EmptySeq DEF t
    <3> QED BY <1>0, <3>1 DEF t
  <2>3. CASE t # <<>>
    <3>1. Len(t) \in 1 .. Len(t)
      BY <2>1, <2>3, EmptySeq, LenProperties
    <3>2. t[Len(t)] \in 1 .. L /\ from[t[Len(t)]] # New /\ pile[t[Len(t)]] = Len(t)
      BY <2>1, <3>1, ElementOfSeq
    <3>3. last = t[Len(t)]
      BY <2>3 DEF t, Last
    <3> HIDE DEF last
    <3> QED BY <1>0, <2>1, <3>2, <3>3 DEF t
  <2> QED BY <2>2, <2>3
<1> HIDE DEF last, previous
<1>1. origin \in S[0]
  <2>1. origin \in Walks(from)
    BY <1>d DEF Walks, Ascending
  <2>2. /\ origin.at = last /\ origin.kept = {} /\ Cardinality({}) = 0
        /\ Len(runs.tails) - 0 = Len(runs.tails)
    BY <1>d, FS_EmptySet
  <2> HIDE DEF origin
  <2>3. origin \in Trails(from, runs, pile, 0)
    BY <1>d, <2>1, <2>2 DEF Trails
  <2> QED BY <1>0, <2>3
<1>2. ASSUME NEW n \in 1 .. L, NEW x \in S[n - 1]
      PROVE  Back(previous, x) \in S[n] /\ step[n][x] = Back(previous, x)
  <2>1. n - 1 \in 0 .. L /\ n \in 0 .. L
    BY <1>0
  <2>2. x \in Trails(from, runs, pile, n - 1) /\ x \in Walks(from)
    BY <2>1 DEF Trails
  <2>3. Back(previous, x) \in Trails(from, runs, pile, n)
    BY <1>a, <2>2, BackTrails DEF previous
  <2> QED BY <2>1, <2>2, <2>3
<1>3. PICK run : Visits(L, S, origin, step, run)
  <2>1. \A n \in 1 .. L : \A x \in S[n - 1] : step[n][x] \in S[n]
    <3> HIDE DEF S, step
    <3> QED BY <1>2
  <2>2. Leads(L, S, origin, step)
    <3> HIDE DEF S, step, origin, L
    <3> QED BY <1>1, <2>1 DEF Leads
  <2> HIDE DEF L, S, step, origin
  <2> QED BY <1>0, <2>2, StagesExist
<1>4. /\ run = [i \in 0 .. L |-> run[i]]
      /\ run[0] = origin
      /\ \A n \in 1 .. L : run[n] = step[n][run[n - 1]]
      /\ \A n \in 0 .. L : run[n] \in S[n]
  <2> HIDE DEF L, S, step, origin
  <2> QED BY <1>3 DEF Visits
<1>5. run = Def(run)
  <2>1. ASSUME NEW n \in 0 .. L PROVE run[n] = Def(run)[n]
    <3>1. CASE n = 0
      BY <1>4, <3>1
    <3>2. CASE n # 0
      <4>1. n \in 1 .. L /\ n - 1 \in 0 .. L
        BY <1>0, <3>2
      <4>2. run[n] = step[n][run[n - 1]] /\ run[n - 1] \in S[n - 1]
        <5> HIDE DEF S, step, origin, L
        <5> QED BY <1>4, <4>1
      <4>3. run[n] = Back(previous, run[n - 1])
        <5> HIDE DEF S, step
        <5> QED BY <1>2, <4>1, <4>2
      <4> QED BY <3>2, <4>3
    <3> QED BY <3>1, <3>2
  <2> HIDE DEF origin
  <2> QED BY <1>4, <2>1
<1>6. made = Def(made)
  <2> HIDE DEF Def
  <2> QED BY <1>5
<1>7. made[0] = origin /\ \A n \in 1 .. L : made[n] = Back(previous, made[n - 1])
  <2> HIDE DEF made
  <2>1. \A n \in 0 .. L : made[n] = Def(made)[n]
    BY <1>6
  <2> HIDE DEF origin
  <2> QED BY <1>0, <2>1
<1> HIDE DEF made
<1>9. \A n \in 0 .. L : made[n] \in S[n]
  <2> DEFINE zero == 0
  <2>1. made[zero] \in S[zero] /\ zero \in 0 .. L
    BY <1>0, <1>1, <1>7
  <2>2. ASSUME NEW n \in zero + 1 .. L, made[n - 1] \in S[n - 1] PROVE made[n] \in S[n]
    <3>1. n \in 1 .. L
      OBVIOUS
    <3> HIDE DEF S, L
    <3> QED BY <1>2, <1>7, <2>2, <3>1
  <2> HIDE DEF L, S, zero
  <2>3. \A n \in zero .. L : made[n] \in S[n]
    BY <1>0, <2>1, <2>2, StaysIn
  <2> QED BY <2>3 DEF zero
<1> DEFINE settled == made[L].kept
           at == made[L].at
<1>10. /\ Ascending(from, settled) /\ settled \in SUBSET (1 .. L) /\ at \in 0 .. L
       /\ at = 0 => Cardinality(settled) = Len(runs.tails)
       /\ at # 0 => Cardinality(settled) = L /\ \A k \in settled : Precedes(from, at, k)
  <2>1. made[L] \in Trails(from, runs, pile, L)
    BY <1>0, <1>9
  <2> HIDE DEF L
  <2> QED BY <2>1 DEF Trails, Walks, L
<1> HIDE DEF settled, at
<1>11. at = 0
  <2>1. SUFFICES ASSUME at # 0 PROVE FALSE
    OBVIOUS
  <2>2. IsFiniteSet(1 .. L) /\ Cardinality(1 .. L) = L
    <3> HIDE DEF L
    <3> QED BY <1>0, Interval
  <2>3. at \in 1 .. L /\ settled = 1 .. L
    <3> HIDE DEF L
    <3>1. Cardinality(settled) = L
      BY <1>10, <2>1
    <3>2. settled = 1 .. L
      BY <1>10, <2>2, <3>1, FS_Subset
    <3> QED BY <1>0, <1>10, <2>1, <3>2
  <2>4. at < at
    BY <1>10, <2>1, <2>3 DEF Precedes
  <2> QED BY <2>3, <2>4
<1>12. ASSUME NEW rows, Ascending(from, rows) PROVE Cardinality(rows) <= Cardinality(settled)
  <2>1. Cardinality(rows) <= Len(runs.tails)
    BY <1>a, <1>12, AscendingIsNoLonger
  <2> QED BY <1>10, <1>11, <2>1
<1>13. SettledRows(from) = settled
  BY <1>b DEF settled
<1> QED BY <1>10, <1>12, <1>13

(***************************************************************************)
(* Mounted rows.                                                           *)
(***************************************************************************)
Row == [key : Key, nodes : Seq(NodesOf(Key)), edition : Editions]

RowKeys(rows) == [i \in DOMAIN rows |-> rows[i].key]
RowNodes(rows) == [i \in DOMAIN rows |-> rows[i].nodes]

\* Rows of different keys, each with the nodes its key was rendered with.
Keyed(rows) ==
  /\ rows \in Seq(Row)
  /\ \A i \in 1 .. Len(rows) : rows[i].nodes = Rendered(rows[i].key)
  /\ \A i, j \in 1 .. Len(rows) : rows[i].key = rows[j].key => i = j

(* As many keys as places.                                                 *)
LEMMA AsManyKeys ==
  ASSUME NEW s \in Seq(Key), \A i, j \in 1 .. Len(s) : s[i] = s[j] => i = j
  PROVE  IsFiniteSet(ToSet(s)) /\ Cardinality(ToSet(s)) = Len(s)
<1> DEFINE n == Len(s)
           S == ToSet(s)
<1>1. n \in Nat /\ DOMAIN s = 1 .. n /\ s \in [1 .. n -> Key]
  BY LenProperties
<1>2. s \in Bijection(1 .. n, S)
  <2>1. s \in [1 .. n -> S]
    BY <1>1 DEF ToSet
  <2>2. \A x \in S : \E i \in 1 .. n : s[i] = x
    BY <1>1 DEF ToSet
  <2> HIDE DEF n, S
  <2> QED BY <2>1, <2>2 DEF Bijection, Injection, Surjection, IsInjective, n
<1>3. IsFiniteSet(1 .. n) /\ Cardinality(1 .. n) = n
  <2> HIDE DEF n
  <2> QED BY <1>1, Interval
<1>4. ExistsBijection(1 .. n, S)
  BY <1>2 DEF ExistsBijection
<1> HIDE DEF n, S
<1>5. IsFiniteSet(S) /\ Cardinality(S) = n
  BY <1>3, <1>4, FS_Bijection
<1> QED BY <1>5 DEF S, n

LEMMA KeyedRows ==
  ASSUME NEW rows, Keyed(rows)
  PROVE  /\ Len(rows) \in Nat /\ DOMAIN rows = 1 .. Len(rows)
         /\ \A i \in 1 .. Len(rows) : rows[i] \in Row /\ rows[i].key \in Key
         /\ RowKeys(rows) \in Seq(Key) /\ Len(RowKeys(rows)) = Len(rows)
         /\ RowNodes(rows) \in Seq(Seq(NodesOf(Key))) /\ Len(RowNodes(rows)) = Len(rows)
         /\ ToSet(RowKeys(rows)) = KeysOf(rows) /\ KeysOf(rows) \subseteq Key
         /\ \A k \in KeysOf(rows) : Position(rows, k) \in 1 .. Len(rows)
                                    /\ rows[Position(rows, k)].key = k
         /\ \A i \in 1 .. Len(rows) : rows[i].key \in KeysOf(rows) /\ Position(rows, rows[i].key) = i
         /\ IsFiniteSet(KeysOf(rows)) /\ Cardinality(KeysOf(rows)) = Len(rows)
<1> DEFINE n == Len(rows)
<1>1. n \in Nat /\ DOMAIN rows = 1 .. n /\ \A i \in 1 .. n : rows[i] \in Row
  BY LenProperties, ElementOfSeq DEF Keyed
<1>2. \A i \in 1 .. n : rows[i].key \in Key /\ rows[i].nodes \in Seq(NodesOf(Key))
  <2>1. ASSUME NEW i \in 1 .. n PROVE rows[i].key \in Key /\ rows[i].nodes \in Seq(NodesOf(Key))
    <3>1. rows[i] \in Row
      BY <1>1
    <3> QED BY <3>1 DEF Row
  <2> QED BY <2>1
<1>3. RowKeys(rows) \in Seq(Key) /\ Len(RowKeys(rows)) = n /\ DOMAIN RowKeys(rows) = 1 .. n
  <2>1. RowKeys(rows) \in [1 .. n -> Key]
    BY <1>1, <1>2 DEF RowKeys
  <2>2. RowKeys(rows) \in Seq(Key)
    BY <1>1, <2>1, SeqDef
  <2> QED BY <1>1, <2>1, <2>2, LenProperties
<1>4. RowNodes(rows) \in Seq(Seq(NodesOf(Key))) /\ Len(RowNodes(rows)) = n
  <2> DEFINE T == Seq(NodesOf(Key))
  <2>0. \A i \in 1 .. n : rows[i].nodes \in T
    BY <1>2
  <2> HIDE DEF T
  <2>1. RowNodes(rows) \in [1 .. n -> T]
    BY <1>1, <2>0 DEF RowNodes
  <2>2. RowNodes(rows) \in Seq(T)
    BY <1>1, <2>1, SeqDef
  <2>3. Len(RowNodes(rows)) = n
    BY <1>1, <2>1, <2>2, LenProperties
  <2> QED BY <2>2, <2>3 DEF T
<1>5. \A i \in 1 .. n : RowKeys(rows)[i] = rows[i].key
  BY <1>1 DEF RowKeys
<1>6. ToSet(RowKeys(rows)) = KeysOf(rows)
  BY <1>1, <1>3, <1>5 DEF ToSet, KeysOf
<1>7. ASSUME NEW k \in KeysOf(rows)
      PROVE  Position(rows, k) \in 1 .. n /\ rows[Position(rows, k)].key = k
  <2>1. \E i \in DOMAIN rows : rows[i].key = k
    BY DEF KeysOf
  <2> QED BY <1>1, <2>1 DEF Position
<1>8. ASSUME NEW i \in 1 .. n PROVE rows[i].key \in KeysOf(rows) /\ Position(rows, rows[i].key) = i
  <2>1. rows[i].key \in KeysOf(rows)
    BY <1>1 DEF KeysOf
  <2> QED BY <1>7, <2>1 DEF Keyed
<1>9. IsFiniteSet(KeysOf(rows)) /\ Cardinality(KeysOf(rows)) = n
  <2> DEFINE s == RowKeys(rows)
  <2>1. \A i, j \in 1 .. n : s[i] = s[j] => i = j
    BY <1>5 DEF Keyed
  <2>2. s \in Seq(Key) /\ Len(s) = n
    BY <1>3
  <2> HIDE DEF s, n
  <2>3. IsFiniteSet(ToSet(s)) /\ Cardinality(ToSet(s)) = n
    BY <2>1, <2>2, AsManyKeys
  <2> QED BY <1>6, <2>3 DEF s
<1>10. KeysOf(rows) \subseteq Key
  BY <1>1, <1>2 DEF KeysOf
<1> QED BY <1>1, <1>2, <1>3, <1>4, <1>6, <1>7, <1>8, <1>9, <1>10

(* What the rows' nodes are in one list, in any order that is theirs.      *)
LEMMA RowsFlattened ==
  ASSUME NEW rows, Keyed(rows), NEW place,
         \A i, j \in 1 .. Len(rows) : i < j => place[rows[i].key] < place[rows[j].key]
  PROVE  /\ FlattenSeq(RowNodes(rows)) \in Seq(NodesOf(Key))
         /\ ToSet(FlattenSeq(RowNodes(rows))) = NodesOf(KeysOf(rows))
         /\ InOrder(FlattenSeq(RowNodes(rows)), Key, place)
<1> DEFINE keys == RowKeys(rows)
           nodes == RowNodes(rows)
<1>0. DOMAIN rows = 1 .. Len(rows) /\ Len(rows) \in Nat
  BY KeyedRows
<1>1. /\ keys \in Seq(Key) /\ nodes \in Seq(Seq(NodesOf(Key))) /\ Len(nodes) = Len(keys)
      /\ ToSet(keys) = KeysOf(rows) /\ Len(keys) = Len(rows)
  BY KeyedRows
<1>2. \A i \in 1 .. Len(keys) : nodes[i] = Rendered(keys[i])
  BY <1>0, <1>1 DEF RowNodes, RowKeys, Keyed
<1>3. \A i, j \in 1 .. Len(keys) : i < j => place[keys[i]] < place[keys[j]]
  BY <1>0, <1>1 DEF RowKeys
<1> HIDE DEF keys, nodes
<1>4. /\ FlattenSeq(nodes) \in Seq(NodesOf(Key))
      /\ ToSet(FlattenSeq(nodes)) = NodesOf(ToSet(keys))
      /\ InOrder(FlattenSeq(nodes), Key, place)
  BY <1>1, <1>2, <1>3, Flattened
<1> QED BY <1>1, <1>4 DEF nodes

(* The rows of some keys, in the order all the rows are in.                *)
LEMMA PickedRows ==
  ASSUME NEW rows, Keyed(rows), NEW K, NEW wanted,
         \A i \in 1 .. Len(rows) : i \in wanted <=> rows[i].key \in K,
         NEW picked, picked = Pick(rows, wanted)
  PROVE  /\ Keyed(picked) /\ KeysOf(picked) = KeysOf(rows) \cap K
         /\ \A i \in 1 .. Len(picked) : picked[i].key \in KeysOf(rows)
         /\ \A i, j \in 1 .. Len(picked) : i < j =>
              Position(rows, picked[i].key) < Position(rows, picked[j].key)
<1> DEFINE n == Len(rows)
           p == Pick(rows, wanted)
<1>1. n \in Nat /\ DOMAIN rows = 1 .. n /\ rows \in Seq(Row)
      /\ \A i \in 1 .. n : rows[i].key \in KeysOf(rows) /\ Position(rows, rows[i].key) = i
      /\ \A k \in KeysOf(rows) : Position(rows, k) \in 1 .. n /\ rows[Position(rows, k)].key = k
  BY KeyedRows DEF Keyed
<1>2. p \in Seq(Row) /\ \E at : Draws(rows, p, wanted, at)
  <2>1. rows \in Seq(Row)
    BY <1>1
  <2> QED BY <2>1, PickDraws
<1>3. picked = p
  OBVIOUS
<1> HIDE DEF p
<1>a. PICK at : Draws(rows, p, wanted, at)
  BY <1>2
<1>4. /\ at \in [1 .. Len(p) -> wanted \cap (1 .. n)]
      /\ \A i \in 1 .. Len(p) : p[i] = rows[at[i]]
      /\ \A i, j \in 1 .. Len(p) : i < j => at[i] < at[j]
      /\ \A m \in wanted \cap (1 .. n) : \E i \in 1 .. Len(p) : at[i] = m
  BY <1>a DEF Draws
<1>5. Len(p) \in Nat /\ DOMAIN p = 1 .. Len(p)
  BY <1>2, LenProperties
<1>6. \A i \in 1 .. Len(p) : /\ at[i] \in 1 .. n /\ p[i] = rows[at[i]] /\ rows[at[i]].key \in K
                             /\ p[i].key \in KeysOf(rows) /\ Position(rows, p[i].key) = at[i]
  <2>1. ASSUME NEW i \in 1 .. Len(p)
        PROVE  /\ at[i] \in 1 .. n /\ p[i] = rows[at[i]] /\ rows[at[i]].key \in K
               /\ p[i].key \in KeysOf(rows) /\ Position(rows, p[i].key) = at[i]
    <3>1. at[i] \in 1 .. n /\ at[i] \in wanted /\ p[i] = rows[at[i]]
      BY <1>4
    <3>2. rows[at[i]].key \in K
      BY <3>1
    <3> QED BY <1>1, <3>1, <3>2
  <2> QED BY <2>1
<1>7. Keyed(p)
  <2>1. \A i \in 1 .. Len(p) : p[i].nodes = Rendered(p[i].key)
    BY <1>6 DEF Keyed
  <2>2. ASSUME NEW i \in 1 .. Len(p), NEW j \in 1 .. Len(p), p[i].key = p[j].key PROVE i = j
    <3>1. at[i] = at[j] /\ at[i] \in Int
      BY <1>6, <2>2
    <3>2. i < j => at[i] < at[j]
      BY <1>4
    <3>3. j < i => at[j] < at[i]
      BY <1>4
    <3> QED BY <3>1, <3>2, <3>3
  <2> QED BY <1>2, <2>1, <2>2 DEF Keyed
<1>8. KeysOf(p) = KeysOf(rows) \cap K
  <2>1. \A k \in KeysOf(p) : k \in KeysOf(rows) \cap K
    BY <1>5, <1>6 DEF KeysOf
  <2>2. ASSUME NEW k \in KeysOf(rows), k \in K PROVE k \in KeysOf(p)
    <3>1. PICK m \in 1 .. n : rows[m].key = k
      BY <1>1 DEF KeysOf
    <3>2. m \in wanted \cap (1 .. n)
      BY <1>1, <2>2, <3>1
    <3>3. PICK i \in 1 .. Len(p) : at[i] = m
      BY <1>4, <3>2
    <3> QED BY <1>5, <1>6, <3>1, <3>3 DEF KeysOf
  <2> QED BY <2>1, <2>2
<1>9. \A i, j \in 1 .. Len(p) : i < j => Position(rows, p[i].key) < Position(rows, p[j].key)
  BY <1>4, <1>6
<1> QED BY <1>3, <1>6, <1>7, <1>8, <1>9

(***************************************************************************)
(* The inductive invariant.                                                *)
(***************************************************************************)
ListIInv ==
  /\ Keyed(mounted)
  /\ scopes \in Int /\ orphans \in Int
  /\ RegionFollowsTheList
  /\ DepartedRowsAreReleased

\* Where each row is.
Was(rows) == [k \in Key |-> Position(rows, k)]

LEMMA Supplied ==
  ASSUME NEW items \in Supplies
  PROVE  items.keys \in Seq(Key) /\ items.edition \in Editions
<1>1. items.keys \in SeqOf(Key, MaxLength) /\ items.edition \in Editions
  BY DEF Supplies
<1>2. PICK m \in 0 .. MaxLength : items.keys \in [1 .. m -> Key]
  BY <1>1 DEF SeqOf
<1>3. m \in Nat
  BY ListAssumption
<1> DEFINE s == items.keys
<1>4. s \in Seq(Key)
  <2>1. s \in [1 .. m -> Key]
    BY <1>2
  <2> HIDE DEF s
  <2> QED BY <1>3, <2>1, SeqDef
<1> QED BY <1>1, <1>4

LEMMA NodesOfMinus ==
  ASSUME NEW A \in SUBSET Key, NEW B
  PROVE  NodesOf(A) \ NodesOf(A \ B) = NodesOf(A \cap B)
BY DEF NodesOf

LEMMA WasInOrder ==
  ASSUME NEW rows, Keyed(rows)
  PROVE  /\ \A x \in Key : Was(rows)[x] \in Int
         /\ \A i, j \in 1 .. Len(rows) : i < j => Was(rows)[rows[i].key] < Was(rows)[rows[j].key]
<1>1. /\ \A i \in 1 .. Len(rows) : rows[i].key \in Key /\ Position(rows, rows[i].key) = i
      /\ \A k \in KeysOf(rows) : Position(rows, k) \in 1 .. Len(rows)
  BY KeyedRows
<1>2. \A x \in Key : Was(rows)[x] = Position(rows, x)
  BY DEF Was
<1>3. \A x \in Key : x \notin KeysOf(rows) => Position(rows, x) = -1
  BY DEF Position, New
<1>4. ASSUME NEW x \in Key PROVE Was(rows)[x] \in Int
  <2>1. CASE x \in KeysOf(rows)
    <3>1. Position(rows, x) \in 1 .. Len(rows)
      BY <1>1, <2>1
    <3> QED BY <1>2, <3>1
  <2>2. CASE x \notin KeysOf(rows)
    BY <1>2, <1>3, <2>2
  <2> QED BY <2>1, <2>2
<1>5. ASSUME NEW i \in 1 .. Len(rows), NEW j \in 1 .. Len(rows), i < j
      PROVE  Was(rows)[rows[i].key] < Was(rows)[rows[j].key]
  <2>1. Was(rows)[rows[i].key] = i /\ Was(rows)[rows[j].key] = j
    BY <1>1, <1>2
  <2> QED BY <1>5, <2>1
<1> QED BY <1>4, <1>5

(* What pass 1 leaves: the rows that stay, in the order they were in.      *)
LEMMA AfterPassOne ==
  ASSUME ListIInv, NEW items \in Supplies
  PROVE  /\ Keyed(Surviving(items)) /\ Keyed(Gone(items))
         /\ KeysOf(Surviving(items)) = KeysOf(mounted) \cap ToSet(items.keys)
         /\ KeysOf(Gone(items)) = KeysOf(mounted) \ ToSet(items.keys)
         /\ \A i, j \in 1 .. Len(Surviving(items)) : i < j =>
              Was(mounted)[Surviving(items)[i].key] < Was(mounted)[Surviving(items)[j].key]
         /\ Retired(items) \in Seq(NodesOf(Key))
         /\ ToSet(Retired(items)) = NodesOf(KeysOf(mounted) \cap ToSet(items.keys))
         /\ InOrder(Retired(items), Key, Was(mounted))
<1> DEFINE A == ToSet(items.keys)
           M == KeysOf(mounted)
           S == Surviving(items)
           G == Gone(items)
           was == Was(mounted)
           away == UNION {ToSet(G[i].nodes) : i \in DOMAIN G}
<1>0. Keyed(mounted) /\ M \in SUBSET Key /\ DOMAIN mounted = 1 .. Len(mounted)
      /\ \A i \in 1 .. Len(mounted) : mounted[i].key \in M
  BY KeyedRows DEF ListIInv
<1>1. /\ Keyed(S) /\ KeysOf(S) = M \cap A
      /\ \A i \in 1 .. Len(S) : S[i].key \in M
      /\ \A i, j \in 1 .. Len(S) : i < j => Position(mounted, S[i].key) < Position(mounted, S[j].key)
  <2> DEFINE stay == {i \in DOMAIN mounted : mounted[i].key \in A}
  <2>1. S = Pick(mounted, stay) /\ \A i \in 1 .. Len(mounted) : i \in stay <=> mounted[i].key \in A
    BY <1>0 DEF Surviving
  <2> HIDE DEF A, S, stay
  <2> QED BY <1>0, <2>1, PickedRows
<1>2. Keyed(G) /\ KeysOf(G) = M \ A
  <2> DEFINE B == M \ A
  <2> DEFINE leave == {i \in DOMAIN mounted : mounted[i].key \notin A}
  <2>1. \A i \in 1 .. Len(mounted) : i \in leave <=> mounted[i].key \in B
    BY <1>0
  <2>2. G = Pick(mounted, leave)
    BY DEF Gone
  <2> HIDE DEF A, G, B, leave
  <2>3. Keyed(G) /\ KeysOf(G) = M \cap B
    BY <1>0, <2>1, <2>2, PickedRows
  <2> QED BY <2>3 DEF B
<1>3. \A i, j \in 1 .. Len(S) : i < j => was[S[i].key] < was[S[j].key]
  <2>1. \A k \in M : was[k] = Position(mounted, k)
    BY <1>0 DEF Was
  <2> HIDE DEF was, M, S
  <2> QED BY <1>1, <2>1
<1>4. region \in Seq(NodesOf(Key)) /\ ToSet(region) = NodesOf(M) /\ InOrder(region, Key, was)
  <2>1. region = FlattenSeq(RowNodes(mounted))
    BY DEF ListIInv, RegionFollowsTheList, RowNodes
  <2>2. \A i, j \in 1 .. Len(mounted) : i < j => was[mounted[i].key] < was[mounted[j].key]
    BY <1>0, WasInOrder
  <2> HIDE DEF was
  <2> QED BY <1>0, <2>1, <2>2, RowsFlattened
<1>5. away = NodesOf(M \ A)
  <2>1. DOMAIN G = 1 .. Len(G) /\ \A i \in 1 .. Len(G) : G[i].key \in Key
    BY <1>2, KeyedRows
  <2>2. \A i \in 1 .. Len(G) : ToSet(G[i].nodes) = NodesOf({G[i].key})
    <3>1. \A i \in 1 .. Len(G) : G[i].nodes = Rendered(G[i].key)
      BY <1>2 DEF Keyed
    <3> HIDE DEF G
    <3> QED BY <2>1, <3>1, RenderedNodes
  <2>3. NodesOf(KeysOf(G)) = UNION {NodesOf({G[i].key}) : i \in 1 .. Len(G)}
    <3> HIDE DEF G
    <3> QED BY <2>1 DEF NodesOf, KeysOf
  <2>4. away = UNION {NodesOf({G[i].key}) : i \in 1 .. Len(G)}
    <3> HIDE DEF G
    <3> QED BY <2>1, <2>2
  <2> QED BY <1>2, <2>3, <2>4
<1>6. Retired(items) = Kept(region, away)
  BY DEF Retired
<1> HIDE DEF away, A, M, was, S, G
<1>7. /\ Kept(region, away) \in Seq(NodesOf(Key))
      /\ ToSet(Kept(region, away)) = NodesOf(M) \ away
      /\ InOrder(Kept(region, away), Key, was)
  BY <1>4, KeptNodes
<1>8. NodesOf(M) \ away = NodesOf(M \cap A)
  BY <1>0, <1>5, NodesOfMinus
<1> QED BY <1>1, <1>2, <1>3, <1>6, <1>7, <1>8 DEF A, M, was, S, G

-----------------------------------------------------------------------------
(* Counting scopes.                                                        *)

LEMMA Counts ==
  ASSUME ListIInv, NEW items \in Supplies
  PROVE  /\ Len(mounted) \in Nat /\ Len(Gone(items)) \in Nat /\ Len(Surviving(items)) \in Nat
         /\ Len(mounted) = Len(Surviving(items)) + Len(Gone(items))
         /\ \A n \in 0 .. Len(items.keys) : Cardinality(BuiltUpTo(items, n)) \in Nat
         /\ IsInjective(items.keys) =>
              Len(items.keys) = Len(Surviving(items)) + Cardinality(BuiltUpTo(items, Len(items.keys)))
<1> DEFINE A == ToSet(items.keys)
           M == KeysOf(mounted)
           S == Surviving(items)
           G == Gone(items)
<1>1. /\ Keyed(mounted) /\ Keyed(S) /\ Keyed(G)
      /\ KeysOf(S) = M \cap A /\ KeysOf(G) = M \ A
  BY AfterPassOne DEF ListIInv
<1>2. /\ IsFiniteSet(M) /\ Cardinality(M) = Len(mounted) /\ Len(mounted) \in Nat
      /\ Cardinality(M \cap A) = Len(S) /\ Len(S) \in Nat
      /\ Cardinality(M \ A) = Len(G) /\ Len(G) \in Nat
  <2> HIDE DEF S, G
  <2> QED BY <1>1, KeyedRows
<1>3. items.keys \in Seq(Key) /\ DOMAIN items.keys = 1 .. Len(items.keys) /\ Len(items.keys) \in Nat
  BY Supplied, LenProperties
<1>4. Len(mounted) = Len(S) + Len(G)
  <2> HIDE DEF M, A, S, G
  <2>1. Cardinality(M \ A) = Cardinality(M) - Cardinality(M \cap A)
    BY <1>2, FS_Difference
  <2> QED BY <1>2, <2>1
<1>5. IsFiniteSet(A)
  <2> DEFINE s == items.keys
             n == Len(s)
  <2>1. s \in Surjection(1 .. n, A)
    <3>1. s \in [1 .. n -> A] /\ \A x \in A : \E i \in 1 .. n : s[i] = x
      BY <1>3 DEF ToSet
    <3> HIDE DEF s, n, A
    <3> QED BY <3>1 DEF Surjection
  <2>2. IsFiniteSet(1 .. n)
    BY <1>3, FS_Interval
  <2> HIDE DEF s, n, A
  <2> QED BY <2>1, <2>2, FS_Surjection
<1>6. ASSUME NEW n \in 0 .. Len(items.keys) PROVE Cardinality(BuiltUpTo(items, n)) \in Nat
  <2>1. BuiltUpTo(items, n) \in SUBSET A
    <3>1. \A i \in 1 .. n : i \in DOMAIN items.keys
      BY <1>3
    <3> QED BY <3>1 DEF BuiltUpTo, ToSet
  <2> HIDE DEF A
  <2> QED BY <1>5, <2>1, FS_Subset, FS_CardinalityType
<1>7. ASSUME IsInjective(items.keys)
      PROVE  Len(items.keys) = Len(S) + Cardinality(BuiltUpTo(items, Len(items.keys)))
  <2> DEFINE s == items.keys
             n == Len(s)
             new == BuiltUpTo(items, n)
  <2>1. Cardinality(A) = n
    <3>1. s \in Seq(Key) /\ \A i, j \in 1 .. Len(s) : s[i] = s[j] => i = j
      BY <1>3, <1>7 DEF IsInjective
    <3> HIDE DEF s
    <3>2. Cardinality(ToSet(s)) = Len(s)
      BY <3>1, AsManyKeys
    <3> QED BY <3>2 DEF s
  <2>2. new = A \ M
    BY <1>3 DEF BuiltUpTo, ToSet
  <2>3. n \in Nat
    BY <1>3
  <2>4. A \cap M = M \cap A
    OBVIOUS
  <2> HIDE DEF A, M, n, new, S
  <2>5. Cardinality(A \ M) = Cardinality(A) - Cardinality(A \cap M)
    BY <1>5, FS_Difference
  <2>6. Cardinality(new) = n - Len(S)
    BY <1>2, <2>1, <2>2, <2>4, <2>5
  <2>7. n = Len(S) + Cardinality(new)
    BY <1>2, <2>3, <2>6
  <2> QED BY <2>7 DEF n, new
<1> QED BY <1>2, <1>4, <1>6, <1>7

LEMMA RowForKey ==
  ASSUME ListIInv, NEW items \in Supplies, NEW k \in Key
  PROVE  /\ RowFor(items, k) \in Row
         /\ RowFor(items, k).key = k /\ RowFor(items, k).nodes = Rendered(k)
         /\ RowFor(items, k).edition = items.edition
<1>0. items.edition \in Editions /\ Rendered(k) \in Seq(NodesOf(Key)) /\ Keyed(mounted)
  BY Supplied, RenderedNodes DEF ListIInv
<1>1. CASE k \in KeysOf(mounted)
  <2> DEFINE i == CHOOSE i \in DOMAIN mounted : mounted[i].key = k
  <2>1. i \in 1 .. Len(mounted) /\ mounted[i].key = k /\ mounted[i] \in Row
    <3>1. \E j \in DOMAIN mounted : mounted[j].key = k
      BY <1>1 DEF KeysOf
    <3>2. i \in DOMAIN mounted /\ mounted[i].key = k
      BY <3>1
    <3> HIDE DEF i
    <3> QED BY <1>0, <3>2, KeyedRows
  <2>2. RowFor(items, k) = [mounted[i] EXCEPT !.edition = items.edition]
    BY <1>1 DEF RowFor, RowOf
  <2> HIDE DEF i
  <2>3. mounted[i].nodes = Rendered(k)
    BY <1>0, <2>1 DEF Keyed
  <2> QED BY <1>0, <2>1, <2>2, <2>3 DEF Row
<1>2. CASE k \notin KeysOf(mounted)
  <2>1. RowFor(items, k) = [key |-> k, nodes |-> Rendered(k), edition |-> items.edition]
    BY <1>2 DEF RowFor
  <2> DEFINE nodes == Rendered(k)
  <2> HIDE DEF nodes
  <2>2. RowFor(items, k) = [key |-> k, nodes |-> nodes, edition |-> items.edition]
        /\ nodes \in Seq(NodesOf(Key))
    BY <1>0, <2>1 DEF nodes
  <2>3. RowFor(items, k) \in Row
    BY <1>0, <2>2 DEF Row
  <2> QED BY <2>2, <2>3 DEF nodes
<1> QED BY <1>1, <1>2

(* Rows that differ only in their editions.                                *)
LEMMA OtherEditions ==
  ASSUME NEW rows, Keyed(rows), NEW others, others = [i \in DOMAIN rows |-> others[i]],
         \A i \in DOMAIN rows : /\ others[i] \in Row
                                /\ others[i].key = rows[i].key /\ others[i].nodes = rows[i].nodes
  PROVE  Keyed(others) /\ RowNodes(others) = RowNodes(rows) /\ Len(others) = Len(rows)
<1>1. DOMAIN rows = 1 .. Len(rows) /\ Len(rows) \in Nat /\ DOMAIN others = 1 .. Len(rows)
  BY KeyedRows
<1>2. others \in Seq(Row) /\ Len(others) = Len(rows)
  <2>1. others \in [1 .. Len(rows) -> Row]
    BY <1>1
  <2>2. others \in Seq(Row)
    BY <1>1, <2>1, SeqDef
  <2> QED BY <1>1, <2>2, LenProperties
<1>3. Keyed(others)
  BY <1>1, <1>2 DEF Keyed
<1>4. RowNodes(others) = RowNodes(rows)
  BY <1>1 DEF RowNodes
<1> QED BY <1>2, <1>3, <1>4

LEMMA RenderThrowsStep ==
  ASSUME ListIInv, NEW items \in Supplies, NEW n \in DOMAIN items.keys, RenderThrows(items, n)
  PROVE  ListIInv'
<1> DEFINE S == Surviving(items)
           was == Was(mounted)
           resupplied == {items.keys[i] : i \in 1 .. n - 1}
           rows == [i \in DOMAIN S |->
                     [S[i] EXCEPT !.edition = IF S[i].key \in resupplied THEN items.edition ELSE @]]
           built == BuiltUpTo(items, n - 1)
<1>1. /\ mounted' = rows /\ region' = Retired(items) /\ outcome' = "thrown"
      /\ scopes' = (scopes - Len(Gone(items))) + Cardinality(built)
      /\ orphans' = orphans + Cardinality(built)
  BY DEF RenderThrows, Scopes
<1>2. /\ Keyed(S) /\ KeysOf(S) = KeysOf(mounted) \cap ToSet(items.keys)
      /\ \A i, j \in 1 .. Len(S) : i < j => was[S[i].key] < was[S[j].key]
      /\ region' \in Seq(NodesOf(Key))
      /\ ToSet(region') = NodesOf(KeysOf(S))
      /\ InOrder(region', Key, was)
  BY <1>1, AfterPassOne
<1>3. Keyed(rows) /\ RowNodes(rows) = RowNodes(S) /\ Len(rows) = Len(S)
  <2>1. \A i \in DOMAIN S : S[i] \in Row
    BY <1>2, KeyedRows
  <2>2. items.edition \in Editions
    BY Supplied
  <2> HIDE DEF S, resupplied
  <2>3. \A i \in DOMAIN S : /\ rows[i] \in Row
                            /\ rows[i].key = S[i].key /\ rows[i].nodes = S[i].nodes
    BY <2>1, <2>2 DEF Row
  <2>4. rows = [i \in DOMAIN S |-> rows[i]]
    OBVIOUS
  <2> HIDE DEF rows
  <2> QED BY <1>2, <2>3, <2>4, OtherEditions
<1>4. region' = FlattenSeq(RowNodes(S))
  <2> DEFINE s == region'
             t == FlattenSeq(RowNodes(S))
  <2> HIDE DEF S, was
  <2>1. t \in Seq(NodesOf(Key)) /\ ToSet(t) = NodesOf(KeysOf(S)) /\ InOrder(t, Key, was)
    BY <1>2, RowsFlattened
  <2>2. s \in Seq(NodesOf(Key)) /\ ToSet(s) = ToSet(t) /\ InOrder(s, Key, was)
    BY <1>2, <2>1
  <2>3. \A x \in ToSet(s) : x.key \in Key /\ was[x.key] \in Int
    <3>1. \A x \in ToSet(s) : x \in NodesOf(Key)
      BY <2>2, OwnElements
    <3>2. \A x \in Key : was[x] \in Int
      BY WasInOrder DEF ListIInv, was
    <3> QED BY <3>1, <3>2 DEF NodesOf
  <2> HIDE DEF s, t
  <2>4. s = t
    BY <2>1, <2>2, <2>3, OneOrder
  <2> QED BY <2>4 DEF s, t
<1>5. RegionFollowsTheList'
  <2>1. region' = FlattenSeq(RowNodes(mounted'))
    BY <1>1, <1>3, <1>4
  <2> QED BY <1>1, <2>1 DEF RegionFollowsTheList, RowNodes
<1>6. /\ scopes' \in Int /\ orphans' \in Int
      /\ DepartedRowsAreReleased'
  <2>1. n - 1 \in 0 .. Len(items.keys)
    BY Supplied, LenProperties
  <2>2. /\ Len(mounted) \in Nat /\ Len(Gone(items)) \in Nat /\ Len(S) \in Nat
        /\ Len(mounted) = Len(S) + Len(Gone(items)) /\ Cardinality(built) \in Nat
    BY <2>1, Counts
  <2>3. Len(mounted') = Len(S)
    BY <1>1, <1>3
  <2>4. scopes = Len(mounted) + orphans /\ scopes \in Int /\ orphans \in Int
    BY DEF ListIInv, DepartedRowsAreReleased
  <2> HIDE DEF built, S, rows
  <2>5. scopes' = Len(mounted') + orphans' /\ scopes' \in Int /\ orphans' \in Int
    BY <1>1, <2>2, <2>3, <2>4
  <2> QED BY <2>5 DEF DepartedRowsAreReleased
<1>7. Keyed(mounted)'
  BY <1>1, <1>3
<1> QED BY <1>5, <1>6, <1>7 DEF ListIInv

\* The order of a list.
PlaceIn(keys) ==
  [x \in Key |-> IF x \in ToSet(keys) THEN CHOOSE i \in 1 .. Len(keys) : keys[i] = x ELSE 0]

LEMMA PlaceInOrder ==
  ASSUME NEW keys \in Seq(Key), \A i, j \in 1 .. Len(keys) : keys[i] = keys[j] => i = j
  PROVE  /\ \A x \in Key : PlaceIn(keys)[x] \in Int
         /\ \A i \in 1 .. Len(keys) : PlaceIn(keys)[keys[i]] = i
<1> DEFINE L == Len(keys)
<1>0. L \in Nat /\ DOMAIN keys = 1 .. L /\ \A i \in 1 .. L : keys[i] \in Key
  BY LenProperties, ElementOfSeq
<1>1. ASSUME NEW x \in ToSet(keys), x \in Key
      PROVE  PlaceIn(keys)[x] \in 1 .. L /\ keys[PlaceIn(keys)[x]] = x
  <2>1. \E i \in 1 .. L : keys[i] = x
    BY <1>0 DEF ToSet
  <2>2. PlaceIn(keys)[x] = CHOOSE i \in 1 .. L : keys[i] = x
    BY <1>1 DEF PlaceIn
  <2> QED BY <2>1, <2>2
<1>2. ASSUME NEW x \in Key PROVE PlaceIn(keys)[x] \in Int
  <2>1. CASE x \in ToSet(keys)
    <3>1. PlaceIn(keys)[x] \in 1 .. L
      BY <1>1, <2>1
    <3> QED BY <3>1
  <2>2. CASE x \notin ToSet(keys)
    BY <2>2 DEF PlaceIn
  <2> QED BY <2>1, <2>2
<1>3. ASSUME NEW i \in 1 .. L PROVE PlaceIn(keys)[keys[i]] = i
  <2>1. keys[i] \in ToSet(keys) /\ keys[i] \in Key
    BY <1>0 DEF ToSet
  <2> QED BY <1>1, <2>1
<1> QED BY <1>2, <1>3

\* Where the rows that stay stood, in the order of the new list.
From(items) == [i \in DOMAIN items.keys |-> Position(Surviving(items), items.keys[i])]

(* The rows that stay keep the order they had.                             *)
LEMMA FromRows ==
  ASSUME ListIInv, NEW items \in Supplies, IsInjective(items.keys)
  PROVE  LET from == From(items)
             keys == items.keys
         IN /\ from \in Seq(Int) /\ Len(from) = Len(keys)
            /\ \A i \in 1 .. Len(keys) : from[i] # New <=> keys[i] \in KeysOf(mounted)
            /\ \A i, j \in 1 .. Len(keys) :
                 keys[i] \in KeysOf(mounted) /\ keys[j] \in KeysOf(mounted) =>
                   (from[i] < from[j] <=> Was(mounted)[keys[i]] < Was(mounted)[keys[j]])
<1> DEFINE keys == items.keys
           L == Len(keys)
           A == ToSet(keys)
           M == KeysOf(mounted)
           old == M \cap A
           S == Surviving(items)
           from == From(items)
           was == Was(mounted)
<1>1. /\ keys \in Seq(Key) /\ L \in Nat /\ DOMAIN keys = 1 .. L
      /\ \A i \in 1 .. L : keys[i] \in Key /\ keys[i] \in A
  BY Supplied, LenProperties, ElementOfSeq DEF ToSet
<1>2. \A k \in Key : was[k] \in Int
  BY WasInOrder DEF ListIInv
<1>3. /\ Keyed(S) /\ KeysOf(S) = old
      /\ \A i, j \in 1 .. Len(S) : i < j => was[S[i].key] < was[S[j].key]
  BY AfterPassOne
<1>4. /\ \A k \in old : Position(S, k) \in 1 .. Len(S) /\ S[Position(S, k)].key = k
      /\ Len(S) \in Nat
  <2> HIDE DEF S, old
  <2> QED BY <1>3, KeyedRows
<1>5. \A k \in Key : k \notin old => Position(S, k) = New
  <2> HIDE DEF S, old
  <2> QED BY <1>3 DEF Position
<1>6. \A i \in 1 .. L : Position(S, keys[i]) \in Int /\ (Position(S, keys[i]) # New <=> keys[i] \in M)
  <2>1. ASSUME NEW i \in 1 .. L
        PROVE  Position(S, keys[i]) \in Int /\ (Position(S, keys[i]) # New <=> keys[i] \in M)
    <3>1. CASE keys[i] \in M
      <4>1. Position(S, keys[i]) \in 1 .. Len(S)
        BY <1>1, <1>4, <3>1
      <4> QED BY <3>1, <4>1 DEF New
    <3>2. CASE keys[i] \notin M
      BY <1>1, <1>5, <3>2 DEF New
    <3> QED BY <3>1, <3>2
  <2> QED BY <2>1
<1>7. /\ from \in Seq(Int) /\ Len(from) = L
      /\ \A i \in 1 .. L : from[i] = Position(S, keys[i])
  <2>1. from = [i \in 1 .. L |-> Position(S, keys[i])]
    BY <1>1 DEF From
  <2> HIDE DEF from, keys, L, S
  <2>2. from \in [1 .. L -> Int]
    BY <1>6, <2>1
  <2>3. from \in Seq(Int)
    BY <1>1, <2>2, SeqDef
  <2>4. Len(from) = L
    BY <1>1, <2>2, <2>3, LenProperties
  <2> QED BY <2>1, <2>3, <2>4
<1>8. ASSUME NEW i \in 1 .. L, NEW j \in 1 .. L, keys[i] \in M, keys[j] \in M
      PROVE  from[i] < from[j] <=> was[keys[i]] < was[keys[j]]
  <2> DEFINE p == from[i]
             q == from[j]
  <2>1. p \in 1 .. Len(S) /\ q \in 1 .. Len(S) /\ S[p].key = keys[i] /\ S[q].key = keys[j]
    BY <1>1, <1>4, <1>7, <1>8
  <2> HIDE DEF p, q, S
  <2>2. /\ p < q => was[keys[i]] < was[keys[j]]
        /\ q < p => was[keys[j]] < was[keys[i]]
        /\ p = q => was[keys[j]] = was[keys[i]]
    BY <1>3, <2>1
  <2> DEFINE a == was[keys[i]]
             b == was[keys[j]]
  <2>3. a \in Int /\ b \in Int /\ p \in Int /\ q \in Int
    BY <1>1, <1>2, <2>1
  <2>4. (p < q => a < b) /\ (q < p => b < a) /\ (p = q => a = b)
    BY <2>2
  <2> HIDE DEF a, b
  <2>5. p < q <=> a < b
    BY <2>3, <2>4
  <2> QED BY <2>5 DEF a, b, p, q
<1> HIDE DEF from, keys, S, was, M, L
<1>9. \A i \in 1 .. L : from[i] # New <=> keys[i] \in M
  BY <1>6, <1>7
<1> QED BY <1>7, <1>8, <1>9 DEF from, keys, was, M, L

(* What pass 3 starts from.                                                *)
LEMMA ReadyToPlace ==
  ASSUME ListIInv, NEW items \in Supplies, IsInjective(items.keys),
         NEW rows, DOMAIN rows = DOMAIN items.keys, Len(rows) = Len(items.keys),
         \A i \in DOMAIN items.keys : rows[i].nodes = Rendered(items.keys[i])
  PROVE  Prepared(items.keys, rows, SettledRows(From(items)),
                  KeysOf(mounted) \cap ToSet(items.keys), PlaceIn(items.keys), Retired(items))
<1> DEFINE keys == items.keys
           L == Len(keys)
           A == ToSet(keys)
           M == KeysOf(mounted)
           old == M \cap A
           from == From(items)
           settled == SettledRows(from)
           place == PlaceIn(keys)
           was == Was(mounted)
           nodes == Retired(items)
<1>1. /\ keys \in Seq(Key) /\ L \in Nat /\ DOMAIN keys = 1 .. L
      /\ \A i \in 1 .. L : keys[i] \in Key /\ keys[i] \in A
      /\ \A i, j \in 1 .. L : keys[i] = keys[j] => i = j
  BY Supplied, LenProperties, ElementOfSeq DEF IsInjective, ToSet
<1>2. /\ \A x \in Key : place[x] \in Int
      /\ \A i \in 1 .. L : place[keys[i]] = i
  <2> HIDE DEF keys, place
  <2> QED BY <1>1, PlaceInOrder DEF place
<1>3. nodes \in Seq(NodesOf(Key)) /\ ToSet(nodes) = NodesOf(old) /\ InOrder(nodes, Key, was)
  BY AfterPassOne
<1>4. /\ from \in Seq(Int) /\ Len(from) = L
      /\ \A i \in 1 .. L : from[i] # New <=> keys[i] \in M
      /\ \A i, j \in 1 .. L : keys[i] \in M /\ keys[j] \in M =>
           (from[i] < from[j] <=> was[keys[i]] < was[keys[j]])
  BY FromRows
<1>5. /\ settled \subseteq 1 .. L
      /\ \A i \in settled : from[i] # New
      /\ \A i, j \in settled : i < j => from[i] < from[j]
  <2> HIDE DEF from
  <2>1. Ascending(from, SettledRows(from))
    BY <1>4, SettledIsLongest
  <2> QED BY <1>4, <2>1 DEF Ascending
<1> HIDE DEF settled, from, nodes, place, was, M, L
<1>7. \A i \in settled : i \in 1 .. L /\ keys[i] \in old /\ keys[i] \in Key /\ place[keys[i]] = i
  BY <1>1, <1>2, <1>4, <1>5
<1>8. \A k \in Key : was[k] \in Int
  BY WasInOrder DEF ListIInv, was
<1> DEFINE F == {keys[i] : i \in settled}
<1>9. \A x, y \in F : was[x] < was[y] => place[x] < place[y]
  <2>1. ASSUME NEW i \in settled, NEW j \in settled, was[keys[i]] < was[keys[j]]
        PROVE  i < j
    <3>1. i \in Int /\ j \in Int /\ was[keys[i]] \in Int /\ was[keys[j]] \in Int
      BY <1>7, <1>8
    <3>2. ~ (j < i)
      <4>1. SUFFICES ASSUME j < i PROVE FALSE
        OBVIOUS
      <4>2. from[j] < from[i]
        BY <1>5, <4>1
      <4>3. was[keys[j]] < was[keys[i]]
        BY <1>4, <1>7, <4>2
      <4> QED BY <2>1, <3>1, <4>3
    <3>3. i # j
      BY <2>1, <3>1
    <3> QED BY <3>1, <3>2, <3>3
  <2> HIDE DEF keys
  <2> QED BY <1>7, <2>1
<1>10. InOrder(nodes, F, place)
  <2>1. ASSUME NEW i \in 1 .. Len(nodes), NEW j \in 1 .. Len(nodes), i < j,
               nodes[i].key \in F, nodes[j].key \in F
        PROVE  Before(nodes[i], nodes[j], place)
    <3>1. F \subseteq Key
      BY <1>7
    <3> HIDE DEF F
    <3>2. Before(nodes[i], nodes[j], was)
      BY <1>3, <2>1, <3>1 DEF InOrder
    <3> QED BY <1>9, <2>1, <3>2 DEF Before
  <2> QED BY <2>1 DEF InOrder
<1>11. \A i \in 1 .. L : rows[i].nodes = Rendered(keys[i])
  BY <1>1 DEF L
<1>12. Prepared(keys, rows, settled, old, place, nodes)
  <2>1. old \subseteq ToSet(keys)
    BY DEF old
  <2>2. settled \subseteq 1 .. L /\ \A i \in settled : keys[i] \in old
    BY <1>5, <1>7 DEF L
  <2>3. Len(rows) = Len(keys) /\ InOrder(nodes, {keys[i] : i \in settled}, place)
    BY <1>10
  <2> HIDE DEF keys
  <2> QED BY <1>1, <1>2, <1>3, <1>11, <2>1, <2>2, <2>3 DEF Prepared, L
<1> QED BY <1>12 DEF settled, from, old, nodes, place, M

LEMMA ReconcileStep ==
  ASSUME ListIInv, NEW items \in Supplies, Reconcile(items)
  PROVE  ListIInv'
<1> DEFINE keys == items.keys
           L == Len(keys)
           A == ToSet(keys)
           rows == [i \in DOMAIN keys |-> RowFor(items, keys[i])]
           settled == SettledRows(From(items))
           place == PlaceIn(keys)
           built == BuiltUpTo(items, L)
<1>1. /\ IsInjective(items.keys)
      /\ mounted' = rows /\ region' = PlacedNodes(Retired(items), rows, settled)
      /\ outcome' = "ok" /\ list' = items
      /\ scopes' = (scopes - Len(Gone(items))) + Cardinality(built) /\ orphans' = orphans
  BY DEF Reconcile, Scopes, From
<1>2. /\ keys \in Seq(Key) /\ L \in Nat /\ DOMAIN keys = 1 .. L
      /\ \A i \in 1 .. L : keys[i] \in Key /\ keys[i] \in A
      /\ \A i, j \in 1 .. L : keys[i] = keys[j] => i = j
  BY <1>1, Supplied, LenProperties, ElementOfSeq DEF IsInjective, ToSet
<1>3. \A i \in 1 .. L : /\ rows[i] \in Row /\ rows[i].key = keys[i]
                        /\ rows[i].nodes = Rendered(keys[i]) /\ rows[i].edition = items.edition
  <2>1. \A i \in 1 .. L : rows[i] = RowFor(items, keys[i])
    BY <1>2
  <2> HIDE DEF rows, keys, L
  <2> QED BY <1>2, <2>1, RowForKey
<1>4. rows = [i \in 1 .. L |-> rows[i]]
  BY <1>2
<1> HIDE DEF rows
<1>5. rows \in Seq(Row) /\ Len(rows) = L /\ DOMAIN rows = 1 .. L
  <2> HIDE DEF L
  <2>1. rows \in [1 .. L -> Row]
    BY <1>3, <1>4
  <2>2. rows \in Seq(Row)
    BY <1>2, <2>1, SeqDef
  <2> QED BY <1>2, <2>1, <2>2, LenProperties
<1>6. Keyed(rows)
  <2> HIDE DEF L, keys
  <2> QED BY <1>2, <1>3, <1>5 DEF Keyed
<1>7. KeysOf(rows) = A
  <2>1. \A i \in 1 .. L : rows[i].key = keys[i]
    BY <1>3
  <2> QED BY <1>2, <1>5, <2>1 DEF KeysOf, ToSet
<1>8. Prepared(keys, rows, settled, KeysOf(mounted) \cap A, place, Retired(items))
  <2>1. \A i \in DOMAIN items.keys : rows[i].nodes = Rendered(items.keys[i])
    BY <1>2, <1>3
  <2> QED BY <1>1, <1>2, <1>5, <2>1, ReadyToPlace
<1>9. /\ region' \in Seq(NodesOf(Key)) /\ ToSet(region') = NodesOf(A)
      /\ InOrder(region', A, place)
  <2> DEFINE old == KeysOf(mounted) \cap A
             start == Retired(items)
  <2> HIDE DEF keys, settled, place, old, start
  <2>1. Prepared(keys, rows, settled, old, place, start)
    BY <1>8 DEF old, start
  <2>2. LET result == PlacedNodes(start, rows, settled)
        IN /\ result \in Seq(NodesOf(Key)) /\ ToSet(result) = NodesOf(ToSet(keys))
           /\ InOrder(result, ToSet(keys), place)
    BY <2>1, PlacedInOrder
  <2> QED BY <1>1, <2>2 DEF start
<1>10. region' = FlattenSeq(RowNodes(rows))
  <2> DEFINE s == region'
             t == FlattenSeq(RowNodes(rows))
  <2>0. /\ \A x \in Key : place[x] \in Int
        /\ \A i \in 1 .. L : place[keys[i]] = i
    <3> HIDE DEF keys, place
    <3> QED BY <1>2, PlaceInOrder DEF place
  <2>1. \A i, j \in 1 .. Len(rows) : i < j => place[rows[i].key] < place[rows[j].key]
    <3>1. \A i \in 1 .. L : place[rows[i].key] = i
      BY <1>3, <2>0
    <3> HIDE DEF place, L
    <3> QED BY <1>5, <3>1
  <2> HIDE DEF place
  <2>2. t \in Seq(NodesOf(Key)) /\ ToSet(t) = NodesOf(KeysOf(rows)) /\ InOrder(t, Key, place)
    BY <1>6, <2>1, RowsFlattened
  <2>3. InOrder(t, A, place)
    <3>1. A \subseteq Key
      BY <1>7, <1>6, KeyedRows
    <3> HIDE DEF t, A
    <3> QED BY <2>2, <3>1 DEF InOrder
  <2>4. \A x \in ToSet(s) : x.key \in A /\ place[x.key] \in Int
    <3>1. \A x \in NodesOf(A) : x.key \in A /\ x.key \in Key
      BY DEF NodesOf
    <3> HIDE DEF A
    <3> QED BY <1>9, <2>0, <3>1
  <2>5. s \in Seq(NodesOf(Key)) /\ InOrder(s, A, place) /\ ToSet(s) = ToSet(t)
    BY <1>7, <1>9, <2>2
  <2> HIDE DEF s, t, A
  <2>6. s = t
    BY <2>2, <2>3, <2>4, <2>5, OneOrder
  <2> QED BY <2>6 DEF s, t
<1>11. RegionFollowsTheList'
  <2>1. region' = FlattenSeq(RowNodes(mounted'))
    BY <1>1, <1>10
  <2>2. [i \in DOMAIN mounted' |-> mounted'[i].key] = items.keys
    <3>1. DOMAIN mounted' = DOMAIN keys /\ \A i \in DOMAIN keys : mounted'[i].key = keys[i]
      BY <1>1, <1>2, <1>3, <1>5
    <3>2. keys = [i \in DOMAIN keys |-> keys[i]]
      <4> HIDE DEF keys
      <4> QED BY <1>2
    <3> HIDE DEF keys
    <3>3. [i \in DOMAIN mounted' |-> mounted'[i].key] = keys
      BY <3>1, <3>2
    <3> QED BY <3>3 DEF keys
  <2>3. \A i \in DOMAIN mounted' : mounted'[i].edition = items.edition
    BY <1>1, <1>3, <1>5
  <2> QED BY <1>1, <2>1, <2>2, <2>3 DEF RegionFollowsTheList, RowNodes
<1>12. scopes' \in Int /\ orphans' \in Int /\ DepartedRowsAreReleased'
  <2>1. /\ Len(mounted) \in Nat /\ Len(Gone(items)) \in Nat /\ Len(Surviving(items)) \in Nat
        /\ Len(mounted) = Len(Surviving(items)) + Len(Gone(items))
        /\ Cardinality(built) \in Nat
        /\ L = Len(Surviving(items)) + Cardinality(built)
    <3>1. L \in 0 .. Len(items.keys)
      BY <1>2
    <3> QED BY <1>1, <3>1, Counts
  <2>2. Len(mounted') = L
    BY <1>1, <1>5
  <2>3. scopes = Len(mounted) + orphans /\ scopes \in Int /\ orphans \in Int
    BY DEF ListIInv, DepartedRowsAreReleased
  <2> HIDE DEF built, L
  <2>4. scopes' = Len(mounted') + orphans' /\ scopes' \in Int /\ orphans' \in Int
    BY <1>1, <2>1, <2>2, <2>3
  <2> QED BY <2>4 DEF DepartedRowsAreReleased
<1>13. Keyed(mounted)'
  BY <1>1, <1>6
<1> QED BY <1>11, <1>12, <1>13 DEF ListIInv

-----------------------------------------------------------------------------
(* At the start there are no rows.                                         *)
LEMMA ListInitially == ListInit => ListIInv
<1> SUFFICES ASSUME ListInit PROVE ListIInv
  OBVIOUS
<1> DEFINE none == <<>>
<1>1. /\ region = none /\ mounted = none /\ scopes = 0 /\ orphans = 0
      /\ list.keys = none /\ Len(none) = 0 /\ DOMAIN none = {}
  BY EmptySeq DEF ListInit
<1>2. Keyed(none)
  <2>1. none \in Seq(Row)
    OBVIOUS
  <2> HIDE DEF none
  <2> QED BY <1>1, <2>1 DEF Keyed
<1>3. [i \in {} |-> none[i].key] = none /\ [i \in {} |-> none[i].nodes] = none
  OBVIOUS
<1>4. FlattenSeq(none) = none
  <2>1. FlattenSeq(<<>>) = <<>>
    BY EmptySeq DEF FlattenSeq
  <2> QED BY <2>1
<1> HIDE DEF none
<1>5. RegionFollowsTheList
  BY <1>1, <1>3, <1>4 DEF RegionFollowsTheList
<1> QED BY <1>1, <1>2, <1>5 DEF ListIInv, DepartedRowsAreReleased

LEMMA ListInductive == ListIInv /\ [ListNext]_listVars => ListIInv'
<1> SUFFICES ASSUME ListIInv, [ListNext]_listVars PROVE ListIInv'
  OBVIOUS
<1>1. CASE UNCHANGED listVars
  BY <1>1 DEF listVars, ListIInv, RegionFollowsTheList, DepartedRowsAreReleased
<1>2. ASSUME NEW items \in Successors, Refuse(items) PROVE ListIInv'
  BY <1>2 DEF Refuse, ListIInv, RegionFollowsTheList, DepartedRowsAreReleased
<1>3. ASSUME NEW items \in Successors, Reconcile(items) PROVE ListIInv'
  BY <1>3, ReconcileStep DEF Successors
<1>4. ASSUME NEW items \in Successors, NEW n \in DOMAIN items.keys, RenderThrows(items, n)
      PROVE  ListIInv'
  BY <1>4, RenderThrowsStep DEF Successors
<1> QED BY <1>1, <1>2, <1>3, <1>4 DEF ListNext

(* After any lists, refused, half-way or accepted, the mounted rows are of *)
(* different keys, and region and scopes are what follows from them.       *)
THEOREM ListInvariance == ListSpec => []ListIInv
<1>1. ListInit => ListIInv
  BY ListInitially
<1>2. ListIInv /\ [ListNext]_listVars => ListIInv'
  BY ListInductive
<1> QED BY <1>1, <1>2, PTL DEF ListSpec

(* What list.js leaves between the anchors is the rows of its map in their *)
(* order, and after an accepted list that list, whatever failed before.    *)
THEOREM RegionFollowsTheListAlways == ListSpec => []RegionFollowsTheList
<1>1. ListIInv => RegionFollowsTheList
  BY DEF ListIInv
<1> QED BY <1>1, ListInvariance, PTL

(* Whichever list dropped a row, the row's scope was disposed: only rows   *)
(* list.js built for a list that then threw stay subscribed.               *)
THEOREM DepartedRowsAreReleasedAlways == ListSpec => []DepartedRowsAreReleased
<1>1. ListIInv => DepartedRowsAreReleased
  BY DEF ListIInv
<1> QED BY <1>1, ListInvariance, PTL

-----------------------------------------------------------------------------
(* Rows are moved only if they must be.                                    *)

\* The places of these keys in a list, and the other way round, as many.
PlacesOf(keys, K) == {i \in 1 .. Len(keys) : keys[i] \in K}

LEMMA AsManyPlaces ==
  ASSUME NEW keys \in Seq(Key), \A i, j \in 1 .. Len(keys) : keys[i] = keys[j] => i = j,
         NEW I \in SUBSET (1 .. Len(keys))
  PROVE  /\ IsFiniteSet(I) /\ IsFiniteSet({keys[i] : i \in I})
         /\ Cardinality({keys[i] : i \in I}) = Cardinality(I)
<1> DEFINE L == Len(keys)
           K == {keys[i] : i \in I}
           f == [i \in I |-> keys[i]]
<1>1. L \in Nat
  BY LenProperties
<1>2. IsFiniteSet(I)
  <2>1. IsFiniteSet(1 .. L)
    <3> HIDE DEF L
    <3> QED BY <1>1, Interval
  <2> QED BY <2>1, FS_Subset
<1>3. f \in Bijection(I, K)
  <2>1. f \in [I -> K] /\ \A x \in K : \E i \in I : f[i] = x
    OBVIOUS
  <2>2. \A i, j \in I : f[i] = f[j] => i = j
    OBVIOUS
  <2> HIDE DEF f, K
  <2> QED BY <2>1, <2>2 DEF Bijection, Injection, Surjection, IsInjective
<1>4. ExistsBijection(I, K)
  BY <1>3 DEF ExistsBijection
<1> HIDE DEF K
<1>5. IsFiniteSet(K) /\ Cardinality(K) = Cardinality(I)
  BY <1>2, <1>4, FS_Bijection
<1> QED BY <1>2, <1>5 DEF K

(* What the list's effect leaves alone is as much as there is in order.    *)
LEMMA ReconcileMovesLeast ==
  ASSUME ListIInv, NEW items \in Supplies, Reconcile(items)
  PROVE  LET stay == KeysOf(mounted) \cap ToSet(list'.keys)
             was == [k \in stay |-> Position(mounted, k)]
             is == [k \in stay |-> Position(mounted', k)]
         IN \A S \in kSubset(Cardinality(stay \ moved') + 1, stay) :
              \E p, q \in S : was[p] < was[q] /\ is[q] < is[p]
<1> DEFINE keys == items.keys
           L == Len(keys)
           A == ToSet(keys)
           M == KeysOf(mounted)
           from == From(items)
           settled == SettledRows(from)
           stay == M \cap A
           left == {keys[i] : i \in settled}
           was == [k \in stay |-> Position(mounted, k)]
           is == [k \in stay |-> Position(mounted', k)]
<1>1. /\ IsInjective(items.keys) /\ list' = items
      /\ mounted' = [i \in DOMAIN keys |-> RowFor(items, keys[i])]
      /\ moved' = {keys[i] : i \in DOMAIN keys \ settled}
  BY DEF Reconcile, From
<1>2. /\ keys \in Seq(Key) /\ L \in Nat /\ DOMAIN keys = 1 .. L
      /\ \A i \in 1 .. L : keys[i] \in Key /\ keys[i] \in A
      /\ \A i, j \in 1 .. L : keys[i] = keys[j] => i = j
      /\ \A k \in A : \E i \in 1 .. L : k = keys[i]
  BY <1>1, Supplied, LenProperties, ElementOfSeq DEF IsInjective, ToSet
<1>3. /\ from \in Seq(Int) /\ Len(from) = L
      /\ \A i \in 1 .. L : from[i] # New <=> keys[i] \in M
      /\ \A i, j \in 1 .. L : keys[i] \in M /\ keys[j] \in M =>
           (from[i] < from[j] <=> Was(mounted)[keys[i]] < Was(mounted)[keys[j]])
  BY <1>1, FromRows
<1>4. /\ settled \subseteq 1 .. L /\ \A i \in settled : from[i] # New
      /\ \A I : Ascending(from, I) => Cardinality(I) <= Cardinality(settled)
  <2> HIDE DEF from
  <2>1. /\ Ascending(from, SettledRows(from))
        /\ \A I : Ascending(from, I) => Cardinality(I) <= Cardinality(SettledRows(from))
    BY <1>3, SettledIsLongest
  <2> QED BY <1>3, <2>1 DEF Ascending
<1>5. \A i \in 1 .. L : Position(mounted', keys[i]) = i
  <2>1. ASSUME NEW i \in 1 .. L PROVE mounted'[i].key = keys[i]
    <3>1. RowFor(items, keys[i]).key = keys[i]
      BY <1>2, RowForKey
    <3> QED BY <1>1, <1>2, <3>1
  <2>2. DOMAIN mounted' = 1 .. L
    BY <1>1, <1>2
  <2> HIDE DEF keys, L
  <2>3. ASSUME NEW i \in 1 .. L PROVE Position(mounted', keys[i]) = i
    <3>1. keys[i] \in KeysOf(mounted')
      BY <2>1, <2>2 DEF KeysOf
    <3>2. \A j \in DOMAIN mounted' : mounted'[j].key = keys[i] => j = i
      BY <1>2, <2>1, <2>2
    <3>3. i \in DOMAIN mounted' /\ mounted'[i].key = keys[i]
      BY <2>1, <2>2
    <3> QED BY <3>1, <3>2, <3>3 DEF Position
  <2> QED BY <2>3
<1> HIDE DEF settled, from, M, A, L
<1>6. left \subseteq stay \ moved'
  <2>1. ASSUME NEW i \in settled PROVE keys[i] \in stay /\ keys[i] \notin moved'
    <3>1. i \in 1 .. L /\ keys[i] \in M /\ keys[i] \in A
      BY <1>2, <1>3, <1>4
    <3>2. \A j \in DOMAIN keys \ settled : keys[j] # keys[i]
      BY <1>2, <3>1
    <3> QED BY <1>1, <3>1, <3>2
  <2> QED BY <2>1
<1>7. /\ IsFiniteSet(stay \ moved') /\ Cardinality(stay \ moved') \in Nat
      /\ Cardinality(settled) \in Nat /\ Cardinality(settled) <= Cardinality(stay \ moved')
  <2>1. IsFiniteSet(settled) /\ IsFiniteSet(left) /\ Cardinality(left) = Cardinality(settled)
    BY <1>2, <1>4, AsManyPlaces DEF L
  <2>2. IsFiniteSet(A)
    BY <1>2, AsManyKeys DEF A, L
  <2>3. IsFiniteSet(stay \ moved')
    <3>1. stay \ moved' \subseteq A
      OBVIOUS
    <3> QED BY <2>2, <3>1, FS_Subset
  <2> DEFINE rest == stay \ moved'
  <2> HIDE DEF rest, left
  <2>4. Cardinality(left) <= Cardinality(rest) /\ Cardinality(rest) \in Nat
    BY <1>6, <2>3, FS_Subset, FS_CardinalityType DEF rest
  <2>5. Cardinality(settled) \in Nat
    BY <2>1, FS_CardinalityType
  <2> QED BY <2>1, <2>3, <2>4, <2>5 DEF rest
<1>8. ASSUME NEW S \in SUBSET stay, Cardinality(S) = Cardinality(stay \ moved') + 1
      PROVE  \E p, q \in S : was[p] < was[q] /\ is[q] < is[p]
  <2> DEFINE I == PlacesOf(keys, S)
  <2>1. I \in SUBSET (1 .. L) /\ S = {keys[i] : i \in I}
    <3>1. \A k \in S : \E i \in 1 .. L : k = keys[i]
      BY <1>2, <1>8
    <3> QED BY <3>1 DEF PlacesOf, L
  <2>2. Cardinality(S) = Cardinality(I)
    <3> HIDE DEF I, keys
    <3> QED BY <1>2, <2>1, AsManyPlaces DEF L
  <2>3. ~ Ascending(from, I)
    <3>1. ASSUME Ascending(from, I) PROVE FALSE
      <4>1. Cardinality(I) <= Cardinality(settled)
        BY <1>4, <3>1
      <4> HIDE DEF I, stay
      <4> QED BY <1>7, <1>8, <2>2, <4>1
    <3> QED BY <3>1
  <2>4. \A i \in I : i \in 1 .. L /\ keys[i] \in S /\ keys[i] \in stay /\ keys[i] \in M /\ keys[i] \in Key
    BY <1>2, <1>8, <2>1 DEF PlacesOf
  <2>5. \A i \in I : from[i] # New
    BY <1>3, <2>4
  <2>6. PICK i \in I, j \in I : i < j /\ ~ (from[i] < from[j])
    <3> HIDE DEF I
    <3> QED BY <1>3, <2>1, <2>3, <2>5 DEF Ascending
  <2> DEFINE p == keys[j]
             q == keys[i]
  <2>7. p \in S /\ q \in S /\ is[p] = j /\ is[q] = i
    BY <1>5, <2>4
  <2>8. /\ was[p] = Was(mounted)[p] /\ was[q] = Was(mounted)[q]
        /\ Was(mounted)[p] \in Int /\ Was(mounted)[q] \in Int
    BY <2>4, WasInOrder DEF ListIInv, Was
  <2>9. Was(mounted)[p] # Was(mounted)[q]
    <3>1. Position(mounted, p) \in 1 .. Len(mounted) /\ mounted[Position(mounted, p)].key = p
          /\ mounted[Position(mounted, q)].key = q
      BY <2>4, KeyedRows DEF ListIInv, M
    <3>2. p # q
      <4>1. i # j
        BY <2>4, <2>6
      <4> QED BY <1>2, <2>4, <4>1
    <3> QED BY <2>4, <3>1, <3>2 DEF Was
  <2>10. ~ (Was(mounted)[q] < Was(mounted)[p])
    BY <1>3, <2>4, <2>6
  <2> HIDE DEF p, q
  <2>11. Was(mounted)[p] < Was(mounted)[q]
    <3> DEFINE a == Was(mounted)[p]
               b == Was(mounted)[q]
    <3>1. a \in Int /\ b \in Int /\ a # b /\ ~ (b < a)
      BY <2>8, <2>9, <2>10
    <3> HIDE DEF a, b
    <3>2. a < b
      BY <3>1
    <3> QED BY <3>2 DEF a, b
  <2> HIDE DEF was, is
  <2> QED BY <2>6, <2>7, <2>8, <2>11
<1>9. KeysOf(mounted) \cap ToSet(list'.keys) = stay
  BY <1>1 DEF A, M
<1> HIDE DEF stay
<1>10. \A S \in kSubset(Cardinality(stay \ moved') + 1, stay) :
         \E p, q \in S : was[p] < was[q] /\ is[q] < is[p]
  BY <1>8 DEF kSubset
<1> QED BY <1>9, <1>10

(* As few rows as possible are inserted, whatever stayed, came and failed  *)
(* before: list.js moves no row that a longest run in order could keep.    *)
THEOREM RowsMoveLeastAlways == ListSpec => RowsMoveLeast
<1> DEFINE Least == outcome' = "ok" /\ list' # list =>
       LET stay == KeysOf(mounted) \cap ToSet(list'.keys)
           was == [k \in stay |-> Position(mounted, k)]
           is == [k \in stay |-> Position(mounted', k)]
       IN \A S \in kSubset(Cardinality(stay \ moved') + 1, stay) :
            \E p, q \in S : was[p] < was[q] /\ is[q] < is[p]
<1>1. ListIInv /\ [ListNext]_listVars => [Least]_listVars
  <2> SUFFICES ASSUME ListIInv, ListNext, outcome' = "ok" PROVE Least
    BY DEF listVars
  <2>1. PICK items \in Successors :
          \/ Refuse(items) \/ Reconcile(items)
          \/ \E n \in DOMAIN items.keys : RenderThrows(items, n)
    BY DEF ListNext
  <2>2. ~ Refuse(items) /\ \A n \in DOMAIN items.keys : ~ RenderThrows(items, n)
    BY DEF Refuse, RenderThrows
  <2>3. Reconcile(items) /\ items \in Supplies
    BY <2>1, <2>2 DEF Successors
  <2> QED BY <2>3, ReconcileMovesLeast
<1> QED BY <1>1, ListInvariance, PTL DEF ListSpec, RowsMoveLeast
==============================================================================
