---------------------------- MODULE ListsProofs ----------------------------
(***************************************************************************)
(* What Lists' operators return, and what follows for lists of numbered    *)
(* things that are kept in increasing order.                               *)
(***************************************************************************)
EXTENDS Lists, SequenceTheorems, WellFoundedInduction, TLAPS

-----------------------------------------------------------------------------
(* Induction over a bounded range, without a predicate as a parameter.     *)

(* A set of numbers that holds 0 and, with each number below n, the next   *)
(* one, holds every number up to n.                                        *)
LEMMA UpTo ==
  ASSUME NEW n \in Nat, NEW S, 0 \in S,
         \A i \in 0 .. n - 1 : i \in S => i + 1 \in S
  PROVE  0 .. n \subseteq S
<1>. DEFINE T == {i \in 0 .. n : i \notin S}
<1>1. SUFFICES ASSUME T # {} PROVE FALSE
  OBVIOUS
<1>2. T \subseteq Nat
  OBVIOUS
<1>3. PICK t \in T : \A u \in T : t <= u
  <2>. HIDE DEF T
  <2>1. \E t \in T : \A u \in T : ~ (<<u, t>> \in OpToRel(<, Nat))
    BY <1>1, <1>2, WFMin, NatLessThanWellFounded, Zenon
  <2>2. PICK t \in T : \A u \in T : ~ (<<u, t>> \in OpToRel(<, Nat))
    BY <2>1
  <2>3. \A u \in T : ~ (u < t)
    BY <1>2, <2>2 DEF OpToRel
  <2>. QED  BY <1>2, <2>3
<1>4. t # 0 /\ t - 1 \in 0 .. n - 1 /\ t = (t - 1) + 1
  OBVIOUS
<1>5. t - 1 \in S
  <2>1. t - 1 \notin T
    BY <1>2, <1>3
  <2>. QED  BY <1>4, <2>1
<1>. QED  BY <1>4, <1>5

\* The values of a computation that goes from one element to the next.
Goes(n, S, base, step, run) ==
  /\ run \in [0 .. n -> S]
  /\ run[0] = base
  /\ \A i \in 1 .. n : run[i] = step[i][run[i - 1]]

(* If each step is a function on S, there is such a run.                   *)
LEMMA RunExists ==
  ASSUME NEW n \in Nat, NEW S, NEW base \in S,
         NEW step \in [1 .. n -> [S -> S]]
  PROVE  \E run : Goes(n, S, base, step, run)
<1>. DEFINE Upto(m) == \E run \in [0 .. m -> S] :
                         /\ run[0] = base
                         /\ \A i \in 1 .. m : run[i] = step[i][run[i - 1]]
            G == {m \in 0 .. n : Upto(m)}
<1>1. 0 \in G
  <2>. DEFINE first == [i \in 0 .. 0 |-> base]
  <2>1. first \in [0 .. 0 -> S] /\ first[0] = base /\ 1 .. 0 = {}
    OBVIOUS
  <2>2. Upto(0)
    BY <2>1
  <2>. QED  BY <2>2
<1>2. ASSUME NEW m \in 0 .. n - 1, m \in G PROVE m + 1 \in G
  <2>1. PICK run \in [0 .. m -> S] :
           /\ run[0] = base
           /\ \A i \in 1 .. m : run[i] = step[i][run[i - 1]]
    BY <1>2
  <2>. DEFINE more == [i \in 0 .. m + 1 |->
                         IF i = m + 1 THEN step[m + 1][run[m]] ELSE run[i]]
  <2>2. step[m + 1][run[m]] \in S
    OBVIOUS
  <2>3. more \in [0 .. m + 1 -> S]
    BY <2>2
  <2>4. more[0] = base
    BY <2>1
  <2>5. \A i \in 1 .. m + 1 : more[i] = step[i][more[i - 1]]
    BY <2>1
  <2>6. Upto(m + 1)
    <3>. HIDE DEF more
    <3>. QED  BY <2>3, <2>4, <2>5
  <2>. QED  BY <2>6
<1>3. n \in G
  <2>1. \A m \in 0 .. n - 1 : m \in G => m + 1 \in G
    BY <1>2
  <2>. HIDE DEF G
  <2>2. 0 .. n \subseteq G
    BY <1>1, <2>1, UpTo
  <2>. QED  BY <2>2
<1>. QED  BY <1>3 DEF Goes

-----------------------------------------------------------------------------
(* Picking elements.                                                       *)

\* The lists collected on the way through.
Collects(T, list, wanted, run) ==
  /\ run \in [0 .. Len(list) -> Seq(T)]
  /\ run[0] = <<>>
  /\ \A n \in 1 .. Len(list) :
       run[n] = IF n \in wanted THEN Append(run[n - 1], list[n]) ELSE run[n - 1]

(* The list is gone through once, each wanted element appended when it is  *)
(* met.                                                                    *)
LEMMA PickUnfolds ==
  ASSUME NEW T, NEW list \in Seq(T), NEW wanted
  PROVE  \E run : Collects(T, list, wanted, run) /\ Pick(list, wanted) = run[Len(list)]
<1>. DEFINE L == Len(list)
            step == [n \in 1 .. L |-> [q \in Seq(T) |->
                       IF n \in wanted THEN Append(q, list[n]) ELSE q]]
            Def(f) == [n \in 0 .. L |->
                         IF n = 0 THEN <<>>
                         ELSE IF n \in wanted THEN Append(f[n - 1], list[n])
                         ELSE f[n - 1]]
            upTo == CHOOSE f : f = Def(f)
<1>0. L \in Nat /\ <<>> \in Seq(T) /\ \A n \in 1 .. L : list[n] \in T
  BY LenProperties, EmptySeq, ElementOfSeq
<1>1. step \in [1 .. L -> [Seq(T) -> Seq(T)]]
  <2>1. ASSUME NEW n \in 1 .. L, NEW q \in Seq(T)
        PROVE  (IF n \in wanted THEN Append(q, list[n]) ELSE q) \in Seq(T)
    BY <1>0, AppendProperties
  <2>. QED  BY <2>1
<1>2. PICK run \in [0 .. L -> Seq(T)] :
         /\ run[0] = <<>>
         /\ \A n \in 1 .. L : run[n] = step[n][run[n - 1]]
  <2>. DEFINE Q == Seq(T)
              none == <<>>
  <2>1. L \in Nat /\ none \in Q /\ step \in [1 .. L -> [Q -> Q]]
    BY <1>0, <1>1
  <2>2. \E run : Goes(L, Q, none, step, run)
    <3>. HIDE DEF L, step, Q, none
    <3>. QED  BY <2>1, RunExists
  <2>. QED  BY <2>2 DEF Goes
<1>3. \A n \in 1 .. L :
        run[n] = IF n \in wanted THEN Append(run[n - 1], list[n]) ELSE run[n - 1]
  <2>1. \A n \in 1 .. L : run[n - 1] \in Seq(T)
    BY <1>0
  <2>. QED  BY <1>2, <2>1
<1>4. run = Def(run)
  <2>1. \A n \in 0 .. L : n # 0 => n \in 1 .. L
    BY <1>0
  <2>2. \A n \in 0 .. L : run[n] = Def(run)[n]
    BY <1>2, <1>3, <2>1
  <2>. QED  BY <2>2
<1>5. upTo = Def(upTo)
  <2>. HIDE DEF Def
  <2>. QED  BY <1>4
<1>6. /\ upTo[0] = <<>>
      /\ \A n \in 1 .. L :
           upTo[n] = IF n \in wanted THEN Append(upTo[n - 1], list[n]) ELSE upTo[n - 1]
  <2>. HIDE DEF upTo
  <2>1. \A n \in 0 .. L : upTo[n] = Def(upTo)[n]
    BY <1>5
  <2>2. 0 \in 0 .. L /\ \A n \in 1 .. L : n \in 0 .. L /\ n # 0
    BY <1>0
  <2>. QED  BY <2>1, <2>2
<1>7. \A n \in 0 .. L : upTo[n] \in Seq(T)
  <2>. HIDE DEF upTo
  <2>. DEFINE G == {n \in 0 .. L : upTo[n] \in Seq(T)}
  <2>1. 0 \in G
    <3>1. 0 \in 0 .. L
      BY <1>0
    <3>2. upTo[0] \in Seq(T)
      BY <1>0, <1>6, Zenon
    <3>. QED  BY <3>1, <3>2
  <2>2. ASSUME NEW n \in 0 .. L - 1, n \in G PROVE n + 1 \in G
    <3>1. n + 1 \in 1 .. L /\ (n + 1) - 1 = n /\ upTo[n] \in Seq(T)
      BY <1>0, <2>2
    <3>2. upTo[n + 1] = IF n + 1 \in wanted THEN Append(upTo[n], list[n + 1]) ELSE upTo[n]
      BY <1>6, <3>1
    <3>3. upTo[n + 1] \in Seq(T)
      BY <1>0, <3>1, <3>2, AppendProperties
    <3>. QED  BY <3>1, <3>3
  <2>3. 0 .. L \subseteq G
    <3>. HIDE DEF G
    <3>. QED  BY <1>0, <2>1, <2>2, UpTo
  <2>. QED  BY <2>3
<1>8. Pick(list, wanted) = upTo[L]
  BY DEF Pick
<1>9. upTo \in [0 .. L -> Seq(T)]
  <2>. HIDE DEF upTo
  <2>1. upTo = [n \in 0 .. L |-> upTo[n]]
    BY <1>5
  <2>. QED  BY <1>7, <2>1
<1>. HIDE DEF upTo
<1>10. Collects(T, list, wanted, upTo)
  BY <1>6, <1>9 DEF Collects
<1>. QED  BY <1>8, <1>10

(* What is picked are the wanted elements, each once and in their order.   *)
LEMMA PickProperties ==
  ASSUME NEW T, NEW list \in Seq(T), NEW wanted
  PROVE  /\ Pick(list, wanted) \in Seq(T)
         /\ \E at \in [1 .. Len(Pick(list, wanted)) -> wanted \cap (1 .. Len(list))] :
              /\ \A i \in 1 .. Len(Pick(list, wanted)) : Pick(list, wanted)[i] = list[at[i]]
              /\ \A i, j \in 1 .. Len(Pick(list, wanted)) : i < j => at[i] < at[j]
              /\ \A n \in wanted \cap (1 .. Len(list)) :
                   \E i \in 1 .. Len(Pick(list, wanted)) : at[i] = n
<1>. DEFINE L == Len(list)
<1>0. L \in Nat /\ \A n \in 1 .. L : list[n] \in T
  BY LenProperties, ElementOfSeq
<1>a. PICK run : Collects(T, list, wanted, run) /\ Pick(list, wanted) = run[L]
  BY PickUnfolds
<1>1. /\ run \in [0 .. L -> Seq(T)]
      /\ run[0] = <<>>
      /\ \A n \in 1 .. L :
           run[n] = IF n \in wanted THEN Append(run[n - 1], list[n]) ELSE run[n - 1]
      /\ Pick(list, wanted) = run[L]
  BY <1>a DEF Collects
<1>. DEFINE Places(r, m, at) ==
              /\ at \in [1 .. Len(r) -> wanted \cap (1 .. m)]
              /\ \A i \in 1 .. Len(r) : r[i] = list[at[i]]
              /\ \A i, j \in 1 .. Len(r) : i < j => at[i] < at[j]
              /\ \A n \in wanted \cap (1 .. m) : \E i \in 1 .. Len(r) : at[i] = n
            G == {m \in 0 .. L : \E at : Places(run[m], m, at)}
<1>2. 0 \in G
  <2>1. Len(run[0]) = 0 /\ 1 .. 0 = {} /\ 0 \in 0 .. L
    BY <1>0, <1>1, EmptySeq
  <2>2. [i \in {} |-> 0] \in [{} -> wanted \cap {}]
    OBVIOUS
  <2>3. Places(run[0], 0, [i \in {} |-> 0])
    BY <2>1, <2>2
  <2>. QED  BY <2>1, <2>3
<1>3. ASSUME NEW m \in 0 .. L - 1, m \in G PROVE m + 1 \in G
  <2>0. m \in Nat /\ m \in 0 .. L /\ m + 1 \in 1 .. L /\ m + 1 \in 0 .. L /\ (m + 1) - 1 = m
    BY <1>0
  <2>. DEFINE old == run[m]
              new == run[m + 1]
  <2>1. PICK at : Places(old, m, at)
    BY <1>3
  <2>2. new = IF m + 1 \in wanted THEN Append(old, list[m + 1]) ELSE old
    BY <1>1, <2>0
  <2>3. old \in Seq(T) /\ Len(old) \in Nat /\ list[m + 1] \in T
    BY <1>0, <1>1, <2>0, LenProperties
  <2>. HIDE DEF old, new
  <2>4. CASE m + 1 \in wanted
    <3>1. /\ Len(new) = Len(old) + 1
          /\ \A i \in 1 .. Len(old) : new[i] = old[i]
          /\ new[Len(old) + 1] = list[m + 1]
      BY <2>2, <2>3, <2>4, AppendProperties
    <3>. DEFINE more == [i \in 1 .. Len(old) + 1 |-> IF i = Len(old) + 1 THEN m + 1 ELSE at[i]]
    <3>2. \A i \in 1 .. Len(old) : /\ at[i] \in wanted \cap (1 .. m)
                                   /\ at[i] \in Nat /\ at[i] < m + 1
                                   /\ more[i] = at[i]
      BY <2>0, <2>1, <2>3
    <3>3. more[Len(old) + 1] = m + 1
      BY <2>3
    <3>4. \A i \in 1 .. Len(old) + 1 : i \in 1 .. Len(old) \/ i = Len(old) + 1
      BY <2>3
    <3>5. more \in [1 .. Len(new) -> wanted \cap (1 .. m + 1)]
      <4>0. \A n \in 1 .. m : n \in 1 .. m + 1
        BY <2>0
      <4>1. \A i \in 1 .. Len(old) : at[i] \in wanted \cap (1 .. m + 1)
        BY <3>2, <4>0, Zenon
      <4>. QED  BY <2>0, <2>4, <3>1, <3>4, <4>1
    <3>. HIDE DEF more
    <3>6. \A i \in 1 .. Len(new) : new[i] = list[more[i]]
      BY <2>1, <3>1, <3>2, <3>3, <3>4
    <3>7. \A i, j \in 1 .. Len(new) : i < j => more[i] < more[j]
      <4>1. ASSUME NEW i \in 1 .. Len(new), NEW j \in 1 .. Len(new), i < j
            PROVE  more[i] < more[j]
        <5>1. i \in 1 .. Len(old)
          BY <2>3, <3>1, <4>1
        <5>2. CASE j = Len(old) + 1
          BY <3>2, <3>3, <5>1, <5>2
        <5>3. CASE j \in 1 .. Len(old)
          BY <2>1, <3>2, <4>1, <5>1, <5>3
        <5>. QED  BY <3>1, <3>4, <5>2, <5>3
      <4>. QED  BY <4>1
    <3>8. \A n \in wanted \cap (1 .. m + 1) : \E i \in 1 .. Len(new) : more[i] = n
      <4>1. ASSUME NEW n \in wanted \cap (1 .. m + 1)
            PROVE  \E i \in 1 .. Len(new) : more[i] = n
        <5>1. CASE n = m + 1
          <6>1. Len(old) + 1 \in 1 .. Len(new)
            BY <2>3, <3>1
          <6>. QED  BY <3>3, <5>1, <6>1
        <5>2. CASE n # m + 1
          <6>1. n \in wanted \cap (1 .. m)
            BY <2>0, <5>2
          <6>2. PICK i \in 1 .. Len(old) : at[i] = n
            BY <2>1, <6>1
          <6>3. i \in 1 .. Len(new) /\ more[i] = n
            BY <2>3, <3>1, <3>2, <6>2
          <6>. QED  BY <6>3
        <5>. QED  BY <5>1, <5>2
      <4>. QED  BY <4>1
    <3>9. Places(new, m + 1, more)
      BY <3>5, <3>6, <3>7, <3>8
    <3>. QED  BY <2>0, <3>9 DEF new
  <2>5. CASE m + 1 \notin wanted
    <3>1. new = old
      BY <2>2, <2>5
    <3>2. wanted \cap (1 .. m + 1) = wanted \cap (1 .. m)
      BY <2>0, <2>5
    <3>3. Places(new, m + 1, at)
      BY <2>1, <3>1, <3>2
    <3>. QED  BY <2>0, <3>3 DEF new
  <2>. QED  BY <2>4, <2>5
<1>4. L \in G
  <2>1. \A m \in 0 .. L - 1 : m \in G => m + 1 \in G
    BY <1>3
  <2>. HIDE DEF G, L
  <2>2. 0 .. L \subseteq G
    BY <1>0, <1>2, <2>1, UpTo
  <2>. QED  BY <1>0, <2>2
<1>5. PICK at : Places(run[L], L, at)
  BY <1>4
<1>6. run[L] \in Seq(T)
  BY <1>0, <1>1
<1>7. Places(Pick(list, wanted), L, at)
  BY <1>1, <1>5
<1>8. Pick(list, wanted) \in Seq(T)
  BY <1>1, <1>6
<1>. QED  BY <1>7, <1>8

\* Every element of one list stands at a wanted place of another.
StandsIn(some, list, wanted) ==
  \A i \in 1 .. Len(some) : \E n \in wanted \cap (1 .. Len(list)) : some[i] = list[n]

(* What is picked stands at the wanted places.                             *)
LEMMA PickedElements ==
  ASSUME NEW T, NEW list \in Seq(T), NEW wanted
  PROVE  /\ Pick(list, wanted) \in Seq(T)
         /\ StandsIn(Pick(list, wanted), list, wanted)
<1>. DEFINE P == Pick(list, wanted)
            chosen == wanted \cap (1 .. Len(list))
<1>1. PICK at \in [1 .. Len(P) -> chosen] :
         /\ \A i \in 1 .. Len(P) : P[i] = list[at[i]]
         /\ \A i, j \in 1 .. Len(P) : i < j => at[i] < at[j]
         /\ \A n \in chosen : \E i \in 1 .. Len(P) : at[i] = n
  BY PickProperties
<1>2. P \in Seq(T)
  BY PickProperties
<1>. HIDE DEF P, chosen
<1>3. \A i \in 1 .. Len(P) : at[i] \in chosen /\ P[i] = list[at[i]]
  BY <1>1
<1>4. StandsIn(P, list, wanted)
  BY <1>3 DEF StandsIn, chosen
<1>. QED  BY <1>2, <1>4 DEF P

-----------------------------------------------------------------------------
(* Lists of numbered things, in increasing order.                          *)

\* The list holds one thing for each number of the set, in increasing order.
Enumerates(list, numbers) ==
  /\ \A i \in 1 .. Len(list) : list[i].seq \in numbers
  /\ \A n \in numbers : \E i \in 1 .. Len(list) : list[i].seq = n
  /\ \A i, j \in 1 .. Len(list) : i < j => list[i].seq < list[j].seq

(* The empty list holds nothing.                                           *)
LEMMA EnumeratesNothing == Enumerates(<<>>, {})
BY EmptySeq DEF Enumerates

(* Only the numbers matter.                                                *)
LEMMA EnumeratesAlike ==
  ASSUME NEW a, NEW b, NEW numbers, Enumerates(a, numbers), Len(b) = Len(a),
         \A i \in 1 .. Len(a) : b[i].seq = a[i].seq
  PROVE  Enumerates(b, numbers)
BY DEF Enumerates

(* The first thing has the least number, and the rest holds the others.    *)
LEMMA EnumeratesTail ==
  ASSUME NEW T, NEW list \in Seq(T), list # <<>>,
         NEW numbers \in SUBSET Nat, Enumerates(list, numbers)
  PROVE  /\ Head(list).seq \in numbers
         /\ Enumerates(Tail(list), {n \in numbers : n > Head(list).seq})
         /\ \A n \in numbers : n >= Head(list).seq
<1>. DEFINE L == Len(list)
            first == list[1].seq
<1>1. L \in Nat /\ L >= 1 /\ Head(list) = list[1]
  BY LenProperties, EmptySeq
<1>2. Len(Tail(list)) = L - 1 /\ \A i \in 1 .. L - 1 : Tail(list)[i] = list[i + 1]
  BY <1>1, HeadTailProperties
<1>3. first \in numbers /\ \A i \in 1 .. L : list[i].seq \in Nat /\ list[i].seq \in numbers
  <2>1. 1 \in 1 .. L /\ \A n \in numbers : n \in Nat
    BY <1>1
  <2>2. \A i \in 1 .. L : list[i].seq \in numbers
    BY DEF Enumerates
  <2>. QED  BY <2>1, <2>2, Zenon
<1>4. \A i \in 2 .. L : first < list[i].seq
  BY <1>1 DEF Enumerates
<1>5. ASSUME NEW n \in numbers PROVE n >= first
  <2>1. PICK i \in 1 .. L : list[i].seq = n
    BY DEF Enumerates
  <2>2. CASE i = 1
    BY <1>3, <2>1, <2>2
  <2>3. CASE i # 1
    BY <1>1, <1>3, <1>4, <2>1, <2>3
  <2>. QED  BY <2>2, <2>3
<1>6. \A i \in 1 .. L - 1 : i + 1 \in 2 .. L /\ i + 1 \in 1 .. L
  BY <1>1
<1>7. \A i \in 1 .. Len(Tail(list)) : Tail(list)[i].seq \in {n \in numbers : n > first}
  BY <1>2, <1>3, <1>4, <1>6
<1>8. ASSUME NEW n \in numbers, n > first
      PROVE  \E i \in 1 .. Len(Tail(list)) : Tail(list)[i].seq = n
  <2>1. PICK i \in 1 .. L : list[i].seq = n
    BY DEF Enumerates
  <2>2. i # 1
    BY <1>3, <1>8, <2>1
  <2>3. i - 1 \in 1 .. L - 1 /\ (i - 1) + 1 = i
    BY <1>1, <2>2
  <2>. QED  BY <1>2, <2>1, <2>3
<1>9. ASSUME NEW i \in 1 .. L - 1, NEW j \in 1 .. L - 1, i < j
      PROVE  Tail(list)[i].seq < Tail(list)[j].seq
  <2>1. i + 1 \in 1 .. L /\ j + 1 \in 1 .. L /\ i + 1 < j + 1
    BY <1>1, <1>9
  <2>. QED  BY <1>2, <2>1 DEF Enumerates
<1>. QED  BY <1>1, <1>2, <1>3, <1>5, <1>7, <1>8, <1>9 DEF Enumerates

(* One list after another whose numbers are all greater.                   *)
LEMMA EnumeratesConcat ==
  ASSUME NEW T, NEW a \in Seq(T), NEW b \in Seq(T),
         NEW M \in SUBSET Nat, NEW N \in SUBSET Nat, Enumerates(a, M), Enumerates(b, N),
         \A m \in M, n \in N : m < n
  PROVE  Enumerates(a \o b, M \cup N)
<1>. DEFINE A == Len(a)
            B == Len(b)
            both == a \o b
<1>0. A \in Nat /\ B \in Nat
  BY LenProperties
<1>1. /\ Len(both) = A + B
      /\ \A i \in 1 .. A + B : both[i] = IF i <= A THEN a[i] ELSE b[i - A]
  BY <1>0, ConcatProperties
<1>2. /\ \A i \in 1 .. A : i \in 1 .. A + B /\ both[i] = a[i]
      /\ \A i \in 1 .. B : A + i \in 1 .. A + B /\ both[A + i] = b[i]
  <2>1. \A i \in 1 .. B : A + i \in 1 .. A + B /\ ~ (A + i <= A) /\ (A + i) - A = i
    BY <1>0
  <2>. QED  BY <1>0, <1>1, <2>1
<1>. HIDE DEF both
<1>3. \A i \in 1 .. A + B : i \in 1 .. A \/ (i - A \in 1 .. B /\ A + (i - A) = i)
  BY <1>0
<1>4. ASSUME NEW i \in 1 .. A + B
      PROVE  \/ i \in 1 .. A /\ both[i].seq = a[i].seq /\ both[i].seq \in M
             \/ i - A \in 1 .. B /\ both[i].seq = b[i - A].seq /\ both[i].seq \in N
  <2>1. CASE i \in 1 .. A
    BY <1>2, <2>1 DEF Enumerates
  <2>2. CASE i - A \in 1 .. B /\ A + (i - A) = i
    <3>1. both[i] = b[i - A]
      BY <1>2, <2>2
    <3>. QED  BY <2>2, <3>1 DEF Enumerates
  <2>. QED  BY <1>3, <2>1, <2>2
<1>5. \A n \in M \cup N : \E i \in 1 .. A + B : both[i].seq = n
  <2>1. ASSUME NEW n \in M PROVE \E i \in 1 .. A + B : both[i].seq = n
    BY <1>2 DEF Enumerates
  <2>2. ASSUME NEW n \in N PROVE \E i \in 1 .. A + B : both[i].seq = n
    <3>1. PICK i \in 1 .. B : b[i].seq = n
      BY DEF Enumerates
    <3>. QED  BY <1>2, <3>1
  <2>. QED  BY <2>1, <2>2
<1>6. ASSUME NEW i \in 1 .. A + B, NEW j \in 1 .. A + B, i < j
      PROVE  both[i].seq < both[j].seq
  <2>1. CASE i \in 1 .. A /\ j \in 1 .. A
    BY <1>2, <1>6, <2>1 DEF Enumerates
  <2>2. CASE i \in 1 .. A /\ j \notin 1 .. A
    BY <1>2, <1>4, <2>2 DEF Enumerates
  <2>3. CASE i \notin 1 .. A
    <3>1. /\ i - A \in 1 .. B /\ j - A \in 1 .. B /\ i - A < j - A
          /\ j \notin 1 .. A
      BY <1>0, <1>3, <1>6, <2>3
    <3>2. both[i].seq = b[i - A].seq /\ both[j].seq = b[j - A].seq
      BY <1>4, <2>3, <3>1
    <3>. QED  BY <3>1, <3>2 DEF Enumerates
  <2>. QED  BY <2>1, <2>2, <2>3
<1>7. \A i \in 1 .. A + B : both[i].seq \in M \cup N
  BY <1>4
<1>. QED  BY <1>1, <1>5, <1>6, <1>7 DEF Enumerates, both

(* Picking from a list in increasing order leaves it in increasing order.  *)
LEMMA EnumeratesPicked ==
  ASSUME NEW T, NEW list \in Seq(T), NEW wanted,
         \A i, j \in 1 .. Len(list) : i < j => list[i].seq < list[j].seq
  PROVE  Enumerates(Pick(list, wanted), {list[i].seq : i \in wanted \cap (1 .. Len(list))})
<1>. DEFINE L == Len(list)
            P == Pick(list, wanted)
            K == Len(P)
            chosen == wanted \cap (1 .. L)
<1>1. PICK at \in [1 .. K -> chosen] :
         /\ \A i \in 1 .. K : P[i] = list[at[i]]
         /\ \A i, j \in 1 .. K : i < j => at[i] < at[j]
         /\ \A n \in chosen : \E i \in 1 .. K : at[i] = n
  BY PickProperties
<1>2. \A i \in 1 .. K : at[i] \in chosen /\ at[i] \in 1 .. L
  BY <1>1
<1>. HIDE DEF P, K, L, chosen
<1>3. \A i \in 1 .. K : P[i].seq \in {list[n].seq : n \in chosen}
  BY <1>1, <1>2
<1>4. \A n \in chosen : \E i \in 1 .. K : P[i].seq = list[n].seq
  BY <1>1
<1>5. \A i, j \in 1 .. K : i < j => P[i].seq < P[j].seq
  BY <1>1, <1>2 DEF L
<1>. QED  BY <1>3, <1>4, <1>5 DEF Enumerates, P, K, L, chosen

-----------------------------------------------------------------------------
(* What a reader's queue of updates owes it, of a numbered log.            *)

\* Each event is the log's update of its number.
Faithful(list, lg) ==
  \A i \in 1 .. Len(list) :
    ~ list[i].resync /\ list[i].key = lg[list[i].seq].key /\ list[i].value = lg[list[i].seq].value

\* The wanted numbers after one, up to another.
Between(from, top, lg, want) == {n \in 1 .. top : n > from /\ lg[n].key \in want}

\* A queue of nothing but updates.
Plain(q, from, top, lg, want) ==
  /\ from \in 0 .. top
  /\ Enumerates(q, Between(from, top, lg, want))
  /\ Faithful(q, lg)

\* The queue holds every wanted update after the reader's position, or says
\* first that it does not, and holds those after the position it names.
Owes(q, upto, top, lg, want) ==
  \/ upto \in Nat /\ Plain(q, upto, top, lg, want)
  \/ /\ q # <<>> /\ Head(q).resync
     /\ upto \in Nat /\ upto <= Head(q).seq
     /\ Plain(Tail(q), Head(q).seq, top, lg, want)

LEMMA TailOfConcat ==
  ASSUME NEW E, NEW q \in Seq(E), q # <<>>, NEW more \in Seq(E)
  PROVE  /\ q \o more # <<>> /\ Head(q \o more) = Head(q)
         /\ Tail(q \o more) = Tail(q) \o more
<1>. DEFINE L == Len(q)
            M == Len(more)
            left == Tail(q \o more)
            right == Tail(q) \o more
<1>1. L \in Nat /\ L >= 1 /\ M \in Nat
  BY EmptySeq, LenProperties
<1>2. /\ q \o more \in Seq(E) /\ Len(q \o more) = L + M
      /\ \A i \in 1 .. L + M : (q \o more)[i] = IF i <= L THEN q[i] ELSE more[i - L]
  BY ConcatProperties
<1>3. q \o more # <<>>
  BY <1>1, <1>2, EmptySeq
<1>4. /\ Tail(q) \in Seq(E) /\ Len(Tail(q)) = L - 1
      /\ \A i \in 1 .. L - 1 : Tail(q)[i] = q[i + 1]
  BY HeadTailProperties
<1>5. /\ left \in Seq(E) /\ Len(left) = (L + M) - 1
      /\ \A i \in 1 .. (L + M) - 1 : left[i] = (q \o more)[i + 1]
  BY <1>2, <1>3, HeadTailProperties
<1>6. /\ right \in Seq(E) /\ Len(right) = (L - 1) + M
      /\ \A i \in 1 .. (L - 1) + M :
           right[i] = IF i <= L - 1 THEN Tail(q)[i] ELSE more[i - (L - 1)]
  BY <1>4, ConcatProperties
<1>7. ASSUME NEW i \in 1 .. (L + M) - 1 PROVE left[i] = right[i]
  <2>0. left[i] = (q \o more)[i + 1] /\ i + 1 \in 1 .. L + M /\ i \in 1 .. (L - 1) + M
    BY <1>1, <1>5
  <2>1. CASE i <= L - 1
    BY <1>1, <1>2, <1>4, <1>6, <2>0, <2>1
  <2>2. CASE ~ (i <= L - 1)
    <3>1. ~ (i + 1 <= L) /\ (i + 1) - L = i - (L - 1)
      BY <1>1, <2>2
    <3>. QED  BY <1>2, <1>6, <2>0, <2>2, <3>1
  <2>. QED  BY <2>1, <2>2
<1>8. left = right
  <2>1. Len(left) = Len(right)
    BY <1>1, <1>5, <1>6
  <2>. HIDE DEF left, right
  <2>. QED  BY <1>5, <1>6, <1>7, <2>1, SeqEqual
<1>9. Head(q \o more) = Head(q)
  <2>1. (q \o more)[1] = q[1]
    BY <1>1, <1>2
  <2>. QED  BY <1>2, <1>3, <2>1
<1>. QED  BY <1>3, <1>8, <1>9

(* A plain queue gains the updates that follow, and loses its first one.   *)
LEMMA PlainGrows ==
  ASSUME NEW E, NEW q \in Seq(E), NEW more \in Seq(E), NEW from, NEW mid \in Nat,
         NEW top \in Nat, mid <= top, NEW lg, NEW want,
         Plain(q, from, mid, lg, want), Plain(more, mid, top, lg, want)
  PROVE  Plain(q \o more, from, top, lg, want)
<1>. DEFINE A == Between(from, mid, lg, want)
            B == Between(mid, top, lg, want)
<1>1. from \in Nat /\ from <= mid /\ from \in 0 .. top
  BY DEF Plain
<1>2. A \in SUBSET Nat /\ B \in SUBSET Nat /\ \A m \in A, n \in B : m < n
  BY DEF Between
<1>3. Between(from, top, lg, want) = A \cup B
  BY <1>1 DEF Between
<1>4. Enumerates(q \o more, A \cup B)
  <2>. HIDE DEF A, B
  <2>1. Enumerates(q, A) /\ Enumerates(more, B)
    BY DEF Plain, A, B
  <2>. QED  BY <1>2, <2>1, EnumeratesConcat
<1>5. Faithful(q \o more, lg)
  <2>1. /\ Len(q) \in Nat /\ Len(more) \in Nat /\ Len(q \o more) = Len(q) + Len(more)
        /\ \A i \in 1 .. Len(q) + Len(more) :
             (q \o more)[i] = IF i <= Len(q) THEN q[i] ELSE more[i - Len(q)]
    BY ConcatProperties, LenProperties
  <2>2. Faithful(q, lg) /\ Faithful(more, lg)
    BY DEF Plain
  <2>3. ASSUME NEW i \in 1 .. Len(q) + Len(more)
        PROVE  \/ i \in 1 .. Len(q) /\ (q \o more)[i] = q[i]
               \/ i - Len(q) \in 1 .. Len(more) /\ (q \o more)[i] = more[i - Len(q)]
    BY <2>1
  <2>. QED  BY <2>1, <2>2, <2>3 DEF Faithful
<1>. QED  BY <1>1, <1>3, <1>4, <1>5 DEF Plain

LEMMA PlainShrinks ==
  ASSUME NEW E, NEW q \in Seq(E), q # <<>>, NEW from, NEW top \in Nat, NEW lg, NEW want,
         Plain(q, from, top, lg, want)
  PROVE  /\ ~ Head(q).resync
         /\ Head(q).seq \in from + 1 .. top
         /\ Plain(Tail(q), Head(q).seq, top, lg, want)
<1>. DEFINE A == Between(from, top, lg, want)
            h == Head(q).seq
<1>1. A \in SUBSET Nat /\ Enumerates(q, A) /\ from \in Nat
  BY DEF Plain, Between
<1>2. h \in A /\ Enumerates(Tail(q), {n \in A : n > h})
  <2>. HIDE DEF A
  <2>. QED  BY <1>1, EnumeratesTail
<1>3. h \in from + 1 .. top /\ h \in 0 .. top
  BY <1>1, <1>2 DEF Between
<1>4. {n \in A : n > h} = Between(h, top, lg, want)
  BY <1>1, <1>3 DEF Between
<1>5. Len(q) \in Nat /\ Len(q) >= 1 /\ Head(q) = q[1]
  BY EmptySeq, LenProperties
<1>6. Len(Tail(q)) = Len(q) - 1 /\ \A i \in 1 .. Len(q) - 1 : Tail(q)[i] = q[i + 1]
  BY <1>5, HeadTailProperties
<1>7. ~ Head(q).resync
  BY <1>5 DEF Plain, Faithful
<1>8. Faithful(Tail(q), lg)
  <2>1. \A i \in 1 .. Len(q) - 1 : i + 1 \in 1 .. Len(q)
    BY <1>5
  <2>2. Faithful(q, lg)
    BY DEF Plain
  <2>. QED  BY <1>6, <2>1, <2>2 DEF Faithful
<1>. HIDE DEF h
<1>. QED  BY <1>2, <1>3, <1>4, <1>7, <1>8 DEF Plain, h

(* Taking the first event moves the reader to its number.                  *)
LEMMA OwesTake ==
  ASSUME NEW E, NEW q \in Seq(E), q # <<>>, NEW upto, NEW top \in Nat, NEW lg, NEW want,
         Owes(q, upto, top, lg, want)
  PROVE  /\ Head(q).seq \in 0 .. top
         /\ Owes(Tail(q), Head(q).seq, top, lg, want)
<1>1. CASE upto \in Nat /\ Plain(q, upto, top, lg, want)
  <2>1. /\ Head(q).seq \in upto + 1 .. top
        /\ Plain(Tail(q), Head(q).seq, top, lg, want)
    BY <1>1, PlainShrinks
  <2>2. Head(q).seq \in Nat /\ Head(q).seq \in 0 .. top
    BY <1>1, <2>1
  <2>. QED  BY <2>1, <2>2 DEF Owes
<1>2. CASE ~ (upto \in Nat /\ Plain(q, upto, top, lg, want))
  BY <1>2 DEF Owes, Plain
<1>. QED  BY <1>1, <1>2

(* The updates that follow the log's top are owed as they are announced.   *)
LEMMA OwesMore ==
  ASSUME NEW E, NEW q \in Seq(E), NEW more \in Seq(E), NEW upto, NEW mid \in Nat,
         NEW top \in Nat, mid <= top, NEW lg, NEW want,
         Owes(q, upto, mid, lg, want), Plain(more, mid, top, lg, want)
  PROVE  Owes(q \o more, upto, top, lg, want)
<1>1. CASE upto \in Nat /\ Plain(q, upto, mid, lg, want)
  BY <1>1, PlainGrows DEF Owes
<1>2. CASE ~ (upto \in Nat /\ Plain(q, upto, mid, lg, want))
  <2>1. /\ q # <<>> /\ Head(q).resync
        /\ upto \in Nat /\ upto <= Head(q).seq
        /\ Plain(Tail(q), Head(q).seq, mid, lg, want)
    BY <1>2 DEF Owes
  <2>2. Tail(q) \in Seq(E)
    BY <2>1, HeadTailProperties
  <2>3. Plain(Tail(q) \o more, Head(q).seq, top, lg, want)
    BY <2>1, <2>2, PlainGrows
  <2>4. /\ q \o more # <<>> /\ Head(q \o more) = Head(q)
        /\ Tail(q \o more) = Tail(q) \o more
    BY <2>1, TailOfConcat
  <2>. QED  BY <2>1, <2>3, <2>4 DEF Owes
<1>. QED  BY <1>1, <1>2

(* What is owed depends on the log up to its top only.                     *)
LEMMA OwesSame ==
  ASSUME NEW q, NEW upto, NEW top \in Nat, NEW lg, NEW longer, NEW want,
         Owes(q, upto, top, lg, want), \A n \in 1 .. top : longer[n] = lg[n]
  PROVE  Owes(q, upto, top, longer, want)
<1>1. ASSUME NEW list, NEW from, Plain(list, from, top, lg, want)
      PROVE  Plain(list, from, top, longer, want)
  <2>1. Between(from, top, longer, want) = Between(from, top, lg, want)
    BY DEF Between
  <2>2. ASSUME NEW i \in 1 .. Len(list) PROVE longer[list[i].seq] = lg[list[i].seq]
    <3>1. list[i].seq \in Between(from, top, lg, want)
      BY <1>1 DEF Plain, Enumerates
    <3>. QED  BY <3>1 DEF Between
  <2>. QED  BY <1>1, <2>1, <2>2 DEF Plain, Faithful
<1>. QED  BY <1>1 DEF Owes

(* A reader at the top is owed nothing.                                    *)
LEMMA OwesNothing ==
  ASSUME NEW top \in Nat, NEW lg, NEW want
  PROVE  Owes(<<>>, top, top, lg, want)
<1>1. Between(top, top, lg, want) = {}
  BY DEF Between
<1>2. Faithful(<<>>, lg)
  BY EmptySeq DEF Faithful
<1>. QED  BY <1>1, <1>2, EnumeratesNothing DEF Owes, Plain

(* A reader that is told to read everything again is owed nothing more.    *)
LEMMA OwesResync ==
  ASSUME NEW top \in Nat, NEW upto \in 0 .. top, NEW e, e.resync, e.seq = top, NEW lg, NEW want
  PROVE  Owes(<<e>>, upto, top, lg, want)
<1>1. Plain(<<>>, top, top, lg, want)
  <2>1. Between(top, top, lg, want) = {}
    BY DEF Between
  <2>2. Faithful(<<>>, lg)
    BY EmptySeq DEF Faithful
  <2>. QED  BY <2>1, <2>2, EnumeratesNothing DEF Plain
<1>2. <<e>> # <<>> /\ Head(<<e>>) = e /\ Tail(<<e>>) = <<>>
  OBVIOUS
<1>. QED  BY <1>1, <1>2 DEF Owes

\* Where a list has the wanted things numbered after one.
After(list, from, want) == {i \in 1 .. Len(list) : list[i].seq > from /\ list[i].key \in want}

(* Picking the wanted updates out of a stretch of the log gives what a     *)
(* reader at any position inside or just before the stretch is owed of it. *)
LEMMA PickedIsPlain ==
  ASSUME NEW T, NEW list \in Seq(T), NEW off \in Nat, NEW from \in Nat, NEW top,
         NEW lg, NEW want,
         top = off + Len(list), off <= from, from <= top,
         \A i \in 1 .. Len(list) : list[i] = lg[off + i] /\ list[i].seq = off + i,
         NEW events, Len(events) = Len(Pick(list, After(list, from, want))),
         \A i \in 1 .. Len(events) :
           /\ ~ events[i].resync
           /\ events[i].seq = Pick(list, After(list, from, want))[i].seq
           /\ events[i].key = Pick(list, After(list, from, want))[i].key
           /\ events[i].value = Pick(list, After(list, from, want))[i].value
  PROVE  Plain(events, from, top, lg, want)
<1>. DEFINE L == Len(list)
            P == Pick(list, After(list, from, want))
<1>0. L \in Nat /\ top \in Nat
  BY LenProperties
<1>1. \A i, j \in 1 .. L : i < j => list[i].seq < list[j].seq
  BY <1>0
<1>2. Enumerates(P, {list[i].seq : i \in After(list, from, want) \cap (1 .. L)})
  BY <1>1, EnumeratesPicked
<1>3. {list[i].seq : i \in After(list, from, want) \cap (1 .. L)} = Between(from, top, lg, want)
  <2>1. ASSUME NEW i \in After(list, from, want) PROVE list[i].seq \in Between(from, top, lg, want)
    <3>1. i \in 1 .. L /\ list[i].seq > from /\ list[i].key \in want
      BY DEF After
    <3>2. list[i].seq = off + i /\ list[i] = lg[off + i] /\ off + i \in 1 .. top
      BY <1>0, <3>1
    <3>. QED  BY <3>1, <3>2 DEF Between
  <2>2. ASSUME NEW n \in Between(from, top, lg, want)
        PROVE  n \in {list[i].seq : i \in After(list, from, want) \cap (1 .. L)}
    <3>1. n \in 1 .. top /\ n > from /\ lg[n].key \in want
      BY DEF Between
    <3>2. n - off \in 1 .. L /\ off + (n - off) = n
      BY <1>0, <3>1
    <3>3. list[n - off] = lg[n] /\ list[n - off].seq = n
      BY <3>2
    <3>4. n - off \in After(list, from, want)
      BY <3>1, <3>2, <3>3 DEF After
    <3>. QED  BY <3>2, <3>3, <3>4
  <2>. QED  BY <2>1, <2>2
<1>4. Enumerates(events, Between(from, top, lg, want))
  <2>. HIDE DEF P
  <2>1. Enumerates(P, Between(from, top, lg, want))
    BY <1>2, <1>3
  <2>2. Len(events) = Len(P) /\ \A i \in 1 .. Len(P) : events[i].seq = P[i].seq
    BY DEF P
  <2>. QED  BY <2>1, <2>2, EnumeratesAlike
<1>5. Faithful(events, lg)
  <2>. DEFINE wanted == After(list, from, want)
  <2>0. StandsIn(P, list, wanted)
    <3>1. ASSUME NEW places PROVE StandsIn(Pick(list, places), list, places)
      BY PickedElements, Zenon
    <3>. QED  BY <3>1, Zenon
  <2>1. \A i \in 1 .. Len(P) : \E n \in wanted \cap (1 .. Len(list)) : P[i] = list[n]
    BY <2>0 DEF StandsIn
  <2>2. ASSUME NEW i \in 1 .. Len(events)
        PROVE  /\ ~ events[i].resync
               /\ events[i].key = lg[events[i].seq].key
               /\ events[i].value = lg[events[i].seq].value
    <3>. HIDE DEF P
    <3>1. /\ i \in 1 .. Len(P) /\ ~ events[i].resync
          /\ events[i].seq = P[i].seq /\ events[i].key = P[i].key
          /\ events[i].value = P[i].value
      BY DEF P
    <3>2. PICK n \in 1 .. Len(list) : P[i] = list[n]
      BY <2>1, <3>1
    <3>3. list[n] = lg[off + n] /\ list[n].seq = off + n
      BY <3>2
    <3>4. P[i] = lg[P[i].seq]
      BY <3>2, <3>3
    <3>. QED  BY <3>1, <3>4
  <2>. QED  BY <2>2 DEF Faithful
<1>. QED  BY <1>0, <1>4, <1>5 DEF Plain
(* A list is its first element and the rest.                               *)
LEMMA HeadThenTail ==
  ASSUME NEW E, NEW list \in Seq(E), list # <<>>
  PROVE  Head(list) \in E /\ Tail(list) \in Seq(E) /\ list = <<Head(list)>> \o Tail(list)
<1> DEFINE one == <<Head(list)>>
           rest == Tail(list)
           both == one \o rest
<1>1. Len(list) \in Nat /\ Len(list) >= 1
  BY EmptySeq, LenProperties
<1>2. /\ Tail(list) \in Seq(E) /\ Len(Tail(list)) = Len(list) - 1 /\ Head(list) = list[1]
      /\ Head(list) \in E /\ \A i \in 1 .. Len(list) - 1 : Tail(list)[i] = list[i + 1]
  BY HeadTailProperties
<1>3. one \in Seq(E) /\ Len(one) = 1 /\ one[1] = list[1]
  BY <1>2
<1> HIDE DEF one
<1>a. one \in Seq(E) /\ rest \in Seq(E)
  BY <1>2, <1>3
<1> HIDE DEF rest
<1>4. /\ both \in Seq(E) /\ Len(both) = Len(one) + Len(rest)
      /\ \A i \in 1 .. Len(one) + Len(rest) :
           both[i] = IF i <= Len(one) THEN one[i] ELSE rest[i - Len(one)]
  BY <1>a, ConcatProperties
<1> HIDE DEF both
<1>5. Len(both) = Len(list)
  BY <1>1, <1>2, <1>3, <1>4 DEF rest
<1>6. ASSUME NEW i \in 1 .. Len(list) PROVE both[i] = list[i]
  <2>1. both[i] = IF i <= 1 THEN one[i] ELSE rest[i - 1]
    BY <1>1, <1>2, <1>3, <1>4 DEF rest
  <2>2. CASE i = 1
    BY <1>3, <2>1, <2>2
  <2>3. CASE i # 1
    <3>1. i - 1 \in 1 .. Len(list) - 1 /\ ~ (i <= 1) /\ (i - 1) + 1 = i
      BY <1>1, <2>3
    <3> QED BY <1>2, <2>1, <3>1 DEF rest
  <2> QED BY <2>2, <2>3
<1>7. both = list
  BY <1>4, <1>5, <1>6, SeqEqual
<1> QED BY <1>2, <1>7 DEF both, one, rest

(* Going through a list of one element.                                    *)
LEMMA PickOfOne ==
  ASSUME NEW T, NEW list \in Seq(T), Len(list) = 1, NEW wanted
  PROVE  Pick(list, wanted) = IF 1 \in wanted THEN list ELSE <<>>
<1>1. PICK run : Collects(T, list, wanted, run) /\ Pick(list, wanted) = run[Len(list)]
  BY PickUnfolds
<1>2. Pick(list, wanted) = IF 1 \in wanted THEN Append(<<>>, list[1]) ELSE <<>>
  <2>1. 1 \in 1 .. Len(list) /\ 1 - 1 = 0
    OBVIOUS
  <2>2. run[0] = <<>> /\ run[1] = IF 1 \in wanted THEN Append(run[0], list[1]) ELSE run[0]
    BY <1>1, <2>1 DEF Collects
  <2> QED BY <1>1, <2>2
<1> DEFINE one == Append(<<>>, list[1])
<1>3. one = list
  <2>1. list[1] \in T /\ <<>> \in Seq(T) /\ Len(<<>>) = 0
    BY ElementOfSeq, EmptySeq
  <2>2. one \in Seq(T) /\ Len(one) = 1 /\ one[1] = list[1]
    BY <2>1, AppendProperties
  <2>3. \A i \in 1 .. Len(list) : one[i] = list[i]
    BY <2>2
  <2> HIDE DEF one
  <2> QED BY <2>2, <2>3, SeqEqual
<1> QED BY <1>2, <1>3
=============================================================================
