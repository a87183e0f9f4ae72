------------------------------- MODULE Fanout -------------------------------
(***************************************************************************)
(* The broadcast that stands beside the database of zdc-store              *)
(* (src/crates/zdc-store/src/watch.rs).                                    *)
(*                                                                         *)
(* One mutex protects the position of the newest announcement, a bounded   *)
(* backlog of announcements, and the list of subscribers.  Every operation *)
(* takes that mutex once, so every operation is one step here.             *)
(*                                                                         *)
(* A subscription is a list of events computed when it was opened          *)
(* (pending) followed by a channel (rx); `upto` is the position of the     *)
(* last event its holder took, which is the cursor a reconnection sends.   *)
(***************************************************************************)
EXTENDS Integers, Sequences, FiniteSets, Lists

CONSTANTS
  Key,         \* the durable keys the program declares
  MaxNum,      \* the largest magnitude a number can represent
  Text,        \* any JSON text that is not a number
  None,        \* an absent key
  Subscriber,  \* the holders of subscriptions
  Wants,       \* Wants[s]: the keys subscriber s asks for
  Backlog,     \* how many announcements are kept for replaying
  NoSeq        \* the absent cursor of a fresh subscriber

VARIABLES
  latest,      \* position of the newest announcement
  backlog,     \* the retained announcements, oldest first
  subs         \* subs[s]: the subscription s holds, if it is live

Number == -MaxNum .. MaxNum
Json == Number \cup {Text}
Slot == Json \cup {None}

ASSUME FanoutAssumption ==
  /\ MaxNum \in Nat
  /\ Text \notin Int /\ None \notin Int /\ Text # None
  /\ Wants \in [Subscriber -> SUBSET Key]
  /\ Backlog \in Nat \ {0}
  /\ NoSeq \notin Int

fanoutVars == <<latest, backlog, subs>>

-----------------------------------------------------------------------------
(* Positions, announcements and events.                                    *)

Announcement == [seq : Nat, key : Key, value : Slot]

\* An event is an announcement or the admission that the tail is unprovable.
ResyncAt(position) == [resync |-> TRUE, seq |-> position]
UpdateEvent(update) == [resync |-> FALSE, seq |-> update.seq,
                        key |-> update.key, value |-> update.value]
Event == [resync : {TRUE}, seq : Nat]
         \cup [resync : {FALSE}, seq : Nat, key : Key, value : Slot]

Closed == [live |-> FALSE, pending |-> <<>>, rx |-> <<>>, upto |-> NoSeq]

\* Mutants: the deque is never trimmed; it is trimmed at the wrong end.
KeepAll(updates) == updates
KeepOldest(updates) ==
  IF Len(updates) > Backlog THEN SubSeq(updates, 1, Backlog) ELSE updates

\* The last Backlog elements: each push on a full deque first pops the front.
KeepNewest(updates) ==
  IF Len(updates) > Backlog
    THEN SubSeq(updates, Len(updates) - Backlog + 1, Len(updates))
    ELSE updates

WantedBy(s, updates) ==
  Pick(updates, {i \in 1 .. Len(updates) : updates[i].key \in Wants[s]})
AsEvents(updates) == [i \in 1 .. Len(updates) |-> UpdateEvent(updates[i])]

-----------------------------------------------------------------------------

(* Fanout::new: the position survives in the database, nothing else does.  *)
FanoutOpen(position) ==
  /\ latest' = position
  /\ backlog' = <<>>
  /\ subs' = [s \in Subscriber |-> [subs[s] EXCEPT !.live = FALSE,
                                                   !.pending = <<>>,
                                                   !.rx = <<>>]]

(* Announce one transaction's writes under one acquisition of the lock.    *)
PublishAll(updates) ==
  IF updates = <<>>
    THEN UNCHANGED fanoutVars
    ELSE /\ latest' = updates[Len(updates)].seq
         /\ backlog' = KeepNewest(backlog \o updates)
         /\ subs' = [s \in Subscriber |->
                       IF subs[s].live
                         THEN [subs[s] EXCEPT
                                 !.rx = @ \o AsEvents(WantedBy(s, updates))]
                         ELSE subs[s]]

\* What the backlog retains of s's keys after a position.
WantedAfter(s, since) ==
  Pick(backlog, {i \in 1 .. Len(backlog) : backlog[i].seq > since /\ backlog[i].key \in Wants[s]})

\* Mutant: a backlog that starts one position too late is taken as complete.
ReplayOffByOne(s, since) ==
  IF since = NoSeq \/ since >= latest
    THEN <<>>
    ELSE IF backlog # <<>> /\ backlog[1].seq <= since + 2
      THEN AsEvents(WantedAfter(s, since))
      ELSE <<ResyncAt(latest)>>

\* Mutant: an empty backlog, as after a restart, is taken as nothing missed.
ReplayEmptyIsCurrent(s, since) ==
  IF since = NoSeq \/ since >= latest \/ backlog = <<>>
    THEN <<>>
    ELSE IF backlog[1].seq <= since + 1
      THEN AsEvents(WantedAfter(s, since))
      ELSE <<ResyncAt(latest)>>

\* What a subscription opened at cursor `since` must deliver before its channel.
Replay(s, since) ==
  IF since = NoSeq \/ since >= latest
    THEN <<>>
    ELSE IF backlog # <<>> /\ backlog[1].seq <= since + 1
      THEN AsEvents(WantedAfter(s, since))
      ELSE <<ResyncAt(latest)>>

(* Registration and the backlog snapshot, under one lock.                  *)
Subscribe(s, since) ==
  /\ ~subs[s].live
  /\ subs' = [subs EXCEPT ![s] = [live |-> TRUE,
                                  pending |-> Replay(s, since),
                                  rx |-> <<>>,
                                  upto |-> IF since = NoSeq THEN latest ELSE since]]
  /\ UNCHANGED <<latest, backlog>>

(* Take the next event: the replayed tail first, then the channel.         *)
TryNext(s) ==
  /\ subs[s].live
  /\ \/ /\ subs[s].pending # <<>>
        /\ subs' = [subs EXCEPT ![s].pending = Tail(@),
                                ![s].upto = Head(subs[s].pending).seq]
     \/ /\ subs[s].pending = <<>> /\ subs[s].rx # <<>>
        /\ subs' = [subs EXCEPT ![s].rx = Tail(@),
                                ![s].upto = Head(subs[s].rx).seq]
  /\ UNCHANGED <<latest, backlog>>

(* The holder drops its subscription; it keeps its cursor.                 *)
Hangup(s) ==
  /\ subs[s].live
  /\ subs' = [subs EXCEPT ![s] = [@ EXCEPT !.live = FALSE,
                                           !.pending = <<>>,
                                           !.rx = <<>>]]
  /\ UNCHANGED <<latest, backlog>>

FanoutInit ==
  /\ latest = 0
  /\ backlog = <<>>
  /\ subs = [s \in Subscriber |-> Closed]

FanoutTypeOK ==
  /\ latest \in Nat
  /\ backlog \in Seq(Announcement)
  /\ Len(backlog) <= Backlog

SubscriptionsTypeOK ==
  subs \in [Subscriber -> [live : BOOLEAN,
                           pending : Seq(Event),
                           rx : Seq(Event),
                           upto : Nat \cup {NoSeq}]]
=============================================================================
