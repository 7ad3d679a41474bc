---------------------------- MODULE AudioManager ----------------------------
(***************************************************************************)
(* The audio runtime (internal/audio): one bounded queue of utterances and *)
(* alert sounds, one current item that is synthesised by a goroutine of    *)
(* its own, and one renderer that plays it and acknowledges what it does.  *)
(* An item that was skipped, cancelled or interrupted leaves its goroutine *)
(* running, and the alert may be back with another item meanwhile.         *)
(* The alerts call it to have their sound played, cancelled, or asked for  *)
(* (AlertPlayback).                                                        *)
(*                                                                         *)
(* Every action here runs under Manager.mu.  What is spoken, volumes,      *)
(* eligibility, cooldowns and counters are left out; whether an utterance  *)
(* has expired is any choice of the step that asks.  A renderer is there   *)
(* or not: calls with the token of a superseded one are rejected.          *)
(***************************************************************************)
EXTENDS Integers, Sequences, FiniteSets, SequencesExt

CONSTANTS
  Alerts,        \* alert instances that may own audio
  Utterances,    \* what the event pipeline and Test Speak ask for
  Pieces,        \* Pieces[i]: the length of the audio chain of alert i: 0, 1, or sound then speech
  NoItem,
  QueueCapacity  \* Queue.capacity

\* An item is its ID: the alert it was made for, for which of its showings, and how many pieces
\* of the chain come after it.  An utterance is made once
Item == [of : Alerts \cup Utterances, nth : Nat, more : 0..1]

ASSUME AudioAssumption ==
  /\ NoItem \notin Item
  /\ Alerts \cap Utterances = {} /\ Pieces \in [Alerts -> 0..2]
  /\ QueueCapacity \in Nat

VARIABLES
  current,   \* Manager.current
  ready,     \* Queue.ready
  pending,   \* Queue.pending
  endings,   \* Manager.alertAudioStates
  renderer,  \* is there a renderer session?
  syntheses, \* the items whose synthesize has not taken the lock yet
  made,      \* made[i]: how often items were made for alert i
  asked      \* the utterances that have been asked for

audioVars == <<current, ready, pending, endings, renderer, syntheses, made, asked>>

IsCurrent(i)  == current # NoItem /\ current.item.of = i
Room          == Len(ready) + Len(pending) < QueueCapacity

\* The elements of a queue at these indices, in their order
Keep(q, indices) ==
  [n \in 1 .. Cardinality(indices) |->
     q[CHOOSE i \in indices : Cardinality({k \in indices : k < i}) = n - 1]]

Without(queue, gone) == Keep(queue, {k \in DOMAIN queue : queue[k].of \notin gone})

AudioInit ==
  /\ current = NoItem
  /\ ready = <<>> /\ pending = <<>>
  /\ endings = [i \in Alerts |-> "none"]
  /\ renderer = FALSE /\ syntheses = {}
  /\ made = [i \in Alerts |-> 0] /\ asked = {}

-----------------------------------------------------------------------------
(* The current item *)

\* promoteLocked, while these syntheses go on
Promote(it, others) ==
  /\ current' = [item |-> it, state |-> "synthesizing", bytes |-> NoItem]
  /\ syntheses' = others \cup {it}

\* finishCurrentLocked: the rest of a chain follows, or the ending is kept for the alert
Finish(ending, others) ==
  LET it == current.item IN
  IF it.more > 0
  THEN Promote([it EXCEPT !.more = @ - 1], others) /\ UNCHANGED endings
  ELSE /\ current' = NoItem /\ syntheses' = others
       /\ endings' = IF it.of \in Alerts THEN [endings EXCEPT ![it.of] = ending] ELSE endings

\* abortCurrentLocked; the synthesis of the item is not waited for
Abort ==
  /\ current' = NoItem /\ UNCHANGED syntheses
  /\ endings' = IF current.item.of \in Alerts
                THEN [endings EXCEPT ![current.item.of] = "failed"] ELSE endings

-----------------------------------------------------------------------------
(* The event pipeline, Test Speak, and the operator's calls *)

\* handleEvent or TestSpeak accepts an utterance, for approval or not, unless the queue is full
Ask(u) ==
  /\ u \notin asked
  /\ asked' = asked \cup {u}
  /\ LET it == [of |-> u, nth |-> 0, more |-> 0] IN
       \/ /\ Room
          /\ \/ ready' = Append(ready, it) /\ UNCHANGED pending
             \/ pending' = Append(pending, it) /\ UNCHANGED ready
       \/ ~Room /\ UNCHANGED <<ready, pending>>
  /\ UNCHANGED <<current, endings, renderer, syntheses, made>>

\* Approve or Reject
Decide(i) ==
  /\ i \in DOMAIN pending
  /\ pending' = RemoveAt(pending, i)
  /\ ready' = Append(ready, pending[i]) \/ UNCHANGED ready
  /\ UNCHANGED <<current, endings, renderer, syntheses, made, asked>>

\* ClearQueue: the sounds of alerts go as well, and no ending is kept for them
ClearAudio ==
  /\ ready # <<>> \/ pending # <<>>
  /\ ready' = <<>> /\ pending' = <<>>
  /\ UNCHANGED <<current, endings, renderer, syntheses, made, asked>>

SkipAudio ==
  /\ current # NoItem
  /\ Abort
  /\ UNCHANGED <<ready, pending, renderer, made, asked>>

-----------------------------------------------------------------------------
(* The poll loop and the syntheses *)

\* tick: drop what has expired (the sounds of alerts never do), then promote the oldest item
\* if nothing is current and a renderer is there
AudioTick ==
  \E gone \in SUBSET (asked \cap {ready[i].of : i \in DOMAIN ready}) :
    LET kept == Without(ready, gone)
        next == current = NoItem /\ renderer /\ kept # <<>>
    IN  /\ ready' = IF next THEN Tail(kept) ELSE kept
        /\ IF next THEN Promote(Head(kept), syntheses) ELSE UNCHANGED <<current, syntheses>>
        /\ UNCHANGED <<pending, endings, renderer, made, asked>>

\* Mutant of Discarded: the alert is compared, not the item
DiscardedUnlessSameAlert(it) == current # NoItem => current.item.of # it.of

\* synthesize compares the item it was started for with the current one
Discarded(it) == current # NoItem => current.item # it

\* synthesize takes the lock, with its result or with an error
SynthesisEnds(it) ==
  LET others == syntheses \ {it} IN
  /\ it \in syntheses
  /\ \/ Discarded(it) /\ syntheses' = others /\ UNCHANGED <<current, endings>>
     \/ ~Discarded(it) /\ Finish("failed", others)
     \/ /\ ~Discarded(it)
        /\ current' = [current EXCEPT !.bytes = it,
                                      !.state = IF renderer THEN "ready" ELSE "waiting"]
        /\ syntheses' = others /\ UNCHANGED endings
  /\ UNCHANGED <<ready, pending, renderer, made, asked>>

-----------------------------------------------------------------------------
(* The renderer *)

\* ConnectRenderer; an item that still waits is offered, whether or not it has its bytes
Connect ==
  /\ ~renderer
  /\ renderer' = TRUE
  /\ current' = IF current # NoItem /\ current.state = "waiting"
                THEN [current EXCEPT !.state = "ready"] ELSE current
  /\ UNCHANGED <<ready, pending, endings, syntheses, made, asked>>

\* DisconnectRenderer: what was playing is over, what was not waits for another renderer
Disconnect ==
  /\ renderer
  /\ renderer' = FALSE
  /\ \/ current = NoItem /\ UNCHANGED <<current, endings, syntheses>>
     \/ current # NoItem /\ current.state = "playing" /\ Abort
     \/ /\ current # NoItem /\ current.state # "playing"
        /\ current' = [current EXCEPT !.state = "waiting"] /\ UNCHANGED <<endings, syntheses>>
  /\ UNCHANGED <<ready, pending, made, asked>>

\* Ack: a renderer knows an item only once there are bytes to be played
Ack ==
  /\ renderer /\ current # NoItem /\ current.bytes # NoItem
  /\ \/ /\ current.state = "ready"
        /\ current' = [current EXCEPT !.state = "playing"] /\ UNCHANGED <<endings, syntheses>>
     \/ current.state = "playing" /\ Finish("ended", syntheses)
     \/ current.state \in {"ready", "playing"} /\ Finish("failed", syntheses)
  /\ UNCHANGED <<ready, pending, renderer, made, asked>>

-----------------------------------------------------------------------------
(* What the alerts call *)

\* EnqueueAlertAudio makes new items: an utterance gives way to them, the sound of an alert
\* does not
EnqueueAlertAudio(i) ==
  LET first == [of |-> i, nth |-> made[i], more |-> Pieces[i] - 1] IN
  /\ made' = [made EXCEPT ![i] = @ + 1]
  /\ IF current # NoItem /\ current.item.of \in Alerts
     THEN /\ ready' = IF Room THEN Append(ready, first) ELSE ready
          /\ endings' = IF Room THEN endings ELSE [endings EXCEPT ![i] = "failed"]
          /\ UNCHANGED <<current, syntheses>>
     ELSE Promote(first, syntheses) /\ UNCHANGED <<ready, endings>>
  /\ UNCHANGED <<pending, renderer, asked>>

CancelAlertAudio(i) ==
  /\ current' = IF IsCurrent(i) THEN NoItem ELSE current
  /\ ready' = Without(ready, {i})
  /\ endings' = [endings EXCEPT ![i] = "none"]
  /\ UNCHANGED <<pending, renderer, syntheses, made, asked>>

\* Does AlertAudioState report that the sound of alert i is on its way, or playing?
Underway(i) ==
  \/ IsCurrent(i) /\ (current.state = "waiting" => renderer)
  \/ ~IsCurrent(i) /\ \E k \in DOMAIN ready : ready[k].of = i

\* The alerts that have an item, or an ending, here
Known == {i \in Alerts : \/ IsCurrent(i) \/ endings[i] # "none"
                         \/ \E k \in DOMAIN ready : ready[k].of = i}

AudioStep ==
  \/ \E u \in Utterances : Ask(u)
  \/ \E i \in DOMAIN pending : Decide(i)
  \/ ClearAudio \/ SkipAudio
  \/ AudioTick
  \/ \E it \in syntheses : SynthesisEnds(it)
  \/ Connect \/ Disconnect \/ Ack

=============================================================================
