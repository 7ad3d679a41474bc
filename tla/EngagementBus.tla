---------------------------- MODULE EngagementBus ----------------------------
(***************************************************************************)
(* The engagement event bus (internal/engagement): connectors publish      *)
(* events; the bus numbers them, drops redelivered ones, retains the       *)
(* newest in a ring and fans them out to subscriptions, each a bounded     *)
(* channel that is filled with a replay first.  The bus mutex is held      *)
(* while an event is numbered and a subscription registered, never while a *)
(* channel is sent to or closed.                                           *)
(*                                                                         *)
(* An event is its sequence number.  A subscription is used once, and read *)
(* the way the SSE handler does (internal/httpapi/engagement.go).          *)
(***************************************************************************)
EXTENDS Integers, Sequences, FiniteSets

CONSTANTS
  Publishers,      \* goroutines that publish
  Subscriptions,
  Keys,            \* deduplication keys
  Capacity,        \* of the ring
  ChannelLimit,    \* maxSubscriberChannelCapacity
  DedupeCapacity,
  NoSubscription,
  Cancels,         \* may readers go away?
  MaxEvents        \* bound on the events published

ASSUME BusAssumption ==
  /\ Capacity \in Nat \ {0} /\ ChannelLimit \in Nat \ {0} /\ DedupeCapacity \in Nat \ {0}
  /\ NoSubscription \notin Subscriptions
  /\ Cancels \in BOOLEAN /\ MaxEvents \in Nat

VARIABLES
  ring,        \* Bus.ring: the slots, the oldest one and how many are filled
  dedupe,      \* Bus.dedupe.order, as the events whose keys are held
  log,         \* the keys of all the events published; its length is Bus.seq
  subs,        \* the subscriptions: see Unused
  publishers,  \* the Publish calls in progress
  shutdown,    \* has Shutdown begun, and which subscriptions has it still to close
  expired,     \* history: the newest event whose key has outlived the TTL
  panicked     \* a send on a closed channel has ended the program

vars == <<ring, dedupe, log, subs, publishers, shutdown, expired, panicked>>

-----------------------------------------------------------------------------
(* The ring *)

Slots == 0 .. Capacity - 1

Push(r, event) ==
  [r EXCEPT !.items[(r.start + r.count) % Capacity] = event,
            !.start = IF r.count = Capacity THEN (@ + 1) % Capacity ELSE @,
            !.count = IF @ = Capacity THEN @ ELSE @ + 1]

\* Everything retained, and what of it comes after a given event: the k-th one is at
\* the position up to which there are k of them
Retained(r) == [i \in 1 .. r.count |-> r.items[(r.start + i - 1) % Capacity]]
PositionsAfter(r, event) == {i \in 1 .. r.count : Retained(r)[i] > event}
Nth(positions, k) == CHOOSE i \in positions : Cardinality({j \in positions : j <= i}) = k
After(r, event) ==
  LET positions == PositionsAfter(r, event)
  IN [k \in 1 .. Cardinality(positions) |-> Retained(r)[Nth(positions, k)]]
OldestSequence(r) == IF r.count = 0 THEN 0 ELSE r.items[r.start]

\* Mutant of HasGap: the event before the oldest one counts as missing
HasGapTooEarly(event) == event > 0 /\ ring.count > 0 /\ event < OldestSequence(ring)

\* hasGapLocked
HasGap(event) ==
  /\ event > 0
  /\ IF ring.count = 0 THEN Len(log) > 0 /\ event < Len(log)
     ELSE OldestSequence(ring) > 1 /\ event < OldestSequence(ring) - 1

-----------------------------------------------------------------------------
(* Records *)

ChannelCapacity == IF Capacity > ChannelLimit THEN ChannelLimit ELSE Capacity

\* status: "open" while in Bus.subs; "removed" from it; events "closed"; the
\* reason "told" too.  sent[1 .. read] has been received, the rest is in the
\* channel, "replay" is still to be sent by Subscribe.
Unused == [status |-> "unused", reason |-> "none", reader |-> "none", after |-> 0,
           gap |-> FALSE, from |-> 0, replay |-> <<>>, sent |-> <<>>, read |-> 0]

IdlePublish == [pc |-> "idle", event |-> 0, targets |-> {}, slow |-> NoSubscription]

\* Mutant of Full: one event more is let in
FullOneLate(s) == Len(subs[s].sent) - subs[s].read > ChannelCapacity

Full(s)   == Len(subs[s].sent) - subs[s].read >= ChannelCapacity
Closed(s) == subs[s].status \in {"closed", "told"}
SendTo(s, event) == [subs EXCEPT ![s].sent = Append(@, event)]

\* Mutant of CloseStep: the reason is never told
CloseStepUntold(s) == [subs EXCEPT ![s].status = "closed"]

\* unsubscribe, under the mutex, and then the two steps of close outside it
Remove(s, reason) == [subs EXCEPT ![s].status = "removed", ![s].reason = reason]
CloseStep(s) ==
  [subs EXCEPT ![s].status = IF @ = "removed" THEN "closed" ELSE "told"]

Open == {s \in Subscriptions : subs[s].status = "open"}

-----------------------------------------------------------------------------
Init == /\ ring = [items |-> [i \in Slots |-> 0], start |-> 0, count |-> 0]
        /\ dedupe = <<>>
        /\ log = <<>>
        /\ subs = [s \in Subscriptions |-> Unused]
        /\ publishers = [p \in Publishers |-> IdlePublish]
        /\ shutdown = [begun |-> FALSE, closing |-> {}]
        /\ expired = 0
        /\ panicked = FALSE

-----------------------------------------------------------------------------
(* Publish *)

\* Mutant of Held: only the last key is remembered
HeldLast(held, key) == held # <<>> /\ log[held[Len(held)]] = key

Held(held, key) == \E i \in 1 .. Len(held) : log[held[i]] = key

\* recordLocked
Record(held, event) ==
  Append(IF Len(held) >= DedupeCapacity THEN Tail(held) ELSE held, event)

\* The keys older than the TTL are forgotten first
Publish(p, key) ==
  LET event == Len(log) + 1 IN
  /\ ~panicked /\ publishers[p].pc = "idle" /\ ~shutdown.begun
  /\ \E old \in 0 .. Len(dedupe) :
       LET held == SubSeq(dedupe, old + 1, Len(dedupe)) IN
       /\ expired' = IF old = 0 THEN expired ELSE dedupe[old]
       /\ IF Held(held, key)
            THEN dedupe' = held /\ UNCHANGED <<ring, log, publishers>>
            ELSE /\ event <= MaxEvents
                 /\ dedupe' = Record(held, event)
                 /\ log' = Append(log, key)
                 /\ ring' = Push(ring, event)
                 /\ publishers' = [publishers EXCEPT ![p] =
                      [pc |-> "send", event |-> event, targets |-> Open, slow |-> NoSubscription]]
  /\ UNCHANGED <<subs, shutdown, panicked>>

Overflows(s) == Full(s)

\* One send of the loop, in the order the map happens to have
Send(p, s) ==
  LET targets == publishers[p].targets \ {s} IN
  /\ ~panicked /\ publishers[p].pc = "send" /\ s \in publishers[p].targets
  /\ \/ /\ Closed(s)
        /\ panicked' = TRUE
        /\ UNCHANGED <<subs, publishers>>
     \/ /\ ~Closed(s) /\ ~Full(s)
        /\ subs' = SendTo(s, publishers[p].event)
        /\ publishers' = [publishers EXCEPT ![p].targets = targets]
        /\ UNCHANGED panicked
     \/ /\ ~Closed(s) /\ Overflows(s)
        /\ publishers' = [publishers EXCEPT ![p] = [@ EXCEPT !.pc = "drop", !.targets = targets,
                                                             !.slow = s]]
        /\ UNCHANGED <<subs, panicked>>
  /\ UNCHANGED <<ring, dedupe, log, shutdown, expired>>

Resume(p) == publishers' = [publishers EXCEPT ![p].pc = "send", ![p].slow = NoSubscription]

Drop(p) ==
  LET s == publishers[p].slow IN
  /\ ~panicked /\ publishers[p].pc = "drop"
  /\ \/ /\ subs[s].status = "open"
        /\ subs' = Remove(s, "slow_consumer")
        /\ publishers' = [publishers EXCEPT ![p].pc = "close"]
     \/ subs[s].status # "open" /\ Resume(p) /\ UNCHANGED subs
  /\ UNCHANGED <<ring, dedupe, log, shutdown, expired, panicked>>

CloseSlow(p) ==
  LET s == publishers[p].slow IN
  /\ ~panicked /\ publishers[p].pc = "close"
  /\ subs' = CloseStep(s)
  /\ IF subs'[s].status = "told" THEN Resume(p) ELSE UNCHANGED publishers
  /\ UNCHANGED <<ring, dedupe, log, shutdown, expired, panicked>>

Published(p) ==
  /\ ~panicked /\ publishers[p].pc = "send" /\ publishers[p].targets = {}
  /\ publishers' = [publishers EXCEPT ![p] = IdlePublish]
  /\ UNCHANGED <<ring, dedupe, log, subs, shutdown, expired, panicked>>

-----------------------------------------------------------------------------
(* Subscribe and the reader *)

\* Mutant of Replayed: the replay begins at the event the reader has already
ReplayedFrom(event) == After(ring, event - 1)

Replayed(event) == After(ring, event)

\* A Last-Event-ID may come from an earlier run of the program
Subscribe(s, event) ==
  /\ ~panicked /\ subs[s].status = "unused" /\ ~shutdown.begun
  /\ subs' = [subs EXCEPT ![s] = [Unused EXCEPT
       !.status = "open", !.reader = "replay", !.after = event,
       !.gap = HasGap(event), !.replay = Replayed(event),
       !.from = IF event >= Len(log) THEN Len(log)
                ELSE IF event + 1 < OldestSequence(ring) THEN OldestSequence(ring) - 1
                ELSE event]]
  /\ UNCHANGED <<ring, dedupe, log, publishers, shutdown, expired, panicked>>

Replay(s) ==
  /\ ~panicked /\ subs[s].reader = "replay"
  /\ \/ /\ subs[s].replay = <<>>
        /\ subs' = [subs EXCEPT ![s].reader = "reading"]
        /\ UNCHANGED panicked
     \/ /\ subs[s].replay # <<>> /\ Closed(s)
        /\ panicked' = TRUE
        /\ UNCHANGED subs
     \/ /\ subs[s].replay # <<>> /\ ~Closed(s) /\ ~Full(s)
        /\ subs' = [SendTo(s, Head(subs[s].replay)) EXCEPT ![s].replay = Tail(@)]
        /\ UNCHANGED panicked
     \/ /\ subs[s].replay # <<>> /\ ~Closed(s) /\ Full(s)
        /\ subs' = IF subs[s].status = "open"
                     THEN [Remove(s, "slow_consumer") EXCEPT ![s].reader = "overflow"]
                     ELSE [subs EXCEPT ![s].reader = "reading"]
        /\ UNCHANGED panicked
  /\ UNCHANGED <<ring, dedupe, log, publishers, shutdown, expired>>

Receive(s) ==
  /\ ~panicked /\ subs[s].reader = "reading" /\ subs[s].read < Len(subs[s].sent)
  /\ subs' = [subs EXCEPT ![s].read = @ + 1]
  /\ UNCHANGED <<ring, dedupe, log, publishers, shutdown, expired, panicked>>

\* The channel is closed and empty: the reason is looked for once, without waiting
EndOfStream(s) ==
  /\ ~panicked /\ subs[s].reader = "reading" /\ subs[s].read = Len(subs[s].sent) /\ Closed(s)
  /\ subs' = [subs EXCEPT ![s].reader =
       IF subs[s].status = "told" /\ subs[s].reason = "slow_consumer" THEN "ended_with_gap"
                                                                     ELSE "ended"]
  /\ UNCHANGED <<ring, dedupe, log, publishers, shutdown, expired, panicked>>

\* The request is over, and Cancel deferred
Cancel(s) ==
  /\ ~panicked /\ Cancels
  /\ subs[s].reader = "reading"
  /\ subs' = IF subs[s].status = "open"
               THEN [Remove(s, "cancelled") EXCEPT ![s].reader = "cancel"]
               ELSE [subs EXCEPT ![s].reader = "cancelled"]
  /\ UNCHANGED <<ring, dedupe, log, publishers, shutdown, expired, panicked>>

\* The reader closes its own subscription, in Cancel or in Subscribe
CloseOwn(s) ==
  /\ ~panicked /\ subs[s].reader \in {"cancel", "overflow"}
  /\ subs' = IF subs[s].status = "removed" THEN CloseStep(s)
             ELSE [CloseStep(s) EXCEPT ![s].reader = IF @ = "cancel" THEN "cancelled" ELSE "reading"]
  /\ UNCHANGED <<ring, dedupe, log, publishers, shutdown, expired, panicked>>

-----------------------------------------------------------------------------
(* Shutdown *)

Shutdown ==
  /\ ~panicked /\ ~shutdown.begun
  /\ shutdown' = [begun |-> TRUE, closing |-> Open]
  /\ subs' = [s \in Subscriptions |->
       IF s \in Open THEN [subs[s] EXCEPT !.status = "removed", !.reason = "shutdown"] ELSE subs[s]]
  /\ UNCHANGED <<ring, dedupe, log, publishers, expired, panicked>>

CloseAtShutdown ==
  /\ ~panicked
  /\ \E s \in shutdown.closing :
       /\ subs' = CloseStep(s)
       /\ shutdown' = IF subs'[s].status = "told" THEN [shutdown EXCEPT !.closing = @ \ {s}]
                                                 ELSE shutdown
  /\ UNCHANGED <<ring, dedupe, log, publishers, expired, panicked>>

-----------------------------------------------------------------------------
PublishStep(p) == \/ \E s \in Subscriptions : Send(p, s)
                  \/ Drop(p) \/ CloseSlow(p) \/ Published(p)

ReadStep(s) == Replay(s) \/ Receive(s) \/ EndOfStream(s) \/ CloseOwn(s)

Next == \/ \E p \in Publishers : PublishStep(p) \/ \E key \in Keys : Publish(p, key)
        \/ \E s \in Subscriptions :
             ReadStep(s) \/ Cancel(s) \/ \E event \in 0 .. MaxEvents : Subscribe(s, event)
        \/ Shutdown \/ CloseAtShutdown

Spec == Init /\ [][Next]_vars

\* Goroutines inside Publish, Subscribe, Cancel and Shutdown keep running; nobody
\* has to call them, and a reader may never read
Fairness == /\ \A p \in Publishers : WF_vars(PublishStep(p))
            /\ \A s \in Subscriptions : WF_vars(Replay(s) \/ CloseOwn(s))
            /\ WF_vars(CloseAtShutdown)

FairSpec == Spec /\ Fairness

-----------------------------------------------------------------------------
(* Type invariant *)

Event == 1 .. MaxEvents

SubType == [status : {"unused", "open", "removed", "closed", "told"},
            reason : {"none", "cancelled", "slow_consumer", "shutdown"},
            reader : {"none", "replay", "reading", "cancel", "overflow",
                      "cancelled", "ended", "ended_with_gap"},
            after : 0 .. MaxEvents, gap : BOOLEAN, from : 0 .. MaxEvents,
            replay : Seq(Event), sent : Seq(Event), read : Nat]
PublisherType == [pc : {"idle", "send", "drop", "close"}, event : 0 .. MaxEvents,
                  targets : SUBSET Subscriptions, slow : Subscriptions \cup {NoSubscription}]

\* The shape of the state; no channel holds more than its capacity and no more
\* keys are held than the deduplication capacity.
TypeOK ==
  /\ ring \in [items : [Slots -> 0 .. MaxEvents], start : Slots, count : 0 .. Capacity]
  /\ dedupe \in Seq(Event) /\ Len(dedupe) <= DedupeCapacity
  /\ log \in Seq(Keys) /\ Len(log) <= MaxEvents
  /\ subs \in [Subscriptions -> SubType]
  /\ \A s \in Subscriptions : Len(subs[s].sent) - subs[s].read \in 0 .. ChannelCapacity
  /\ publishers \in [Publishers -> PublisherType]
  /\ shutdown \in [begun : BOOLEAN, closing : SUBSET Subscriptions]
  /\ expired \in 0 .. MaxEvents
  /\ panicked \in BOOLEAN

-----------------------------------------------------------------------------
(* Safety *)

\* A redelivered event is not published again while its key is held: its key has
\* outlived the TTL, or as many other events as the capacity came after it.
RedeliveryIsDropped ==
  \A i, j \in 1 .. Len(log) :
    i < j /\ log[i] = log[j] => i <= expired \/ j - i > DedupeCapacity

InFlight(s) == {publishers[p].event : p \in {q \in Publishers :
                  s \in publishers[q].targets \/ publishers[q].slow = s}}
Elements(q) == {q[i] : i \in 1 .. Len(q)}

\* The registration splits the events in two, those to be replayed and those to be
\* fanned out, and loses none and delivers none twice: as long as a subscription is
\* open, every event after its beginning has been sent to it, waits in its replay
\* or is about to be sent by the call that published it, and only one of these.
NothingLostOrTwice ==
  \A s \in Open :
    LET sent == Elements(subs[s].sent)
        left == Elements(subs[s].replay)
    IN /\ sent \cup left \cup InFlight(s) = subs[s].from + 1 .. Len(log)
       /\ sent \cap left = {} /\ sent \cap InFlight(s) = {} /\ left \cap InFlight(s) = {}
       /\ Cardinality(sent) = Len(subs[s].sent)

\* "replay is necessarily incomplete - the caller must signal this honestly": a
\* subscription after some event is told of a gap if and only if an event after
\* that one could not be replayed.
GapIsHonest ==
  \A s \in Subscriptions :
    subs[s].status # "unused" /\ subs[s].after > 0 =>
      (subs[s].gap <=> subs[s].from > subs[s].after)

-----------------------------------------------------------------------------
(* Liveness *)

\* Shutdown "closes every live subscriber": whoever was subscribed learns of it.
ShutdownClosesAll ==
  \A s \in Subscriptions :
    shutdown.begun /\ subs[s].status # "unused" ~> subs[s].status = "told" \/ panicked
=============================================================================
