---------------------------- MODULE OperatorChat ----------------------------
(***************************************************************************)
(* The operator chat projection (internal/operatorchat): one goroutine     *)
(* consumes the engagement event bus and turns its events into revisions   *)
(* of chat items, kept in a ring and, for messages, in an index of their   *)
(* current state that a moderation event is looked up in.                  *)
(*                                                                         *)
(* The bus is EngagementBus seen from its one subscription here: a log     *)
(* whose newest events it retains, a bounded channel, a replay that        *)
(* Subscribe pushes after it has registered.  An event in the channel or   *)
(* in the replay is its position in the log.  The projection's own         *)
(* subscribers are served by the primitive EngagementBus models.  Shutting *)
(* down, the bus or the projection, is left out: it ends the consumer.     *)
(***************************************************************************)
EXTENDS Integers, Sequences, FiniteSets, FiniteSetsExt

CONSTANTS
  Accounts,      \* connected accounts
  Users,         \* chatters; each writes at most one message per account
  BusCapacity,   \* Bus.capacity
  ChannelLimit,  \* maxSubscriberChannelCapacity
  Capacity,      \* Projection.capacity
  MaxEvents      \* bound on the events published

ASSUME OperatorChatAssumption ==
  /\ BusCapacity \in Nat \ {0} /\ ChannelLimit \in Nat \ {0} /\ Capacity \in Nat \ {0}
  /\ MaxEvents \in Nat

VARIABLES
  log,         \* the events published on the bus
  channel,     \* the subscription's channel: what is in it, and how it ended
  replay,      \* what Subscribe has still to push into it
  consumer,    \* where run is, and the revisions handleEvent still has to append
  ring,        \* Projection.ring: the retained revisions, oldest first
  latestByID,  \* Projection.latestByID
  newest,      \* history: the newest event handled, or 0
  inOrder      \* history: the events up to this one have been handled in their order, since
               \* whatever a replay took the consumer back to

projectionVars == <<log, channel, replay, consumer, ring, latestByID, newest, inOrder>>

Messages == Accounts \X Users

\* What the bus publishes: a message, a deletion of one, of a user's, of an account's, or
\* anything that makes an item of its own
Events == [kind : {"message", "deleted", "user_cleared"}, of : Messages]
            \cup [kind : {"cleared"}, of : Accounts] \cup {[kind |-> "activity", of |-> "any"]}

OtherItem == [id |-> <<>>, deleted |-> FALSE]
Revisions == [id : Messages, deleted : BOOLEAN] \cup {OtherItem}

-----------------------------------------------------------------------------
(* The bus *)

ChannelCapacity == Min({BusCapacity, ChannelLimit})
FirstRetained   == Max({1, Len(log) - BusCapacity + 1})
Retained        == [i \in 1 .. Len(log) - FirstRetained + 1 |-> FirstRetained + i - 1]

Room == Len(channel.events) < ChannelCapacity
Sent(event) == [channel EXCEPT !.events = Append(@, event)]

Init ==
  /\ log = <<>>
  /\ channel = [events |-> <<>>, end |-> "open"]
  /\ replay = <<>>
  /\ consumer = [step |-> "running", todo |-> {}]
  /\ ring = <<>> /\ latestByID = [m \in Messages |-> "none"]
  /\ newest = 0 /\ inOrder = 0

\* A subscriber whose channel is full is dropped
Publish(event) ==
  /\ Len(log) < MaxEvents
  /\ event.kind = "message" => \A i \in DOMAIN log : log[i] # event
  /\ log' = Append(log, event)
  /\ channel' = IF channel.end # "open" THEN channel
                ELSE IF Room THEN Sent(Len(log) + 1)
                ELSE [channel EXCEPT !.end = "slow_consumer"]
  /\ UNCHANGED <<replay, consumer, ring, latestByID, newest, inOrder>>

-----------------------------------------------------------------------------
(* run *)

At(step)   == consumer.step = step
Goes(step) == consumer' = [consumer EXCEPT !.step = step]
Idle       == At("running") /\ consumer.todo = {}

\* Mutant of Resubscribe: a channel that was closed ends the consumer
ResubscribeNever ==
  /\ Idle /\ channel.events = <<>> /\ channel.end # "open"
  /\ Goes("stopped")
  /\ UNCHANGED <<log, channel, replay, ring, latestByID, newest, inOrder>>

\* Subscribe(0), called again at once when the channel was closed; a replay is pushed by
\* the consumer itself, which reads nothing meanwhile.  hasGapLocked(0) is always false
Resubscribe ==
  /\ Idle /\ channel.events = <<>> /\ channel.end # "open"
  /\ channel' = [events |-> <<>>, end |-> "open"]
  /\ replay' = Retained
  /\ Goes("replaying")
  /\ UNCHANGED <<log, ring, latestByID, newest, inOrder>>

\* One send of the replay.  A channel that a publisher has closed meanwhile is sent to as
\* well: the program ends, unless the channel is still full
PushReplay ==
  /\ At("replaying")
  /\ \/ /\ replay = <<>>
        /\ Goes("running") /\ UNCHANGED <<channel, replay>>
     \/ /\ replay # <<>> /\ Room
        /\ channel' = Sent(Head(replay)) /\ replay' = Tail(replay)
        /\ UNCHANGED consumer
     \/ /\ replay # <<>> /\ ~Room
        /\ channel' = IF channel.end = "open" THEN [channel EXCEPT !.end = "slow_consumer"]
                      ELSE channel
        /\ replay' = <<>> /\ Goes("running")
     \/ /\ replay # <<>> /\ channel.end # "open"
        /\ Goes("panicked") /\ UNCHANGED <<channel, replay>>
  /\ UNCHANGED <<log, ring, latestByID, newest, inOrder>>

-----------------------------------------------------------------------------
(* handleEvent *)

Shown(m) == latestByID[m] = "shown"

\* Mutant of Affected: the user's messages are taken on every account
AffectedEverywhere(event) ==
  {m \in Messages : Shown(m) /\ CASE event.kind = "cleared" -> m[1] = event.of
                                   [] OTHER -> m[2] = event.of[2]}

\* messagesMatching, for a whole chat and for one user of it
Affected(event) ==
  {m \in Messages : Shown(m) /\ CASE event.kind = "cleared" -> m[1] = event.of
                                   [] OTHER -> m = event.of}

\* The revisions an event makes; a deletion looks its message up, deleted or not
RevisionsOf(event) ==
  CASE event.kind = "message" -> {[id |-> event.of, deleted |-> FALSE]}
    [] event.kind = "deleted" -> IF latestByID[event.of] = "none" THEN {OtherItem}
                                 ELSE {[id |-> event.of, deleted |-> TRUE]}
    [] event.kind \in {"cleared", "user_cleared"} ->
         {[id |-> m, deleted |-> TRUE] : m \in Affected(event)} \cup {OtherItem}
    [] OTHER -> {OtherItem}

HandleEvent ==
  /\ Idle /\ channel.events # <<>>
  /\ LET event == Head(channel.events) IN
       /\ consumer' = [consumer EXCEPT !.todo = RevisionsOf(log[event])]
       /\ newest' = Max({newest, event})
       /\ inOrder' = IF event <= inOrder + 1 THEN event ELSE inOrder
  /\ channel' = [channel EXCEPT !.events = Tail(@)]
  /\ UNCHANGED <<log, replay, ring, latestByID>>

\* Mutant of Indexed: only a new message is written to the index
IndexedOnce(r) ==
  IF r.id \in Messages /\ latestByID[r.id] = "none"
  THEN [latestByID EXCEPT ![r.id] = "shown"] ELSE latestByID

Indexed(r) ==
  IF r.id \in Messages
  THEN [latestByID EXCEPT ![r.id] = IF r.deleted THEN "deleted" ELSE "shown"] ELSE latestByID

\* Mutant of Pushed: a full ring grows
PushedBeyond(r) == Append(ring, r)

Pushed(r) == Append(IF Len(ring) = Capacity THEN Tail(ring) ELSE ring, r)

\* Messages in the order the map happens to have, the item of the event itself last
AppendRevision ==
  /\ At("running")
  /\ \E r \in consumer.todo :
       /\ r = OtherItem => consumer.todo = {OtherItem}
       /\ consumer' = [consumer EXCEPT !.todo = @ \ {r}]
       /\ ring' = Pushed(r) /\ latestByID' = Indexed(r)
  /\ UNCHANGED <<log, channel, replay, newest, inOrder>>

-----------------------------------------------------------------------------
Run == Resubscribe \/ PushReplay \/ HandleEvent \/ AppendRevision

Next == \/ \E event \in Events : Publish(event)
        \/ Run

\* The consumer's goroutine runs; nobody has to publish or to shut anything down
Spec == Init /\ [][Next]_projectionVars /\ WF_projectionVars(Run)

-----------------------------------------------------------------------------
(* Properties *)

\* Every variable has its type; channel and ring keep to their capacities
TypeOK ==
  /\ log \in Seq(Events) /\ Len(log) <= MaxEvents
  /\ channel \in [events : Seq(1 .. MaxEvents),
                  end : {"open", "slow_consumer"}]
  /\ Len(channel.events) <= ChannelCapacity
  /\ replay \in Seq(1 .. MaxEvents)
  /\ consumer \in [step : {"running", "replaying", "stopped", "panicked"}, todo : SUBSET Revisions]
  /\ ring \in Seq(Revisions) /\ Len(ring) <= Capacity
  /\ latestByID \in [Messages -> {"none", "shown", "deleted"}]
  /\ newest \in 0 .. MaxEvents /\ inOrder \in 0 .. newest

Names(event, m) == CASE event.kind \in {"deleted", "user_cleared"} -> event.of = m
                     [] event.kind = "cleared" -> event.of = m[1]
                     [] OTHER -> FALSE

\* What the bus's whole history says of a message
Truth(m) ==
  CASE \A i \in DOMAIN log : log[i] # [kind |-> "message", of |-> m] -> "none"
    [] \E i, k \in DOMAIN log : i < k /\ log[i] = [kind |-> "message", of |-> m]
                                   /\ Names(log[k], m) -> "deleted"
    [] OTHER -> "shown"

\* Whatever the consumer has been handed - events a second time, behind newer ones, with others
\* evicted or cut off between them - once it has been handed the log in its order, from as far
\* back as the last replay took it, it shows exactly the messages nobody moderated
ModerationSticks ==
  consumer.todo = {} /\ inOrder = Len(log) => \A m \in Messages : latestByID[m] = Truth(m)

\* The index and the revision stream agree: the newest retained revision of a message is
\* its current state
NewestRevisionIsCurrent ==
  \A i \in DOMAIN ring :
    (ring[i].id \in Messages /\ \A k \in DOMAIN ring : k > i => ring[k].id # ring[i].id)
      => latestByID[ring[i].id] = IF ring[i].deleted THEN "deleted" ELSE "shown"

\* projection.go:164: the projection never silently stops updating.  Whatever it was dropped
\* for, the consumer comes to have handled all that was published
NeverStopsUpdating ==
  <>[]((Idle /\ newest = Len(log)) \/ At("panicked"))

=============================================================================
