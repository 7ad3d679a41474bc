------------------------- MODULE OperatorChatProofs -------------------------
(***************************************************************************)
(* Proofs about OperatorChat, for every number of accounts and users and   *)
(* every capacity of the bus, the channel and the ring.                    *)
(***************************************************************************)
EXTENDS OperatorChat, TLAPS

LEMMA OfTwo ==
  ASSUME NEW a \in Int, NEW b \in Int
  PROVE  /\ Max({a, b}) = IF a >= b THEN a ELSE b
         /\ Min({a, b}) = IF a <= b THEN a ELSE b
<1>1. \A x \in {a, b} : (\A y \in {a, b} : x >= y) <=> x >= a /\ x >= b
  OBVIOUS
<1>2. \A x \in {a, b} : (\A y \in {a, b} : x <= y) <=> x <= a /\ x <= b
  OBVIOUS
<1> QED BY <1>1, <1>2 DEF Max, Min

-----------------------------------------------------------------------------
(* Types *)

LEMMA CapacityType == ChannelCapacity \in Nat
<1>1. BusCapacity \in Int /\ ChannelLimit \in Int
  BY OperatorChatAssumption
<1>2. ChannelCapacity = IF BusCapacity <= ChannelLimit THEN BusCapacity ELSE ChannelLimit
  BY <1>1, OfTwo DEF ChannelCapacity
<1> QED BY <1>2, OperatorChatAssumption

\* What is on its way to the consumer is a position of the log
OnTheWay ==
  /\ channel.events \in Seq(1 .. Len(log))
  /\ replay \in Seq(1 .. Len(log))
  /\ newest <= Len(log)

TypeInv == TypeOK /\ OnTheWay

\* What the bus retains is a sequence of positions of its log
LEMMA RetainedType ==
  ASSUME log \in Seq(Events) PROVE Retained \in Seq(1 .. Len(log))
<1> DEFINE n == Len(log) - FirstRetained + 1
<1>1. Len(log) \in Nat /\ Len(log) - BusCapacity + 1 \in Int
  BY OperatorChatAssumption
<1>2. FirstRetained = IF 1 >= Len(log) - BusCapacity + 1 THEN 1 ELSE Len(log) - BusCapacity + 1
  BY <1>1, OfTwo DEF FirstRetained
<1>3. FirstRetained \in Nat \ {0} /\ n \in Nat
  BY <1>1, <1>2, OperatorChatAssumption
<1>4. \A i \in 1 .. n : FirstRetained + i - 1 \in 1 .. Len(log)
  BY <1>1, <1>3, OperatorChatAssumption
<1> HIDE DEF n
<1>5. Retained = [i \in 1 .. n |-> FirstRetained + i - 1]
  BY DEF Retained, n
<1> QED BY <1>3, <1>4, <1>5

LEMMA Positions ==
  ASSUME NEW n \in Nat, NEW m \in Nat, n <= m, NEW s \in Seq(1 .. n)
  PROVE  /\ s \in Seq(1 .. m)
         /\ \A x \in 1 .. m : Append(s, x) \in Seq(1 .. m) /\ Len(Append(s, x)) = Len(s) + 1
         /\ s # <<>> => /\ Head(s) \in 1 .. n /\ Tail(s) \in Seq(1 .. n)
                        /\ Len(Tail(s)) = Len(s) - 1
<1>1. 1 .. n \subseteq 1 .. m
  OBVIOUS
<1>2. s \in Seq(1 .. m)
  BY <1>1
<1>3. s # <<>> => Head(s) \in 1 .. n /\ Tail(s) \in Seq(1 .. n) /\ Len(Tail(s)) = Len(s) - 1
  OBVIOUS
<1>4. \A x \in 1 .. m : Append(s, x) \in Seq(1 .. m) /\ Len(Append(s, x)) = Len(s) + 1
  BY <1>2
<1> QED BY <1>2, <1>3, <1>4

\* An event makes revisions of messages, and an item of its own
LEMMA RevisionsType ==
  ASSUME NEW event \in Events PROVE RevisionsOf(event) \subseteq Revisions
<1>1. OtherItem \in Revisions
  BY DEF Revisions
<1>2. \A m \in Messages, d \in BOOLEAN : [id |-> m, deleted |-> d] \in Revisions
  BY DEF Revisions
<1>3. event.kind \in {"message", "deleted"} => event.of \in Messages
  BY DEF Events
<1>4. Affected(event) \subseteq Messages
  BY DEF Affected
<1> HIDE DEF Messages
<1> QED BY <1>1, <1>2, <1>3, <1>4 DEF RevisionsOf

ChannelType == [events : Seq(1 .. MaxEvents), end : {"open", "slow_consumer"}]

\* A step that leaves the log, the ring and the index keeps the types if channel and replay
\* hold positions of the log
LEMMA WayType ==
  ASSUME TypeInv, UNCHANGED <<log, ring, latestByID>>,
         channel' \in ChannelType, channel'.events \in Seq(1 .. Len(log)),
         Len(channel'.events) <= ChannelCapacity, replay' \in Seq(1 .. Len(log)),
         consumer' \in [step : {"running", "replaying", "stopped", "panicked"},
                        todo : SUBSET Revisions],
         newest' \in 0 .. Len(log), inOrder' \in 0 .. newest'
  PROVE  TypeInv'
<1>1. Len(log) \in Nat /\ MaxEvents \in Nat /\ Len(log) <= MaxEvents
  BY OperatorChatAssumption DEF TypeInv, TypeOK
<1>2. replay' \in Seq(1 .. MaxEvents)
  BY <1>1, Positions
<1>3. newest' \in 0 .. MaxEvents /\ newest' <= Len(log)
  BY <1>1
<1> QED BY <1>2, <1>3 DEF TypeInv, TypeOK, OnTheWay, ChannelType

LEMMA TypeInit == Init => TypeInv
<1> SUFFICES ASSUME Init PROVE TypeInv
  OBVIOUS
<1>1. /\ log = <<>> /\ channel = [events |-> <<>>, end |-> "open"] /\ replay = <<>>
      /\ consumer = [step |-> "running", todo |-> {}] /\ ring = <<>>
      /\ latestByID = [m \in Messages |-> "none"] /\ newest = 0 /\ inOrder = 0
  BY DEF Init
<1>2. /\ Len(log) <= MaxEvents /\ Len(ring) <= Capacity /\ Len(channel.events) <= ChannelCapacity
      /\ newest \in 0 .. MaxEvents /\ inOrder \in 0 .. newest /\ newest <= Len(log)
  BY <1>1, CapacityType, OperatorChatAssumption
<1>3. /\ log \in Seq(Events) /\ ring \in Seq(Revisions)
      /\ channel.events \in Seq(1 .. Len(log)) /\ replay \in Seq(1 .. Len(log))
      /\ channel \in [events : Seq(1 .. MaxEvents), end : {"open", "slow_consumer"}]
      /\ replay \in Seq(1 .. MaxEvents)
  BY <1>1
<1>4. /\ consumer \in [step : {"running", "replaying", "stopped", "panicked"},
                       todo : SUBSET Revisions]
      /\ latestByID \in [Messages -> {"none", "shown", "deleted"}]
  BY <1>1
<1> QED BY <1>1, <1>2, <1>3, <1>4 DEF TypeInv, TypeOK, OnTheWay

LEMMA TypePublish ==
  ASSUME TypeInv, NEW event \in Events, Publish(event) PROVE TypeInv'
<1> DEFINE n == Len(log)
<1>1. /\ log \in Seq(Events) /\ log' = Append(log, event) /\ n < MaxEvents
      /\ UNCHANGED <<replay, consumer, ring, latestByID, newest, inOrder>>
  BY DEF TypeInv, TypeOK, Publish
<1>2. log' \in Seq(Events) /\ Len(log') = n + 1 /\ n \in Nat /\ n + 1 \in 1 .. n + 1
  BY <1>1
<1>3. MaxEvents \in Nat /\ n + 1 <= MaxEvents
  BY <1>1, <1>2, OperatorChatAssumption
<1>4. /\ channel.events \in Seq(1 .. n) /\ replay \in Seq(1 .. n)
      /\ channel \in ChannelType /\ Len(channel.events) <= ChannelCapacity
  BY DEF TypeInv, TypeOK, OnTheWay, ChannelType
<1> HIDE DEF n
<1>5. /\ replay' \in Seq(1 .. n + 1) /\ replay' \in Seq(1 .. MaxEvents)
  BY <1>1, <1>2, <1>3, <1>4, Positions
<1>6. /\ channel' \in ChannelType /\ channel'.events \in Seq(1 .. n + 1)
      /\ Len(channel'.events) <= ChannelCapacity
  <2>1. CASE channel' = channel \/ channel' = [channel EXCEPT !.end = "slow_consumer"]
    <3>1. channel'.events = channel.events
      BY <1>4, <2>1 DEF ChannelType
    <3> QED BY <1>2, <1>4, <2>1, <3>1, Positions DEF ChannelType
  <2>2. CASE Room /\ channel' = Sent(n + 1)
    <3>1. channel'.events = Append(channel.events, n + 1) /\ channel'.end = channel.end
          /\ channel' = [channel EXCEPT !.events = Append(channel.events, n + 1)]
      BY <1>4, <2>2 DEF Sent, ChannelType
    <3>2. n + 1 \in 1 .. MaxEvents
      BY <1>2, <1>3
    <3>3. /\ Append(channel.events, n + 1) \in Seq(1 .. n + 1)
          /\ Append(channel.events, n + 1) \in Seq(1 .. MaxEvents)
          /\ Len(Append(channel.events, n + 1)) = Len(channel.events) + 1
      BY <1>2, <1>3, <1>4, <3>2, Positions
    <3>4. Len(channel.events) + 1 <= ChannelCapacity
      BY <1>4, <2>2, CapacityType DEF Room
    <3> QED BY <1>4, <3>1, <3>3, <3>4 DEF ChannelType
  <2> QED BY <2>1, <2>2 DEF Publish, n
<1>7. newest' <= Len(log')
  <2>1. newest <= n /\ newest \in Nat
    BY OperatorChatAssumption DEF TypeInv, TypeOK, OnTheWay, n
  <2> QED BY <1>1, <1>2, <2>1
<1> QED BY <1>1, <1>2, <1>3, <1>5, <1>6, <1>7 DEF TypeInv, TypeOK, OnTheWay, ChannelType

LEMMA TypeReplay ==
  ASSUME TypeInv, Resubscribe \/ PushReplay PROVE TypeInv'
<1> DEFINE n == Len(log)
<1>1. /\ log \in Seq(Events) /\ n \in Nat /\ n <= MaxEvents /\ MaxEvents \in Nat
      /\ channel.events \in Seq(1 .. n) /\ replay \in Seq(1 .. n)
      /\ channel \in ChannelType /\ Len(channel.events) <= ChannelCapacity
  BY OperatorChatAssumption DEF TypeInv, TypeOK, OnTheWay, ChannelType
<1> HIDE DEF n
<1>2. /\ channel' \in ChannelType /\ channel'.events \in Seq(1 .. n)
      /\ Len(channel'.events) <= ChannelCapacity /\ replay' \in Seq(1 .. n)
  <2>1. CASE Resubscribe
    BY <1>1, <2>1, RetainedType, CapacityType DEF Resubscribe, ChannelType, n
  <2>2. CASE replay # <<>> /\ Room /\ channel' = Sent(Head(replay)) /\ replay' = Tail(replay)
    <3>1. Head(replay) \in 1 .. n /\ replay' \in Seq(1 .. n)
      BY <1>1, <2>2, Positions
    <3>2. /\ Append(channel.events, Head(replay)) \in Seq(1 .. n)
          /\ Len(Append(channel.events, Head(replay))) = Len(channel.events) + 1
      BY <1>1, <3>1, Positions
    <3>3. Append(channel.events, Head(replay)) \in Seq(1 .. MaxEvents)
      BY <1>1, <3>2, Positions
    <3>4. channel' = [channel EXCEPT !.events = Append(channel.events, Head(replay))]
      BY <2>2 DEF Sent
    <3>5. Len(channel.events) + 1 <= ChannelCapacity
      BY <1>1, <2>2, CapacityType DEF Room
    <3> QED BY <1>1, <3>1, <3>2, <3>3, <3>4, <3>5 DEF ChannelType
  <2>3. CASE /\ channel' = channel \/ channel' = [channel EXCEPT !.end = "slow_consumer"]
             /\ replay' = replay \/ replay' = <<>>
    <3>1. channel'.events = channel.events /\ channel' \in ChannelType
      BY <1>1, <2>3 DEF ChannelType
    <3>2. replay' \in Seq(1 .. n)
      <4>1. <<>> \in Seq(1 .. n)
        OBVIOUS
      <4> QED BY <1>1, <2>3, <4>1
    <3> QED BY <1>1, <3>1, <3>2
  <2> QED BY <2>1, <2>2, <2>3 DEF PushReplay
<1>3. UNCHANGED <<log, ring, latestByID, newest, inOrder>>
  BY DEF Resubscribe, PushReplay
<1>4. consumer' = consumer
      \/ \E step \in {"running", "replaying", "panicked"} :
           consumer' = [consumer EXCEPT !.step = step]
  BY DEF Resubscribe, PushReplay, Goes
<1>5. consumer' \in [step : {"running", "replaying", "stopped", "panicked"},
                     todo : SUBSET Revisions]
  BY <1>4 DEF TypeInv, TypeOK
<1>6. newest' \in 0 .. Len(log) /\ inOrder' \in 0 .. newest'
  BY <1>1, <1>3 DEF TypeInv, TypeOK, OnTheWay, n
<1> QED BY <1>2, <1>3, <1>5, <1>6, WayType DEF n

LEMMA TypeHandle ==
  ASSUME TypeInv, HandleEvent PROVE TypeInv'
<1> DEFINE event == Head(channel.events)
           rest  == Tail(channel.events)
<1>1. /\ log \in Seq(Events) /\ Len(log) \in Nat /\ Len(log) <= MaxEvents /\ MaxEvents \in Nat
      /\ channel.events \in Seq(1 .. Len(log)) /\ channel.events # <<>>
      /\ channel \in ChannelType /\ Len(channel.events) <= ChannelCapacity
      /\ newest \in 0 .. MaxEvents /\ newest <= Len(log) /\ inOrder \in 0 .. newest
      /\ replay \in Seq(1 .. Len(log))
  BY OperatorChatAssumption DEF TypeInv, TypeOK, OnTheWay, ChannelType, HandleEvent
<1>2. /\ event \in 1 .. Len(log) /\ rest \in Seq(1 .. Len(log))
      /\ Len(rest) = Len(channel.events) - 1
  BY <1>1, Positions
<1>3. /\ consumer' = [consumer EXCEPT !.todo = RevisionsOf(log[event])]
      /\ newest' = Max({newest, event})
      /\ inOrder' = IF event <= inOrder + 1 THEN event ELSE inOrder
      /\ channel' = [channel EXCEPT !.events = rest]
      /\ UNCHANGED <<log, replay, ring, latestByID>>
  BY DEF HandleEvent
<1> HIDE DEF event, rest
<1>4. log[event] \in Events
  BY <1>1, <1>2
<1>5. consumer' \in [step : {"running", "replaying", "stopped", "panicked"},
                     todo : SUBSET Revisions]
  BY <1>3, <1>4, RevisionsType DEF TypeInv, TypeOK
<1>6. newest' \in 0 .. Len(log) /\ inOrder' \in 0 .. newest'
  <2>1. newest' = IF newest >= event THEN newest ELSE event
    <3>1. newest \in Int /\ event \in Int
      BY <1>1, <1>2
    <3> QED BY <1>3, <3>1, OfTwo
  <2> QED BY <1>1, <1>2, <1>3, <2>1
<1>7. rest \in Seq(1 .. MaxEvents) /\ Len(rest) <= ChannelCapacity
  BY <1>1, <1>2, Positions, CapacityType
<1>8. /\ channel' \in ChannelType /\ channel'.events \in Seq(1 .. Len(log))
      /\ Len(channel'.events) <= ChannelCapacity
  BY <1>1, <1>2, <1>3, <1>7 DEF ChannelType
<1> QED BY <1>1, <1>3, <1>5, <1>6, <1>8, WayType

\* What is pushed into the ring is its newest element, and the ring keeps to its capacity
LEMMA PushedRing ==
  ASSUME ring \in Seq(Revisions), Len(ring) <= Capacity, NEW r \in Revisions
  PROVE  LET after == Pushed(r)
             gone  == Len(ring) + 1 - Len(after)
         IN  /\ after \in Seq(Revisions) /\ Len(after) \in 1 .. Capacity
             /\ gone \in {0, 1} /\ after[Len(after)] = r
             /\ \A i \in 1 .. Len(after) - 1 : after[i] = ring[i + gone]
<1> USE OperatorChatAssumption
<1>1. CASE Len(ring) = Capacity
  <2>1. /\ Tail(ring) \in Seq(Revisions) /\ Len(Tail(ring)) = Len(ring) - 1
        /\ \A i \in 1 .. Len(ring) - 1 : Tail(ring)[i] = ring[i + 1]
    BY <1>1
  <2>2. Pushed(r) = Append(Tail(ring), r)
    BY <1>1 DEF Pushed
  <2> QED BY <1>1, <2>1, <2>2
<1>2. CASE Len(ring) # Capacity
  <2>1. Pushed(r) = Append(ring, r)
    BY <1>2 DEF Pushed
  <2>2. /\ Append(ring, r) \in Seq(Revisions) /\ Len(Append(ring, r)) = Len(ring) + 1
        /\ Append(ring, r)[Len(ring) + 1] = r
        /\ \A i \in 1 .. Len(ring) : Append(ring, r)[i] = ring[i]
    OBVIOUS
  <2>3. Len(ring) \in Nat /\ Len(ring) + 1 <= Capacity
    BY <1>2
  <2> QED BY <2>1, <2>2, <2>3
<1> QED BY <1>1, <1>2

LEMMA TypeAppend ==
  ASSUME TypeInv, AppendRevision PROVE TypeInv'
<1>1. PICK r \in consumer.todo : /\ consumer' = [consumer EXCEPT !.todo = @ \ {r}]
                                 /\ ring' = Pushed(r) /\ latestByID' = Indexed(r)
  BY DEF AppendRevision
<1>2. r \in Revisions
  BY <1>1 DEF TypeInv, TypeOK
<1>3. ring' \in Seq(Revisions) /\ Len(ring') <= Capacity
  BY <1>1, <1>2, PushedRing, OperatorChatAssumption DEF TypeInv, TypeOK
<1>4. latestByID' \in [Messages -> {"none", "shown", "deleted"}]
  BY <1>1, <1>2 DEF TypeInv, TypeOK, Indexed
<1>5. consumer' \in [step : {"running", "replaying", "stopped", "panicked"},
                     todo : SUBSET Revisions]
  BY <1>1 DEF TypeInv, TypeOK
<1> QED BY <1>3, <1>4, <1>5 DEF AppendRevision, TypeInv, TypeOK, OnTheWay

LEMMA TypeStep == TypeInv /\ [Next]_projectionVars => TypeInv'
<1> SUFFICES ASSUME TypeInv, [Next]_projectionVars PROVE TypeInv'
  OBVIOUS
<1>1. CASE UNCHANGED projectionVars
  BY <1>1 DEF projectionVars, TypeInv, TypeOK, OnTheWay, ChannelCapacity
<1> QED
  BY <1>1, TypePublish, TypeReplay, TypeHandle, TypeAppend DEF Next, Run

\* Every variable keeps its type, the channel and the ring their capacities
THEOREM TypeCorrect == Spec => []TypeOK
<1>1. TypeInv => TypeOK
  BY DEF TypeInv
<1> QED BY <1>1, TypeInit, TypeStep, PTL DEF Spec

-----------------------------------------------------------------------------
(* The index is what the newest revision says *)

LEMMA NewestStep ==
  ASSUME TypeInv, NewestRevisionIsCurrent, AppendRevision PROVE NewestRevisionIsCurrent'
<1>1. PICK r \in consumer.todo : ring' = Pushed(r) /\ latestByID' = Indexed(r)
  BY DEF AppendRevision
<1>2. /\ r \in Revisions /\ ring \in Seq(Revisions) /\ Len(ring) <= Capacity
      /\ latestByID \in [Messages -> {"none", "shown", "deleted"}]
  BY <1>1 DEF TypeInv, TypeOK
<1> DEFINE gone == Len(ring) + 1 - Len(ring')
<1>3. /\ ring' \in Seq(Revisions) /\ Len(ring') \in Nat \ {0} /\ Len(ring) \in Nat
      /\ gone \in {0, 1} /\ ring'[Len(ring')] = r
      /\ \A i \in 1 .. Len(ring') - 1 : ring'[i] = ring[i + gone]
  <2> DEFINE after == Pushed(r)
  <2>1. /\ after \in Seq(Revisions) /\ Len(after) \in 1 .. Capacity
        /\ Len(ring) + 1 - Len(after) \in {0, 1} /\ after[Len(after)] = r
        /\ \A i \in 1 .. Len(after) - 1 : after[i] = ring[i + (Len(ring) + 1 - Len(after))]
    BY <1>2, PushedRing
  <2>2. ring' = after
    BY <1>1
  <2> HIDE DEF after
  <2>3. Len(after) \in Nat \ {0} /\ Len(ring) \in Nat
    BY <1>2, <2>1, OperatorChatAssumption
  <2> QED BY <2>1, <2>2, <2>3
<1>4. DOMAIN ring = 1 .. Len(ring) /\ DOMAIN ring' = 1 .. Len(ring')
  BY <1>2, <1>3
<1> SUFFICES ASSUME NEW i \in 1 .. Len(ring'), ring'[i].id \in Messages,
                    \A k \in 1 .. Len(ring') : k > i => ring'[k].id # ring'[i].id
             PROVE  latestByID'[ring'[i].id] = IF ring'[i].deleted THEN "deleted" ELSE "shown"
  BY <1>4 DEF NewestRevisionIsCurrent
<1>5. CASE i = Len(ring')
  BY <1>1, <1>2, <1>3, <1>5 DEF Indexed
<1>6. CASE i < Len(ring')
  <2>1. ring'[i] = ring[i + gone] /\ i + gone \in 1 .. Len(ring) /\ r.id # ring'[i].id
    BY <1>3, <1>6
  <2>2. ASSUME NEW k \in 1 .. Len(ring), k > i + gone PROVE ring[k].id # ring'[i].id
    <3>1. k - gone \in 1 .. Len(ring') - 1 /\ (k - gone) + gone = k /\ k - gone > i
      BY <1>3, <2>2
    <3>2. ring'[k - gone] = ring[k]
      BY <1>3, <3>1
    <3> QED BY <1>3, <3>1, <3>2
  <2>3. latestByID[ring'[i].id] = IF ring'[i].deleted THEN "deleted" ELSE "shown"
    BY <1>4, <2>1, <2>2 DEF NewestRevisionIsCurrent
  <2>4. latestByID'[ring'[i].id] = latestByID[ring'[i].id]
    BY <1>1, <1>2, <2>1 DEF Indexed
  <2> QED BY <2>3, <2>4
<1> QED BY <1>3, <1>5, <1>6

\* The index and the stream of revisions agree
THEOREM IndexFollowsRevisions == Spec => []NewestRevisionIsCurrent
<1>1. Init => NewestRevisionIsCurrent
  BY DEF Init, NewestRevisionIsCurrent
<1>2. TypeInv /\ NewestRevisionIsCurrent /\ [Next]_projectionVars => NewestRevisionIsCurrent'
  <2> SUFFICES ASSUME TypeInv, NewestRevisionIsCurrent, [Next]_projectionVars
               PROVE  NewestRevisionIsCurrent'
    OBVIOUS
  <2>1. CASE UNCHANGED <<ring, latestByID>>
    BY <2>1 DEF NewestRevisionIsCurrent
  <2>2. CASE AppendRevision
    BY <2>2, NewestStep
  <2>3. CASE UNCHANGED projectionVars
    BY <2>1, <2>3 DEF projectionVars
  <2> QED
    BY <2>1, <2>2, <2>3 DEF Next, Run, Publish, Resubscribe, PushReplay, HandleEvent
<1> QED
  BY <1>1, <1>2, TypeInit, TypeStep, PTL DEF Spec

-----------------------------------------------------------------------------
(* What was moderated stays so *)

MessageOf(m) == [kind |-> "message", of |-> m]

\* What the index says of a message once the revisions to come have been appended
Current(m) ==
  IF \E r \in consumer.todo : r.id = m
  THEN IF \E r \in consumer.todo : r.id = m /\ r.deleted THEN "deleted" ELSE "shown"
  ELSE latestByID[m]

\* A message is published once
MessagesOnce ==
  \A i, k \in 1 .. Len(log) : log[i] = log[k] /\ log[i].kind = "message" => i = k

\* The revisions to come are of different items
TodoOnce == \A r, s \in consumer.todo : r.id = s.id => r = s

\* A message handled in its order is deleted if one of the events handled in order since names
\* it, and only if some event published since does.  The index has no message that is not published
Told(m) ==
  /\ (\A i \in 1 .. Len(log) : log[i] # MessageOf(m)) => Current(m) = "none"
  /\ \A i \in 1 .. inOrder : log[i] = MessageOf(m) =>
       /\ Current(m) \in {"shown", "deleted"}
       /\ \A k \in 1 .. inOrder : i < k /\ Names(log[k], m) => Current(m) = "deleted"
       /\ Current(m) = "deleted" => \E k \in 1 .. Len(log) : i < k /\ Names(log[k], m)

ToldInv == MessagesOnce /\ TodoOnce /\ \A m \in Messages : Told(m)

Deletion(x) == [id |-> x, deleted |-> TRUE]

\* What the revisions of an event make of a message
LEMMA RevisionsTell ==
  ASSUME NEW event \in Events, NEW m \in Messages, TypeInv
  PROVE  /\ \A r \in RevisionsOf(event) : r.id = m =>
              IF r.deleted THEN Names(event, m) /\ latestByID[m] # "none" ELSE event = MessageOf(m)
         /\ event = MessageOf(m) => \E r \in RevisionsOf(event) : r.id = m
         /\ Names(event, m) /\ latestByID[m] = "shown" => \E r \in RevisionsOf(event) : r.id = m
<1>1. OtherItem.id \notin Messages
  BY DEF OtherItem, Messages
<1>2. \A x : Deletion(x).id = x /\ Deletion(x).deleted = TRUE
  BY DEF Deletion
<1>3. CASE event.kind = "message"
  <2> DEFINE only == [id |-> event.of, deleted |-> FALSE]
  <2>1. RevisionsOf(event) = {only} /\ event = MessageOf(event.of)
    BY <1>3 DEF RevisionsOf, MessageOf, Events
  <2>2. ~Names(event, m) /\ only.id = event.of /\ only.deleted = FALSE
    BY <1>3 DEF Names
  <2>3. event = MessageOf(m) <=> event.of = m
    BY <2>1 DEF MessageOf
  <2> HIDE DEF only
  <2> QED BY <2>1, <2>2, <2>3
<1>4. CASE event.kind = "deleted"
  <2>1. event.of \in Messages /\ event # MessageOf(m) /\ (Names(event, m) <=> event.of = m)
    BY <1>4 DEF Events, MessageOf, Names
  <2>2. RevisionsOf(event) = IF latestByID[event.of] = "none" THEN {OtherItem} ELSE {Deletion(event.of)}
    BY <1>4 DEF RevisionsOf, Deletion
  <2> HIDE DEF Messages
  <2>3. CASE latestByID[event.of] = "none"
    BY <1>1, <2>1, <2>2, <2>3
  <2>4. CASE latestByID[event.of] # "none"
    BY <1>2, <2>1, <2>2, <2>4
  <2> QED BY <2>3, <2>4
<1>5. CASE event.kind \in {"cleared", "user_cleared"}
  <2>1. RevisionsOf(event) = {Deletion(x) : x \in Affected(event)} \cup {OtherItem}
    BY <1>5 DEF RevisionsOf, Deletion
  <2>2. \A x \in Messages : x \in Affected(event) <=> latestByID[x] = "shown" /\ Names(event, x)
    BY <1>5 DEF Affected, Names, Shown
  <2>3. Affected(event) \subseteq Messages
    BY DEF Affected
  <2>4. event # MessageOf(m)
    BY <1>5 DEF MessageOf
  <2> HIDE DEF Messages
  <2>5. \A r \in RevisionsOf(event) : r = OtherItem \/ (r = Deletion(r.id) /\ r.id \in Affected(event))
    BY <1>2, <2>1
  <2>6. \A x \in Affected(event) : \E r \in RevisionsOf(event) : r.id = x
    BY <1>2, <2>1
  <2>7. ASSUME NEW r \in RevisionsOf(event), r.id = m
        PROVE  r.deleted = TRUE /\ Names(event, m) /\ latestByID[m] = "shown"
    BY <1>1, <1>2, <2>2, <2>5, <2>7
  <2> QED BY <2>2, <2>4, <2>6, <2>7
<1>6. CASE event.kind = "activity"
  <2>1. RevisionsOf(event) = {OtherItem} /\ event # MessageOf(m) /\ ~Names(event, m)
    BY <1>6 DEF RevisionsOf, MessageOf, Names
  <2> QED BY <1>1, <2>1
<1>7. event.kind \in {"message", "deleted", "user_cleared", "cleared", "activity"}
  BY DEF Events
<1> QED BY <1>3, <1>4, <1>5, <1>6, <1>7

\* The revisions of an event are of different items
LEMMA RevisionsOnce ==
  ASSUME NEW event \in Events
  PROVE  \A r, s \in RevisionsOf(event) : r.id = s.id => r = s
<1>1. CASE event.kind \in {"message", "deleted", "activity"}
  <2>1. \A r, s \in RevisionsOf(event) : r = s
    BY <1>1 DEF RevisionsOf
  <2> QED BY <2>1
<1>2. CASE event.kind \in {"cleared", "user_cleared"}
  <2>1. RevisionsOf(event) = {Deletion(x) : x \in Affected(event)} \cup {OtherItem}
    BY <1>2 DEF RevisionsOf, Deletion
  <2>2. OtherItem.id \notin Messages
    BY DEF OtherItem, Messages
  <2>3. (\A x : Deletion(x).id = x) /\ Affected(event) \subseteq Messages
    BY DEF Deletion, Affected
  <2> HIDE DEF Messages
  <2> QED BY <2>1, <2>2, <2>3
<1>3. event.kind \in {"message", "deleted", "user_cleared", "cleared", "activity"}
  BY DEF Events
<1> QED BY <1>1, <1>2, <1>3

\* A step that leaves the log, the order and what the index will say
LEMMA ToldKeeps ==
  ASSUME ToldInv, UNCHANGED <<log, inOrder>>, TodoOnce', \A m \in Messages : Current(m)' = Current(m)
  PROVE  ToldInv'
<1>1. MessagesOnce'
  BY DEF ToldInv, MessagesOnce
<1>2. ASSUME NEW m \in Messages PROVE Told(m)'
  BY DEF ToldInv, Told
<1> QED BY <1>1, <1>2 DEF ToldInv

LEMMA ToldPublish ==
  ASSUME TypeInv, ToldInv, NEW event \in Events, Publish(event) PROVE ToldInv'
<1> DEFINE n == Len(log)
<1>1. /\ log \in Seq(Events) /\ n \in Nat /\ log' = Append(log, event)
      /\ UNCHANGED <<consumer, latestByID, inOrder>>
      /\ inOrder \in Nat /\ inOrder <= n
  BY OperatorChatAssumption DEF TypeInv, TypeOK, OnTheWay, Publish
<1>2. Len(log') = n + 1 /\ log'[n + 1] = event /\ \A i \in 1 .. n : log'[i] = log[i]
  BY <1>1
<1>3. event.kind = "message" => \A i \in 1 .. n : log[i] # event
  BY <1>1 DEF Publish
<1> HIDE DEF n
<1>4. MessagesOnce'
  <2>1. MessagesOnce /\ \A i \in 1 .. n + 1 : i \in 1 .. n \/ i = n + 1
    BY <1>1 DEF ToldInv
  <2>2. \A i, k \in 1 .. n + 1 : log'[i] = log'[k] /\ log'[i].kind = "message" => i = k
    BY <1>2, <1>3, <2>1 DEF MessagesOnce, n
  <2> QED BY <1>2, <2>2 DEF MessagesOnce
<1>5. TodoOnce' /\ \A m \in Messages : Current(m)' = Current(m)
  BY <1>1 DEF ToldInv, TodoOnce, Current
<1>6. 1 .. n \subseteq 1 .. n + 1 /\ 1 .. inOrder \subseteq 1 .. n
  BY <1>1
<1>7. ASSUME NEW m \in Messages PROVE Told(m)'
  <2>1. Told(m)
    BY DEF ToldInv
  <2>2. (\A i \in 1 .. n + 1 : log'[i] # MessageOf(m)) => Current(m)' = "none"
    BY <1>2, <1>5, <1>6, <2>1 DEF Told, n
  <2>3. ASSUME NEW i \in 1 .. inOrder, log'[i] = MessageOf(m)
        PROVE  /\ Current(m)' \in {"shown", "deleted"}
               /\ \A k \in 1 .. inOrder : i < k /\ Names(log'[k], m) => Current(m)' = "deleted"
               /\ Current(m)' = "deleted" => \E k \in 1 .. n + 1 : i < k /\ Names(log'[k], m)
    <3>1. log[i] = MessageOf(m) /\ \A k \in 1 .. inOrder : log'[k] = log[k]
      BY <1>2, <1>6, <2>3
    <3>2. Current(m)' = "deleted" => \E k \in 1 .. n + 1 : i < k /\ Names(log'[k], m)
      BY <1>2, <1>5, <1>6, <2>1, <3>1 DEF Told, n
    <3> QED BY <1>5, <2>1, <3>1, <3>2 DEF Told
  <2> QED BY <1>1, <1>2, <2>2, <2>3 DEF Told
<1> QED BY <1>4, <1>5, <1>7 DEF ToldInv

LEMMA ToldHandle ==
  ASSUME TypeInv, ToldInv, HandleEvent PROVE ToldInv'
<1> DEFINE e == Head(channel.events)
<1>1. /\ log \in Seq(Events) /\ e \in 1 .. Len(log) /\ Len(log) \in Nat /\ inOrder \in Nat
      /\ UNCHANGED <<log, latestByID>> /\ consumer.todo = {} /\ consumer'.todo = RevisionsOf(log[e])
      /\ inOrder' = IF e <= inOrder + 1 THEN e ELSE inOrder
  <2>1. channel.events \in Seq(1 .. Len(log)) /\ channel.events # <<>> /\ Len(log) \in Nat
    BY DEF TypeInv, TypeOK, OnTheWay, HandleEvent
  <2>2. e \in 1 .. Len(log)
    BY <2>1, Positions
  <2>3. log \in Seq(Events) /\ inOrder \in Nat
    BY OperatorChatAssumption DEF TypeInv, TypeOK
  <2> QED BY <2>1, <2>2, <2>3 DEF HandleEvent, Idle, TypeInv, TypeOK
<1> DEFINE event == log[e]
<1>2. event \in Events
  BY <1>1
<1> HIDE DEF e
<1>3. MessagesOnce' /\ MessagesOnce
  BY <1>1 DEF ToldInv, MessagesOnce
<1>4. TodoOnce'
  BY <1>1, <1>2, RevisionsOnce DEF TodoOnce
<1>5. ASSUME NEW m \in Messages
      PROVE  Current(m)' = IF event = MessageOf(m) THEN "shown"
                           ELSE IF Names(event, m) /\ latestByID[m] # "none" THEN "deleted"
                           ELSE latestByID[m]
  <2>0. latestByID[m] \in {"none", "shown", "deleted"} /\ (event = MessageOf(m) => ~Names(event, m))
    BY DEF TypeInv, TypeOK, MessageOf, Names
  <2> HIDE DEF event
  <2>1. consumer'.todo = RevisionsOf(event) /\ latestByID' = latestByID
    BY <1>1 DEF event
  <2>2. CASE \E r \in RevisionsOf(event) : r.id = m
    <3>1. PICK r \in RevisionsOf(event) : r.id = m
      BY <2>2
    <3>2. /\ \A s \in RevisionsOf(event) : s.id = m => s = r
          /\ IF r.deleted THEN Names(event, m) /\ latestByID[m] # "none" ELSE event = MessageOf(m)
      <4>1. event \in Events
        BY <1>2
      <4>2. \A s \in RevisionsOf(event) : s.id = m => s = r
        BY <3>1, <4>1, RevisionsOnce
      <4>3. IF r.deleted THEN Names(event, m) /\ latestByID[m] # "none" ELSE event = MessageOf(m)
        BY <3>1, <4>1, RevisionsTell
      <4> QED BY <4>2, <4>3
    <3>3. Current(m)' = IF r.deleted THEN "deleted" ELSE "shown"
      BY <2>1, <3>1, <3>2 DEF Current
    <3> QED BY <2>0, <3>2, <3>3
  <2>3. CASE ~\E r \in RevisionsOf(event) : r.id = m
    <3>1. Current(m)' = latestByID[m]
      BY <2>1, <2>3 DEF Current
    <3>2. event # MessageOf(m) /\ ~(Names(event, m) /\ latestByID[m] = "shown")
      BY <1>2, <2>3, RevisionsTell DEF event
    <3> QED BY <2>0, <3>1, <3>2
  <2> QED BY <2>2, <2>3
<1>6. ASSUME NEW m \in Messages PROVE Told(m)'
  <2>1. Told(m) /\ Current(m) = latestByID[m]
    BY <1>1 DEF ToldInv, Current
  <2>2. ASSUME \A i \in 1 .. Len(log) : log[i] # MessageOf(m) PROVE Current(m)' = "none"
    BY <1>1, <1>5, <2>1, <2>2 DEF Told
  <2>3. ASSUME NEW i \in 1 .. inOrder', log[i] = MessageOf(m)
        PROVE  /\ Current(m)' \in {"shown", "deleted"}
               /\ \A k \in 1 .. inOrder' : i < k /\ Names(log[k], m) => Current(m)' = "deleted"
               /\ Current(m)' = "deleted" => \E k \in 1 .. Len(log) : i < k /\ Names(log[k], m)
    <3>0. /\ i = e \/ (i \in 1 .. inOrder /\ i < e)
          /\ \A k \in 1 .. inOrder' : k = e \/ k \in 1 .. inOrder
      <4>1. CASE e <= inOrder + 1
        BY <1>1, <2>3, <4>1
      <4>2. CASE ~(e <= inOrder + 1)
        BY <1>1, <2>3, <4>2
      <4> QED BY <4>1, <4>2
    <3>1. CASE i = e
      <4>1. Current(m)' = "shown"
        BY <1>5, <2>3, <3>1
      <4>2. \A k \in 1 .. inOrder' : k <= e
        BY <1>1, <2>3, <3>0, <3>1
      <4>3. \A k \in 1 .. inOrder' : ~(i < k)
        BY <1>1, <3>1, <4>2
      <4> QED BY <4>1, <4>3
    <3>2. CASE i \in 1 .. inOrder /\ i < e
      <4>1. event # MessageOf(m)
        <5>1. i \in 1 .. Len(log) /\ i # e /\ MessageOf(m).kind = "message"
          BY <1>1, <3>2 DEF MessageOf
        <5> QED BY <1>1, <1>3, <2>3, <5>1 DEF MessagesOnce
      <4>2. /\ latestByID[m] \in {"shown", "deleted"}
            /\ \A k \in 1 .. inOrder : i < k /\ Names(log[k], m) => latestByID[m] = "deleted"
            /\ latestByID[m] = "deleted" => \E k \in 1 .. Len(log) : i < k /\ Names(log[k], m)
        BY <2>1, <2>3, <3>2 DEF Told
      <4>3. Current(m)' = IF Names(event, m) THEN "deleted" ELSE latestByID[m]
        BY <1>5, <4>1, <4>2
      <4>4. \A k \in 1 .. inOrder' : k = e \/ k \in 1 .. inOrder
        BY <3>0
      <4> QED BY <1>1, <3>2, <4>2, <4>3, <4>4
    <3> QED BY <3>0, <3>1, <3>2
  <2> QED BY <1>1, <2>2, <2>3 DEF Told
<1> QED BY <1>3, <1>4, <1>6 DEF ToldInv

LEMMA ToldAppend ==
  ASSUME TypeInv, ToldInv, AppendRevision PROVE ToldInv'
<1>1. PICK r \in consumer.todo : /\ consumer' = [consumer EXCEPT !.todo = @ \ {r}]
                                 /\ latestByID' = Indexed(r)
  BY DEF AppendRevision
<1>2. /\ consumer'.todo = consumer.todo \ {r} /\ r \in Revisions /\ TodoOnce
      /\ latestByID \in [Messages -> {"none", "shown", "deleted"}]
  BY <1>1 DEF TypeInv, TypeOK, ToldInv
<1>3. ASSUME NEW m \in Messages PROVE Current(m)' = Current(m)
  <2>1. CASE r.id = m
    <3>1. \A s \in consumer.todo : s.id = m => s = r
      BY <1>1, <1>2, <2>1 DEF TodoOnce
    <3>2. latestByID'[m] = IF r.deleted THEN "deleted" ELSE "shown"
      BY <1>1, <1>2, <2>1 DEF Indexed
    <3>3. Current(m) = IF r.deleted THEN "deleted" ELSE "shown"
      BY <1>1, <2>1, <3>1 DEF Current
    <3>4. Current(m)' = latestByID'[m]
      BY <1>2, <3>1 DEF Current
    <3> QED BY <3>2, <3>3, <3>4
  <2>2. CASE r.id # m
    <3>1. latestByID'[m] = latestByID[m]
      BY <1>1, <1>2, <2>2 DEF Indexed
    <3> QED BY <1>2, <2>2, <3>1 DEF Current
  <2> QED BY <2>1, <2>2
<1>4. TodoOnce'
  BY <1>2 DEF TodoOnce
<1> QED BY <1>3, <1>4, ToldKeeps DEF AppendRevision

LEMMA ToldReplay ==
  ASSUME TypeInv, ToldInv, Resubscribe \/ PushReplay \/ UNCHANGED projectionVars PROVE ToldInv'
<1>1. UNCHANGED <<log, inOrder, latestByID>>
  BY DEF Resubscribe, PushReplay, projectionVars
<1>2. consumer'.todo = consumer.todo
  BY DEF Resubscribe, PushReplay, projectionVars, Goes, TypeInv, TypeOK
<1>3. TodoOnce' /\ \A m \in Messages : Current(m)' = Current(m)
  BY <1>1, <1>2 DEF ToldInv, TodoOnce, Current
<1> QED BY <1>1, <1>3, ToldKeeps

LEMMA ToldIsTruth ==
  ASSUME TypeInv, ToldInv PROVE ModerationSticks
<1> SUFFICES ASSUME consumer.todo = {}, inOrder = Len(log), NEW m \in Messages
             PROVE  latestByID[m] = Truth(m)
  BY DEF ModerationSticks
<1>1. DOMAIN log = 1 .. Len(log) /\ Told(m) /\ Current(m) = latestByID[m]
  BY DEF TypeInv, TypeOK, ToldInv, Current
<1>2. CASE \A i \in DOMAIN log : log[i] # MessageOf(m)
  BY <1>1, <1>2 DEF Truth, Told, MessageOf
<1>3. CASE \E i \in DOMAIN log : log[i] = MessageOf(m)
  <2>1. PICK i \in 1 .. Len(log) : log[i] = MessageOf(m)
    BY <1>1, <1>3
  <2>2. /\ latestByID[m] \in {"shown", "deleted"}
        /\ \A k \in 1 .. Len(log) : i < k /\ Names(log[k], m) => latestByID[m] = "deleted"
        /\ latestByID[m] = "deleted" => \E k \in 1 .. Len(log) : i < k /\ Names(log[k], m)
    BY <1>1, <2>1 DEF Told
  <2>3. \A j \in 1 .. Len(log) : log[j] = MessageOf(m) => j = i
    BY <2>1 DEF ToldInv, MessagesOnce, MessageOf
  <2> DEFINE Moderated == \E j, k \in DOMAIN log : j < k /\ log[j] = MessageOf(m) /\ Names(log[k], m)
  <2>4. Moderated <=> latestByID[m] = "deleted"
    BY <1>1, <2>1, <2>2, <2>3
  <2>5. Truth(m) = IF Moderated THEN "deleted" ELSE "shown"
    BY <1>3 DEF Truth, MessageOf
  <2> HIDE DEF Moderated
  <2> QED BY <2>2, <2>4, <2>5
<1> QED BY <1>2, <1>3

\* Whatever was evicted, cut off, handed over twice or behind newer events: once the consumer
\* has been handed the log in its order, from as far back as the last replay took it, the index
\* shows exactly the messages nobody moderated
THEOREM ModerationIsKept == Spec => []ModerationSticks
<1>1. Init => ToldInv
  <2> SUFFICES ASSUME Init PROVE ToldInv
    OBVIOUS
  <2>1. log = <<>> /\ consumer.todo = {} /\ inOrder = 0 /\ Len(log) = 0
        /\ \A m \in Messages : latestByID[m] = "none"
    BY DEF Init
  <2>2. MessagesOnce /\ TodoOnce
    BY <2>1 DEF MessagesOnce, TodoOnce
  <2>3. \A m \in Messages : Told(m)
    BY <2>1 DEF Told, Current
  <2> QED BY <2>2, <2>3 DEF ToldInv
<1>2. TypeInv /\ ToldInv /\ [Next]_projectionVars => ToldInv'
  BY ToldPublish, ToldHandle, ToldAppend, ToldReplay DEF Next, Run
<1>3. TypeInv /\ ToldInv => ModerationSticks
  BY ToldIsTruth
<1> QED BY <1>1, <1>2, <1>3, TypeInit, TypeStep, PTL DEF Spec

=============================================================================
