------------------------ MODULE EngagementBusProofs ------------------------
(***************************************************************************)
(* Proofs about EngagementBus, for every number of publishers and          *)
(* subscriptions and every capacity of the ring, the channels and the      *)
(* table of deduplication keys.                                            *)
(***************************************************************************)
EXTENDS EngagementBus, FiniteSetTheorems, TLAPS

-----------------------------------------------------------------------------
(* Deduplication *)

\* A sequence of the newest events
Newest(s, n) == /\ s \in Seq(Nat) /\ Len(s) <= n
                /\ \A i \in 1 .. Len(s) : s[i] = n - Len(s) + i

\* What is held is the newest events, and no event left the table but by age or
\* by the number of those that came after it
DedupeInv ==
  /\ log \in Seq(Keys) /\ Newest(dedupe, Len(log)) /\ Len(dedupe) <= DedupeCapacity
  /\ expired \in Nat /\ expired <= Len(log) - Len(dedupe)
  /\ \A e \in 1 .. Len(log) - Len(dedupe) : e <= expired \/ Len(log) - e >= DedupeCapacity
  /\ RedeliveryIsDropped

LEMMA Suffix ==
  ASSUME NEW d \in Seq(Nat), NEW old \in 0 .. Len(d)
  PROVE  /\ SubSeq(d, old + 1, Len(d)) \in Seq(Nat)
         /\ Len(SubSeq(d, old + 1, Len(d))) = Len(d) - old
         /\ \A i \in 1 .. Len(d) - old : SubSeq(d, old + 1, Len(d))[i] = d[old + i]
  OBVIOUS

LEMMA AppendNewest ==
  ASSUME NEW n \in Nat, NEW s, Newest(s, n)
  PROVE  Newest(Append(s, n + 1), n + 1) /\ Len(Append(s, n + 1)) = Len(s) + 1
<1> DEFINE t == Append(s, n + 1)
<1>1. /\ t \in Seq(Nat) /\ Len(t) = Len(s) + 1 /\ t[Len(s) + 1] = n + 1
      /\ \A i \in 1 .. Len(s) : t[i] = s[i]
  BY DEF Newest
<1>2. Len(s) \in Nat /\ \A i \in 1 .. Len(s) : s[i] = n - Len(s) + i
  BY DEF Newest
<1> HIDE DEF t
<1>3. ASSUME NEW i \in 1 .. Len(s) + 1 PROVE t[i] = (n + 1) - (Len(s) + 1) + i
  <2>1. CASE i = Len(s) + 1
    BY <1>1, <1>2, <2>1
  <2>2. CASE i \in 1 .. Len(s)
    BY <1>1, <1>2, <2>2
  <2> QED BY <1>2, <2>1, <2>2
<1>4. Newest(t, n + 1) /\ Len(t) = Len(s) + 1
  BY <1>1, <1>3 DEF Newest
<1> QED BY <1>4 DEF t

LEMMA TailNewest ==
  ASSUME NEW n \in Nat, NEW s, Newest(s, n), Len(s) > 0
  PROVE  Newest(Tail(s), n) /\ Len(Tail(s)) = Len(s) - 1
<1> DEFINE t == Tail(s)
<1>1. /\ t \in Seq(Nat) /\ Len(t) = Len(s) - 1
      /\ \A i \in 1 .. Len(s) - 1 : t[i] = s[i + 1]
  BY DEF Newest
<1>2. Len(s) \in Nat /\ Len(s) <= n /\ \A i \in 1 .. Len(s) : s[i] = n - Len(s) + i
  BY DEF Newest
<1> HIDE DEF t
<1>3. \A i \in 1 .. Len(s) - 1 : t[i] = n - (Len(s) - 1) + i
  BY <1>1, <1>2
<1>4. Newest(t, n) /\ Len(t) = Len(s) - 1
  BY <1>1, <1>2, <1>3 DEF Newest
<1> QED BY <1>4 DEF t

LEMMA RecordKeepsNewest ==
  ASSUME NEW n \in Nat, NEW held, Newest(held, n), Len(held) <= DedupeCapacity
  PROVE  /\ Newest(Record(held, n + 1), n + 1)
         /\ Len(Record(held, n + 1)) = IF Len(held) >= DedupeCapacity THEN DedupeCapacity
                                                                      ELSE Len(held) + 1
<1>0. DedupeCapacity \in Nat \ {0} /\ Len(held) \in Nat
  BY BusAssumption DEF Newest
<1>1. CASE Len(held) >= DedupeCapacity
  <2>1. Newest(Tail(held), n) /\ Len(Tail(held)) = DedupeCapacity - 1
    BY <1>0, <1>1, TailNewest
  <2>2. Newest(Append(Tail(held), n + 1), n + 1) /\ Len(Append(Tail(held), n + 1)) = DedupeCapacity
    BY <1>0, <2>1, AppendNewest
  <2>3. Record(held, n + 1) = Append(Tail(held), n + 1)
    BY <1>1 DEF Record
  <2> QED BY <1>1, <2>2, <2>3
<1>2. CASE ~(Len(held) >= DedupeCapacity)
  <2>1. Record(held, n + 1) = Append(held, n + 1)
    BY <1>2 DEF Record
  <2> QED BY <1>2, <2>1, AppendNewest
<1> QED BY <1>1, <1>2

LEMMA DedupeInit == Init => DedupeInv
  BY BusAssumption DEF Init, DedupeInv, Newest, RedeliveryIsDropped

LEMMA DedupeParts ==
  ASSUME NEW m \in Nat, Len(log') = m, log' \in Seq(Keys),
         Newest(dedupe', m), Len(dedupe') <= DedupeCapacity,
         expired' \in Nat, expired' <= m - Len(dedupe'),
         \A e \in 1 .. m - Len(dedupe') : e <= expired' \/ m - e >= DedupeCapacity,
         RedeliveryIsDropped'
  PROVE  DedupeInv'
<1>1. Newest(dedupe', Len(log')) /\ expired' <= Len(log') - Len(dedupe')
  OBVIOUS
<1>2. \A e \in 1 .. Len(log') - Len(dedupe') : e <= expired' \/ Len(log') - e >= DedupeCapacity
  OBVIOUS
<1> QED BY <1>1, <1>2 DEF DedupeInv

LEMMA DedupePublish ==
  ASSUME DedupeInv, NEW p \in Publishers, NEW key \in Keys, Publish(p, key) PROVE DedupeInv'
<1> DEFINE n == Len(log)
<1>0. /\ log \in Seq(Keys) /\ n \in Nat /\ dedupe \in Seq(Nat) /\ expired \in Nat
      /\ Len(dedupe) <= n /\ Len(dedupe) <= DedupeCapacity /\ expired <= n - Len(dedupe)
      /\ DedupeCapacity \in Nat \ {0}
      /\ \A i \in 1 .. Len(dedupe) : dedupe[i] = n - Len(dedupe) + i
      /\ \A e \in 1 .. n - Len(dedupe) : e <= expired \/ n - e >= DedupeCapacity
      /\ \A i, j \in 1 .. n : i < j /\ log[i] = log[j] => i <= expired \/ j - i > DedupeCapacity
  BY BusAssumption DEF DedupeInv, Newest, RedeliveryIsDropped
<1>1. PICK old \in 0 .. Len(dedupe) :
        LET held == SubSeq(dedupe, old + 1, Len(dedupe)) IN
        /\ expired' = IF old = 0 THEN expired ELSE dedupe[old]
        /\ \/ Held(held, key) /\ dedupe' = held /\ log' = log
           \/ ~Held(held, key) /\ dedupe' = Record(held, n + 1) /\ log' = Append(log, key)
  BY DEF Publish
<1> DEFINE held == SubSeq(dedupe, old + 1, Len(dedupe))
<1>2. /\ held \in Seq(Nat) /\ Len(held) = Len(dedupe) - old
      /\ \A i \in 1 .. Len(held) : held[i] = n - Len(held) + i
  <2>1. /\ held \in Seq(Nat) /\ Len(held) = Len(dedupe) - old
        /\ \A i \in 1 .. Len(dedupe) - old : held[i] = dedupe[old + i]
    BY <1>0, Suffix
  <2> HIDE DEF held
  <2> QED BY <1>0, <2>1
<1>3. expired' \in Nat /\ expired' >= expired /\ expired' <= n - Len(held)
  <2>1. CASE old = 0
    BY <1>0, <1>1, <1>2, <2>1
  <2>2. CASE old # 0
    <3>1. expired' = n - Len(dedupe) + old
      BY <1>0, <1>1, <2>2
    <3>2. /\ n \in Nat /\ Len(dedupe) \in Nat /\ Len(dedupe) <= n /\ old \in 1 .. Len(dedupe)
          /\ expired \in Nat /\ expired <= n - Len(dedupe)
      BY <1>0, <2>2
    <3>3. Len(held) = Len(dedupe) - old
      BY <1>2
    <3> HIDE DEF n, held
    <3> QED BY <3>1, <3>2, <3>3
  <2> QED BY <2>1, <2>2
<1>4. /\ expired' = IF old = 0 THEN expired ELSE dedupe[old]
      /\ \/ Held(held, key) /\ dedupe' = held /\ log' = log
         \/ ~Held(held, key) /\ dedupe' = Record(held, n + 1) /\ log' = Append(log, key)
  BY <1>1
<1> HIDE DEF held, n
<1>5. \A e \in 1 .. n - Len(held) : e <= expired' \/ n - e >= DedupeCapacity
  <2> SUFFICES ASSUME NEW e \in 1 .. n - Len(held)
               PROVE  e <= expired' \/ n - e >= DedupeCapacity
    OBVIOUS
  <2>1. CASE e <= n - Len(dedupe)
    BY <1>0, <1>3, <2>1
  <2>2. CASE e > n - Len(dedupe)
    <3>1. old > 0 /\ old \in 1 .. Len(dedupe) /\ e <= n - Len(dedupe) + old
      BY <1>0, <1>2, <2>2
    <3>2. expired' = n - Len(dedupe) + old
      BY <1>0, <1>4, <3>1
    <3> QED BY <3>1, <3>2
  <2> QED BY <1>0, <2>1, <2>2
<1>6. CASE Held(held, key) /\ dedupe' = held /\ log' = log
  <2>1. RedeliveryIsDropped'
    BY <1>0, <1>3, <1>6 DEF RedeliveryIsDropped, n
  <2>2. Len(log') = n /\ log' \in Seq(Keys)
    BY <1>0, <1>6 DEF n
  <2>3. /\ Newest(dedupe', n) /\ Len(dedupe') <= DedupeCapacity
        /\ \A e \in 1 .. n - Len(dedupe') : e <= expired' \/ n - e >= DedupeCapacity
    <3>1. Newest(held, n) /\ Len(held) <= DedupeCapacity
      BY <1>0, <1>2 DEF Newest
    <3> QED BY <1>5, <1>6, <3>1
  <2>4. expired' <= n - Len(dedupe')
    BY <1>3, <1>6
  <2> QED BY <1>3, <2>1, <2>2, <2>3, <2>4 DEF DedupeInv
<1>7. CASE ~Held(held, key) /\ dedupe' = Record(held, n + 1) /\ log' = Append(log, key)
  <2>1. /\ log' \in Seq(Keys) /\ Len(log') = n + 1 /\ log'[n + 1] = key
        /\ \A i \in 1 .. n : log'[i] = log[i]
    BY <1>0, <1>7 DEF n
  <2>2. \A i \in 1 .. n : log[i] = key => i <= n - Len(held)
    <3> SUFFICES ASSUME NEW i \in 1 .. n, log[i] = key, i > n - Len(held) PROVE FALSE
      BY <1>0, <1>2
    <3> DEFINE k == i - (n - Len(held))
    <3>1. k \in 1 .. Len(held) /\ n - Len(held) + k = i
      BY <1>0, <1>2
    <3>2. held[k] = i
      BY <1>2, <3>1
    <3> HIDE DEF k
    <3>3. log[held[k]] = key
      BY <3>2
    <3> QED BY <1>7, <3>1, <3>3 DEF Held
  <2>3. RedeliveryIsDropped'
    <3> SUFFICES ASSUME NEW i \in 1 .. n + 1, NEW j \in 1 .. n + 1, i < j, log'[i] = log'[j]
                 PROVE  i <= expired' \/ j - i > DedupeCapacity
      BY <2>1 DEF RedeliveryIsDropped
    <3>1. i \in 1 .. n
      BY <1>0
    <3>2. CASE j \in 1 .. n
      BY <1>0, <1>3, <2>1, <3>1, <3>2
    <3>3. CASE j = n + 1
      <4>1. i \in 1 .. n - Len(held)
        <5>1. log[i] = key
          BY <2>1, <3>1, <3>3
        <5>2. i <= n - Len(held)
          BY <2>2, <3>1, <5>1
        <5>3. Len(held) \in Nat
          BY <1>2
        <5> QED BY <1>0, <3>1, <5>2, <5>3
      <4>2. i <= expired' \/ n - i >= DedupeCapacity
        BY <1>5, <4>1
      <4> QED BY <1>0, <3>1, <3>3, <4>2
    <3> QED BY <1>0, <3>2, <3>3
  <2>4. Len(held) <= n /\ Len(held) <= DedupeCapacity
    BY <1>0, <1>2
  <2>5. /\ Newest(dedupe', n + 1)
        /\ Len(dedupe') = IF Len(held) >= DedupeCapacity THEN DedupeCapacity ELSE Len(held) + 1
    <3>1. Newest(held, n)
      BY <1>2, <2>4 DEF Newest
    <3> QED BY <1>0, <1>7, <2>4, <3>1, RecordKeepsNewest
  <2> DEFINE k == Len(dedupe')
  <2>8. /\ k = IF Len(held) >= DedupeCapacity THEN DedupeCapacity ELSE Len(held) + 1
        /\ Len(held) \in Nat /\ n \in Nat /\ DedupeCapacity \in Nat
    BY <1>0, <1>2, <2>5
  <2> HIDE DEF k
  <2>6. expired' <= (n + 1) - k /\ k <= DedupeCapacity
    <3>1. CASE Len(held) >= DedupeCapacity
      BY <1>3, <2>4, <2>8, <3>1
    <3>2. CASE ~(Len(held) >= DedupeCapacity)
      BY <1>3, <2>4, <2>8, <3>2
    <3> QED BY <3>1, <3>2
  <2>7. ASSUME NEW e \in 1 .. (n + 1) - k
        PROVE  e <= expired' \/ (n + 1) - e >= DedupeCapacity
    <3>1. CASE e \in 1 .. n - Len(held)
      BY <1>3, <1>5, <2>8, <3>1
    <3>2. CASE e \notin 1 .. n - Len(held)
      BY <2>4, <2>8, <3>2
    <3> QED BY <3>1, <3>2
  <2>9. Len(log') = n + 1 /\ log' \in Seq(Keys) /\ n + 1 \in Nat
    BY <1>0, <2>1
  <2>10. /\ Len(dedupe') <= DedupeCapacity /\ expired' <= (n + 1) - Len(dedupe')
         /\ \A e \in 1 .. (n + 1) - Len(dedupe') : e <= expired' \/ (n + 1) - e >= DedupeCapacity
    BY <2>6, <2>7 DEF k
  <2> QED BY <1>3, <2>3, <2>5, <2>9, <2>10, DedupeParts
<1> QED BY <1>4, <1>6, <1>7

LEMMA DedupeStep == DedupeInv /\ [Next]_vars => DedupeInv'
<1> SUFFICES ASSUME DedupeInv, [Next]_vars PROVE DedupeInv'
  OBVIOUS
<1>1. CASE UNCHANGED <<dedupe, log, expired>>
  BY <1>1 DEF DedupeInv, RedeliveryIsDropped
<1>2. CASE \E p \in Publishers, key \in Keys : Publish(p, key)
  BY <1>2, DedupePublish
<1>3. ASSUME NEW p \in Publishers, PublishStep(p) PROVE UNCHANGED <<dedupe, log, expired>>
  BY <1>3 DEF PublishStep, Send, Drop, CloseSlow, Published
<1>4. ASSUME NEW s \in Subscriptions,
             ReadStep(s) \/ Cancel(s) \/ \E event \in 0 .. MaxEvents : Subscribe(s, event)
      PROVE  UNCHANGED <<dedupe, log, expired>>
  BY <1>4 DEF ReadStep, Replay, Receive, EndOfStream, CloseOwn, Cancel, Subscribe
<1>5. Shutdown \/ CloseAtShutdown => UNCHANGED <<dedupe, log, expired>>
  BY DEF Shutdown, CloseAtShutdown
<1> QED BY <1>1, <1>2, <1>3, <1>4, <1>5 DEF Next, vars

\* A redelivered event is not published again while its key is held
THEOREM RedeliveriesDropped == Spec => []RedeliveryIsDropped
<1>1. DedupeInv => RedeliveryIsDropped
  BY DEF DedupeInv
<1> QED BY <1>1, DedupeInit, DedupeStep, PTL DEF Spec

-----------------------------------------------------------------------------
(* The ring *)

\* Positions of the ring are less than two rounds
Slot(x) == x % Capacity

LEMMA Wraps ==
  ASSUME NEW x \in Nat, x < 2 * Capacity
  PROVE  Slot(x) = IF x < Capacity THEN x ELSE x - Capacity
  BY BusAssumption DEF Slot

\* The ring holds the newest events, as many as fit, the oldest one at its start
RingInv ==
  /\ Len(log) \in Nat
  /\ ring \in [items : [Slots -> Nat], start : Slots, count : 0 .. Capacity]
  /\ ring.count = IF Len(log) < Capacity THEN Len(log) ELSE Capacity
  /\ \A i \in 0 .. ring.count - 1 :
       ring.items[Slot(ring.start + i)] = (Len(log) - ring.count) + 1 + i

LEMMA PushKeepsNewest ==
  ASSUME RingInv, NEW p \in Publishers, NEW key, log' = Append(log, key), Len(log') = Len(log) + 1,
         ring' = Push(ring, Len(log) + 1)
  PROVE  RingInv'
<1> DEFINE n == Len(log)  start == ring.start  count == ring.count  items == ring.items
<1>1. /\ Capacity \in Nat \ {0} /\ n \in Nat /\ start \in 0 .. Capacity - 1 /\ count \in 0 .. Capacity
      /\ items \in [0 .. Capacity - 1 -> Nat]
      /\ count = IF n < Capacity THEN n ELSE Capacity
      /\ \A i \in 0 .. count - 1 : items[Slot(start + i)] = (n - count) + 1 + i
  BY BusAssumption DEF RingInv, Slots
<1>2. /\ ring'.items = [items EXCEPT ![Slot(start + count)] = n + 1]
      /\ ring'.start = IF count = Capacity THEN Slot(start + 1) ELSE start
      /\ ring'.count = IF count = Capacity THEN count ELSE count + 1
  BY DEF Push, RingInv, Slot
<1>3. Len(log') = n + 1
  OBVIOUS
<1>4. \A x \in Nat : x < 2 * Capacity => Slot(x) = IF x < Capacity THEN x ELSE x - Capacity
  BY Wraps
<1>7. /\ ring' = [items |-> ring'.items, start |-> ring'.start, count |-> ring'.count]
      /\ Slots = 0 .. Capacity - 1
  BY DEF Push, RingInv, Slots
<1> HIDE DEF n, start, count, items
<1>8. \A k \in 0 .. Capacity - 1 :
        /\ [items EXCEPT ![k] = n + 1] \in [0 .. Capacity - 1 -> Nat]
        /\ [items EXCEPT ![k] = n + 1][k] = n + 1
        /\ \A j \in 0 .. Capacity - 1 : j # k => [items EXCEPT ![k] = n + 1][j] = items[j]
  BY <1>1
<1>5. CASE count # Capacity
  <2>1. /\ ring'.count = count + 1 /\ ring'.start = start /\ count = n /\ n < Capacity
    BY <1>1, <1>2, <1>5
  <2>2. ASSUME NEW i \in 0 .. count PROVE ring'.items[Slot(start + i)] = i + 1
    <3>1. Slot(start + i) \in 0 .. Capacity - 1
      BY <1>1, <1>4, <2>1
    <3>2. CASE i = count
      <4>1. ring'.items = [items EXCEPT ![Slot(start + count)] = n + 1]
        BY <1>2, <2>1
      <4> QED BY <1>1, <2>1, <3>1, <3>2, <4>1
    <3>3. CASE i # count
      <4>1. Slot(start + i) # Slot(start + count)
        <5>1. start + i \in Nat /\ start + i < 2 * Capacity
          BY <1>1, <2>1
        <5>2. start + count \in Nat /\ start + count < 2 * Capacity
          BY <1>1, <2>1
        <5>3. Slot(start + i) = IF start + i < Capacity THEN start + i ELSE (start + i) - Capacity
          BY <1>4, <5>1
        <5>4. Slot(start + count)
                = IF start + count < Capacity THEN start + count ELSE (start + count) - Capacity
          BY <1>4, <5>2
        <5> QED BY <1>1, <2>1, <3>3, <5>3, <5>4
      <4>2. items[Slot(start + i)] = i + 1
        BY <1>1, <2>1, <3>3
      <4> QED BY <1>1, <1>2, <3>1, <4>1, <4>2
    <3> QED BY <3>2, <3>3
  <2>3. ring'.items \in [0 .. Capacity - 1 -> Nat] /\ n + 1 \in 0 .. Capacity
    <3>1. Slot(start + count) \in 0 .. Capacity - 1
      BY <1>1, <1>4, <2>1
    <3>2. n + 1 \in 0 .. Capacity
      BY <1>1, <2>1
    <3> QED BY <1>2, <1>8, <3>1, <3>2
  <2>5. ring' \in [items : [Slots -> Nat], start : Slots, count : 0 .. Capacity]
    BY <1>1, <1>7, <2>1, <2>3
  <2>6. ring'.count = IF n + 1 < Capacity THEN n + 1 ELSE Capacity
    BY <1>1, <2>1
  <2>4. \A i \in 0 .. ring'.count - 1 :
          ring'.items[Slot(ring'.start + i)] = ((n + 1) - ring'.count) + 1 + i
    <3> SUFFICES ASSUME NEW i \in 0 .. count
                 PROVE  ring'.items[Slot(start + i)] = ((n + 1) - (count + 1)) + 1 + i
      <4>1. ring'.count - 1 = count
        BY <1>1, <2>1
      <4> QED BY <2>1, <4>1
    <3>1. ((n + 1) - (count + 1)) + 1 + i = i + 1
      BY <1>1, <2>1
    <3> QED BY <2>2, <3>1
  <2>7. Len(log') \in Nat
    BY <1>1, <1>3
  <2>8. \A i \in 0 .. ring'.count - 1 :
          ring'.items[Slot(ring'.start + i)] = (Len(log') - ring'.count) + 1 + i
    BY <1>3, <2>4
  <2> QED BY <1>3, <2>5, <2>6, <2>7, <2>8 DEF RingInv, Slot
<1>6. CASE count = Capacity
  <2>1. /\ ring'.count = Capacity /\ ring'.start = Slot(start + 1)
        /\ ring'.items = [items EXCEPT ![start] = n + 1]
    <3>1. Slot(start + Capacity) = start
      <4>1. start + Capacity \in Nat /\ start + Capacity < 2 * Capacity
        BY <1>1
      <4> QED BY <1>1, <1>4, <4>1
    <3> QED BY <1>2, <1>6, <3>1
  <2>2. Slot(start + 1) = IF start + 1 < Capacity THEN start + 1 ELSE 0
    <3>1. start + 1 \in Nat /\ start + 1 < 2 * Capacity
      BY <1>1
    <3> QED BY <1>1, <1>4, <3>1
  <2>3. ASSUME NEW i \in 0 .. Capacity - 1
        PROVE  ring'.items[Slot(Slot(start + 1) + i)] = ((n + 1) - Capacity) + 1 + i
    <3> DEFINE x == Slot(start + 1) + i
    <3>1. x \in Nat /\ x < 2 * Capacity
      BY <1>1, <2>2
    <3>2. Slot(x) = IF x < Capacity THEN x ELSE x - Capacity
      BY <1>4, <3>1
    <3>5. x = Slot(start + 1) + i
      OBVIOUS
    <3>6. SUFFICES ring'.items[Slot(x)] = ((n + 1) - Capacity) + 1 + i
      OBVIOUS
    <3> HIDE DEF x
    <3>3. CASE i = Capacity - 1
      <4>1. Slot(x) = start
        BY <1>1, <2>2, <3>2, <3>3, <3>5
      <4>2. ring'.items[start] = n + 1
        BY <1>1, <1>8, <2>1
      <4>3. ((n + 1) - Capacity) + 1 + i = n + 1
        BY <1>1, <3>3
      <4> QED BY <4>1, <4>2, <4>3
    <3>4. CASE i # Capacity - 1
      <4>1. start + (i + 1) \in Nat /\ start + (i + 1) < 2 * Capacity /\ i + 1 \in 0 .. count - 1
        BY <1>1, <1>6, <3>4
      <4>2. Slot(start + (i + 1))
              = IF start + (i + 1) < Capacity THEN start + (i + 1) ELSE (start + (i + 1)) - Capacity
        BY <1>4, <4>1
      <4>3. Slot(x) = Slot(start + (i + 1))
        <5>1. CASE start + 1 < Capacity
          <6>1. x = start + (i + 1)
            BY <1>1, <2>2, <3>5, <5>1
          <6> QED BY <6>1
        <5>2. CASE ~(start + 1 < Capacity)
          <6>1. x = i /\ start = Capacity - 1
            BY <1>1, <2>2, <3>5, <5>2
          <6>2. Slot(x) = i
            BY <1>1, <3>2, <6>1
          <6>3. Slot(start + (i + 1)) = i
            BY <1>1, <4>2, <6>1
          <6> QED BY <6>2, <6>3
        <5> QED BY <5>1, <5>2
      <4>4. Slot(x) # start /\ Slot(x) \in 0 .. Capacity - 1
        BY <1>1, <3>4, <4>1, <4>2, <4>3
      <4>5. items[Slot(x)] = (n - count) + 1 + (i + 1)
        BY <1>1, <4>1, <4>3
      <4>6. ring'.items[Slot(x)] = items[Slot(x)]
        BY <1>1, <1>8, <2>1, <4>4
      <4>7. (n - count) + 1 + (i + 1) = ((n + 1) - Capacity) + 1 + i
        BY <1>1, <1>6
      <4> QED BY <4>5, <4>6, <4>7
    <3> QED BY <3>3, <3>4
  <2>4. ring' \in [items : [Slots -> Nat], start : Slots, count : 0 .. Capacity]
    <3>1. start \in 0 .. Capacity - 1 /\ ring'.start \in 0 .. Capacity - 1
      BY <1>1, <2>1, <2>2
    <3>2. ring'.items \in [0 .. Capacity - 1 -> Nat]
      <4>1. [items EXCEPT ![start] = n + 1] \in [0 .. Capacity - 1 -> Nat]
        BY <1>8, <3>1
      <4> QED BY <2>1, <4>1
    <3> QED BY <1>1, <1>7, <2>1, <3>1, <3>2
  <2>5. ring'.count = IF n + 1 < Capacity THEN n + 1 ELSE Capacity
    BY <1>1, <1>6, <2>1
  <2>6. \A i \in 0 .. ring'.count - 1 :
          ring'.items[Slot(ring'.start + i)] = ((n + 1) - ring'.count) + 1 + i
    BY <2>1, <2>3
  <2> QED BY <1>1, <1>3, <2>4, <2>5, <2>6 DEF RingInv
<1> QED BY <1>5, <1>6

-----------------------------------------------------------------------------
(* Gaps *)

Fields == {"status", "reason", "reader", "after", "gap", "from", "replay", "sent", "read"}

\* What a step may do to a subscription that is not being made
Registered(new, old) ==
  /\ DOMAIN new = DOMAIN old
  /\ new.after = old.after /\ new.gap = old.gap /\ new.from = old.from

GapInv ==
  /\ DedupeInv /\ RingInv
  /\ DOMAIN subs = Subscriptions
  /\ \A s \in Subscriptions :
       /\ DOMAIN subs[s] = Fields
       /\ subs[s].after > 0 => (subs[s].gap <=> subs[s].from > subs[s].after)

LEMMA GapInit == Init => GapInv
<1> SUFFICES ASSUME Init PROVE GapInv
  OBVIOUS
<1>1. DedupeInv
  BY DedupeInit
<1>2. RingInv
  BY BusAssumption DEF Init, RingInv, Slots
<1>3. /\ DOMAIN subs = Subscriptions
      /\ \A s \in Subscriptions : DOMAIN subs[s] = Fields /\ subs[s].after = 0
  BY DEF Init, Unused, Fields
<1> QED BY <1>1, <1>2, <1>3 DEF GapInv

\* The oldest event retained follows those that were pushed out
LEMMA OldestRetained ==
  ASSUME RingInv
  PROVE  /\ ring.count = 0 <=> Len(log) = 0
         /\ ring.count > 0 => /\ OldestSequence(ring) = (Len(log) - ring.count) + 1
                              /\ OldestSequence(ring) \in 1 .. Len(log)
<1>1. /\ Capacity \in Nat \ {0} /\ Len(log) \in Nat /\ ring.start \in Nat /\ ring.start < Capacity
      /\ ring.count \in Nat /\ ring.count = IF Len(log) < Capacity THEN Len(log) ELSE Capacity
  BY BusAssumption DEF RingInv, Slots
<1>2. ring.count = 0 <=> Len(log) = 0
  BY <1>1
<1>3. ASSUME ring.count > 0
      PROVE  OldestSequence(ring) = (Len(log) - ring.count) + 1
  <2>1. Slot(ring.start + 0) = ring.start
    BY <1>1, Wraps
  <2>2. 0 \in 0 .. ring.count - 1
    BY <1>1, <1>3
  <2>3. ring.items[Slot(ring.start + 0)] = (Len(log) - ring.count) + 1 + 0
    BY <2>2 DEF RingInv
  <2>4. (Len(log) - ring.count) + 1 + 0 = (Len(log) - ring.count) + 1
    BY <1>1
  <2> QED BY <1>3, <2>1, <2>3, <2>4 DEF OldestSequence
<1>4. ring.count > 0 => (Len(log) - ring.count) + 1 \in 1 .. Len(log)
  BY <1>1
<1> QED BY <1>2, <1>3, <1>4

\* The gap is reported when the replay begins after the event the reader has
LEMMA GapAtSubscription ==
  ASSUME RingInv, NEW event \in Nat, event > 0
  PROVE  HasGap(event) <=>
           (IF event >= Len(log) THEN Len(log)
            ELSE IF event + 1 < OldestSequence(ring) THEN OldestSequence(ring) - 1
            ELSE event) > event
<1>1. Len(log) \in Nat /\ ring.count \in Nat
  BY DEF RingInv
<1>2. CASE ring.count = 0
  BY <1>1, <1>2, OldestRetained DEF HasGap
<1>3. CASE ring.count # 0
  <2>1. OldestSequence(ring) \in Nat /\ OldestSequence(ring) >= 1 /\ OldestSequence(ring) <= Len(log)
    BY <1>1, <1>3, OldestRetained
  <2> QED BY <1>1, <1>3, <2>1 DEF HasGap
<1> QED BY <1>2, <1>3

LEMMA GapSubscribe ==
  ASSUME GapInv, NEW s \in Subscriptions, NEW event \in 0 .. MaxEvents, Subscribe(s, event)
  PROVE  GapInv'
<1>0. event \in Nat
  BY BusAssumption
<1>1. DedupeInv' /\ RingInv'
  BY DEF Subscribe, GapInv, DedupeInv, RedeliveryIsDropped, RingInv
<1>2. /\ DOMAIN subs' = Subscriptions
      /\ \A t \in Subscriptions : t # s => subs'[t] = subs[t]
      /\ DOMAIN subs'[s] = Fields /\ subs'[s].after = event /\ subs'[s].gap = HasGap(event)
      /\ subs'[s].from = IF event >= Len(log) THEN Len(log)
                         ELSE IF event + 1 < OldestSequence(ring) THEN OldestSequence(ring) - 1
                         ELSE event
  BY DEF Subscribe, GapInv, Unused, Fields
<1>3. event > 0 => (subs'[s].gap <=> subs'[s].from > event)
  BY <1>0, <1>2, GapAtSubscription DEF GapInv
<1> QED BY <1>1, <1>2, <1>3 DEF GapInv

LEMMA GapKept ==
  ASSUME GapInv, DedupeInv', RingInv', DOMAIN subs' = Subscriptions,
         \A s \in Subscriptions : Registered(subs'[s], subs[s])
  PROVE  GapInv'
  BY DEF GapInv, Registered

\* So far a step has made no subscription
AllRegistered(f) ==
  /\ DOMAIN f = Subscriptions
  /\ \A s \in Subscriptions : DOMAIN f[s] = Fields /\ Registered(f[s], subs[s])

LEMMA RegisteredField ==
  ASSUME NEW f, AllRegistered(f), NEW s, NEW x
  PROVE  /\ AllRegistered([f EXCEPT ![s].reader = x]) /\ AllRegistered([f EXCEPT ![s].sent = x])
         /\ AllRegistered([f EXCEPT ![s].read = x]) /\ AllRegistered([f EXCEPT ![s].status = x])
         /\ AllRegistered([f EXCEPT ![s].replay = x]) /\ AllRegistered([f EXCEPT ![s].reason = x])
  BY DEF AllRegistered, Registered, Fields

LEMMA RegisteredAlready ==
  ASSUME GapInv
  PROVE  /\ AllRegistered(subs)
         /\ \A s, x : /\ AllRegistered(SendTo(s, x)) /\ AllRegistered(Remove(s, x))
                      /\ AllRegistered(CloseStep(s))
<1>1. AllRegistered(subs)
  BY DEF GapInv, AllRegistered, Registered
<1>2. ASSUME NEW s, NEW x PROVE AllRegistered(SendTo(s, x)) /\ AllRegistered(CloseStep(s))
  BY <1>1, RegisteredField DEF SendTo, CloseStep
<1>3. ASSUME NEW s, NEW x PROVE AllRegistered(Remove(s, x))
  <2>1. AllRegistered([[subs EXCEPT ![s].status = "removed"] EXCEPT ![s].reason = x])
    BY <1>1, RegisteredField
  <2>2. Remove(s, x) = [[subs EXCEPT ![s].status = "removed"] EXCEPT ![s].reason = x]
    BY DEF Remove
  <2> QED BY <2>1, <2>2
<1> QED BY <1>1, <1>2, <1>3

LEMMA RegisteredSteps ==
  ASSUME GapInv, Next, ~(\E s \in Subscriptions, event \in 0 .. MaxEvents : Subscribe(s, event))
  PROVE  AllRegistered(subs')
<1>0. AllRegistered(subs) /\ (subs' = subs => AllRegistered(subs'))
  BY RegisteredAlready
<1>1. ASSUME NEW p \in Publishers, PublishStep(p) \/ \E key \in Keys : Publish(p, key)
      PROVE  AllRegistered(subs')
  <2>1. CASE UNCHANGED subs
    BY <1>0, <2>1
  <2>2. ASSUME NEW s \in Subscriptions, Send(p, s) PROVE AllRegistered(subs')
    BY <1>0, <2>2, RegisteredAlready DEF Send
  <2>3. CASE Drop(p)
    BY <1>0, <2>3, RegisteredAlready DEF Drop
  <2>4. CASE CloseSlow(p)
    BY <2>4, RegisteredAlready DEF CloseSlow
  <2>5. Published(p) \/ (\E key \in Keys : Publish(p, key)) => UNCHANGED subs
    BY DEF Published, Publish
  <2> QED BY <1>1, <2>1, <2>2, <2>3, <2>4, <2>5 DEF PublishStep
<1>2. ASSUME NEW s \in Subscriptions, Replay(s) PROVE AllRegistered(subs')
  <2>1. \A x : /\ AllRegistered([SendTo(s, Head(subs[s].replay)) EXCEPT ![s].replay = Tail(@)])
               /\ AllRegistered([Remove(s, "slow_consumer") EXCEPT ![s].reader = x])
               /\ AllRegistered([subs EXCEPT ![s].reader = x])
    BY RegisteredAlready, RegisteredField
  <2> QED BY <1>0, <1>2, <2>1 DEF Replay
<1>3. ASSUME NEW s \in Subscriptions, Receive(s) \/ EndOfStream(s) PROVE AllRegistered(subs')
  <2>1. \A x : /\ AllRegistered([subs EXCEPT ![s].read = x])
               /\ AllRegistered([subs EXCEPT ![s].reader = x])
    BY <1>0, RegisteredField
  <2>2. (\E x : subs' = [subs EXCEPT ![s].read = x]) \/ (\E x : subs' = [subs EXCEPT ![s].reader = x])
    BY <1>3 DEF Receive, EndOfStream
  <2> QED BY <2>1, <2>2
<1>4. ASSUME NEW s \in Subscriptions, Cancel(s) \/ CloseOwn(s) PROVE AllRegistered(subs')
  <2>1. \A x, y : /\ AllRegistered([Remove(s, y) EXCEPT ![s].reader = x])
                  /\ AllRegistered([subs EXCEPT ![s].reader = x])
                  /\ AllRegistered([CloseStep(s) EXCEPT ![s].reader = x])
                  /\ AllRegistered(CloseStep(s))
    <3>1. \A y : AllRegistered(Remove(s, y)) /\ AllRegistered(CloseStep(s))
      BY RegisteredAlready
    <3>2. \A x, y : AllRegistered([Remove(s, y) EXCEPT ![s].reader = x])
      BY <3>1, RegisteredField
    <3>3. \A x : /\ AllRegistered([subs EXCEPT ![s].reader = x])
                 /\ AllRegistered([CloseStep(s) EXCEPT ![s].reader = x])
      BY <1>0, <3>1, RegisteredField
    <3> QED BY <3>1, <3>2, <3>3
  <2>2. CASE Cancel(s)
    BY <2>1, <2>2 DEF Cancel
  <2>3. CASE CloseOwn(s)
    <3>1. \/ subs' = CloseStep(s)
          \/ \E x : subs' = [CloseStep(s) EXCEPT ![s].reader = x]
      BY <2>3 DEF CloseOwn
    <3> QED BY <2>1, <3>1
  <2> QED BY <1>4, <2>2, <2>3
<1>5. CASE Shutdown
  <2>1. \A s \in Subscriptions :
          \/ subs'[s] = subs[s]
          \/ subs'[s] = [[subs[s] EXCEPT !.status = "removed"] EXCEPT !.reason = "shutdown"]
    BY <1>5 DEF Shutdown
  <2>2. \A s \in Subscriptions : DOMAIN subs[s] = Fields
    BY DEF GapInv
  <2>3. \A r, new : /\ DOMAIN r = Fields
                    /\ new = [[r EXCEPT !.status = "removed"] EXCEPT !.reason = "shutdown"]
                    => DOMAIN new = Fields /\ Registered(new, r)
    BY DEF Registered, Fields
  <2>4. DOMAIN subs' = Subscriptions
    BY <1>5 DEF Shutdown
  <2>5. ASSUME NEW s \in Subscriptions
        PROVE  DOMAIN subs'[s] = Fields /\ Registered(subs'[s], subs[s])
    <3>1. CASE subs'[s] = subs[s]
      BY <2>2, <3>1 DEF Registered
    <3>2. CASE subs'[s] = [[subs[s] EXCEPT !.status = "removed"] EXCEPT !.reason = "shutdown"]
      BY <2>2, <2>3, <3>2
    <3> QED BY <2>1, <3>1, <3>2
  <2> QED BY <2>4, <2>5 DEF AllRegistered
<1>6. CASE CloseAtShutdown
  BY <1>6, RegisteredAlready DEF CloseAtShutdown
<1> QED BY <1>1, <1>2, <1>3, <1>4, <1>5, <1>6 DEF Next, ReadStep

LEMMA RingStep == DedupeInv /\ RingInv /\ [Next]_vars => RingInv'
<1> SUFFICES ASSUME DedupeInv, RingInv, [Next]_vars PROVE RingInv'
  OBVIOUS
<1>1. CASE UNCHANGED <<ring, log>>
  BY <1>1 DEF RingInv
<1>2. ASSUME NEW p \in Publishers, NEW key \in Keys, Publish(p, key) PROVE RingInv'
  <2>1. CASE log' = Append(log, key) /\ ring' = Push(ring, Len(log) + 1)
    <3>1. Len(log') = Len(log) + 1
      BY <2>1 DEF DedupeInv
    <3> QED BY <2>1, <3>1, PushKeepsNewest
  <2> QED BY <1>1, <1>2, <2>1 DEF Publish
<1>3. ASSUME NEW p \in Publishers, PublishStep(p) PROVE UNCHANGED <<ring, log>>
  BY <1>3 DEF PublishStep, Send, Drop, CloseSlow, Published
<1>4. ASSUME NEW s \in Subscriptions,
             ReadStep(s) \/ Cancel(s) \/ \E event \in 0 .. MaxEvents : Subscribe(s, event)
      PROVE  UNCHANGED <<ring, log>>
  BY <1>4 DEF ReadStep, Replay, Receive, EndOfStream, CloseOwn, Cancel, Subscribe
<1>5. Shutdown \/ CloseAtShutdown => UNCHANGED <<ring, log>>
  BY DEF Shutdown, CloseAtShutdown
<1> QED BY <1>1, <1>2, <1>3, <1>4, <1>5 DEF Next, vars

LEMMA GapStep == GapInv /\ [Next]_vars => GapInv'
<1> SUFFICES ASSUME GapInv, [Next]_vars PROVE GapInv'
  OBVIOUS
<1>1. DedupeInv' /\ RingInv'
  BY DedupeStep, RingStep DEF GapInv
<1>2. CASE UNCHANGED vars
  BY <1>1, <1>2 DEF vars, GapInv
<1>3. CASE \E s \in Subscriptions, event \in 0 .. MaxEvents : Subscribe(s, event)
  BY <1>3, GapSubscribe
<1>4. CASE Next /\ ~(\E s \in Subscriptions, event \in 0 .. MaxEvents : Subscribe(s, event))
  <2>1. AllRegistered(subs')
    BY <1>4, RegisteredSteps
  <2> QED BY <1>1, <2>1, GapKept DEF AllRegistered
<1> QED BY <1>2, <1>3, <1>4

\* A subscription is told of a gap if and only if an event after its last one was
\* no longer retained
THEOREM GapsAreHonest == Spec => []GapIsHonest
<1>1. GapInv => GapIsHonest
  BY DEF GapInv, GapIsHonest
<1> QED BY <1>1, GapInit, GapStep, PTL DEF Spec

-----------------------------------------------------------------------------
(* The replay *)

LEMMA RetainedEvent ==
  ASSUME RingInv, NEW i \in 1 .. ring.count
  PROVE  Retained(ring)[i] = (Len(log) - ring.count) + i
<1>1. Retained(ring)[i] = ring.items[(ring.start + i - 1) % Capacity]
  BY DEF Retained
<1>2. /\ ring.start \in Int /\ ring.count \in Int /\ Len(log) \in Int
      /\ \A j \in 0 .. ring.count - 1 :
           ring.items[Slot(ring.start + j)] = (Len(log) - ring.count) + 1 + j
  <2>1. ring.start \in Slots /\ ring.count \in 0 .. Capacity /\ Len(log) \in Nat /\ Capacity \in Nat
    BY BusAssumption DEF RingInv
  <2>2. ring.start \in Int /\ ring.count \in Int /\ Len(log) \in Int
    BY <2>1 DEF Slots
  <2>3. \A j \in 0 .. ring.count - 1 :
           ring.items[Slot(ring.start + j)] = (Len(log) - ring.count) + 1 + j
    BY DEF RingInv
  <2> QED BY <2>2, <2>3
<1>3. i - 1 \in 0 .. ring.count - 1 /\ (ring.start + i - 1) = ring.start + (i - 1)
  BY <1>2
<1>4. ring.items[Slot(ring.start + (i - 1))] = (Len(log) - ring.count) + 1 + (i - 1)
  BY <1>2, <1>3
<1>5. (Len(log) - ring.count) + 1 + (i - 1) = (Len(log) - ring.count) + i
  BY <1>2
<1> QED BY <1>1, <1>3, <1>4, <1>5 DEF Slot

\* In an interval the k-th one is where it should be
LEMMA NthOfInterval ==
  ASSUME NEW a \in Nat, NEW b \in Nat, NEW k \in 1 .. b - a + 1
  PROVE  Nth(a .. b, k) = a + k - 1
<1>1. \A i \in a .. b : Cardinality({j \in a .. b : j <= i}) = i - a + 1
  <2> SUFFICES ASSUME NEW i \in a .. b PROVE Cardinality({j \in a .. b : j <= i}) = i - a + 1
    OBVIOUS
  <2>1. {j \in a .. b : j <= i} = a .. i
    OBVIOUS
  <2>2. i \in Int /\ a \in Int /\ ~(a > i)
    OBVIOUS
  <2>3. Cardinality(a .. i) = IF a > i THEN 0 ELSE i - a + 1
    BY <2>2, FS_Interval
  <2>4. Cardinality(a .. i) = i - a + 1
    BY <2>2, <2>3
  <2> QED BY <2>1, <2>4
<1>2. a + k - 1 \in a .. b /\ (a + k - 1) - a + 1 = k
  OBVIOUS
<1>3. \A i \in a .. b : i - a + 1 = k => i = a + k - 1
  OBVIOUS
<1>4. \E i \in a .. b : Cardinality({j \in a .. b : j <= i}) = k
  BY <1>1, <1>2
<1>5. Nth(a .. b, k) \in a .. b /\ Cardinality({j \in a .. b : j <= Nth(a .. b, k)}) = k
  BY <1>4 DEF Nth
<1> QED BY <1>1, <1>3, <1>5

\* What is replayed after an event
FirstAfter(event) == IF event <= Len(log) - ring.count THEN (Len(log) - ring.count) + 1 ELSE event + 1

LEMMA AfterEvent ==
  ASSUME RingInv, NEW event \in Nat
  PROVE  /\ After(ring, event) \in Seq(1 .. Len(log))
         /\ Elements(After(ring, event)) = FirstAfter(event) .. Len(log)
         /\ \A i, j \in 1 .. Len(After(ring, event)) :
              After(ring, event)[i] = After(ring, event)[j] => i = j
<1> DEFINE n == Len(log)  count == ring.count  positions == PositionsAfter(ring, event)
           low == IF event <= n - count THEN 1 ELSE event - (n - count) + 1
           size == IF low > count THEN 0 ELSE count - low + 1
<1>1. n \in Nat /\ count \in Nat /\ count <= n
  BY BusAssumption DEF RingInv
<1>2. \A i \in 1 .. count : Retained(ring)[i] = (n - count) + i
  BY RetainedEvent
<1>3. positions = low .. count
  BY <1>1, <1>2 DEF PositionsAfter
<1>4. low \in Nat \ {0} /\ size \in Nat /\ low = FirstAfter(event) - (n - count)
  BY <1>1 DEF FirstAfter
<1>10. FirstAfter(event) \in Nat
  BY <1>1 DEF FirstAfter
<1>5. size = IF low > count THEN 0 ELSE count - low + 1
  OBVIOUS
<1>6. After(ring, event) = [k \in 1 .. Cardinality(positions) |-> Retained(ring)[Nth(positions, k)]]
  BY DEF After
<1> HIDE DEF n, count, positions, low, size
<1>7. Cardinality(positions) = size
  <2>1. low \in Int /\ count \in Int
    BY <1>1, <1>4
  <2>2. Cardinality(low .. count) = IF low > count THEN 0 ELSE count - low + 1
    BY <2>1, FS_Interval
  <2> QED BY <1>3, <1>5, <2>2
<1>8. \A k \in 1 .. size : Retained(ring)[Nth(positions, k)] = FirstAfter(event) + k - 1
  <2> SUFFICES ASSUME NEW k \in 1 .. size
               PROVE  Retained(ring)[Nth(positions, k)] = FirstAfter(event) + k - 1
    OBVIOUS
  <2>1. k \in 1 .. count - low + 1 /\ low + k - 1 \in 1 .. count
    BY <1>1, <1>4, <1>5
  <2>2. Nth(positions, k) = low + k - 1
    BY <1>1, <1>3, <1>4, <2>1, NthOfInterval
  <2>3. Retained(ring)[low + k - 1] = (n - count) + (low + k - 1)
    BY <1>2, <2>1
  <2>4. (n - count) + (low + k - 1) = FirstAfter(event) + k - 1
    BY <1>1, <1>4, <1>10, <2>1
  <2> QED BY <2>2, <2>3, <2>4
<1> DEFINE replay == After(ring, event)
<1>9. replay = [k \in 1 .. size |-> FirstAfter(event) + k - 1]
  BY <1>6, <1>7, <1>8
<1> HIDE DEF replay
<1>11. size = IF FirstAfter(event) > n THEN 0 ELSE n - FirstAfter(event) + 1
  BY <1>1, <1>4, <1>5, <1>10
<1>12. \A k \in 1 .. size : FirstAfter(event) + k - 1 \in FirstAfter(event) .. n
                            /\ FirstAfter(event) + k - 1 \in 1 .. n
  <2>1. FirstAfter(event) >= 1
    BY <1>1 DEF FirstAfter, n, count
  <2> QED BY <1>1, <1>10, <1>11, <2>1
<1>13. replay \in Seq(1 .. n) /\ Len(replay) = size
  BY <1>4, <1>9, <1>12
<1>14. Elements(replay) = FirstAfter(event) .. n
  <2>1. \A e \in FirstAfter(event) .. n : \E k \in 1 .. size : replay[k] = e
    <3> SUFFICES ASSUME NEW e \in FirstAfter(event) .. n PROVE \E k \in 1 .. size : replay[k] = e
      OBVIOUS
    <3>1. e - FirstAfter(event) + 1 \in 1 .. size
      BY <1>1, <1>10, <1>11
    <3>2. replay[e - FirstAfter(event) + 1] = e
      BY <1>9, <1>10, <3>1
    <3> QED BY <3>1, <3>2
  <2>2. \A k \in 1 .. size : replay[k] \in FirstAfter(event) .. n
    BY <1>9, <1>12
  <2> QED BY <1>13, <2>1, <2>2 DEF Elements
<1>15. \A i, j \in 1 .. size : replay[i] = replay[j] => i = j
  BY <1>4, <1>9, <1>10
<1> QED BY <1>13, <1>14, <1>15 DEF replay, n

-----------------------------------------------------------------------------
(* The types *)

\* What a step does to the subscriptions, one at a time
Others(s) == \A t \in Subscriptions : t # s => subs'[t] = subs[t]
Window(s) == Len(subs[s].sent) - subs[s].read \in 0 .. ChannelCapacity

Windows == /\ subs \in [Subscriptions -> SubType] /\ \A s \in Subscriptions : Window(s)

\* The same events have been sent, and are to be; nothing is opened
Same(s) == /\ subs'[s].sent = subs[s].sent /\ subs'[s].replay = subs[s].replay
           /\ subs'[s].from = subs[s].from
           /\ subs'[s].status \in {"open", "unused"} => subs'[s].status = subs[s].status

Quiet == Windows' /\ \A s \in Subscriptions : Same(s)

\* An event is put into the channel of a subscription
Puts(s, event, replay) ==
  /\ Windows' /\ Others(s)
  /\ subs'[s].sent = Append(subs[s].sent, event) /\ subs'[s].replay = replay
  /\ subs'[s].from = subs[s].from /\ subs'[s].status = subs[s].status

LEMMA Room == ChannelCapacity \in Nat \ {0}
  BY BusAssumption DEF ChannelCapacity

LEMMA WindowsNat ==
  ASSUME Windows, NEW s \in Subscriptions
  PROVE  /\ subs[s] \in SubType /\ Len(subs[s].sent) \in Nat /\ subs[s].read \in Nat
         /\ subs[s].sent \in Seq(Event) /\ subs[s].replay \in Seq(Event)
  BY DEF Windows, SubType

\* A change of one subscription
LEMMA FieldQuiet ==
  ASSUME Windows, NEW s \in Subscriptions, NEW x \in SubType, subs' = [subs EXCEPT ![s] = x],
         x.sent = subs[s].sent, x.replay = subs[s].replay, x.from = subs[s].from,
         x.status \in {"open", "unused"} => x.status = subs[s].status,
         Len(x.sent) - x.read \in 0 .. ChannelCapacity
  PROVE  Quiet
<1>1. subs' \in [Subscriptions -> SubType] /\ subs'[s] = x /\ Others(s)
  BY DEF Windows, Others
<1>2. \A t \in Subscriptions : Window(t)'
  BY <1>1 DEF Windows, Window, Others
<1>3. \A t \in Subscriptions : Same(t)
  BY <1>1 DEF Others, Same
<1> QED BY <1>1, <1>2, <1>3 DEF Quiet, Windows

\* One step of closing a subscription, and its removal
LEMMA ClosingQuiet ==
  ASSUME Windows, NEW s \in Subscriptions,
         NEW reader \in {"none", "replay", "reading", "cancel", "overflow",
                         "cancelled", "ended", "ended_with_gap"},
         NEW reason \in {"none", "cancelled", "slow_consumer", "shutdown"},
         \/ subs' = CloseStep(s)
         \/ subs' = [CloseStep(s) EXCEPT ![s].reader = reader]
         \/ subs' = Remove(s, reason)
         \/ subs' = [Remove(s, reason) EXCEPT ![s].reader = reader]
         \/ subs' = [subs EXCEPT ![s].reader = reader]
  PROVE  Quiet
<1> DEFINE step == IF subs[s].status = "removed" THEN "closed" ELSE "told"
           a == [subs[s] EXCEPT !.status = step]
           b == [a EXCEPT !.reader = reader]
           c == [subs[s] EXCEPT !.status = "removed", !.reason = reason]
           d == [c EXCEPT !.reader = reader]
           e == [subs[s] EXCEPT !.reader = reader]
<1>0. subs[s] \in SubType /\ subs \in [Subscriptions -> SubType]
  BY DEF Windows
<1>1. step \in {"closed", "told"}
  OBVIOUS
<1>2. \/ subs' = [subs EXCEPT ![s] = a] \/ subs' = [subs EXCEPT ![s] = b]
      \/ subs' = [subs EXCEPT ![s] = c] \/ subs' = [subs EXCEPT ![s] = d]
      \/ subs' = [subs EXCEPT ![s] = e]
  BY <1>0 DEF CloseStep, Remove
<1> HIDE DEF step
<1> DEFINE Alike(x) ==
             /\ x \in SubType /\ x.sent = subs[s].sent /\ x.replay = subs[s].replay
             /\ x.from = subs[s].from /\ x.read = subs[s].read
             /\ x.status \in {"open", "unused"} => x.status = subs[s].status
<1>6. Alike(a) /\ Alike(c)
  <2>1. Alike(a)
    BY <1>0, <1>1 DEF SubType
  <2>2. Alike(c)
    BY <1>0 DEF SubType
  <2> QED BY <2>1, <2>2
<1>7. \A x : Alike(x) => Alike([x EXCEPT !.reader = reader])
  BY DEF SubType
<1>8. Alike(subs[s])
  BY <1>0
<1> HIDE DEF a, c, Alike
<1>9. Alike(b) /\ Alike(d) /\ Alike(e)
  BY <1>6, <1>7, <1>8
<1>3. \A x \in {a, b, c, d, e} : Alike(x)
  BY <1>6, <1>9
<1> USE DEF Alike
<1> HIDE DEF a, b, c, d, e
<1>4. Len(subs[s].sent) - subs[s].read \in 0 .. ChannelCapacity
  BY DEF Windows, Window
<1>5. PICK x \in {a, b, c, d, e} : subs' = [subs EXCEPT ![s] = x]
  BY <1>2
<1> QED BY <1>3, <1>4, <1>5, FieldQuiet

LEMMA PutsOne ==
  ASSUME Windows, NEW s \in Subscriptions, NEW event \in Event, ~Full(s)
  PROVE  /\ subs' = SendTo(s, event) => Puts(s, event, subs[s].replay)
         /\ /\ subs[s].replay # <<>>
            /\ subs' = [SendTo(s, event) EXCEPT ![s].replay = Tail(@)]
            => Puts(s, event, Tail(subs[s].replay))
<1> DEFINE a == [subs[s] EXCEPT !.sent = Append(@, event)]
           b == [a EXCEPT !.replay = Tail(@)]
<1>0. /\ subs[s] \in SubType /\ subs \in [Subscriptions -> SubType]
      /\ Len(subs[s].sent) \in Nat /\ subs[s].read \in Nat
      /\ subs[s].sent \in Seq(Event) /\ subs[s].replay \in Seq(Event)
  BY WindowsNat DEF Windows
<1>1. Append(subs[s].sent, event) \in Seq(Event)
      /\ Len(Append(subs[s].sent, event)) = Len(subs[s].sent) + 1
  BY <1>0
<1>2. subs[s].replay # <<>> => Tail(subs[s].replay) \in Seq(Event)
  BY <1>0
<1>3. Len(subs[s].sent) + 1 - subs[s].read \in 0 .. ChannelCapacity
  BY <1>0, Room DEF Full, Windows, Window
<1>4. /\ a \in SubType /\ a.sent = Append(subs[s].sent, event) /\ a.replay = subs[s].replay
      /\ a.from = subs[s].from /\ a.status = subs[s].status /\ a.read = subs[s].read
  BY <1>0, <1>1 DEF SubType
<1>5. SendTo(s, event) = [subs EXCEPT ![s] = a]
  BY <1>0 DEF SendTo
<1> HIDE DEF a
<1>6. ASSUME subs[s].replay # <<>>
      PROVE  /\ b \in SubType /\ b.sent = a.sent /\ b.replay = Tail(subs[s].replay)
             /\ b.from = subs[s].from /\ b.status = subs[s].status /\ b.read = subs[s].read
  <2>1. Tail(a.replay) \in Seq(Event) /\ Tail(a.replay) = Tail(subs[s].replay)
    BY <1>2, <1>4, <1>6
  <2> QED BY <1>4, <2>1 DEF SubType
<1>7. ASSUME NEW x \in SubType, subs' = [subs EXCEPT ![s] = x], x.sent = a.sent,
             x.from = subs[s].from, x.status = subs[s].status, x.read = subs[s].read
      PROVE  Puts(s, event, x.replay)
  <2>1. subs' \in [Subscriptions -> SubType] /\ subs'[s] = x /\ Others(s)
    BY <1>0, <1>7 DEF Others
  <2>2. Len(x.sent) - x.read \in 0 .. ChannelCapacity
    <3>1. x.sent = Append(subs[s].sent, event) /\ x.read = subs[s].read
      BY <1>4, <1>7
    <3>2. Len(x.sent) = Len(subs[s].sent) + 1
      BY <1>1, <3>1
    <3> DEFINE n == Len(subs[s].sent)  k == subs[s].read
    <3>3. n \in Nat /\ k \in Nat /\ n + 1 - k \in 0 .. ChannelCapacity
      BY <1>0, <1>3
    <3>4. Len(x.sent) = n + 1 /\ x.read = k
      BY <3>1, <3>2
    <3> HIDE DEF n, k
    <3> QED BY <3>3, <3>4
  <2>3. \A t \in Subscriptions : Window(t)'
    BY <2>1, <2>2 DEF Windows, Window, Others
  <2> QED BY <1>4, <1>7, <2>1, <2>3 DEF Puts, Windows
<1>8. subs' = SendTo(s, event) => Puts(s, event, subs[s].replay)
  BY <1>4, <1>5, <1>7
<1>9. ASSUME subs[s].replay # <<>>, subs' = [SendTo(s, event) EXCEPT ![s].replay = Tail(@)]
      PROVE  Puts(s, event, Tail(subs[s].replay))
  <2>1. subs' = [subs EXCEPT ![s] = b]
    BY <1>0, <1>5, <1>9
  <2> HIDE DEF b
  <2>2. Puts(s, event, b.replay)
    BY <1>4, <1>6, <1>7, <1>9, <2>1
  <2> QED BY <1>6, <1>9, <2>2
<1> QED BY <1>8, <1>9

LEMMA SubsQuiet ==
  ASSUME Windows, NEW s \in Subscriptions,
         Receive(s) \/ EndOfStream(s) \/ Cancel(s) \/ CloseOwn(s)
  PROVE  Quiet
<1>1. CASE Receive(s)
  <2> DEFINE x == [subs[s] EXCEPT !.read = @ + 1]
  <2>0. /\ subs[s] \in SubType /\ Len(subs[s].sent) \in Nat /\ subs[s].read \in Nat
        /\ Len(subs[s].sent) - subs[s].read \in 0 .. ChannelCapacity
    BY WindowsNat DEF Windows, Window
  <2>1. /\ x \in SubType /\ x.sent = subs[s].sent /\ x.replay = subs[s].replay
        /\ x.from = subs[s].from /\ x.status = subs[s].status /\ x.read = subs[s].read + 1
    <3>1. subs[s].read + 1 \in Nat
      BY <2>0
    <3> QED BY <2>0, <3>1 DEF SubType
  <2>2. subs' = [subs EXCEPT ![s] = x] /\ subs[s].read < Len(subs[s].sent)
    BY <1>1 DEF Receive, Windows
  <2> HIDE DEF x
  <2>3. Len(x.sent) - x.read \in 0 .. ChannelCapacity
    <3> DEFINE n == Len(subs[s].sent)  k == subs[s].read
    <3>1. n \in Nat /\ k \in Nat /\ n - k \in 0 .. ChannelCapacity /\ k < n
      BY <2>0, <2>2
    <3>2. Len(x.sent) = n /\ x.read = k + 1
      BY <2>1
    <3> HIDE DEF n, k
    <3>3. n - (k + 1) \in 0 .. ChannelCapacity
      BY <3>1, Room
    <3> QED BY <3>2, <3>3
  <2> QED BY <2>1, <2>2, <2>3, FieldQuiet
<1>2. CASE EndOfStream(s)
  <2>1. \E reader \in {"ended", "ended_with_gap"} : subs' = [subs EXCEPT ![s].reader = reader]
    BY <1>2 DEF EndOfStream
  <2> QED BY <2>1, ClosingQuiet
<1>3. CASE Cancel(s)
  BY <1>3, ClosingQuiet DEF Cancel
<1>4. CASE CloseOwn(s)
  <2>1. \/ subs' = CloseStep(s)
        \/ \E reader \in {"cancelled", "reading"} :
             subs' = [CloseStep(s) EXCEPT ![s].reader = reader]
    <3>1. subs[s].reader \in {"cancel", "overflow"}
      BY <1>4 DEF CloseOwn
    <3>2. CloseStep(s)[s].reader = subs[s].reader /\ DOMAIN CloseStep(s) = Subscriptions
      BY DEF CloseStep, Windows, SubType
    <3> QED BY <1>4, <3>1, <3>2 DEF CloseOwn
  <2> QED BY <2>1, ClosingQuiet
<1> QED BY <1>1, <1>2, <1>3, <1>4

LEMMA ShutdownQuiet == ASSUME Windows, Shutdown \/ CloseAtShutdown,
                              shutdown.closing \subseteq Subscriptions
                       PROVE  Quiet
<1>1. CASE CloseAtShutdown
  BY <1>1, ClosingQuiet DEF CloseAtShutdown
<1>2. CASE Shutdown
  <2> DEFINE removed(s) == [subs[s] EXCEPT !.status = "removed", !.reason = "shutdown"]
  <2>1. \A s \in Subscriptions :
          /\ removed(s) \in SubType /\ removed(s).sent = subs[s].sent
          /\ removed(s).replay = subs[s].replay /\ removed(s).from = subs[s].from
          /\ removed(s).read = subs[s].read /\ removed(s).status = "removed"
    BY DEF Windows, SubType
  <2>2. subs' = [s \in Subscriptions |-> IF s \in Open THEN removed(s) ELSE subs[s]]
    BY <1>2 DEF Shutdown
  <2> HIDE DEF removed
  <2>3. subs' \in [Subscriptions -> SubType]
    BY <2>1, <2>2 DEF Windows
  <2>4. ASSUME NEW s \in Subscriptions PROVE Same(s) /\ Window(s)'
    BY <2>1, <2>2 DEF Same, Window, Windows
  <2> QED BY <2>3, <2>4 DEF Quiet, Windows
<1> QED BY <1>1, <1>2

LEMMA ReplayEffect ==
  ASSUME Windows, NEW s \in Subscriptions, Replay(s)
  PROVE  \/ Quiet
         \/ subs[s].replay # <<>> /\ Puts(s, Head(subs[s].replay), Tail(subs[s].replay))
<1>1. CASE subs' = [subs EXCEPT ![s].reader = "reading"]
  BY <1>1, ClosingQuiet
<1>2. CASE subs' = [Remove(s, "slow_consumer") EXCEPT ![s].reader = "overflow"]
  BY <1>2, ClosingQuiet
<1>3. CASE subs' = subs
  <2>1. Windows'
    BY <1>3 DEF Windows, Window
  <2> QED BY <1>3, <2>1 DEF Quiet, Same
<1>4. CASE /\ subs[s].replay # <<>> /\ ~Full(s)
           /\ subs' = [SendTo(s, Head(subs[s].replay)) EXCEPT ![s].replay = Tail(@)]
  <2>1. Head(subs[s].replay) \in Event
    BY <1>4, WindowsNat
  <2> QED BY <1>4, <2>1, PutsOne
<1> QED BY <1>1, <1>2, <1>3, <1>4 DEF Replay

\* What a step does to a call of Publish
PublishIs(p, pc, event, targets, slow) ==
  /\ publishers' \in [Publishers -> PublisherType]
  /\ \A q \in Publishers : q # p => publishers'[q] = publishers[q]
  /\ publishers'[p].pc = pc /\ publishers'[p].event = event
  /\ publishers'[p].targets = targets /\ publishers'[p].slow = slow

PublishTypes == publishers \in [Publishers -> PublisherType]

LEMMA PublishMoves ==
  ASSUME PublishTypes, NEW p \in Publishers
  PROVE  /\ Resume(p) => PublishIs(p, "send", publishers[p].event, publishers[p].targets, NoSubscription)
         /\ \A targets \in SUBSET Subscriptions :
              publishers' = [publishers EXCEPT ![p].targets = targets]
              => PublishIs(p, publishers[p].pc, publishers[p].event, targets, publishers[p].slow)
         /\ publishers' = [publishers EXCEPT ![p].pc = "close"]
              => PublishIs(p, "close", publishers[p].event, publishers[p].targets, publishers[p].slow)
         /\ \A targets \in SUBSET Subscriptions, s \in Subscriptions :
              publishers' = [publishers EXCEPT ![p] = [@ EXCEPT !.pc = "drop", !.targets = targets,
                                                                !.slow = s]]
              => PublishIs(p, "drop", publishers[p].event, targets, s)
<1> DEFINE r == publishers[p]
<1>0. r \in PublisherType /\ publishers \in [Publishers -> PublisherType]
  BY DEF PublishTypes
<1>1. ASSUME NEW x \in PublisherType, publishers' = [publishers EXCEPT ![p] = x]
      PROVE  PublishIs(p, x.pc, x.event, x.targets, x.slow)
  BY <1>0, <1>1 DEF PublishIs
<1>2. ASSUME Resume(p)
      PROVE  PublishIs(p, "send", r.event, r.targets, NoSubscription)
  <2> DEFINE x == [[r EXCEPT !.pc = "send"] EXCEPT !.slow = NoSubscription]
  <2>1. x \in PublisherType /\ x.pc = "send" /\ x.event = r.event /\ x.targets = r.targets
        /\ x.slow = NoSubscription
    BY <1>0 DEF PublisherType
  <2>2. publishers' = [publishers EXCEPT ![p] = x]
    BY <1>0, <1>2 DEF Resume
  <2> HIDE DEF x
  <2>3. PublishIs(p, x.pc, x.event, x.targets, x.slow)
    BY <1>1, <2>1, <2>2
  <2> QED BY <2>1, <2>3
<1>3. ASSUME NEW targets \in SUBSET Subscriptions, publishers' = [publishers EXCEPT ![p].targets = targets]
      PROVE  PublishIs(p, r.pc, r.event, targets, r.slow)
  <2> DEFINE x == [r EXCEPT !.targets = targets]
  <2>1. x \in PublisherType /\ x.pc = r.pc /\ x.event = r.event /\ x.targets = targets /\ x.slow = r.slow
    BY <1>0 DEF PublisherType
  <2>2. publishers' = [publishers EXCEPT ![p] = x]
    BY <1>0, <1>3
  <2> HIDE DEF x
  <2>3. PublishIs(p, x.pc, x.event, x.targets, x.slow)
    BY <1>1, <2>1, <2>2
  <2> QED BY <2>1, <2>3
<1>4. ASSUME publishers' = [publishers EXCEPT ![p].pc = "close"]
      PROVE  PublishIs(p, "close", r.event, r.targets, r.slow)
  <2> DEFINE x == [r EXCEPT !.pc = "close"]
  <2>1. x \in PublisherType /\ x.pc = "close" /\ x.event = r.event /\ x.targets = r.targets
        /\ x.slow = r.slow
    BY <1>0 DEF PublisherType
  <2>2. publishers' = [publishers EXCEPT ![p] = x]
    BY <1>0, <1>4
  <2> HIDE DEF x
  <2>3. PublishIs(p, x.pc, x.event, x.targets, x.slow)
    BY <1>1, <2>1, <2>2
  <2> QED BY <2>1, <2>3
<1>5. ASSUME NEW targets \in SUBSET Subscriptions, NEW s \in Subscriptions,
             publishers' = [publishers EXCEPT ![p] = [@ EXCEPT !.pc = "drop", !.targets = targets,
                                                               !.slow = s]]
      PROVE  PublishIs(p, "drop", r.event, targets, s)
  <2> DEFINE x == [r EXCEPT !.pc = "drop", !.targets = targets, !.slow = s]
  <2>1. x \in PublisherType /\ x.pc = "drop" /\ x.event = r.event /\ x.targets = targets /\ x.slow = s
    BY <1>0 DEF PublisherType
  <2>2. publishers' = [publishers EXCEPT ![p] = x]
    BY <1>0, <1>5
  <2> HIDE DEF x
  <2>3. PublishIs(p, x.pc, x.event, x.targets, x.slow)
    BY <1>1, <2>1, <2>2
  <2> QED BY <2>1, <2>3
<1> QED BY <1>2, <1>3, <1>4, <1>5

-----------------------------------------------------------------------------
(* The effects of the steps *)

\* A call of Publish has an event to send to a subscription, or is dropping it
Carries(p, s) == s \in publishers[p].targets \/ publishers[p].slow = s

SlowKnown(p) == IF publishers[p].pc \in {"idle", "send"} THEN publishers[p].slow = NoSubscription
                                                        ELSE publishers[p].slow \in Subscriptions

\* No two calls have the same event, and none has one that is not published
CallsInv ==
  /\ PublishTypes
  /\ \A p \in Publishers :
       /\ SlowKnown(p)
       /\ publishers[p].pc = "idle" => publishers[p].targets = {}
       /\ publishers[p].pc # "idle" => publishers[p].event \in 1 .. Len(log)
       /\ \A q \in Publishers :
            /\ p # q /\ publishers[p].pc # "idle" /\ publishers[q].pc # "idle"
            => publishers[p].event # publishers[q].event
       /\ \A s \in Subscriptions : Carries(p, s) => subs[s].status # "unused"

BusShape ==
  /\ ring.items \in [Slots -> 0 .. MaxEvents] /\ Len(log) <= MaxEvents
  /\ Windows
  /\ shutdown \in [begun : BOOLEAN, closing : SUBSET Subscriptions]
  /\ panicked \in BOOLEAN

\* An event is published
Numbers(p) ==
  /\ publishers[p].pc = "idle" /\ Len(log') = Len(log) + 1 /\ Len(log') <= MaxEvents
  /\ PublishIs(p, "send", Len(log) + 1, Open, NoSubscription)
  /\ UNCHANGED subs

\* It is sent to one of the subscriptions
Sends(p, s) ==
  /\ publishers[p].pc = "send" /\ s \in publishers[p].targets /\ UNCHANGED log
  /\ PublishIs(p, "send", publishers[p].event, publishers[p].targets \ {s}, publishers[p].slow)
  /\ Puts(s, publishers[p].event, subs[s].replay)

\* A subscription that is too slow is dropped
Drops(p) ==
  /\ publishers[p].pc # "idle" /\ publishers'[p].pc # "idle" /\ UNCHANGED log
  /\ publishers'[p].event = publishers[p].event
  /\ PublishTypes' /\ \A q \in Publishers : q # p => publishers'[q] = publishers[q]
  /\ Quiet /\ SlowKnown(p)'
  /\ \A s \in Subscriptions : /\ Carries(p, s)' => Carries(p, s)
                              /\ subs'[s].status = "open" /\ Carries(p, s) => Carries(p, s)'

Finishes(p) ==
  /\ publishers[p].pc = "send" /\ publishers[p].targets = {} /\ UNCHANGED log
  /\ PublishIs(p, "idle", 0, {}, NoSubscription)
  /\ UNCHANGED subs

Subscribes(s, event) ==
  /\ subs[s].status = "unused" /\ Windows' /\ Others(s) /\ UNCHANGED <<log, publishers>>
  /\ subs'[s].sent = <<>> /\ subs'[s].replay = After(ring, event)
  /\ subs'[s].from = IF event >= Len(log) THEN Len(log)
                     ELSE IF event + 1 < OldestSequence(ring) THEN OldestSequence(ring) - 1
                     ELSE event
  /\ subs'[s].status = "open"

Replays(s) ==
  /\ subs[s].replay # <<>> /\ UNCHANGED <<log, publishers>>
  /\ Puts(s, Head(subs[s].replay), Tail(subs[s].replay))

Effect ==
  \/ Quiet /\ UNCHANGED <<log, publishers>>
  \/ \E p \in Publishers : Numbers(p) \/ Drops(p) \/ Finishes(p)
  \/ \E p \in Publishers, s \in Subscriptions : Sends(p, s)
  \/ \E s \in Subscriptions : Replays(s)
  \/ \E s \in Subscriptions, event \in 0 .. MaxEvents : Subscribes(s, event)

BusTypes == GapInv /\ BusShape /\ CallsInv

LEMMA NotQuietOnly == ASSUME Windows, UNCHANGED subs PROVE Quiet /\ Windows'
  BY DEF Windows, Window, Quiet, Same

LEMMA PublishEffect ==
  ASSUME BusTypes, NEW p \in Publishers, NEW key \in Keys, Publish(p, key)
  PROVE  Effect
<1>0. /\ Windows /\ log \in Seq(Keys) /\ publishers \in [Publishers -> PublisherType]
      /\ Len(log) \in Nat /\ MaxEvents \in Nat
  BY BusAssumption DEF BusTypes, BusShape, CallsInv, PublishTypes, GapInv, DedupeInv
<1>1. UNCHANGED subs
  BY DEF Publish
<1>2. CASE UNCHANGED <<log, publishers>>
  BY <1>0, <1>1, <1>2, NotQuietOnly DEF Effect
<1>3. ASSUME Len(log) + 1 <= MaxEvents, log' = Append(log, key),
             publishers' = [publishers EXCEPT ![p] =
               [pc |-> "send", event |-> Len(log) + 1, targets |-> Open, slow |-> NoSubscription]]
      PROVE  Effect
  <2> DEFINE x == [pc |-> "send", event |-> Len(log) + 1, targets |-> Open, slow |-> NoSubscription]
  <2>1. x \in PublisherType
    <3>1. Len(log) + 1 \in 0 .. MaxEvents /\ Open \in SUBSET Subscriptions
      BY <1>0, <1>3 DEF Open
    <3> QED BY <3>1 DEF PublisherType
  <2>2. publishers' \in [Publishers -> PublisherType] /\ publishers'[p] = x
        /\ \A q \in Publishers : q # p => publishers'[q] = publishers[q]
    BY <1>0, <1>3, <2>1
  <2>3. PublishIs(p, "send", Len(log) + 1, Open, NoSubscription)
    BY <2>2 DEF PublishIs
  <2>4. Len(log') = Len(log) + 1 /\ Len(log') <= MaxEvents
    BY <1>0, <1>3
  <2>5. publishers[p].pc = "idle"
    BY DEF Publish
  <2> QED BY <1>1, <2>3, <2>4, <2>5 DEF Effect, Numbers
<1> QED BY <1>2, <1>3 DEF Publish

LEMMA SendEffect ==
  ASSUME BusTypes, NEW p \in Publishers, NEW s \in Subscriptions, Send(p, s)
  PROVE  Effect
<1> DEFINE targets == publishers[p].targets \ {s}
<1>0. /\ Windows /\ PublishTypes /\ publishers[p] \in PublisherType
      /\ publishers[p].pc = "send" /\ s \in publishers[p].targets /\ UNCHANGED log
      /\ targets \in SUBSET Subscriptions /\ publishers[p].event \in 1 .. Len(log)
      /\ publishers[p].slow = NoSubscription
  BY DEF Send, BusTypes, BusShape, CallsInv, PublishTypes, PublisherType, SlowKnown
<1>1. publishers[p].event \in Event
  BY <1>0, BusAssumption DEF BusTypes, BusShape, GapInv, RingInv, Event
<1>2. CASE UNCHANGED <<subs, publishers>>
  BY <1>0, <1>2, NotQuietOnly DEF Effect
<1>3. CASE /\ ~Full(s) /\ subs' = SendTo(s, publishers[p].event)
           /\ publishers' = [publishers EXCEPT ![p].targets = targets]
  <2>1. Puts(s, publishers[p].event, subs[s].replay)
    BY <1>0, <1>1, <1>3, PutsOne
  <2>2. PublishIs(p, "send", publishers[p].event, targets, publishers[p].slow)
    BY <1>0, <1>3, PublishMoves
  <2>3. Sends(p, s)
    BY <1>0, <2>1, <2>2 DEF Sends
  <2> QED BY <2>3 DEF Effect
<1>4. CASE /\ UNCHANGED subs
           /\ publishers' = [publishers EXCEPT ![p] = [@ EXCEPT !.pc = "drop", !.targets = targets,
                                                                !.slow = s]]
  <2>1. PublishIs(p, "drop", publishers[p].event, targets, s)
    BY <1>0, <1>4, PublishMoves
  <2>2. Quiet
    BY <1>0, <1>4, NotQuietOnly
  <2>3. \A t \in Subscriptions : Carries(p, t)' <=> Carries(p, t)
    BY <1>0, <2>1, BusAssumption DEF PublishIs, Carries
  <2>4. Drops(p)
    BY <1>0, <2>1, <2>2, <2>3 DEF Drops, PublishIs, PublishTypes, SlowKnown
  <2> QED BY <2>4 DEF Effect
<1> QED BY <1>2, <1>3, <1>4 DEF Send

LEMMA ResumeEffect ==
  ASSUME BusTypes, NEW p \in Publishers, publishers[p].pc \in {"drop", "close"},
         Resume(p), Quiet, UNCHANGED log, subs'[publishers[p].slow].status # "open"
  PROVE  Effect
<1>0. PublishTypes /\ publishers[p].slow \in Subscriptions
  BY DEF BusTypes, CallsInv, SlowKnown
<1>1. PublishIs(p, "send", publishers[p].event, publishers[p].targets, NoSubscription)
  BY <1>0, PublishMoves
<1>2. \A s \in Subscriptions : /\ Carries(p, s)' => Carries(p, s)
                               /\ subs'[s].status = "open" /\ Carries(p, s) => Carries(p, s)'
  BY <1>1, BusAssumption DEF PublishIs, Carries
<1>3. Drops(p)
  BY <1>1, <1>2 DEF Drops, PublishIs, PublishTypes, SlowKnown
<1> QED BY <1>3 DEF Effect

LEMMA DropEffect ==
  ASSUME BusTypes, NEW p \in Publishers, Drop(p) \/ CloseSlow(p) \/ Published(p)
  PROVE  Effect
<1> DEFINE s == publishers[p].slow
<1>0. Windows /\ PublishTypes /\ SlowKnown(p)
  BY DEF BusTypes, BusShape, CallsInv
<1>1. CASE Drop(p)
  <2>1. UNCHANGED log /\ publishers[p].pc = "drop" /\ s \in Subscriptions
    BY <1>0, <1>1 DEF Drop, SlowKnown
  <2>2. CASE subs' = Remove(s, "slow_consumer") /\ publishers' = [publishers EXCEPT ![p].pc = "close"]
    <3>1. Quiet
      BY <1>0, <2>1, <2>2, ClosingQuiet
    <3>2. PublishIs(p, "close", publishers[p].event, publishers[p].targets, s)
      BY <1>0, <2>2, PublishMoves
    <3>3. Drops(p)
      BY <2>1, <3>1, <3>2 DEF Drops, PublishIs, PublishTypes, SlowKnown, Carries
    <3> QED BY <3>3 DEF Effect
  <2>3. CASE subs[s].status # "open" /\ Resume(p) /\ UNCHANGED subs
    BY <1>0, <2>1, <2>3, NotQuietOnly, ResumeEffect
  <2> QED BY <1>1, <2>2, <2>3 DEF Drop
<1>2. CASE CloseSlow(p)
  <2>1. UNCHANGED log /\ publishers[p].pc = "close" /\ s \in Subscriptions /\ subs' = CloseStep(s)
    BY <1>0, <1>2 DEF CloseSlow, SlowKnown
  <2>2. Quiet
    BY <1>0, <2>1, ClosingQuiet
  <2>3. CASE UNCHANGED publishers
    BY <2>1, <2>2, <2>3 DEF Effect
  <2>4. CASE subs'[s].status = "told" /\ Resume(p)
    BY <2>1, <2>2, <2>4, ResumeEffect
  <2> QED BY <1>2, <2>3, <2>4 DEF CloseSlow
<1>3. CASE Published(p)
  <2>1. /\ publishers' = [publishers EXCEPT ![p] = IdlePublish] /\ UNCHANGED <<subs, log>>
        /\ publishers[p].pc = "send" /\ publishers[p].targets = {}
    BY <1>3 DEF Published
  <2>2. IdlePublish \in PublisherType
    BY BusAssumption DEF IdlePublish, PublisherType
  <2>3. PublishIs(p, "idle", 0, {}, NoSubscription)
    BY <1>0, <2>1, <2>2 DEF PublishIs, PublishTypes, IdlePublish
  <2> QED BY <2>1, <2>3 DEF Effect, Finishes
<1> QED BY <1>1, <1>2, <1>3

LEMMA SubscribeEffect ==
  ASSUME BusTypes, NEW s \in Subscriptions, NEW event \in 0 .. MaxEvents, Subscribe(s, event)
  PROVE  Effect
<1> DEFINE x == subs'[s]
           from == IF event >= Len(log) THEN Len(log)
                   ELSE IF event + 1 < OldestSequence(ring) THEN OldestSequence(ring) - 1
                   ELSE event
           new == [Unused EXCEPT !.status = "open", !.reader = "replay", !.after = event,
                                 !.gap = HasGap(event), !.replay = Replayed(event), !.from = from]
<1>0. Windows /\ subs \in [Subscriptions -> SubType] /\ RingInv /\ Len(log) <= MaxEvents
      /\ Len(log) \in Nat /\ MaxEvents \in Nat /\ event \in Nat
  <2>1. Windows /\ RingInv /\ Len(log) <= MaxEvents
    BY DEF BusTypes, BusShape, GapInv
  <2>2. subs \in [Subscriptions -> SubType] /\ Len(log) \in Nat
    BY <2>1 DEF Windows, RingInv
  <2> QED BY <2>1, <2>2, BusAssumption
<1>1. subs' = [subs EXCEPT ![s] = new] /\ UNCHANGED <<log, publishers>> /\ subs[s].status = "unused"
  BY DEF Subscribe
<1>2. from \in 0 .. MaxEvents
  <2>1. ring.count > 0 => OldestSequence(ring) \in 1 .. Len(log)
    BY <1>0, OldestRetained
  <2>2. ~(ring.count > 0) => ring.count = 0
    BY DEF BusTypes, GapInv, RingInv
  <2>3. ring.count = 0 => Len(log) = 0
    BY <1>0, OldestRetained
  <2> QED BY <1>0, <2>1, <2>2, <2>3
<1>3. HasGap(event) \in BOOLEAN
  BY DEF HasGap
<1>4. Replayed(event) \in Seq(Event) /\ Replayed(event) = After(ring, event)
  <2>1. After(ring, event) \in Seq(1 .. Len(log))
    BY <1>0, AfterEvent
  <2>2. 1 .. Len(log) \subseteq Event
    BY <1>0 DEF Event
  <2> QED BY <2>1, <2>2 DEF Replayed
<1> HIDE DEF from
<1>5. /\ new \in SubType /\ new.sent = <<>> /\ new.read = 0 /\ new.replay = Replayed(event)
      /\ new.from = from /\ new.status = "open"
  <2>1. new = [status |-> "open", reason |-> "none", reader |-> "replay", after |-> event,
               gap |-> HasGap(event), from |-> from, replay |-> Replayed(event), sent |-> <<>>,
               read |-> 0]
    <3> DEFINE gap == HasGap(event)  replay == Replayed(event)
    <3> HIDE DEF gap, replay, from
    <3>1. new = [Unused EXCEPT !.status = "open", !.reader = "replay", !.after = event,
                               !.gap = gap, !.replay = replay, !.from = from]
      BY DEF gap, replay
    <3> HIDE DEF new
    <3>2. new = [status |-> "open", reason |-> "none", reader |-> "replay", after |-> event,
                 gap |-> gap, from |-> from, replay |-> replay, sent |-> <<>>, read |-> 0]
      BY <3>1 DEF Unused
    <3> QED BY <3>2 DEF gap, replay
  <2> HIDE DEF new
  <2>2. <<>> \in Seq(Event) /\ 0 \in Nat /\ event \in 0 .. MaxEvents
    OBVIOUS
  <2> QED BY <1>2, <1>3, <1>4, <2>1, <2>2 DEF SubType
<1> HIDE DEF new
<1>6. subs' \in [Subscriptions -> SubType] /\ Others(s) /\ subs'[s] = new
  BY <1>0, <1>1, <1>5 DEF Others
<1>7. \A t \in Subscriptions : Window(t)'
  <2>1. Len(new.sent) - new.read \in 0 .. ChannelCapacity
    BY <1>5, Room
  <2> QED BY <1>0, <1>6, <2>1 DEF Windows, Window, Others
<1>8. Windows'
  BY <1>6, <1>7 DEF Windows
<1> QED BY <1>1, <1>4, <1>5, <1>6, <1>8 DEF Effect, Subscribes, from

LEMMA StepEffect == ASSUME BusTypes, Next PROVE Effect
<1>0. Windows /\ shutdown.closing \subseteq Subscriptions
  BY DEF BusTypes, BusShape
<1>1. ASSUME NEW p \in Publishers, PublishStep(p) \/ \E key \in Keys : Publish(p, key)
      PROVE  Effect
  BY <1>1, PublishEffect, SendEffect, DropEffect DEF PublishStep
<1>2. ASSUME NEW s \in Subscriptions, Replay(s) PROVE Effect
  <2>1. UNCHANGED <<log, publishers>>
    BY <1>2 DEF Replay
  <2>2. CASE Quiet
    BY <2>1, <2>2 DEF Effect
  <2>3. CASE subs[s].replay # <<>> /\ Puts(s, Head(subs[s].replay), Tail(subs[s].replay))
    BY <2>1, <2>3 DEF Effect, Replays
  <2> QED BY <1>0, <1>2, <2>2, <2>3, ReplayEffect
<1>3. ASSUME NEW s \in Subscriptions, Receive(s) \/ EndOfStream(s) \/ CloseOwn(s) \/ Cancel(s)
      PROVE  Effect
  <2>1. UNCHANGED <<log, publishers>>
    BY <1>3 DEF Receive, EndOfStream, CloseOwn, Cancel
  <2>2. Quiet
    BY <1>0, <1>3, SubsQuiet
  <2> QED BY <2>1, <2>2 DEF Effect
<1>4. ASSUME NEW s \in Subscriptions, NEW event \in 0 .. MaxEvents, Subscribe(s, event)
      PROVE  Effect
  BY <1>4, SubscribeEffect
<1>5. CASE Shutdown \/ CloseAtShutdown
  <2>1. UNCHANGED <<log, publishers>>
    BY <1>5 DEF Shutdown, CloseAtShutdown
  <2>2. Quiet
    BY <1>0, <1>5, ShutdownQuiet
  <2> QED BY <2>1, <2>2 DEF Effect
<1> QED BY <1>1, <1>2, <1>3, <1>4, <1>5 DEF Next, ReadStep

-----------------------------------------------------------------------------
(* The calls of Publish, and the types *)

LEMMA InitBus == Init => BusTypes
<1> SUFFICES ASSUME Init PROVE BusTypes
  OBVIOUS
<1>1. GapInv
  BY GapInit
<1>2. Windows
  <2>1. Unused \in SubType /\ Len(Unused.sent) - Unused.read = 0
    BY BusAssumption DEF Unused, SubType
  <2>2. subs \in [Subscriptions -> SubType] /\ \A s \in Subscriptions : subs[s] = Unused
    BY <2>1 DEF Init
  <2> QED BY <2>1, <2>2, Room DEF Windows, Window
<1>3. BusShape
  <2>1. ring.items \in [Slots -> 0 .. MaxEvents] /\ Len(log) = 0
    BY BusAssumption DEF Init
  <2>2. shutdown \in [begun : BOOLEAN, closing : SUBSET Subscriptions] /\ panicked \in BOOLEAN
    BY DEF Init
  <2> QED BY <1>2, <2>1, <2>2, BusAssumption DEF BusShape
<1>4. CallsInv
  <2>1. IdlePublish \in PublisherType
    BY BusAssumption DEF IdlePublish, PublisherType
  <2>2. PublishTypes /\ \A p \in Publishers : publishers[p] = IdlePublish
    BY <2>1 DEF Init, PublishTypes
  <2> QED BY <2>2, BusAssumption DEF CallsInv, SlowKnown, IdlePublish, Carries
<1> QED BY <1>1, <1>3, <1>4 DEF BusTypes

\* What CallsInv says of one call, in the next state
CallNext(p) ==
  /\ SlowKnown(p)'
  /\ publishers'[p].pc = "idle" => publishers'[p].targets = {}
  /\ publishers'[p].pc # "idle" => publishers'[p].event \in 1 .. Len(log')
  /\ \A s \in Subscriptions : Carries(p, s)' => subs'[s].status # "unused"

\* A call that the step leaves alone, and one that goes on with its event
LEMMA CallKept ==
  ASSUME CallsInv, NEW p \in Publishers, publishers'[p] = publishers[p],
         Len(log) \in Nat, Len(log') = Len(log) \/ Len(log') = Len(log) + 1,
         \A s \in Subscriptions : subs'[s].status = "unused" => subs[s].status = "unused"
  PROVE  CallNext(p)
  BY DEF CallsInv, CallNext, SlowKnown, Carries

LEMMA CallsNext ==
  ASSUME CallsInv, PublishTypes', NEW p \in Publishers, CallNext(p),
         \A q \in Publishers : q # p => publishers'[q] = publishers[q] /\ CallNext(q),
         \/ publishers'[p].pc = "idle"
         \/ publishers[p].pc # "idle" /\ publishers'[p].event = publishers[p].event
         \/ publishers'[p].event = Len(log) + 1 /\ Len(log) \in Nat
  PROVE  CallsInv'
<1>1. \A q \in Publishers : CallNext(q)
  OBVIOUS
<1>2. ASSUME NEW q \in Publishers, NEW r \in Publishers, q # r,
             publishers'[q].pc # "idle", publishers'[r].pc # "idle"
      PROVE  publishers'[q].event # publishers'[r].event
  <2>1. ASSUME NEW t \in Publishers, t # p, publishers'[t].pc # "idle", publishers'[p].pc # "idle"
        PROVE  publishers'[t].event # publishers'[p].event
    <3>1. publishers'[t] = publishers[t] /\ publishers[t].event \in 1 .. Len(log)
      BY <2>1 DEF CallsInv
    <3>2. CASE publishers[p].pc # "idle" /\ publishers'[p].event = publishers[p].event
      BY <2>1, <3>1, <3>2 DEF CallsInv
    <3>3. CASE publishers'[p].event = Len(log) + 1 /\ Len(log) \in Nat
      BY <3>1, <3>3
    <3> QED BY <2>1, <3>2, <3>3
  <2>2. CASE q = p \/ r = p
    BY <1>2, <2>1, <2>2
  <2>3. CASE q # p /\ r # p
    BY <1>2, <2>3 DEF CallsInv
  <2> QED BY <2>2, <2>3
<1> QED BY <1>1, <1>2 DEF CallsInv, CallNext

LEMMA EffectCalls == ASSUME BusTypes, Effect PROVE CallsInv' /\ Windows' /\ Len(log') <= MaxEvents
<1>0. CallsInv /\ Windows /\ PublishTypes /\ Len(log) \in Nat /\ Len(log) <= MaxEvents
  BY DEF BusTypes, BusShape, CallsInv, GapInv, RingInv
<1>1. CASE Quiet /\ UNCHANGED <<log, publishers>>
  <2>1. \A s \in Subscriptions : subs'[s].status = "unused" => subs[s].status = "unused"
    BY <1>1 DEF Quiet, Same
  <2>2. \A p \in Publishers : CallNext(p)
    BY <1>0, <1>1, <2>1, CallKept
  <2>3. CallsInv'
    BY <1>0, <1>1, <2>2 DEF CallsInv, CallNext, PublishTypes
  <2> QED BY <1>0, <1>1, <2>3 DEF Quiet
<1>2. ASSUME NEW p \in Publishers, Numbers(p)
      PROVE  CallsInv' /\ Windows' /\ Len(log') <= MaxEvents
  <2>1. /\ PublishTypes' /\ UNCHANGED subs /\ Len(log') = Len(log) + 1 /\ Len(log') <= MaxEvents
        /\ publishers'[p].pc = "send" /\ publishers'[p].event = Len(log) + 1
        /\ publishers'[p].targets = Open /\ publishers'[p].slow = NoSubscription
        /\ \A q \in Publishers : q # p => publishers'[q] = publishers[q]
    BY <1>2 DEF Numbers, PublishIs, PublishTypes
  <2>2. \A q \in Publishers : q # p => CallNext(q)
    BY <1>0, <2>1, CallKept
  <2>3. CallNext(p)
    <3>1. Len(log) + 1 \in 1 .. Len(log')
      BY <1>0, <2>1
    <3>2. \A s \in Subscriptions : Carries(p, s)' => subs'[s].status # "unused"
      BY <2>1, BusAssumption DEF Carries, Open
    <3> QED BY <2>1, <3>1, <3>2 DEF CallNext, SlowKnown
  <2>4. CallsInv'
    BY <1>0, <2>1, <2>2, <2>3, CallsNext
  <2> QED BY <1>0, <2>1, <2>4, NotQuietOnly
<1>3. ASSUME NEW p \in Publishers, Drops(p)
      PROVE  CallsInv' /\ Windows' /\ Len(log') <= MaxEvents
  <2>1. /\ PublishTypes' /\ UNCHANGED log /\ publishers'[p].event = publishers[p].event
        /\ publishers[p].pc # "idle" /\ publishers'[p].pc # "idle" /\ SlowKnown(p)'
        /\ \A q \in Publishers : q # p => publishers'[q] = publishers[q]
        /\ \A s \in Subscriptions : Carries(p, s)' => Carries(p, s)
        /\ \A s \in Subscriptions : subs'[s].status = "unused" => subs[s].status = "unused"
    BY <1>3 DEF Drops, Quiet, Same
  <2>2. \A q \in Publishers : q # p => CallNext(q)
    BY <1>0, <2>1, CallKept
  <2>3. CallNext(p)
    BY <1>0, <2>1 DEF CallNext, CallsInv
  <2>4. CallsInv'
    BY <1>0, <2>1, <2>2, <2>3, CallsNext
  <2> QED BY <1>0, <1>3, <2>1, <2>4 DEF Drops, Quiet
<1>4. ASSUME NEW p \in Publishers, Finishes(p)
      PROVE  CallsInv' /\ Windows' /\ Len(log') <= MaxEvents
  <2>1. /\ PublishTypes' /\ UNCHANGED <<subs, log>> /\ publishers'[p].pc = "idle"
        /\ publishers'[p].targets = {} /\ publishers'[p].slow = NoSubscription
        /\ \A q \in Publishers : q # p => publishers'[q] = publishers[q]
    BY <1>4 DEF Finishes, PublishIs, PublishTypes
  <2>2. \A q \in Publishers : q # p => CallNext(q)
    BY <1>0, <2>1, CallKept
  <2>3. CallNext(p)
    BY <2>1, BusAssumption DEF CallNext, SlowKnown, Carries
  <2>4. CallsInv'
    BY <1>0, <2>1, <2>2, <2>3, CallsNext
  <2> QED BY <1>0, <2>1, <2>4, NotQuietOnly
<1>5. ASSUME NEW p \in Publishers, NEW s \in Subscriptions, Sends(p, s)
      PROVE  CallsInv' /\ Windows' /\ Len(log') <= MaxEvents
  <2>1. /\ PublishTypes' /\ UNCHANGED log /\ publishers'[p].pc = "send" /\ publishers[p].pc = "send"
        /\ publishers'[p].event = publishers[p].event /\ publishers'[p].slow = publishers[p].slow
        /\ publishers'[p].targets = publishers[p].targets \ {s}
        /\ \A q \in Publishers : q # p => publishers'[q] = publishers[q]
    BY <1>5 DEF Sends, PublishIs, PublishTypes
  <2>2. Windows' /\ \A t \in Subscriptions : subs'[t].status = subs[t].status
    BY <1>5 DEF Sends, Puts, Others
  <2>3. \A q \in Publishers : q # p => CallNext(q)
    BY <1>0, <2>1, <2>2, CallKept
  <2>4. CallNext(p)
    BY <1>0, <2>1, <2>2 DEF CallNext, SlowKnown, Carries, CallsInv
  <2>5. CallsInv'
    BY <1>0, <2>1, <2>3, <2>4, CallsNext
  <2> QED BY <1>0, <2>1, <2>2, <2>5
<1>6. ASSUME NEW s \in Subscriptions,
             Replays(s) \/ \E event \in 0 .. MaxEvents : Subscribes(s, event)
      PROVE  CallsInv' /\ Windows' /\ Len(log') <= MaxEvents
  <2>1. /\ UNCHANGED <<log, publishers>> /\ Windows'
        /\ \A t \in Subscriptions : subs'[t].status = "unused" => subs[t].status = "unused"
    BY <1>6 DEF Replays, Subscribes, Puts, Others
  <2>2. \A p \in Publishers : CallNext(p)
    BY <1>0, <2>1, CallKept
  <2>3. CallsInv'
    BY <1>0, <2>1, <2>2 DEF CallsInv, CallNext, PublishTypes
  <2> QED BY <1>0, <2>1, <2>3
<1> QED BY <1>1, <1>2, <1>3, <1>4, <1>5, <1>6 DEF Effect

LEMMA ShapeStep ==
  ASSUME BusTypes, [Next]_vars
  PROVE  /\ ring'.items \in [Slots -> 0 .. MaxEvents]
         /\ shutdown' \in [begun : BOOLEAN, closing : SUBSET Subscriptions] /\ panicked' \in BOOLEAN
<1>0. BusShape /\ RingInv
  BY DEF BusTypes, GapInv
<1>1. ASSUME NEW p \in Publishers, NEW key \in Keys, Publish(p, key)
      PROVE  UNCHANGED <<shutdown, panicked>> /\ ring'.items \in [Slots -> 0 .. MaxEvents]
  <2>1. UNCHANGED <<shutdown, panicked>>
    BY <1>1 DEF Publish
  <2>2. CASE UNCHANGED ring
    BY <1>0, <2>1, <2>2 DEF BusShape
  <2>3. CASE Len(log) + 1 <= MaxEvents /\ ring' = Push(ring, Len(log) + 1)
    <3>1. \E i : ring'.items = [ring.items EXCEPT ![i] = Len(log) + 1]
      BY <1>0, <2>3 DEF Push, RingInv
    <3>2. Len(log) + 1 \in 0 .. MaxEvents
      BY <1>0, <2>3, BusAssumption DEF RingInv
    <3>3. \A i : [ring.items EXCEPT ![i] = Len(log) + 1] \in [Slots -> 0 .. MaxEvents]
      BY <1>0, <3>2 DEF BusShape
    <3> QED BY <2>1, <3>1, <3>3
  <2>4. UNCHANGED ring \/ (Len(log) + 1 <= MaxEvents /\ ring' = Push(ring, Len(log) + 1))
    BY <1>1 DEF Publish
  <2> QED BY <2>1, <2>2, <2>3, <2>4
<1>2. ASSUME NEW p \in Publishers, PublishStep(p) PROVE UNCHANGED <<ring, shutdown>> /\ panicked' \in BOOLEAN
  BY <1>0, <1>2 DEF PublishStep, Send, Drop, CloseSlow, Published, BusShape
<1>3. ASSUME NEW s \in Subscriptions,
             ReadStep(s) \/ Cancel(s) \/ \E event \in 0 .. MaxEvents : Subscribe(s, event)
      PROVE  UNCHANGED <<ring, shutdown>> /\ panicked' \in BOOLEAN
  BY <1>0, <1>3 DEF ReadStep, Replay, Receive, EndOfStream, CloseOwn, Cancel, Subscribe, BusShape
<1>4. CASE Shutdown
  BY <1>0, <1>4 DEF Shutdown, BusShape, Open
<1>5. CASE CloseAtShutdown
  <2>1. PICK s \in shutdown.closing :
          shutdown' = [shutdown EXCEPT !.closing = @ \ {s}] \/ shutdown' = shutdown
    BY <1>5 DEF CloseAtShutdown
  <2>2. UNCHANGED <<ring, panicked>>
    BY <1>5 DEF CloseAtShutdown
  <2> QED BY <1>0, <2>1, <2>2 DEF BusShape
<1>6. CASE UNCHANGED vars
  BY <1>0, <1>6 DEF BusShape, vars
<1> QED BY <1>0, <1>1, <1>2, <1>3, <1>4, <1>5, <1>6 DEF Next, BusShape

LEMMA BusStep == BusTypes /\ [Next]_vars => BusTypes'
<1> SUFFICES ASSUME BusTypes, [Next]_vars PROVE BusTypes'
  OBVIOUS
<1>1. GapInv'
  BY GapStep DEF BusTypes
<1>2. CallsInv' /\ Windows' /\ Len(log') <= MaxEvents
  <2>1. CASE Next
    BY <2>1, StepEffect, EffectCalls
  <2>2. CASE UNCHANGED vars
    <3>1. Effect
      BY <2>2, NotQuietOnly DEF vars, Effect, BusTypes, BusShape
    <3> QED BY <3>1, EffectCalls
  <2> QED BY <2>1, <2>2
<1> QED BY <1>1, <1>2, ShapeStep DEF BusTypes, BusShape

LEMMA BusTypesOK == BusTypes => TypeOK
<1> SUFFICES ASSUME BusTypes PROVE TypeOK
  OBVIOUS
<1>1. /\ GapInv /\ DedupeInv /\ RingInv /\ BusShape /\ CallsInv /\ Windows
      /\ Len(log) \in Nat /\ Len(log) <= MaxEvents /\ MaxEvents \in Nat
  BY BusAssumption DEF BusTypes, BusShape, GapInv, RingInv
<1>2. dedupe \in Seq(Event) /\ Len(dedupe) <= DedupeCapacity
  <2>1. /\ dedupe \in Seq(Nat) /\ Len(dedupe) <= Len(log)
        /\ \A i \in 1 .. Len(dedupe) : dedupe[i] = Len(log) - Len(dedupe) + i
    BY <1>1 DEF DedupeInv, Newest
  <2>2. \A i \in 1 .. Len(dedupe) : dedupe[i] \in Event
    BY <1>1, <2>1 DEF Event
  <2> QED BY <1>1, <2>1, <2>2 DEF DedupeInv
<1>3. ring \in [items : [Slots -> 0 .. MaxEvents], start : Slots, count : 0 .. Capacity]
  BY <1>1 DEF RingInv, BusShape
<1>4. expired \in 0 .. MaxEvents /\ log \in Seq(Keys)
  BY <1>1 DEF DedupeInv, Newest
<1> QED BY <1>1, <1>2, <1>3, <1>4 DEF TypeOK, BusShape, Windows, Window, CallsInv, PublishTypes

\* The shape of the state; no channel ever holds more than its capacity, nor the
\* table of keys more than the deduplication capacity
THEOREM BusTypeCorrect == Spec => []TypeOK
<1> QED BY InitBus, BusStep, BusTypesOK, PTL DEF Spec

-----------------------------------------------------------------------------
(* Delivery *)

NoRepeats(q) == \A i, j \in 1 .. Len(q) : q[i] = q[j] => i = j

\* Events sent to a subscription, waiting to be replayed, and carried by their calls
\* of Publish are those after its beginning, each of them once
Delivered(sent, left, carried, from, n) ==
  /\ Elements(sent) \cup Elements(left) \cup carried = from + 1 .. n
  /\ Elements(sent) \cap Elements(left) = {} /\ Elements(sent) \cap carried = {}
  /\ Elements(left) \cap carried = {}
  /\ IsFiniteSet(Elements(sent)) /\ Cardinality(Elements(sent)) = Len(sent)
  /\ NoRepeats(left)
  /\ from <= n

DeliveredTo(s) == Delivered(subs[s].sent, subs[s].replay, InFlight(s), subs[s].from, Len(log))

DeliveryInv == BusTypes /\ \A s \in Open : DeliveredTo(s)

LEMMA ElementsOfAppend ==
  ASSUME NEW S, NEW q \in Seq(S), NEW e \in S
  PROVE  /\ Elements(Append(q, e)) = Elements(q) \cup {e}
         /\ IsFiniteSet(Elements(q)) /\ Cardinality(Elements(q)) = Len(q) /\ e \notin Elements(q)
            => /\ IsFiniteSet(Elements(Append(q, e)))
               /\ Cardinality(Elements(Append(q, e))) = Len(Append(q, e))
<1>1. /\ Len(q) \in Nat /\ Len(Append(q, e)) = Len(q) + 1 /\ Append(q, e)[Len(q) + 1] = e
      /\ \A i \in 1 .. Len(q) : Append(q, e)[i] = q[i]
  OBVIOUS
<1>2. 1 .. Len(q) + 1 = (1 .. Len(q)) \cup {Len(q) + 1}
  BY <1>1
<1>3. Elements(Append(q, e)) = Elements(q) \cup {e}
  BY <1>1, <1>2, Zenon DEF Elements
<1>4. ASSUME IsFiniteSet(Elements(q)), Cardinality(Elements(q)) = Len(q), e \notin Elements(q)
      PROVE  IsFiniteSet(Elements(q) \cup {e}) /\ Cardinality(Elements(q) \cup {e}) = Len(q) + 1
  BY <1>4, FS_AddElement
<1> QED BY <1>1, <1>3, <1>4

LEMMA ElementsOfTail ==
  ASSUME NEW S, NEW q \in Seq(S), q # <<>>, NoRepeats(q)
  PROVE  /\ Elements(Tail(q)) = Elements(q) \ {Head(q)} /\ Head(q) \in Elements(q)
         /\ NoRepeats(Tail(q))
<1> DEFINE n == Len(q)  t == Tail(q)
<1>1. /\ n \in Nat \ {0} /\ Len(t) = n - 1 /\ Head(q) = q[1]
      /\ \A i \in 1 .. n - 1 : t[i] = q[i + 1]
  OBVIOUS
<1>2. \A i, j \in 1 .. n : q[i] = q[j] => i = j
  BY DEF NoRepeats
<1> HIDE DEF n, t
<1>3. Head(q) \in Elements(q)
  BY <1>1 DEF Elements, n
<1>4. NoRepeats(t)
  BY <1>1, <1>2 DEF NoRepeats
<1>5. Elements(t) \subseteq Elements(q) \ {Head(q)}
  <2> SUFFICES ASSUME NEW i \in 1 .. n - 1 PROVE t[i] \in Elements(q) /\ t[i] # Head(q)
    BY <1>1 DEF Elements
  <2>1. i + 1 \in 1 .. n /\ i + 1 # 1 /\ 1 \in 1 .. n /\ t[i] = q[i + 1]
    BY <1>1
  <2>2. q[i + 1] \in Elements(q)
    BY <2>1 DEF Elements, n
  <2> QED BY <1>1, <1>2, <2>1, <2>2
<1>6. Elements(q) \ {Head(q)} \subseteq Elements(t)
  <2> SUFFICES ASSUME NEW i \in 1 .. n, q[i] # Head(q) PROVE q[i] \in Elements(t)
    BY DEF Elements, n
  <2>1. i - 1 \in 1 .. n - 1 /\ (i - 1) + 1 = i
    BY <1>1
  <2>2. t[i - 1] = q[i]
    BY <1>1, <2>1
  <2> QED BY <1>1, <2>1, <2>2 DEF Elements
<1> QED BY <1>3, <1>4, <1>5, <1>6 DEF t

LEMMA FlightIs ==
  ASSUME NEW s \in Subscriptions
  PROVE  /\ InFlight(s) = {publishers[p].event : p \in {q \in Publishers : Carries(q, s)}}
         /\ InFlight(s)' = {publishers'[p].event : p \in {q \in Publishers : Carries(q, s)'}}
  BY DEF InFlight, Carries

LEMMA FlightKept ==
  ASSUME NEW s \in Subscriptions,
         \A p \in Publishers : /\ Carries(p, s)' <=> Carries(p, s)
                               /\ Carries(p, s) => publishers'[p].event = publishers[p].event
  PROVE  InFlight(s)' = InFlight(s)
<1>1. {q \in Publishers : Carries(q, s)'} = {q \in Publishers : Carries(q, s)}
  OBVIOUS
<1>2. \A e : e \in InFlight(s)' <=> e \in InFlight(s)
  BY <1>1, FlightIs
<1> QED BY <1>2

\* A subscription that the step leaves alone
LEMMA DeliveredKept ==
  ASSUME DeliveryInv, NEW s \in Subscriptions, subs'[s].status = "open",
         Same(s), InFlight(s)' = InFlight(s), UNCHANGED log
  PROVE  DeliveredTo(s)'
<1>1. s \in Open
  BY DEF Same, Open
<1>2. DeliveredTo(s)
  BY <1>1 DEF DeliveryInv
<1> QED BY <1>2 DEF DeliveredTo, Same

LEMMA DeliveryNumbers ==
  ASSUME DeliveryInv, NEW p \in Publishers, Numbers(p), NEW s \in Open
  PROVE  DeliveredTo(s)'
<1> DEFINE n == Len(log)  sent == subs[s].sent  left == subs[s].replay  from == subs[s].from
           carried == InFlight(s)
<1>0. /\ n \in Nat /\ s \in Subscriptions /\ Delivered(sent, left, carried, from, n)
      /\ CallsInv /\ publishers[p].pc = "idle" /\ Len(log') = n + 1 /\ UNCHANGED subs
      /\ \A q \in Publishers : q # p => publishers'[q] = publishers[q]
      /\ publishers'[p].event = n + 1 /\ publishers'[p].targets = Open
  BY DEF DeliveryInv, DeliveredTo, BusTypes, GapInv, RingInv, Numbers, PublishIs, Open
<1>1. from \in Nat /\ from <= n
  <2>1. subs[s] \in SubType
    BY <1>0, WindowsNat DEF DeliveryInv, BusTypes, BusShape
  <2> QED BY <1>0, <2>1, BusAssumption DEF SubType, Delivered
<1>2. ~Carries(p, s)
  BY <1>0, BusAssumption DEF CallsInv, SlowKnown, Carries
<1>3. {q \in Publishers : Carries(q, s)'} = {q \in Publishers : Carries(q, s)} \cup {p}
  BY <1>0 DEF Carries
<1>4. InFlight(s)' = carried \cup {n + 1}
  <2>1. \A e : e \in InFlight(s)' <=> e \in InFlight(s) \/ e = n + 1
    BY <1>0, <1>2, <1>3, FlightIs
  <2> QED BY <2>1
<1>5. from + 1 .. n + 1 = (from + 1 .. n) \cup {n + 1} /\ n + 1 \notin from + 1 .. n
  BY <1>0, <1>1
<1> HIDE DEF n, sent, left, from, carried
<1>6. /\ Elements(sent) \cup Elements(left) \cup carried = from + 1 .. n
      /\ Elements(sent) \cap Elements(left) = {} /\ Elements(sent) \cap carried = {}
      /\ Elements(left) \cap carried = {}
      /\ IsFiniteSet(Elements(sent)) /\ Cardinality(Elements(sent)) = Len(sent)
      /\ NoRepeats(left)
  BY <1>0 DEF Delivered, n
<1> DEFINE more == carried \cup {n + 1}
<1>7. /\ Elements(sent) \cup Elements(left) \cup more = from + 1 .. n + 1
      /\ Elements(sent) \cap more = {} /\ Elements(left) \cap more = {}
  BY <1>5, <1>6
<1> HIDE DEF more
<1>8. Delivered(sent, left, more, from, n + 1)
  <2>1. from <= n + 1
    BY <1>0, <1>1
  <2> QED BY <1>6, <1>7, <2>1 DEF Delivered
<1> QED BY <1>0, <1>4, <1>8 DEF DeliveredTo, more, sent, left, from

\* An event is put into the channel that was carried to it, or was the next of the replay
LEMMA DeliveredMore ==
  ASSUME NEW sent \in Seq(Event), NEW left, NEW carried, NEW from, NEW n,
         Delivered(sent, left, carried, from, n), NEW e \in Event, NEW left2, NEW carried2,
         \/ e \in carried /\ left2 = left /\ carried2 = carried \ {e}
         \/ /\ e \in Elements(left) /\ carried2 = carried
            /\ Elements(left2) = Elements(left) \ {e} /\ NoRepeats(left2)
  PROVE  Delivered(Append(sent, e), left2, carried2, from, n)
<1>1. e \notin Elements(sent)
  BY DEF Delivered
<1>2. Elements(Append(sent, e)) = Elements(sent) \cup {e}
  BY ElementsOfAppend
<1>3. /\ IsFiniteSet(Elements(Append(sent, e)))
      /\ Cardinality(Elements(Append(sent, e))) = Len(Append(sent, e))
  BY <1>1, ElementsOfAppend DEF Delivered
<1> DEFINE more == Append(sent, e)
<1> HIDE DEF more
<1>4. Delivered(more, left2, carried2, from, n)
  BY <1>2, <1>3 DEF Delivered, more
<1> QED BY <1>4 DEF more

LEMMA DeliverySends ==
  ASSUME DeliveryInv, NEW p \in Publishers, NEW t \in Subscriptions, Sends(p, t),
         NEW s \in Subscriptions, subs'[s].status = "open"
  PROVE  DeliveredTo(s)'
<1> DEFINE event == publishers[p].event
<1>0. /\ UNCHANGED log /\ publishers'[p].event = event /\ publishers'[p].slow = publishers[p].slow
      /\ publishers'[p].targets = publishers[p].targets \ {t} /\ t \in publishers[p].targets
      /\ \A q \in Publishers : q # p => publishers'[q] = publishers[q]
      /\ Puts(t, event, subs[t].replay) /\ publishers[p].pc = "send" /\ CallsInv
      /\ publishers[p].slow = NoSubscription
  BY DEF Sends, PublishIs, DeliveryInv, BusTypes, CallsInv, SlowKnown
<1>1. CASE s # t
  <2>1. InFlight(s)' = InFlight(s)
    BY <1>0, <1>1, FlightKept DEF Carries
  <2>2. Same(s)
    BY <1>0, <1>1 DEF Puts, Others, Same
  <2> QED BY <1>0, <2>1, <2>2, DeliveredKept
<1>2. CASE s = t
  <2>1. /\ subs'[s].sent = Append(subs[s].sent, event) /\ subs'[s].replay = subs[s].replay
        /\ subs'[s].from = subs[s].from /\ s \in Open
    BY <1>0, <1>2 DEF Puts, Open
  <2>2. Carries(p, s) /\ ~Carries(p, s)'
    BY <1>0, <1>2, BusAssumption DEF Carries
  <2>3. \A q \in Publishers : q # p => (Carries(q, s)' <=> Carries(q, s))
    BY <1>0 DEF Carries
  <2>4. \A q \in Publishers : q # p /\ Carries(q, s) => publishers[q].event # event
    <3> SUFFICES ASSUME NEW q \in Publishers, q # p, Carries(q, s) PROVE publishers[q].event # event
      OBVIOUS
    <3>1. publishers[q].pc # "idle"
      BY <1>0, BusAssumption DEF CallsInv, SlowKnown, Carries
    <3> QED BY <1>0, <3>1 DEF CallsInv
  <2>5. InFlight(s)' = InFlight(s) \ {event} /\ event \in InFlight(s)
    <3>1. \A e : e \in InFlight(s)' <=> \E q \in Publishers : Carries(q, s)' /\ e = publishers'[q].event
      BY FlightIs
    <3>2. \A e : e \in InFlight(s) <=> \E q \in Publishers : Carries(q, s) /\ e = publishers[q].event
      BY FlightIs
    <3>3. \A e : e \in InFlight(s)' <=> e \in InFlight(s) /\ e # event
      BY <1>0, <2>2, <2>3, <2>4, <3>1, <3>2
    <3>4. event \in InFlight(s)
      BY <2>2, <3>2
    <3> QED BY <3>3, <3>4
  <2>6. event \in Event /\ subs[s].sent \in Seq(Event)
    <3>1. event \in 1 .. Len(log) /\ Len(log) \in Nat /\ Len(log) <= MaxEvents
      BY <1>0 DEF CallsInv, DeliveryInv, BusTypes, BusShape, GapInv, RingInv
    <3>2. subs[s].sent \in Seq(Event)
      BY WindowsNat DEF DeliveryInv, BusTypes, BusShape
    <3> QED BY <3>1, <3>2, BusAssumption DEF Event
  <2>7. Delivered(subs[s].sent, subs[s].replay, InFlight(s), subs[s].from, Len(log))
    BY <2>1 DEF DeliveryInv, DeliveredTo
  <2> HIDE DEF event
  <2>8. Delivered(Append(subs[s].sent, event), subs[s].replay, InFlight(s) \ {event}, subs[s].from,
                  Len(log))
    BY <2>5, <2>6, <2>7, DeliveredMore
  <2> QED BY <1>0, <2>1, <2>5, <2>8 DEF DeliveredTo
<1> QED BY <1>1, <1>2

LEMMA DeliveryReplays ==
  ASSUME DeliveryInv, NEW t \in Subscriptions, Replays(t),
         NEW s \in Subscriptions, subs'[s].status = "open"
  PROVE  DeliveredTo(s)'
<1>0. /\ UNCHANGED <<log, publishers>> /\ subs[t].replay # <<>>
      /\ Puts(t, Head(subs[t].replay), Tail(subs[t].replay))
  BY DEF Replays
<1>1. InFlight(s)' = InFlight(s)
  BY <1>0, FlightKept DEF Carries
<1>2. CASE s # t
  BY <1>0, <1>1, <1>2, DeliveredKept DEF Puts, Others, Same
<1>3. CASE s = t
  <2> DEFINE left == subs[s].replay
  <2>1. /\ subs'[s].sent = Append(subs[s].sent, Head(left)) /\ subs'[s].replay = Tail(left)
        /\ subs'[s].from = subs[s].from /\ s \in Open /\ left # <<>>
    BY <1>0, <1>3 DEF Puts, Open
  <2>2. Delivered(subs[s].sent, left, InFlight(s), subs[s].from, Len(log))
    BY <2>1 DEF DeliveryInv, DeliveredTo
  <2>3. left \in Seq(Event) /\ subs[s].sent \in Seq(Event)
    BY WindowsNat DEF DeliveryInv, BusTypes, BusShape
  <2>4. NoRepeats(left)
    BY <2>2 DEF Delivered
  <2> HIDE DEF left
  <2>5. /\ Elements(Tail(left)) = Elements(left) \ {Head(left)} /\ Head(left) \in Elements(left)
        /\ NoRepeats(Tail(left)) /\ Head(left) \in Event
    BY <2>1, <2>3, <2>4, ElementsOfTail
  <2>6. Delivered(Append(subs[s].sent, Head(left)), Tail(left), InFlight(s), subs[s].from, Len(log))
    BY <2>2, <2>3, <2>5, DeliveredMore
  <2> QED BY <1>0, <1>1, <2>1, <2>6 DEF DeliveredTo
<1> QED BY <1>2, <1>3

LEMMA DeliverySubscribes ==
  ASSUME DeliveryInv, NEW t \in Subscriptions, NEW event \in 0 .. MaxEvents, Subscribes(t, event),
         NEW s \in Subscriptions, subs'[s].status = "open"
  PROVE  DeliveredTo(s)'
<1>0. /\ UNCHANGED <<log, publishers>> /\ Others(t) /\ subs[t].status = "unused"
      /\ subs'[t].sent = <<>> /\ subs'[t].replay = After(ring, event)
      /\ CallsInv /\ RingInv /\ event \in Nat /\ Len(log) \in Nat
  <2>1. CallsInv /\ RingInv
    BY DEF DeliveryInv, BusTypes, GapInv
  <2>2. event \in Nat /\ Len(log) \in Nat
    BY <2>1, BusAssumption DEF RingInv
  <2> QED BY <2>1, <2>2 DEF Subscribes
<1>1. InFlight(s)' = InFlight(s)
  BY <1>0, FlightKept DEF Carries
<1>2. CASE s # t
  BY <1>0, <1>1, <1>2, DeliveredKept DEF Others, Same
<1>3. CASE s = t
  <2> DEFINE replay == After(ring, event)  from == subs'[s].from
  <2>1. InFlight(s) = {}
    <3>1. \A p \in Publishers : ~Carries(p, s)
      BY <1>0, <1>3 DEF CallsInv
    <3>2. {q \in Publishers : Carries(q, s)} = {}
      BY <3>1
    <3> QED BY <3>2, FlightIs
  <2>2. Elements(replay) = FirstAfter(event) .. Len(log) /\ NoRepeats(replay)
    BY <1>0, AfterEvent DEF NoRepeats
  <2>3. from + 1 .. Len(log) = FirstAfter(event) .. Len(log) /\ from <= Len(log)
    <3> DEFINE n == Len(log)  count == ring.count
    <3>1. /\ from = IF event >= n THEN n
                    ELSE IF event + 1 < OldestSequence(ring) THEN OldestSequence(ring) - 1
                    ELSE event
          /\ FirstAfter(event) = IF event <= n - count THEN (n - count) + 1 ELSE event + 1
      BY <1>3 DEF Subscribes, FirstAfter
    <3>2. /\ n \in Nat /\ count \in Nat /\ count <= n /\ event \in Nat
          /\ count = 0 <=> n = 0
          /\ count > 0 => OldestSequence(ring) = (n - count) + 1
      <4>1. n \in Nat /\ count \in Nat /\ count <= n
        BY <1>0, BusAssumption DEF RingInv
      <4>2. count = 0 <=> n = 0
        BY <1>0, OldestRetained
      <4>3. count > 0 => OldestSequence(ring) = (n - count) + 1
        BY <1>0, OldestRetained
      <4> QED BY <1>0, <4>1, <4>2, <4>3
    <3> HIDE DEF n, count, from
    <3>3. CASE event >= n
      <4>1. from = n /\ FirstAfter(event) \in Nat /\ FirstAfter(event) > n
        BY <3>1, <3>2, <3>3
      <4>2. from + 1 .. n = {} /\ FirstAfter(event) .. n = {}
        BY <3>2, <4>1
      <4> QED BY <3>2, <4>1, <4>2 DEF n
    <3>4. CASE ~(event >= n)
      <4>1. from + 1 = FirstAfter(event) /\ from <= n
        BY <3>1, <3>2, <3>4
      <4> QED BY <4>1 DEF n
    <3> QED BY <3>3, <3>4
  <2>4. /\ Elements(<<>>) = {} /\ IsFiniteSet({}) /\ Cardinality({}) = 0 /\ Len(<<>>) = 0
    BY FS_EmptySet DEF Elements
  <2>5. subs'[s].sent = <<>> /\ subs'[s].replay = replay /\ UNCHANGED log
    BY <1>0, <1>3
  <2> HIDE DEF replay, from
  <2>6. Delivered(<<>>, replay, {}, from, Len(log))
    BY <2>2, <2>3, <2>4 DEF Delivered
  <2> QED BY <1>1, <2>1, <2>5, <2>6 DEF DeliveredTo, from
<1> QED BY <1>2, <1>3

LEMMA DeliveryStep == DeliveryInv /\ [Next]_vars => DeliveryInv'
<1> SUFFICES ASSUME DeliveryInv, [Next]_vars PROVE DeliveryInv'
  OBVIOUS
<1>0. BusTypes /\ BusTypes' /\ Windows
  BY BusStep DEF DeliveryInv, BusTypes, BusShape
<1> SUFFICES ASSUME NEW s \in Subscriptions, subs'[s].status = "open" PROVE DeliveredTo(s)'
  BY <1>0 DEF DeliveryInv, Open
<1>1. Effect
  <2>1. CASE UNCHANGED vars
    BY <1>0, <2>1, NotQuietOnly DEF vars, Effect
  <2> QED BY <1>0, <2>1, StepEffect
<1>2. CASE Quiet /\ UNCHANGED <<log, publishers>>
  <2>1. InFlight(s)' = InFlight(s)
    BY <1>2, FlightKept DEF Carries
  <2> QED BY <1>2, <2>1, DeliveredKept DEF Quiet
<1>3. ASSUME NEW p \in Publishers, Numbers(p) PROVE DeliveredTo(s)'
  BY <1>3, DeliveryNumbers DEF Numbers, Open
<1>4. ASSUME NEW p \in Publishers, Drops(p) PROVE DeliveredTo(s)'
  <2>1. InFlight(s)' = InFlight(s)
    BY <1>4, FlightKept DEF Drops, Carries
  <2> QED BY <1>4, <2>1, DeliveredKept DEF Drops, Quiet
<1>5. ASSUME NEW p \in Publishers, Finishes(p) PROVE DeliveredTo(s)'
  <2>1. ~Carries(p, s) /\ ~Carries(p, s)'
    BY <1>0, <1>5, BusAssumption DEF Finishes, PublishIs, Carries, BusTypes, CallsInv, SlowKnown
  <2>2. InFlight(s)' = InFlight(s)
    BY <1>5, <2>1, FlightKept DEF Finishes, PublishIs, Carries
  <2> QED BY <1>5, <2>2, DeliveredKept DEF Finishes, Same
<1> QED BY <1>1, <1>2, <1>3, <1>4, <1>5, DeliverySends, DeliveryReplays, DeliverySubscribes DEF Effect

LEMMA DeliveryInit == Init => DeliveryInv
<1>1. Init => Open = {}
  BY DEF Init, Open, Unused
<1> QED BY <1>1, InitBus DEF DeliveryInv

\* As long as a subscription is open, every event after its beginning has been sent
\* to it, waits in its replay or is about to be sent by its call of Publish, and no
\* event more than once
THEOREM NoneLostNorTwice == Spec => []NothingLostOrTwice
<1>1. DeliveryInv => NothingLostOrTwice
  BY DEF DeliveryInv, DeliveredTo, Delivered, NothingLostOrTwice
<1> QED BY <1>1, DeliveryInit, DeliveryStep, PTL DEF Spec
=============================================================================
