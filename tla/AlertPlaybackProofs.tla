------------------------ MODULE AlertPlaybackProofs ------------------------
(***************************************************************************)
(* Proofs about AlertPlayback and the audio runtime it drives, for every   *)
(* set of profiles, alerts and utterances, every priority and every bound. *)
(***************************************************************************)
EXTENDS AlertPlayback, FiniteSetTheorems, TLAPS

-----------------------------------------------------------------------------
(* Numbers: what stands for an induction below is the least counterexample *)

LEMMA LeastNat ==
  ASSUME NEW S \in SUBSET Nat, S # {}
  PROVE  \E n \in S : \A m \in S : n <= m
<1>1. PICK n \in S : \A m \in S : <<m, n>> \notin OpToRel(<, Nat)
  BY NatLessThanWellFounded, WFMin, Zenon
<1>2. \A m \in S : ~(m < n)
  BY <1>1 DEF OpToRel
<1> QED BY <1>2

Below(S, i) == {k \in S : k < i}

\* A finite set of numbers has a least element, a next one, and so on to its last
LEMMA NthOfSet ==
  ASSUME NEW S \in SUBSET Nat, IsFiniteSet(S), NEW n \in Nat, n < Cardinality(S)
  PROVE  \E i \in S : Cardinality(Below(S, i)) = n
<1> DEFINE Missing == {m \in Nat : m < Cardinality(S) /\ ~\E i \in S : Cardinality(Below(S, i)) = m}
<1>0. Cardinality(S) \in Nat /\ \A i : IsFiniteSet(Below(S, i)) /\ Cardinality(Below(S, i)) \in Nat
  <2>1. \A i : Below(S, i) \subseteq S
    BY DEF Below
  <2> QED BY <2>1, FS_CardinalityType, FS_Subset
<1>1. SUFFICES Missing = {}
  OBVIOUS
<1>2. SUFFICES ASSUME Missing # {} PROVE FALSE
  OBVIOUS
<1>3. PICK m \in Missing : \A k \in Missing : m <= k
  <2> HIDE DEF Missing
  <2>1. Missing \in SUBSET Nat
    BY DEF Missing
  <2> QED BY <1>2, <2>1, LeastNat
<1>4. m \in Nat /\ m < Cardinality(S)
  OBVIOUS
<1>5. CASE m = 0
  <2>1. S # {}
    BY <1>4, <1>5, FS_EmptySet
  <2>2. PICK i \in S : \A k \in S : i <= k
    BY <2>1, LeastNat
  <2>3. Below(S, i) = {}
    <3>1. \A k \in S : k \in Nat /\ ~(k < i)
      BY <2>2
    <3> QED BY <3>1 DEF Below
  <2> QED BY <1>5, <2>3, FS_EmptySet
<1>6. CASE m # 0
  <2>1. m - 1 \in Nat /\ m - 1 < Cardinality(S) /\ m - 1 \notin Missing
    BY <1>0, <1>3, <1>4, <1>6
  <2>2. PICK i \in S : Cardinality(Below(S, i)) = m - 1
    BY <2>1
  <2> DEFINE Upto  == Below(S, i) \cup {i}
             Above == S \ Upto
  <2>3. i \notin Below(S, i) /\ Upto \subseteq S
    BY DEF Below
  <2>4. Cardinality(Upto) = m
    <3>1. Cardinality(Upto) = Cardinality(Below(S, i)) + 1
      BY <1>0, <2>3, FS_AddElement
    <3> QED BY <1>4, <2>2, <3>1
  <2>5. Above # {}
    BY <1>4, <2>3, <2>4
  <2>6. PICK j \in Above : \A k \in Above : j <= k
    <3>1. Above \in SUBSET Nat
      OBVIOUS
    <3> HIDE DEF Above
    <3> QED BY <2>5, <3>1, LeastNat
  <2>7. Below(S, j) = Upto
    <3>1. \A k \in S : k < j => k \in Upto
      BY <2>6
    <3>2. i < j
      BY <2>6 DEF Below
    <3>3. \A k \in Upto : k \in S /\ k < j
      BY <2>3, <3>2 DEF Below
    <3> QED BY <3>1, <3>3 DEF Below
  <2> QED BY <2>4, <2>6, <2>7
<1> QED BY <1>5, <1>6

-----------------------------------------------------------------------------
(* Queues: what the operations keep of a sequence *)

\* Every element of one queue is an element of the other
From(q, s) == \A n \in DOMAIN q : \E k \in DOMAIN s : q[n] = s[k]

LEMMA KeepsOf ==
  ASSUME NEW T, NEW q \in Seq(T), NEW S \in SUBSET DOMAIN q
  PROVE  /\ Keep(q, S) \in Seq(T) /\ Len(Keep(q, S)) <= Len(q)
         /\ \A n \in DOMAIN Keep(q, S) : \E k \in S : Keep(q, S)[n] = q[k]
<1> DEFINE f == Keep(q, S)
           c == Cardinality(S)
           At(n) == CHOOSE i \in S : Cardinality({k \in S : k < i}) = n - 1
<1>1. DOMAIN q = 1 .. Len(q) /\ Len(q) \in Nat
  OBVIOUS
<1>2. IsFiniteSet(S) /\ c \in Nat /\ c <= Len(q)
  <2>1. IsFiniteSet(1 .. Len(q)) /\ Cardinality(1 .. Len(q)) = Len(q)
    <3> DEFINE l == Len(q)
    <3>1. l \in Nat
      BY <1>1
    <3> HIDE DEF l
    <3>2. IsFiniteSet(1 .. l) /\ Cardinality(1 .. l) = IF 1 > l THEN 0 ELSE l - 1 + 1
      BY <3>1, FS_Interval
    <3>3. Cardinality(1 .. l) = l
      BY <3>1, <3>2
    <3> QED BY <3>2, <3>3 DEF l
  <2>2. S \in SUBSET (1 .. Len(q))
    BY <1>1
  <2> QED BY <2>1, <2>2, FS_Subset, FS_CardinalityType
<1>3. \A n \in 1 .. c : At(n) \in S
  <2> SUFFICES ASSUME NEW n \in 1 .. c PROVE At(n) \in S
    OBVIOUS
  <2>1. \E i \in S : Cardinality(Below(S, i)) = n - 1
    <3>1. S \in SUBSET Nat /\ n - 1 \in Nat /\ n - 1 < c
      BY <1>1, <1>2
    <3> QED BY <1>2, <3>1, NthOfSet
  <2> QED BY <2>1 DEF Below
<1>4. f = [n \in 1 .. c |-> q[At(n)]]
  BY DEF Keep
<1> HIDE DEF f, At
<1>5. f \in [1 .. c -> T]
  BY <1>1, <1>3, <1>4
<1>6. f \in Seq(T) /\ Len(f) = c /\ DOMAIN f = 1 .. c
  BY <1>2, <1>5
<1>7. \A n \in DOMAIN f : \E k \in S : f[n] = q[k]
  BY <1>3, <1>4, <1>6
<1> QED BY <1>2, <1>6, <1>7 DEF f

LEMMA RemovesAt ==
  ASSUME NEW T, NEW q \in Seq(T), NEW i \in DOMAIN q
  PROVE  RemoveAt(q, i) \in Seq(T) /\ Len(RemoveAt(q, i)) = Len(q) - 1 /\ From(RemoveAt(q, i), q)
<1> DEFINE a == SubSeq(q, 1, i - 1)
           b == SubSeq(q, i + 1, Len(q))
<1>1. i \in 1 .. Len(q) /\ Len(q) \in Nat
  OBVIOUS
<1>2. a \in Seq(T) /\ Len(a) = i - 1 /\ \A n \in 1 .. i - 1 : a[n] = q[n]
  BY <1>1
<1>3. b \in Seq(T) /\ Len(b) = Len(q) - i /\ \A n \in 1 .. Len(q) - i : b[n] = q[i + n]
  BY <1>1
<1> HIDE DEF a, b
<1>4. a \o b \in Seq(T) /\ Len(a \o b) = Len(q) - 1
  BY <1>1, <1>2, <1>3
<1>5. From(a \o b, q)
  <2> SUFFICES ASSUME NEW n \in 1 .. Len(q) - 1 PROVE \E k \in DOMAIN q : (a \o b)[n] = q[k]
    BY <1>4 DEF From
  <2>1. CASE n < i
    <3>1. (a \o b)[n] = q[n] /\ n \in DOMAIN q
      BY <1>1, <1>2, <1>3, <2>1
    <3> QED BY <3>1
  <2>2. CASE n >= i
    <3>1. (a \o b)[n] = q[n + 1] /\ n + 1 \in DOMAIN q
      BY <1>1, <1>2, <1>3, <2>2
    <3> QED BY <3>1
  <2>3. n < i \/ n >= i
    BY <1>1
  <2> QED BY <2>1, <2>2, <2>3
<1> QED BY <1>4, <1>5 DEF RemoveAt, a, b

LEMMA Appends ==
  ASSUME NEW T, NEW q \in Seq(T), NEW x \in T
  PROVE  /\ Append(q, x) \in Seq(T) /\ Len(Append(q, x)) = Len(q) + 1
         /\ \A n \in DOMAIN Append(q, x) : Append(q, x)[n] = x \/ (n \in DOMAIN q /\ Append(q, x)[n] = q[n])
         /\ \A n \in DOMAIN q : n \in DOMAIN Append(q, x) /\ Append(q, x)[n] = q[n]
         /\ Len(q) + 1 \in DOMAIN Append(q, x) /\ Append(q, x)[Len(q) + 1] = x
<1> DEFINE a == Append(q, x)
<1>1. a \in Seq(T) /\ Len(a) = Len(q) + 1
  OBVIOUS
<1>2. Len(q) \in Nat /\ DOMAIN q = 1 .. Len(q) /\ DOMAIN a = 1 .. Len(q) + 1
  BY <1>1
<1>3. a[Len(q) + 1] = x /\ \A n \in 1 .. Len(q) : a[n] = q[n]
  OBVIOUS
<1> HIDE DEF a
<1>4. \A n \in DOMAIN a : n \in DOMAIN q \/ n = Len(q) + 1
  BY <1>2
<1>5. (\A n \in DOMAIN q : n \in DOMAIN a /\ a[n] = q[n]) /\ Len(q) + 1 \in DOMAIN a
  BY <1>2, <1>3
<1>6. a[Len(q) + 1] = x
  BY <1>3
<1>7. ASSUME NEW n \in DOMAIN a PROVE a[n] = x \/ (n \in DOMAIN q /\ a[n] = q[n])
  <2>1. CASE n \in DOMAIN q
    BY <1>5, <2>1
  <2>2. CASE n = Len(q) + 1
    BY <1>6, <2>2
  <2> QED BY <1>4, <2>1, <2>2
<1> QED BY <1>1, <1>5, <1>6, <1>7 DEF a

LEMMA Tails ==
  ASSUME NEW T, NEW q \in Seq(T), q # <<>>
  PROVE  /\ Head(q) \in T /\ Head(q) = q[1] /\ 1 \in DOMAIN q
         /\ Tail(q) \in Seq(T) /\ Len(Tail(q)) = Len(q) - 1 /\ From(Tail(q), q)
         /\ \A n \in DOMAIN q : n # 1 => n - 1 \in DOMAIN Tail(q) /\ Tail(q)[n - 1] = q[n]
<1>1. Len(q) \in Nat /\ Len(q) # 0 /\ DOMAIN q = 1 .. Len(q)
  OBVIOUS
<1>2. Tail(q) \in Seq(T) /\ Len(Tail(q)) = Len(q) - 1
  BY <1>1
<1>3. \A n \in 1 .. Len(q) - 1 : Tail(q)[n] = q[n + 1]
  BY <1>1
<1>4. From(Tail(q), q)
  BY <1>1, <1>2, <1>3 DEF From
<1>5. \A n \in DOMAIN q : n # 1 => n - 1 \in DOMAIN Tail(q) /\ Tail(q)[n - 1] = q[n]
  BY <1>1, <1>2, <1>3
<1> QED BY <1>1, <1>2, <1>4, <1>5

\* A queue that is not empty has an element to evict
LEMMA WorstOf ==
  ASSUME NEW q \in Seq(Alerts), q # <<>> PROVE Worst(q) \in DOMAIN q
<1> DEFINE D == DOMAIN q
           Ranks == {Priority[q[k]] : k \in D}
<1>1. D = 1 .. Len(q) /\ Len(q) \in Nat /\ 1 \in D
  OBVIOUS
<1>2. \A k \in D : Priority[q[k]] \in Nat
  BY AlertAssumption
<1>3. Ranks \in SUBSET Nat /\ Ranks # {}
  BY <1>1, <1>2
<1>4. PICK low \in Ranks : \A rank \in Ranks : low <= rank
  <2> HIDE DEF Ranks
  <2> QED BY <1>3, LeastNat
<1> DEFINE Lowest == {k \in D : Priority[q[k]] = low}
<1>5. Lowest \in SUBSET Nat /\ Lowest # {}
  BY <1>1
<1>6. PICK i \in Lowest : \A k \in Lowest : i <= k
  <2> HIDE DEF Lowest
  <2> QED BY <1>5, LeastNat
<1>7. i \in D /\ \A k \in D \ {i} : GoesBefore(q, i, k)
  <2>1. i \in D /\ Priority[q[i]] = low /\ low \in Nat
    BY <1>3
  <2> SUFFICES ASSUME NEW k \in D \ {i} PROVE GoesBefore(q, i, k)
    BY <2>1
  <2>2. Priority[q[k]] \in Nat /\ low <= Priority[q[k]] /\ k \in Nat /\ i \in Nat
    BY <1>1, <1>2, <1>4, <2>1
  <2>3. Priority[q[k]] = low => i < k
    BY <1>6, <2>2
  <2> QED BY <2>1, <2>2, <2>3 DEF GoesBefore
<1> HIDE DEF D
<1>8. \E j \in D : \A k \in D \ {j} : GoesBefore(q, j, k)
  BY <1>7
<1> QED BY <1>8 DEF Worst, D

-----------------------------------------------------------------------------
(* The candidates of an event, one after the other *)

\* Offered has a value after every candidate
LEMMA Offers ==
  ASSUME NEW r, NEW order, Len(order) \in Nat
  PROVE  \E f : /\ f[0] = [r |-> r, done |-> FALSE]
                /\ \A n \in 1 .. Len(order) : f[n] = Offer(f[n - 1], order[n])
                /\ Offered(r, order) = f[Len(order)].r
<1> DEFINE zero == [r |-> r, done |-> FALSE]
           Next0(f, n) == IF n = 0 THEN zero ELSE Offer(f[n - 1], order[n])
           Missing == {m \in Nat : ~\E f : f = [n \in 0 .. m |-> Next0(f, n)]}
<1>1. Missing = {}
  <2> SUFFICES ASSUME Missing # {} PROVE FALSE
    OBVIOUS
  <2>1. PICK m \in Missing : \A k \in Missing : m <= k
    <3>1. Missing \in SUBSET Nat
      OBVIOUS
    <3> HIDE DEF Missing
    <3> QED BY <3>1, LeastNat
  <2>2. m \in Nat /\ ~\E f : f = [n \in 0 .. m |-> Next0(f, n)]
    OBVIOUS
  <2>3. CASE m = 0
    <3> DEFINE f == [n \in 0 .. 0 |-> zero]
    <3> HIDE DEF zero
    <3>1. f = [n \in 0 .. 0 |-> Next0(f, n)]
      OBVIOUS
    <3> QED BY <2>2, <2>3, <3>1
  <2>4. CASE m # 0
    <3>1. m - 1 \in Nat /\ m - 1 \notin Missing
      <4> HIDE DEF Missing
      <4> QED BY <2>1, <2>2, <2>4
    <3>2. PICK g : g = [n \in 0 .. m - 1 |-> Next0(g, n)]
      BY <3>1
    <3> DEFINE f == [n \in 0 .. m |-> IF n = m THEN Offer(g[m - 1], order[m]) ELSE g[n]]
    <3> HIDE DEF zero
    <3>3. \A n \in 0 .. m : f[n] = Next0(f, n)
      <4> SUFFICES ASSUME NEW n \in 0 .. m PROVE f[n] = Next0(f, n)
        OBVIOUS
      <4>1. CASE n = m
        <5>1. m - 1 \in 0 .. m /\ m - 1 # m
          BY <2>2, <2>4, <3>1
        <5>2. f[m - 1] = g[m - 1]
          BY <5>1
        <5> QED BY <2>2, <2>4, <4>1, <5>2
      <4>2. CASE n # m
        <5>1. n \in 0 .. m - 1 /\ f[n] = g[n]
          BY <2>2, <4>2
        <5>2. g[n] = Next0(g, n)
          BY <3>2, <5>1
        <5>3. n # 0 => n - 1 \in 0 .. m /\ n - 1 # m
          BY <2>2, <5>1
        <5>4. n # 0 => f[n - 1] = g[n - 1]
          BY <5>3
        <5> QED BY <5>1, <5>2, <5>4
      <4> QED BY <4>1, <4>2
    <3>4. f = [n \in 0 .. m |-> f[n]]
      OBVIOUS
    <3> HIDE DEF f
    <3>5. f = [n \in 0 .. m |-> Next0(f, n)]
      BY <3>3, <3>4
    <3> QED BY <2>2, <3>5
  <2> QED BY <2>3, <2>4
<1>2. \E f : f = [n \in 0 .. Len(order) |-> Next0(f, n)]
  BY <1>1
<1> DEFINE after == CHOOSE f : f = [n \in 0 .. Len(order) |-> Next0(f, n)]
<1>3. after = [n \in 0 .. Len(order) |-> Next0(after, n)]
  BY <1>2
<1>4. Offered(r, order) = after[Len(order)].r
  BY DEF Offered
<1> HIDE DEF after
<1>5. after[0] = zero /\ \A n \in 1 .. Len(order) : after[n] = Offer(after[n - 1], order[n])
  <2> HIDE DEF zero
  <2> QED BY <1>3
<1> QED BY <1>4, <1>5

-----------------------------------------------------------------------------
(* The handlers of a profile *)

Own(p, i) == i \in Alerts /\ ProfileOf[i] = p

CallType == {"enqueue", "cancel"} \X Alerts

\* A call is about an alert of the profile that has a sound, and a sound is asked for
\* only while its alert is shown
Due(p, alert, call) == /\ Own(p, call[2]) /\ Pieces[call[2]] > 0
                       /\ call[1] = "enqueue" => alert = call[2]

\* What every handler leaves of a profile
Orderly(p, r) ==
  /\ r \in ProfileType /\ Len(r.queue) <= MaxItems
  /\ r.alert = NoAlert <=> r.phase = "none"
  /\ r.alert # NoAlert => Own(p, r.alert)
  /\ r.replay # NoAlert => Own(p, r.replay)
  /\ r.last # NoAlert => Own(p, r.last)
  /\ \A k \in DOMAIN r.queue : Own(p, r.queue[k])
  /\ \A k \in DOMAIN r.calls : Due(p, r.alert, r.calls[k])

\* The alert is shown, or its sound is about to be cancelled
Covered(r, i) == r.alert = i \/ \E k \in DOMAIN r.calls : r.calls[k] = <<"cancel", i>>

\* A handler forgets no sound
Covers(new, old) == \A i \in Alerts : Pieces[i] > 0 /\ Covered(old, i) => Covered(new, i)

LEMMA CoversChain ==
  /\ \A r : Covers(r, r)
  /\ \A r, s, t : Covers(s, r) /\ Covers(t, s) => Covers(t, r)
  BY DEF Covers

\* The fields of a profile once a handler has changed it
LEMMA FieldsOf ==
  ASSUME NEW r \in ProfileType
  PROVE  /\ r.queue \in Seq(Alerts) /\ r.calls \in Seq(CallType)
         /\ LET s == Completed(r)
            IN /\ s.alert = NoAlert /\ s.phase = "none" /\ s.calls = Calls(r, "cancel", r.alert)
               /\ s.queue = r.queue /\ s.replay = r.replay /\ s.last = r.alert
               /\ s.enabled = r.enabled /\ s.paused = r.paused
               /\ s.calls \in Seq(CallType) => s \in ProfileType
         /\ \A q \in Seq(Alerts) :
              LET s == [r EXCEPT !.queue = q]
              IN /\ s.alert = r.alert /\ s.phase = r.phase /\ s.calls = r.calls
                 /\ s.queue = q /\ s.replay = r.replay /\ s.last = r.last
                 /\ s.enabled = r.enabled /\ s.paused = r.paused
                 /\ s \in ProfileType
         /\ LET s == [r EXCEPT !.replay = NoAlert]
            IN /\ s.alert = r.alert /\ s.phase = r.phase /\ s.calls = r.calls
               /\ s.queue = r.queue /\ s.replay = NoAlert /\ s.last = r.last
               /\ s \in ProfileType
<1>1. r.queue \in Seq(Alerts) /\ r.calls \in Seq(CallType)
  BY DEF ProfileType, CallType
<1>2. LET s == Completed(r)
      IN /\ s.alert = NoAlert /\ s.phase = "none" /\ s.calls = Calls(r, "cancel", r.alert)
         /\ s.queue = r.queue /\ s.replay = r.replay /\ s.last = r.alert
         /\ s.enabled = r.enabled /\ s.paused = r.paused
         /\ s.calls \in Seq(CallType) => s \in ProfileType
  BY DEF ProfileType, Completed, CallType
<1>3. ASSUME NEW q \in Seq(Alerts)
      PROVE  LET s == [r EXCEPT !.queue = q]
             IN /\ s.alert = r.alert /\ s.phase = r.phase /\ s.calls = r.calls
                /\ s.queue = q /\ s.replay = r.replay /\ s.last = r.last
                /\ s.enabled = r.enabled /\ s.paused = r.paused
                /\ s \in ProfileType
  BY DEF ProfileType
<1>4. LET s == [r EXCEPT !.replay = NoAlert]
      IN /\ s.alert = r.alert /\ s.phase = r.phase /\ s.calls = r.calls
         /\ s.queue = r.queue /\ s.replay = NoAlert /\ s.last = r.last
         /\ s \in ProfileType
  BY DEF ProfileType
<1> QED BY <1>1, <1>2, <1>3, <1>4

LEMMA StartedOf ==
  ASSUME NEW r \in ProfileType, NEW i
  PROVE  LET s == Started(r, i)
         IN /\ s.alert = i /\ s.phase = "showing" /\ s.calls = Calls(r, "enqueue", i)
            /\ s.queue = r.queue /\ s.replay = r.replay /\ s.last = r.last
            /\ i \in Alerts /\ s.calls \in Seq(CallType) => s \in ProfileType
  BY DEF ProfileType, Started, CallType

LEMMA CallsOf ==
  ASSUME NEW r \in ProfileType, NEW kind \in {"enqueue", "cancel"}, NEW i \in Alerts
  PROVE  LET c == Calls(r, kind, i)
         IN /\ c \in Seq(CallType)
            /\ \A k \in DOMAIN c : \/ c[k] = <<kind, i>> /\ Pieces[i] > 0
                                   \/ k \in DOMAIN r.calls /\ c[k] = r.calls[k]
            /\ \A k \in DOMAIN r.calls : k \in DOMAIN c /\ c[k] = r.calls[k]
            /\ Pieces[i] > 0 => \E k \in DOMAIN c : c[k] = <<kind, i>>
<1>1. r.calls \in Seq(CallType) /\ <<kind, i>> \in CallType
  BY FieldsOf DEF CallType
<1> DEFINE q == r.calls
           x == <<kind, i>>
<1>2. CASE Pieces[i] > 0
  <2>1. Calls(r, kind, i) = Append(q, x)
    BY <1>2 DEF Calls
  <2> HIDE DEF q, x
  <2>2. /\ Append(q, x) \in Seq(CallType)
        /\ \A n \in DOMAIN Append(q, x) : Append(q, x)[n] = x \/ (n \in DOMAIN q /\ Append(q, x)[n] = q[n])
        /\ \A n \in DOMAIN q : n \in DOMAIN Append(q, x) /\ Append(q, x)[n] = q[n]
        /\ Len(q) + 1 \in DOMAIN Append(q, x) /\ Append(q, x)[Len(q) + 1] = x
    <3>1. q \in Seq(CallType) /\ x \in CallType
      BY <1>1 DEF q, x
    <3> QED BY <3>1, Appends
  <2> DEFINE a == Append(q, x)
  <2> HIDE DEF a
  <2>3. /\ a \in Seq(CallType)
        /\ \A n \in DOMAIN a : a[n] = x \/ (n \in DOMAIN q /\ a[n] = q[n])
        /\ \A n \in DOMAIN q : n \in DOMAIN a /\ a[n] = q[n]
        /\ \E k \in DOMAIN a : a[k] = x
    BY <2>2 DEF a
  <2> QED BY <1>2, <2>1, <2>3 DEF a, q, x
<1>3. CASE ~(Pieces[i] > 0)
  BY <1>1, <1>3 DEF Calls
<1> QED BY <1>2, <1>3

\* completeCurrentLocked
LEMMA Completes ==
  ASSUME NEW p, NEW r, Orderly(p, r), r.alert # NoAlert, r.calls = <<>>
  PROVE  /\ Orderly(p, Completed(r)) /\ Completed(r).alert = NoAlert
         /\ Completed(r).paused = r.paused /\ Covers(Completed(r), r)
<1> DEFINE s == Completed(r)
<1>1. r \in ProfileType /\ Own(p, r.alert) /\ r.alert \in Alerts
  BY DEF Orderly, Own
<1>2. /\ s.alert = NoAlert /\ s.phase = "none" /\ s.calls = Calls(r, "cancel", r.alert)
      /\ s.queue = r.queue /\ s.replay = r.replay /\ s.last = r.alert /\ s.paused = r.paused
      /\ s.calls \in Seq(CallType) => s \in ProfileType
  BY <1>1, FieldsOf
<1>3. /\ s.calls \in Seq(CallType)
      /\ \A k \in DOMAIN s.calls : s.calls[k] = <<"cancel", r.alert>> /\ Pieces[r.alert] > 0
      /\ Pieces[r.alert] > 0 => \E k \in DOMAIN s.calls : s.calls[k] = <<"cancel", r.alert>>
  BY <1>1, <1>2, CallsOf
<1> HIDE DEF s
<1>4. \A k \in DOMAIN s.calls : Due(p, s.alert, s.calls[k])
  BY <1>1, <1>3 DEF Due
<1>5. Orderly(p, s)
  BY <1>1, <1>2, <1>3, <1>4 DEF Orderly
<1>6. Covers(s, r)
  BY <1>3 DEF Covers, Covered
<1> QED BY <1>2, <1>5, <1>6 DEF s

\* startCurrentLocked
LEMMA Starts ==
  ASSUME NEW p, NEW r, NEW i, Orderly(p, r), r.alert = NoAlert, Own(p, i)
  PROVE  Orderly(p, Started(r, i)) /\ Covers(Started(r, i), r)
<1> DEFINE s == Started(r, i)
<1>1. r \in ProfileType /\ i \in Alerts /\ i # NoAlert
  BY AlertAssumption DEF Orderly, Own
<1>2. /\ s.alert = i /\ s.phase = "showing" /\ s.calls = Calls(r, "enqueue", i)
      /\ s.queue = r.queue /\ s.replay = r.replay /\ s.last = r.last
      /\ s.calls \in Seq(CallType) => s \in ProfileType
  BY <1>1, StartedOf
<1>3. /\ s.calls \in Seq(CallType)
      /\ \A k \in DOMAIN s.calls : \/ s.calls[k] = <<"enqueue", i>> /\ Pieces[i] > 0
                                   \/ k \in DOMAIN r.calls /\ s.calls[k] = r.calls[k]
      /\ \A k \in DOMAIN r.calls : k \in DOMAIN s.calls /\ s.calls[k] = r.calls[k]
  BY <1>1, <1>2, CallsOf
<1> HIDE DEF s
<1>4. \A k \in DOMAIN s.calls : Due(p, s.alert, s.calls[k])
  <2> SUFFICES ASSUME NEW k \in DOMAIN s.calls PROVE Due(p, s.alert, s.calls[k])
    OBVIOUS
  <2>1. CASE s.calls[k] = <<"enqueue", i>> /\ Pieces[i] > 0
    BY <1>2, <2>1 DEF Due
  <2>2. CASE k \in DOMAIN r.calls /\ s.calls[k] = r.calls[k]
    <3>1. Due(p, NoAlert, r.calls[k])
      BY <2>2 DEF Orderly
    <3> QED BY <2>2, <3>1, AlertAssumption DEF Due, Own
  <2> QED BY <1>3, <2>1, <2>2
<1>5. Orderly(p, s)
  BY <1>1, <1>2, <1>3, <1>4 DEF Orderly
<1>6. Covers(s, r)
  <2> SUFFICES ASSUME NEW j \in Alerts, Covered(r, j) PROVE Covered(s, j)
    BY DEF Covers
  <2>1. r.alert # j
    BY AlertAssumption
  <2>2. PICK k \in DOMAIN r.calls : r.calls[k] = <<"cancel", j>>
    BY <2>1 DEF Covered
  <2> QED BY <1>3, <2>2 DEF Covered
<1> QED BY <1>5, <1>6 DEF s

\* queue.enqueue
LEMMA Enqueues ==
  ASSUME NEW p, NEW r, NEW i, Orderly(p, r), Own(p, i)
  PROVE  /\ Orderly(p, Enqueued(r, i)) /\ Covers(Enqueued(r, i), r)
         /\ Enqueued(r, i).calls = r.calls
<1>1. r \in ProfileType /\ i \in Alerts /\ r.queue \in Seq(Alerts) /\ Len(r.queue) \in Nat
      /\ Len(r.queue) <= MaxItems /\ MaxItems \in Nat /\ \A k \in DOMAIN r.queue : Own(p, r.queue[k])
  <2>1. r \in ProfileType /\ i \in Alerts /\ Len(r.queue) <= MaxItems
        /\ \A k \in DOMAIN r.queue : Own(p, r.queue[k])
    BY DEF Orderly, Own
  <2>2. r.queue \in Seq(Alerts) /\ Len(r.queue) \in Nat
    BY <2>1 DEF ProfileType
  <2> QED BY <2>1, <2>2, AlertAssumption
<1>2. ASSUME NEW q \in Seq(Alerts), Len(q) <= MaxItems, \A k \in DOMAIN q : Own(p, q[k])
      PROVE  LET s == [r EXCEPT !.queue = q] IN Orderly(p, s) /\ Covers(s, r) /\ s.calls = r.calls
  <2> DEFINE s == [r EXCEPT !.queue = q]
  <2>1. /\ s.alert = r.alert /\ s.phase = r.phase /\ s.calls = r.calls
        /\ s.queue = q /\ s.replay = r.replay /\ s.last = r.last /\ s \in ProfileType
    BY <1>1, <1>2, FieldsOf
  <2> HIDE DEF s
  <2>2. Orderly(p, s) /\ Covers(s, r)
    BY <1>2, <2>1 DEF Orderly, Covers, Covered
  <2> QED BY <2>1, <2>2 DEF s
<1>3. CASE Len(r.queue) < MaxItems
  <2> DEFINE q == Append(r.queue, i)
  <2>1. /\ q \in Seq(Alerts) /\ Len(q) = Len(r.queue) + 1
        /\ \A n \in DOMAIN q : q[n] = i \/ (n \in DOMAIN r.queue /\ q[n] = r.queue[n])
    BY <1>1, Appends
  <2>2. Enqueued(r, i) = [r EXCEPT !.queue = q]
    BY <1>3 DEF Enqueued
  <2> HIDE DEF q
  <2>3. Len(q) <= MaxItems /\ \A n \in DOMAIN q : Own(p, q[n])
    BY <1>1, <1>3, <2>1
  <2> QED BY <1>2, <2>1, <2>2, <2>3
<1>4. CASE Enqueued(r, i) = r
  BY <1>4, CoversChain
<1>5. CASE ~(Len(r.queue) < MaxItems) /\ Enqueued(r, i) # r
  <2> DEFINE t == RemoveAt(r.queue, Worst(r.queue))
             q == Append(t, i)
  <2>1. r.queue # <<>> /\ Enqueued(r, i) = [r EXCEPT !.queue = q]
    BY <1>5 DEF Enqueued
  <2>2. t \in Seq(Alerts) /\ Len(t) = Len(r.queue) - 1 /\ From(t, r.queue)
    BY <1>1, <2>1, WorstOf, RemovesAt
  <2> HIDE DEF t
  <2>3. /\ q \in Seq(Alerts) /\ Len(q) = Len(t) + 1
        /\ \A n \in DOMAIN q : q[n] = i \/ (n \in DOMAIN t /\ q[n] = t[n])
    BY <1>1, <2>2, Appends
  <2> HIDE DEF q
  <2>4. Len(q) <= MaxItems
    BY <1>1, <2>2, <2>3
  <2>5. \A n \in DOMAIN q : Own(p, q[n])
    BY <1>1, <2>2, <2>3 DEF From
  <2> QED BY <1>2, <2>1, <2>3, <2>4, <2>5
<1> QED BY <1>3, <1>4, <1>5

\* preemptCurrentLocked
LEMMA Preempts ==
  ASSUME NEW p, NEW r, NEW i, Orderly(p, r), r.alert # NoAlert, r.calls = <<>>, Own(p, i)
  PROVE  Orderly(p, Preempted(r, i)) /\ Covers(Preempted(r, i), r)
<1> DEFINE s == Completed(r)
<1>1. Orderly(p, s) /\ s.alert = NoAlert /\ Covers(s, r)
  BY Completes
<1> HIDE DEF s
<1>2. Orderly(p, Started(s, i)) /\ Covers(Started(s, i), s)
  BY <1>1, Starts
<1>3. Covers(Started(s, i), r)
  BY <1>1, <1>2, CoversChain
<1> QED BY <1>2, <1>3 DEF Preempted, s

\* enqueueMatched
LEMMA OffersAll ==
  ASSUME NEW p, NEW r, NEW order, Orderly(p, r), r.calls = <<>>, Len(order) \in Nat,
         \A n \in 1 .. Len(order) : Own(p, order[n])
  PROVE  Orderly(p, Offered(r, order)) /\ Covers(Offered(r, order), r)
<1> DEFINE Good(acc) == /\ acc.done \in BOOLEAN /\ Orderly(p, acc.r) /\ Covers(acc.r, r)
                        /\ ~acc.done => acc.r.calls = <<>>
                        /\ acc = [r |-> acc.r, done |-> acc.done]
<1>1. ASSUME NEW acc, NEW i, Good(acc), Own(p, i) PROVE Good(Offer(acc, i))
  <2>1. CASE ~acc.done /\ CanPreempt(acc.r, i)
    <3>1. acc.r.alert # NoAlert
      BY <2>1 DEF CanPreempt
    <3> DEFINE s == Preempted(acc.r, i)
    <3>2. Orderly(p, s) /\ Covers(s, acc.r)
      BY <1>1, <2>1, <3>1, Preempts
    <3>3. Offer(acc, i) = [r |-> s, done |-> TRUE]
      BY <2>1 DEF Offer
    <3> HIDE DEF s
    <3>4. Covers(s, r)
      BY <1>1, <3>2, CoversChain
    <3> QED BY <3>2, <3>3, <3>4
  <2>2. CASE ~(~acc.done /\ CanPreempt(acc.r, i))
    <3> DEFINE s == Enqueued(acc.r, i)
    <3>1. Orderly(p, s) /\ Covers(s, acc.r) /\ s.calls = acc.r.calls
      BY <1>1, Enqueues
    <3>2. Offer(acc, i) = [acc EXCEPT !.r = s]
      BY <2>2 DEF Offer
    <3> HIDE DEF s
    <3>3. Offer(acc, i) = [r |-> s, done |-> acc.done]
      <4>1. acc = [r |-> acc.r, done |-> acc.done]
        BY <1>1
      <4> QED BY <3>2, <4>1
    <3>4. Covers(s, r)
      BY <1>1, <3>1, CoversChain
    <3> QED BY <1>1, <3>1, <3>3, <3>4
  <2> QED BY <2>1, <2>2
<1>2. Good([r |-> r, done |-> FALSE])
  BY CoversChain
<1>3. PICK f : /\ f[0] = [r |-> r, done |-> FALSE]
               /\ \A n \in 1 .. Len(order) : f[n] = Offer(f[n - 1], order[n])
               /\ Offered(r, order) = f[Len(order)].r
  BY Offers
<1> HIDE DEF Good
<1>4. \A n \in 0 .. Len(order) : Good(f[n])
  <2> DEFINE Bad == {n \in 0 .. Len(order) : ~Good(f[n])}
  <2> SUFFICES ASSUME Bad # {} PROVE FALSE
    OBVIOUS
  <2>1. PICK m \in Bad : \A k \in Bad : m <= k
    <3>1. Bad \in SUBSET Nat
      OBVIOUS
    <3> HIDE DEF Bad
    <3> QED BY <3>1, LeastNat
  <2>2. m \in 0 .. Len(order) /\ ~Good(f[m])
    OBVIOUS
  <2>3. m # 0
    BY <1>2, <1>3, <2>2
  <2>4. m \in 1 .. Len(order) /\ m - 1 \in 0 .. Len(order) /\ ~(m <= m - 1)
    BY <2>2, <2>3
  <2>5. Good(f[m - 1])
    <3>1. m - 1 \notin Bad
      <4> HIDE DEF Bad
      <4> QED BY <2>1, <2>4
    <3> QED BY <2>4, <3>1
  <2>6. Good(Offer(f[m - 1], order[m]))
    BY <1>1, <2>4, <2>5
  <2> QED BY <1>3, <2>2, <2>4, <2>6
<1>5. Good(f[Len(order)])
  BY <1>4
<1> QED BY <1>3, <1>5 DEF Good

\* promoteNextLocked
LEMMA Promotes ==
  ASSUME NEW p, NEW r, Orderly(p, r), r.alert = NoAlert, NEW next \in Promotions(r)
  PROVE  Orderly(p, next) /\ Covers(next, r)
<1>1. r \in ProfileType /\ r.queue \in Seq(Alerts) /\ Len(r.queue) \in Nat
      /\ Len(r.queue) <= MaxItems /\ MaxItems \in Nat /\ \A k \in DOMAIN r.queue : Own(p, r.queue[k])
  <2>1. r \in ProfileType /\ Len(r.queue) <= MaxItems
        /\ \A k \in DOMAIN r.queue : Own(p, r.queue[k])
    BY DEF Orderly
  <2>2. r.queue \in Seq(Alerts) /\ Len(r.queue) \in Nat
    BY <2>1 DEF ProfileType
  <2> QED BY <2>1, <2>2, AlertAssumption
<1>2. ASSUME NEW q \in Seq(Alerts), Len(q) <= MaxItems, \A k \in DOMAIN q : Own(p, q[k])
      PROVE  LET s == [r EXCEPT !.queue = q]
             IN Orderly(p, s) /\ Covers(s, r) /\ s.alert = NoAlert
  <2> DEFINE s == [r EXCEPT !.queue = q]
  <2>1. /\ s.alert = r.alert /\ s.phase = r.phase /\ s.calls = r.calls
        /\ s.queue = q /\ s.replay = r.replay /\ s.last = r.last /\ s \in ProfileType
    BY <1>1, <1>2, FieldsOf
  <2> HIDE DEF s
  <2>2. Orderly(p, s) /\ Covers(s, r)
    BY <1>2, <2>1 DEF Orderly, Covers, Covered
  <2> QED BY <2>1, <2>2 DEF s
<1>3. CASE r.replay # NoAlert
  <2> DEFINE s == [r EXCEPT !.replay = NoAlert]
  <2>1. next = Started(s, r.replay)
    BY <1>3 DEF Promotions
  <2>2. /\ s.alert = r.alert /\ s.phase = r.phase /\ s.calls = r.calls
        /\ s.queue = r.queue /\ s.replay = NoAlert /\ s.last = r.last /\ s \in ProfileType
    BY <1>1, FieldsOf
  <2> HIDE DEF s
  <2>3. Orderly(p, s) /\ Covers(s, r) /\ Own(p, r.replay) /\ s.alert = NoAlert
    BY <1>3, <2>2 DEF Orderly, Covers, Covered
  <2>4. Orderly(p, Started(s, r.replay)) /\ Covers(Started(s, r.replay), s)
    BY <2>3, Starts
  <2>5. Covers(Started(s, r.replay), r)
    BY <2>3, <2>4, CoversChain
  <2> QED BY <2>1, <2>4, <2>5
<1>4. CASE r.replay = NoAlert /\ next = [r EXCEPT !.queue = <<>>]
  <2>1. <<>> \in Seq(Alerts) /\ Len(<<>>) <= MaxItems /\ \A k \in DOMAIN <<>> : Own(p, <<>>[k])
    BY <1>1
  <2> QED BY <1>2, <1>4, <2>1
<1>5. CASE r.replay = NoAlert /\ next # [r EXCEPT !.queue = <<>>]
  <2>1. PICK i \in DOMAIN r.queue :
          next = Started([r EXCEPT !.queue = Keep(@, {k \in DOMAIN @ : PlaysBefore(@, i, k)})],
                         r.queue[i])
    BY <1>5 DEF Promotions
  <2> DEFINE S == {k \in DOMAIN r.queue : PlaysBefore(r.queue, i, k)}
             q == Keep(r.queue, S)
             s == [r EXCEPT !.queue = q]
  <2>2. next = Started(s, r.queue[i])
    BY <2>1
  <2>3. /\ q \in Seq(Alerts) /\ Len(q) <= Len(r.queue)
        /\ \A n \in DOMAIN q : \E k \in S : q[n] = r.queue[k]
    <3>1. S \in SUBSET DOMAIN r.queue
      OBVIOUS
    <3> HIDE DEF S
    <3> QED BY <1>1, <3>1, KeepsOf
  <2> HIDE DEF q
  <2>4. Len(q) <= MaxItems /\ \A n \in DOMAIN q : Own(p, q[n])
    BY <1>1, <2>3
  <2>5. Orderly(p, s) /\ Covers(s, r) /\ s.alert = NoAlert
    BY <1>2, <2>3, <2>4
  <2>6. Own(p, r.queue[i])
    BY <1>1
  <2> HIDE DEF s
  <2>7. Orderly(p, Started(s, r.queue[i])) /\ Covers(Started(s, r.queue[i]), s)
    BY <2>5, <2>6, Starts
  <2>8. Covers(Started(s, r.queue[i]), r)
    BY <2>5, <2>7, CoversChain
  <2> QED BY <2>2, <2>7, <2>8
<1> QED BY <1>3, <1>4, <1>5

-----------------------------------------------------------------------------
(* The audio runtime *)

CurrentType == [item : Item, bytes : {NoItem} \cup Item,
                state : {"synthesizing", "waiting", "ready", "playing"}]

\* The current item has its bytes, or its own synthesis is running
Served ==
  current # NoItem =>
    IF current.bytes = NoItem THEN current.item \in syntheses
    ELSE /\ current.bytes = current.item /\ current.item \notin syntheses
         /\ current.state = "waiting" <=> ~renderer

\* What is pending is an utterance; the current item never has the bytes of another one
AudioOK ==
  /\ current \in {NoItem} \cup CurrentType
  /\ ready \in Seq(Item) /\ pending \in Seq(Item) /\ Len(ready) + Len(pending) <= QueueCapacity
  /\ \A k \in DOMAIN pending : pending[k].of \in Utterances
  /\ endings \in [Alerts -> {"none", "ended", "failed"}]
  /\ renderer \in BOOLEAN /\ syntheses \subseteq Item
  /\ made \in [Alerts -> Nat] /\ asked \subseteq Utterances
  /\ Served

LEMMA PromotesItem ==
  ASSUME NEW it \in Item, NEW others \in SUBSET Item, Promote(it, others)
  PROVE  /\ current' \in CurrentType /\ current'.item = it /\ current'.bytes = NoItem
         /\ syntheses' = others \cup {it} /\ syntheses' \subseteq Item /\ Served'
  BY DEF CurrentType, Promote, Served

\* The queue without the items of some
LEMMA WithoutOf ==
  ASSUME NEW q \in Seq(Item), NEW gone
  PROVE  LET kept == Without(q, gone)
         IN /\ kept \in Seq(Item) /\ Len(kept) <= Len(q)
            /\ \A n \in DOMAIN kept : \E k \in DOMAIN q : kept[n] = q[k] /\ q[k].of \notin gone
<1> DEFINE S == {k \in DOMAIN q : q[k].of \notin gone}
           kept == Keep(q, S)
<1>1. S \in SUBSET DOMAIN q
  OBVIOUS
<1>2. /\ kept \in Seq(Item) /\ Len(kept) <= Len(q)
      /\ \A n \in DOMAIN kept : \E k \in S : kept[n] = q[k]
  <2> HIDE DEF S
  <2> QED BY <1>1, KeepsOf
<1>3. Without(q, gone) = kept
  BY DEF Without
<1> HIDE DEF kept
<1> QED BY <1>2, <1>3

\* The rest of a chain follows, or the current item is over
LEMMA Finishes ==
  ASSUME AudioOK, current # NoItem, NEW others \in SUBSET Item,
         \/ \E ending \in {"ended", "failed"} : Finish(ending, others)
         \/ Abort /\ others = syntheses
  PROVE  /\ current' \in {NoItem} \cup CurrentType
         /\ endings' \in [Alerts -> {"none", "ended", "failed"}]
         /\ current' # NoItem => current'.item.of = current.item.of
         /\ \A i \in Alerts : endings'[i] # "none" => endings[i] # "none" \/ current.item.of = i
         /\ syntheses' \subseteq Item /\ Served'
<1>1. current.item \in Item
  BY DEF AudioOK, CurrentType
<1>2. CASE \E ending \in {"ended", "failed"} : Finish(ending, others)
  <2>1. PICK ending \in {"ended", "failed"} : Finish(ending, others)
    BY <1>2
  <2>2. CASE current.item.more > 0
    <3> DEFINE it == [current.item EXCEPT !.more = @ - 1]
    <3>1. it \in Item /\ it.of = current.item.of
      BY <1>1, <2>2 DEF Item
    <3>2. Promote(it, others) /\ UNCHANGED endings
      BY <2>1, <2>2 DEF Finish
    <3> HIDE DEF it
    <3> QED BY <3>1, <3>2, PromotesItem DEF AudioOK
  <2>3. CASE ~(current.item.more > 0)
    <3>1. /\ current' = NoItem /\ syntheses' = others
          /\ endings' = IF current.item.of \in Alerts
                        THEN [endings EXCEPT ![current.item.of] = ending] ELSE endings
      BY <2>1, <2>3 DEF Finish
    <3> QED BY <3>1 DEF AudioOK, Served
  <2> QED BY <2>2, <2>3
<1>3. CASE Abort /\ others = syntheses
  BY <1>3 DEF Abort, AudioOK, Served
<1> QED BY <1>2, <1>3

\* Neither the renderer, nor a synthesis, nor the operator or the event pipeline makes the
\* runtime know of an alert, and none gives the current item the bytes of another one
LEMMA AudioSteps ==
  ASSUME AudioOK, AudioStep PROVE AudioOK' /\ Known' \subseteq Known
<1>0. /\ Alerts \cap Utterances = {} /\ QueueCapacity \in Nat
      /\ Len(ready) \in Nat /\ Len(pending) \in Nat
  BY AudioAssumption DEF AudioOK
<1>1. ASSUME current' \in {NoItem} \cup CurrentType,
             endings' \in [Alerts -> {"none", "ended", "failed"}],
             current' # NoItem => current # NoItem /\ current'.item.of = current.item.of,
             \A i \in Alerts : endings'[i] # "none" =>
               endings[i] # "none" \/ (current # NoItem /\ current.item.of = i),
             UNCHANGED <<ready, pending, made, asked>>, renderer' \in BOOLEAN,
             syntheses' \subseteq Item, Served'
      PROVE  AudioOK' /\ Known' \subseteq Known
  BY <1>1 DEF AudioOK, Known, IsCurrent
<1>2. ASSUME UNCHANGED <<current, endings, renderer, syntheses, made>>, asked' \subseteq Utterances,
             ready' \in Seq(Item), pending' \in Seq(Item),
             Len(ready') + Len(pending') <= QueueCapacity,
             \A k \in DOMAIN pending' : pending'[k].of \in Utterances,
             \A n \in DOMAIN ready' : \/ ready'[n].of \in Utterances
                                      \/ \E k \in DOMAIN ready : ready'[n] = ready[k]
      PROVE  AudioOK' /\ Known' \subseteq Known
  <2>1. AudioOK'
    BY <1>2 DEF AudioOK, Served
  <2>2. \A n \in DOMAIN ready' : ready'[n].of \in Alerts =>
          \E k \in DOMAIN ready : ready'[n].of = ready[k].of
    BY <1>0, <1>2
  <2> QED BY <1>2, <2>1, <2>2 DEF Known, IsCurrent
<1>3. ASSUME NEW u \in Utterances, Ask(u) PROVE AudioOK' /\ Known' \subseteq Known
  <2> DEFINE it == [of |-> u, nth |-> 0, more |-> 0]
  <2>1. it \in Item /\ it.of \in Utterances
    BY DEF Item
  <2>2. \/ Room /\ ready' = Append(ready, it) /\ pending' = pending
        \/ Room /\ pending' = Append(pending, it) /\ ready' = ready
        \/ ready' = ready /\ pending' = pending
    BY <1>3 DEF Ask
  <2>3. UNCHANGED <<current, endings, renderer, syntheses, made>> /\ asked' \subseteq Utterances
    BY <1>3 DEF Ask, AudioOK
  <2> HIDE DEF it
  <2>4. /\ ready \in Seq(Item) /\ pending \in Seq(Item)
        /\ \A k \in DOMAIN pending : pending[k].of \in Utterances
        /\ Len(ready) + Len(pending) <= QueueCapacity
    BY DEF AudioOK
  <2>5. CASE Room /\ ready' = Append(ready, it) /\ pending' = pending
    <3>1. /\ ready' \in Seq(Item) /\ Len(ready') = Len(ready) + 1
          /\ \A n \in DOMAIN ready' : ready'[n] = it \/ (n \in DOMAIN ready /\ ready'[n] = ready[n])
      BY <2>1, <2>4, <2>5, Appends
    <3>2. Len(ready') + Len(pending') <= QueueCapacity
      BY <1>0, <2>5, <3>1 DEF Room
    <3>3. \A n \in DOMAIN ready' : \/ ready'[n].of \in Utterances
                                   \/ \E k \in DOMAIN ready : ready'[n] = ready[k]
      BY <2>1, <3>1
    <3> QED BY <1>2, <2>3, <2>4, <2>5, <3>1, <3>2, <3>3
  <2>6. CASE Room /\ pending' = Append(pending, it) /\ ready' = ready
    <3>1. /\ pending' \in Seq(Item) /\ Len(pending') = Len(pending) + 1
          /\ \A n \in DOMAIN pending' :
               pending'[n] = it \/ (n \in DOMAIN pending /\ pending'[n] = pending[n])
      BY <2>1, <2>4, <2>6, Appends
    <3>2. Len(ready') + Len(pending') <= QueueCapacity
      BY <1>0, <2>6, <3>1 DEF Room
    <3>3. \A n \in DOMAIN pending' : pending'[n].of \in Utterances
      BY <2>1, <2>4, <3>1
    <3> QED BY <1>2, <2>3, <2>4, <2>6, <3>1, <3>2, <3>3
  <2>7. CASE ready' = ready /\ pending' = pending
    BY <1>2, <2>3, <2>4, <2>7
  <2> QED BY <2>2, <2>5, <2>6, <2>7
<1>4. ASSUME NEW i \in DOMAIN pending, Decide(i) PROVE AudioOK' /\ Known' \subseteq Known
  <2>1. /\ ready \in Seq(Item) /\ pending \in Seq(Item)
        /\ \A k \in DOMAIN pending : pending[k].of \in Utterances
        /\ Len(ready) + Len(pending) <= QueueCapacity /\ pending[i] \in Item
    BY DEF AudioOK
  <2>2. /\ UNCHANGED <<current, endings, renderer, syntheses, made>> /\ asked' \subseteq Utterances
        /\ pending' = RemoveAt(pending, i)
        /\ ready' = Append(ready, pending[i]) \/ ready' = ready
    BY <1>4 DEF Decide, AudioOK
  <2>3. /\ pending' \in Seq(Item) /\ Len(pending') = Len(pending) - 1
        /\ \A n \in DOMAIN pending' : pending'[n].of \in Utterances
    <3>1. /\ RemoveAt(pending, i) \in Seq(Item) /\ Len(RemoveAt(pending, i)) = Len(pending) - 1
          /\ From(RemoveAt(pending, i), pending)
      BY <2>1, RemovesAt
    <3> QED BY <2>1, <2>2, <3>1 DEF From
  <2>4. CASE ready' = Append(ready, pending[i])
    <3>1. /\ ready' \in Seq(Item) /\ Len(ready') = Len(ready) + 1
          /\ \A n \in DOMAIN ready' :
               ready'[n] = pending[i] \/ (n \in DOMAIN ready /\ ready'[n] = ready[n])
      BY <2>1, <2>4, Appends
    <3>2. Len(ready') + Len(pending') <= QueueCapacity
      BY <1>0, <2>1, <2>3, <3>1
    <3>3. \A n \in DOMAIN ready' : \/ ready'[n].of \in Utterances
                                   \/ \E k \in DOMAIN ready : ready'[n] = ready[k]
      BY <2>1, <3>1
    <3> QED BY <1>2, <2>2, <2>3, <3>1, <3>2, <3>3
  <2>5. CASE ready' = ready
    <3>1. Len(ready') + Len(pending') <= QueueCapacity
      BY <1>0, <2>1, <2>3, <2>5
    <3> QED BY <1>2, <2>1, <2>2, <2>3, <2>5, <3>1
  <2> QED BY <2>2, <2>4, <2>5
<1>5. CASE ClearAudio
  <2>1. /\ ready' = <<>> /\ pending' = <<>> /\ UNCHANGED <<current, endings, renderer, syntheses, made>>
        /\ asked' \subseteq Utterances
    BY <1>5 DEF ClearAudio, AudioOK
  <2>2. <<>> \in Seq(Item) /\ Len(<<>>) = 0 /\ DOMAIN <<>> = {}
    OBVIOUS
  <2> QED BY <1>0, <1>2, <2>1, <2>2
<1>6. CASE AudioTick
  <2>1. PICK gone \in SUBSET (asked \cap {ready[k].of : k \in DOMAIN ready}) :
          LET kept == Without(ready, gone)
              next == current = NoItem /\ renderer /\ kept # <<>>
          IN  /\ ready' = IF next THEN Tail(kept) ELSE kept
              /\ IF next THEN Promote(Head(kept), syntheses) ELSE UNCHANGED <<current, syntheses>>
              /\ UNCHANGED <<pending, endings, renderer, made, asked>>
    BY <1>6 DEF AudioTick
  <2> DEFINE kept == Without(ready, gone)
             next == current = NoItem /\ renderer /\ kept # <<>>
  <2>2. /\ ready' = (IF next THEN Tail(kept) ELSE kept)
        /\ IF next THEN Promote(Head(kept), syntheses) ELSE UNCHANGED <<current, syntheses>>
        /\ UNCHANGED <<pending, endings, renderer, made, asked>>
    BY <2>1
  <2>3. /\ kept \in Seq(Item) /\ Len(kept) <= Len(ready)
        /\ \A n \in DOMAIN kept : \E k \in DOMAIN ready : kept[n] = ready[k]
    BY WithoutOf DEF AudioOK
  <2> HIDE DEF kept
  <2>4. CASE ~next
    <3>1. /\ ready' = kept
          /\ UNCHANGED <<current, pending, endings, renderer, syntheses, made, asked>>
      BY <2>2, <2>4
    <3>2. Len(ready') + Len(pending') <= QueueCapacity
      BY <1>0, <2>3, <3>1 DEF AudioOK
    <3> QED BY <1>2, <2>3, <3>1, <3>2 DEF AudioOK
  <2>5. CASE next
    <3>1. /\ Head(kept) \in Item /\ Head(kept) = kept[1] /\ 1 \in DOMAIN kept
          /\ Tail(kept) \in Seq(Item) /\ Len(Tail(kept)) = Len(kept) - 1 /\ From(Tail(kept), kept)
      BY <2>3, <2>5, Tails
    <3>2. /\ ready' = Tail(kept) /\ Promote(Head(kept), syntheses)
          /\ UNCHANGED <<pending, endings, renderer, made, asked>>
      BY <2>2, <2>5
    <3>3. /\ current' \in CurrentType /\ syntheses' \subseteq Item /\ Served'
          /\ \E k \in DOMAIN ready : current'.item.of = ready[k].of
      <4>1. syntheses \in SUBSET Item /\ Head(kept) \in Item
        BY <3>1 DEF AudioOK
      <4>2. /\ current' \in CurrentType /\ current'.item = Head(kept)
            /\ syntheses' \subseteq Item /\ Served'
        BY <3>2, <4>1, PromotesItem
      <4> QED BY <2>3, <3>1, <4>2
    <3>4. Len(ready') + Len(pending') <= QueueCapacity
      BY <1>0, <2>3, <3>1, <3>2 DEF AudioOK
    <3>5. AudioOK'
      BY <3>1, <3>2, <3>3, <3>4 DEF AudioOK
    <3>6. \A n \in DOMAIN ready' : \E k \in DOMAIN ready : ready'[n] = ready[k]
      BY <2>3, <3>1, <3>2 DEF From
    <3>7. Known' \subseteq Known
      BY <3>2, <3>3, <3>6 DEF Known, IsCurrent
    <3> QED BY <3>5, <3>7
  <2> QED BY <2>4, <2>5
<1>7. CASE SkipAudio
  <2>1. current # NoItem /\ Abort /\ UNCHANGED <<ready, pending, renderer, made, asked>>
    BY <1>7 DEF SkipAudio
  <2> QED BY <1>1, <2>1, Finishes DEF AudioOK
<1>8. ASSUME NEW it \in syntheses, SynthesisEnds(it)
      PROVE  AudioOK' /\ Known' \subseteq Known
  <2> DEFINE others == syntheses \ {it}
  <2>1. /\ UNCHANGED <<ready, pending, renderer, made, asked>>
        /\ it \in Item /\ others \in SUBSET Item /\ others \subseteq syntheses
    BY <1>8 DEF SynthesisEnds, AudioOK
  <2>2. CASE Discarded(it) /\ syntheses' = others /\ UNCHANGED <<current, endings>>
    <3>1. Served'
      <4>1. /\ current' = current /\ renderer' = renderer /\ Served
            /\ current # NoItem => current.item # it
        BY <2>1, <2>2 DEF AudioOK, Discarded
      <4>2. /\ current.item \in syntheses /\ current.item # it => current.item \in syntheses'
            /\ current.item \notin syntheses => current.item \notin syntheses'
        BY <2>2
      <4> QED BY <4>1, <4>2 DEF Served
    <3> QED BY <1>1, <2>1, <2>2, <3>1 DEF AudioOK
  <2>3. CASE ~Discarded(it) /\ Finish("failed", others)
    <3> HIDE DEF others
    <3> QED BY <1>1, <2>1, <2>3, Finishes DEF AudioOK, Discarded
  <2>4. CASE /\ ~Discarded(it) /\ syntheses' = others /\ UNCHANGED endings
             /\ current' = [current EXCEPT !.bytes = it,
                                           !.state = IF renderer THEN "ready" ELSE "waiting"]
    <3>1. current # NoItem /\ current \in CurrentType /\ it = current.item
      BY <2>4 DEF Discarded, AudioOK
    <3>2. /\ current' \in CurrentType /\ current'.item = it /\ current'.bytes = it
          /\ current'.state = IF renderer THEN "ready" ELSE "waiting"
      BY <2>1, <2>4, <3>1 DEF CurrentType
    <3>3. Served'
      <4>1. it # NoItem /\ it \notin syntheses' /\ renderer' = renderer /\ renderer \in BOOLEAN
        BY <2>1, <2>4, AudioAssumption DEF AudioOK
      <4> QED BY <3>2, <4>1 DEF Served
    <3> QED BY <1>1, <2>1, <2>4, <3>1, <3>2, <3>3 DEF AudioOK
  <2> QED BY <1>8, <2>2, <2>3, <2>4 DEF SynthesisEnds
\* The current item stays the same, but for its state
<1>9. ASSUME NEW state \in {"waiting", "ready", "playing"}, current # NoItem,
             current' = [current EXCEPT !.state = state], UNCHANGED syntheses,
             current.bytes # NoItem => (state = "waiting" <=> ~renderer')
      PROVE  current' \in CurrentType /\ current'.item.of = current.item.of /\ Served'
  <2>1. current \in CurrentType
    BY <1>9 DEF AudioOK
  <2>2. /\ current' \in CurrentType /\ current'.item = current.item
        /\ current'.bytes = current.bytes /\ current'.state = state
    BY <1>9, <2>1 DEF CurrentType
  <2> QED BY <1>9, <2>2 DEF AudioOK, Served
<1>10. CASE Connect
  <2>1. /\ ~renderer /\ renderer' = TRUE
        /\ UNCHANGED <<ready, pending, endings, syntheses, made, asked>>
    BY <1>10 DEF Connect
  <2>2. CASE ~(current # NoItem /\ current.state = "waiting")
    <3>1. current' = current
      BY <1>10, <2>2 DEF Connect
    <3>2. Served'
      BY <2>1, <2>2, <3>1 DEF AudioOK, Served
    <3> QED BY <1>1, <2>1, <3>1, <3>2 DEF AudioOK
  <2>3. CASE current # NoItem /\ current.state = "waiting"
    <3>1. current' = [current EXCEPT !.state = "ready"]
      BY <1>10, <2>3 DEF Connect
    <3> QED BY <1>1, <1>9, <2>1, <2>3, <3>1 DEF AudioOK
  <2> QED BY <2>2, <2>3
<1>11. CASE Disconnect
  <2>1. renderer' = FALSE /\ UNCHANGED <<ready, pending, made, asked>>
    BY <1>11 DEF Disconnect
  <2>2. CASE current = NoItem /\ UNCHANGED <<current, endings, syntheses>>
    <3>1. Served'
      BY <2>2 DEF Served
    <3> QED BY <1>1, <2>1, <2>2, <3>1 DEF AudioOK
  <2>3. CASE current # NoItem /\ Abort
    BY <1>1, <2>1, <2>3, Finishes DEF AudioOK
  <2>4. CASE /\ current # NoItem /\ current' = [current EXCEPT !.state = "waiting"]
             /\ UNCHANGED <<endings, syntheses>>
    BY <1>1, <1>9, <2>1, <2>4 DEF AudioOK
  <2> QED BY <1>11, <2>2, <2>3, <2>4 DEF Disconnect
<1>12. CASE Ack
  <2>1. /\ UNCHANGED <<ready, pending, renderer, made, asked>>
        /\ renderer /\ current # NoItem /\ current.bytes # NoItem
    BY <1>12 DEF Ack
  <2>2. CASE current' = [current EXCEPT !.state = "playing"] /\ UNCHANGED <<endings, syntheses>>
    BY <1>1, <1>9, <2>1, <2>2 DEF AudioOK
  <2>3. CASE Finish("ended", syntheses) \/ Finish("failed", syntheses)
    BY <1>1, <2>1, <2>3, Finishes DEF AudioOK
  <2> QED BY <1>12, <2>2, <2>3 DEF Ack
<1> QED
  BY <1>3, <1>4, <1>5, <1>6, <1>7, <1>8, <1>10, <1>11, <1>12 DEF AudioStep

\* The runtime takes the sound of an alert, or refuses it; it comes to know of no other alert
LEMMA EnqueuesAudio ==
  ASSUME AudioOK, NEW i \in Alerts, Pieces[i] > 0, EnqueueAlertAudio(i)
  PROVE  AudioOK' /\ Known' \subseteq Known \cup {i}
<1> DEFINE first == [of |-> i, nth |-> made[i], more |-> Pieces[i] - 1]
<1>1. first \in Item /\ first.of = i
  BY AudioAssumption DEF Item, AudioOK
<1>2. /\ Len(ready) \in Nat /\ Len(pending) \in Nat /\ ready \in Seq(Item)
      /\ Len(ready) + Len(pending) <= QueueCapacity /\ QueueCapacity \in Nat
  BY AudioAssumption DEF AudioOK
<1>3. made' \in [Alerts -> Nat] /\ UNCHANGED <<pending, renderer, asked>>
  BY DEF EnqueueAlertAudio, AudioOK
<1>4. CASE current # NoItem /\ current.item.of \in Alerts /\ Room
  <2>1. ready' = Append(ready, first) /\ UNCHANGED <<current, syntheses, endings>>
    BY <1>4 DEF EnqueueAlertAudio
  <2> HIDE DEF first
  <2>2. /\ ready' \in Seq(Item) /\ Len(ready') = Len(ready) + 1
        /\ \A n \in DOMAIN ready' : ready'[n] = first \/ (n \in DOMAIN ready /\ ready'[n] = ready[n])
    BY <1>1, <1>2, <2>1, Appends
  <2>3. Len(ready') + Len(pending') <= QueueCapacity
    BY <1>2, <1>3, <1>4, <2>2 DEF Room
  <2>4. AudioOK'
    BY <1>3, <2>1, <2>2, <2>3 DEF AudioOK, Served
  <2>5. Known' \subseteq Known \cup {i}
    BY <1>1, <2>1, <2>2 DEF Known, IsCurrent
  <2> QED BY <2>4, <2>5
<1>5. CASE current # NoItem /\ current.item.of \in Alerts /\ ~Room
  <2>1. endings' = [endings EXCEPT ![i] = "failed"] /\ UNCHANGED <<current, syntheses, ready>>
    BY <1>5 DEF EnqueueAlertAudio
  <2>2. /\ endings' \in [Alerts -> {"none", "ended", "failed"}]
        /\ \A j \in Alerts \ {i} : endings'[j] = endings[j]
    BY <2>1 DEF AudioOK
  <2>3. AudioOK'
    BY <1>3, <2>1, <2>2 DEF AudioOK, Served
  <2>4. Known' \subseteq Known \cup {i}
    BY <2>1, <2>2 DEF Known, IsCurrent
  <2> QED BY <2>3, <2>4
<1>6. CASE ~(current # NoItem /\ current.item.of \in Alerts)
  <2>1. Promote(first, syntheses) /\ UNCHANGED <<ready, endings>>
    BY <1>6 DEF EnqueueAlertAudio
  <2> HIDE DEF first
  <2>2. /\ current' \in CurrentType /\ current'.item.of = i /\ syntheses' \subseteq Item
        /\ Served'
    BY <1>1, <2>1, PromotesItem DEF AudioOK
  <2>3. AudioOK'
    BY <1>3, <2>1, <2>2 DEF AudioOK
  <2>4. Known' \subseteq Known \cup {i}
    BY <2>1, <2>2 DEF Known, IsCurrent
  <2> QED BY <2>3, <2>4
<1> QED BY <1>4, <1>5, <1>6

\* The runtime knows no more of an alert whose sound was cancelled
LEMMA CancelsAudio ==
  ASSUME AudioOK, NEW i \in Alerts, CancelAlertAudio(i)
  PROVE  AudioOK' /\ Known' \subseteq Known \ {i}
<1>1. /\ Len(ready) \in Nat /\ Len(pending) \in Nat /\ ready \in Seq(Item)
      /\ Len(ready) + Len(pending) <= QueueCapacity /\ QueueCapacity \in Nat
  BY AudioAssumption DEF AudioOK
<1>2. /\ ready' = Without(ready, {i}) /\ endings' = [endings EXCEPT ![i] = "none"]
      /\ UNCHANGED <<pending, renderer, syntheses, made, asked>>
      /\ current' = IF IsCurrent(i) THEN NoItem ELSE current
  BY DEF CancelAlertAudio
<1>3. /\ ready' \in Seq(Item) /\ Len(ready') <= Len(ready) /\ Len(ready') \in Nat
      /\ \A n \in DOMAIN ready' : \E k \in DOMAIN ready : ready'[n] = ready[k] /\ ready[k].of # i
  <2>1. /\ Without(ready, {i}) \in Seq(Item) /\ Len(Without(ready, {i})) <= Len(ready)
        /\ \A n \in DOMAIN Without(ready, {i}) :
             \E k \in DOMAIN ready : Without(ready, {i})[n] = ready[k] /\ ready[k].of \notin {i}
    BY <1>1, WithoutOf
  <2>2. ready' \in Seq(Item) => Len(ready') \in Nat
    OBVIOUS
  <2> QED BY <1>2, <2>1, <2>2
<1>4. /\ endings' \in [Alerts -> {"none", "ended", "failed"}]
      /\ endings'[i] = "none" /\ \A j \in Alerts \ {i} : endings'[j] = endings[j]
  BY <1>2 DEF AudioOK
<1>5. /\ current' \in {NoItem} \cup CurrentType /\ Served'
      /\ current' # NoItem => current' = current /\ current.item.of # i
  BY <1>2 DEF AudioOK, IsCurrent, Served
<1>6. Len(ready') + Len(pending') <= QueueCapacity
  BY <1>1, <1>2, <1>3
<1>7. AudioOK'
  BY <1>2, <1>3, <1>4, <1>5, <1>6 DEF AudioOK
<1>8. Known' \subseteq Known \ {i}
  BY <1>3, <1>4, <1>5 DEF Known, IsCurrent
<1> QED BY <1>7, <1>8

-----------------------------------------------------------------------------
(* The invariant *)

Handled ==
  /\ profile \in [Profiles -> ProfileType]
  /\ \A p \in Profiles : Orderly(p, profile[p])

Recorded ==
  /\ arrived \subseteq Alerts /\ checked \subseteq Synthetic
  /\ commands \in [Profiles -> Nat] /\ \A p \in Profiles : commands[p] <= MaxCommands[p]
  /\ orphaned \subseteq Alerts

\* The sounds there are, are those of alerts that have one, each of them shown or about to
\* be cancelled
Sounds ==
  \A i \in Known : /\ Pieces[i] > 0
                   /\ i \notin orphaned => Covered(profile[ProfileOf[i]], i)

PlaybackInv == AudioOK /\ Handled /\ Recorded /\ Sounds

LEMMA PlaybackStarts == Init => PlaybackInv
<1> SUFFICES ASSUME Init PROVE PlaybackInv
  OBVIOUS
<1>1. AudioOK
  <2>1. <<>> \in Seq(Item) /\ Len(<<>>) = 0 /\ DOMAIN <<>> = {}
    OBVIOUS
  <2>2. /\ current = NoItem /\ ready = <<>> /\ pending = <<>> /\ asked = {}
        /\ endings \in [Alerts -> {"none", "ended", "failed"}] /\ renderer \in BOOLEAN
        /\ syntheses = {} /\ made \in [Alerts -> Nat]
    BY DEF Init, AudioInit
  <2>3. Len(ready) + Len(pending) <= QueueCapacity
    BY <2>1, <2>2, AudioAssumption
  <2> QED BY <2>1, <2>2, <2>3 DEF AudioOK, Served
<1>2. Known = {}
  BY DEF Init, AudioInit, Known, IsCurrent
<1>3. Handled
  <2> DEFINE r == [enabled |-> TRUE, paused |-> FALSE, alert |-> NoAlert, phase |-> "none",
                   queue |-> <<>>, replay |-> NoAlert, last |-> NoAlert, calls |-> <<>>]
  <2>1. r \in ProfileType
    BY DEF ProfileType
  <2>2. /\ r.alert = NoAlert /\ r.phase = "none" /\ r.queue = <<>> /\ r.replay = NoAlert
        /\ r.last = NoAlert /\ r.calls = <<>>
    OBVIOUS
  <2> HIDE DEF r
  <2>3. \A p : Orderly(p, r)
    BY <2>1, <2>2, AlertAssumption DEF Orderly
  <2>4. profile = [p \in Profiles |-> r]
    BY DEF Init, PlaybackInit, r
  <2> QED BY <2>1, <2>3, <2>4 DEF Handled
<1>4. Recorded
  BY AlertAssumption DEF Init, PlaybackInit, Recorded
<1> QED BY <1>1, <1>2, <1>3, <1>4 DEF PlaybackInv, Sounds

\* A handler that leaves its profile in order and forgets no sound, the runtime learning
\* of none meanwhile
LEMMA HandlerKeeps ==
  ASSUME PlaybackInv, NEW p \in Profiles, NEW next,
         profile' = [profile EXCEPT ![p] = next],
         Orderly(p, next), Covers(next, profile[p]),
         AudioOK', Recorded', Known' \subseteq Known, UNCHANGED orphaned
  PROVE  PlaybackInv'
<1>1. next \in ProfileType
  BY DEF Orderly
<1>2. /\ profile' \in [Profiles -> ProfileType] /\ profile'[p] = next
      /\ \A o \in Profiles \ {p} : profile'[o] = profile[o]
  BY <1>1 DEF PlaybackInv, Handled
<1>3. Handled'
  BY <1>2 DEF PlaybackInv, Handled
<1>4. Sounds'
  <2> SUFFICES ASSUME NEW i \in Known'
               PROVE  /\ Pieces[i] > 0
                      /\ i \notin orphaned => Covered(profile'[ProfileOf[i]], i)
    BY DEF Sounds
  <2>1. i \in Alerts /\ ProfileOf[i] \in Profiles /\ i \in Known
    BY AlertAssumption DEF Known
  <2>2. Pieces[i] > 0 /\ (i \notin orphaned => Covered(profile[ProfileOf[i]], i))
    BY <2>1 DEF PlaybackInv, Sounds
  <2> QED BY <1>2, <2>1, <2>2 DEF Covers
<1> QED BY <1>3, <1>4 DEF PlaybackInv

\* The commands of the operator are counted, and nothing else of what is recorded changes
LEMMA CommandRecords ==
  ASSUME PlaybackInv, NEW p \in Profiles, Command(p), orphaned' \subseteq Alerts
  PROVE  Recorded' /\ AudioOK' /\ Known' = Known
<1>1. commands' \in [Profiles -> Nat] /\ \A o \in Profiles : commands'[o] <= MaxCommands[o]
  <2>1. /\ commands \in [Profiles -> Nat] /\ \A o \in Profiles : commands[o] <= MaxCommands[o]
        /\ commands' = [commands EXCEPT ![p] = @ + 1] /\ commands[p] < MaxCommands[p]
    BY DEF PlaybackInv, Recorded, Command
  <2>2. commands[p] \in Nat /\ MaxCommands[p] \in Nat
    BY <2>1, AlertAssumption
  <2>3. commands[p] + 1 \in Nat /\ commands[p] + 1 <= MaxCommands[p]
    BY <2>1, <2>2
  <2> QED BY <2>1, <2>3
<1>2. Recorded'
  BY <1>1 DEF PlaybackInv, Recorded, Command
<1>3. UNCHANGED audioVars
  BY DEF Command
<1>4. AudioOK' /\ Known' = Known
  BY <1>3 DEF PlaybackInv, AudioOK, Served, Known, IsCurrent, audioVars
<1> QED BY <1>2, <1>4

-----------------------------------------------------------------------------
(* The steps *)

LEMMA MatchKeeps ==
  ASSUME PlaybackInv, NEW event \in Events, Match(event) PROVE PlaybackInv'
<1> DEFINE p == ProfileOf[CHOOSE i \in event : TRUE]
<1>1. /\ event \subseteq Alerts /\ IsFiniteSet(event)
      /\ p \in Profiles /\ \A i \in event : Own(p, i)
  BY AlertAssumption DEF Own
<1> HIDE DEF p
<1>2. /\ Free(p) /\ arrived' = arrived \cup event
      /\ IF profile[p].enabled
         THEN \E order \in Orders(event) : profile' = [profile EXCEPT ![p] = Offered(@, order)]
         ELSE UNCHANGED profile
      /\ UNCHANGED <<audioVars, checked, commands, orphaned>>
  BY DEF Match, p
<1>3. AudioOK' /\ Known' = Known /\ Recorded'
  BY <1>1, <1>2 DEF PlaybackInv, AudioOK, Served, Known, IsCurrent, audioVars, Recorded
<1>4. CASE profile[p].enabled
  <2>1. PICK order \in Orders(event) : profile' = [profile EXCEPT ![p] = Offered(@, order)]
    BY <1>2, <1>4
  <2> DEFINE c == Cardinality(event)
  <2>2. c \in Nat
    BY <1>1, FS_CardinalityType
  <2>3. order \in [1 .. c -> event]
    BY DEF Orders
  <2> HIDE DEF c
  <2>4. Len(order) = c /\ \A n \in 1 .. Len(order) : order[n] \in event
    BY <2>2, <2>3
  <2>5. Orderly(p, profile[p]) /\ profile[p].calls = <<>>
    BY <1>1, <1>2 DEF PlaybackInv, Handled, Free
  <2> DEFINE next == Offered(profile[p], order)
  <2>6. Orderly(p, next) /\ Covers(next, profile[p])
    <3>1. \A n \in 1 .. Len(order) : Own(p, order[n])
      BY <1>1, <2>4
    <3> QED BY <2>2, <2>4, <2>5, <3>1, OffersAll
  <2>7. profile' = [profile EXCEPT ![p] = next]
    BY <2>1
  <2> HIDE DEF next
  <2> QED BY <1>1, <1>2, <1>3, <2>6, <2>7, HandlerKeeps
<1>5. CASE ~profile[p].enabled
  BY <1>2, <1>3, <1>5 DEF PlaybackInv, Handled, Sounds
<1> QED BY <1>4, <1>5

LEMMA EnqueueTestKeeps ==
  ASSUME PlaybackInv, NEW i \in Synthetic, EnqueueTest(i) PROVE PlaybackInv'
<1> DEFINE p == ProfileOf[i]
           next == IF CanPreempt(profile[p], i) THEN Preempted(profile[p], i)
                   ELSE Enqueued(profile[p], i)
<1>1. p \in Profiles /\ Own(p, i)
  BY AlertAssumption DEF Own
<1>2. /\ Free(p) /\ checked' = checked \ {i} /\ profile' = [profile EXCEPT ![p] = next]
      /\ UNCHANGED <<audioVars, arrived, commands, orphaned>>
  BY DEF EnqueueTest
<1>3. Orderly(p, profile[p]) /\ profile[p].calls = <<>>
  BY <1>1, <1>2 DEF PlaybackInv, Handled, Free
<1>4. AudioOK' /\ Known' = Known /\ Recorded'
  BY <1>1, <1>2 DEF PlaybackInv, AudioOK, Served, Known, IsCurrent, audioVars, Recorded
<1>5. Orderly(p, next) /\ Covers(next, profile[p])
  <2>1. CASE CanPreempt(profile[p], i)
    <3>1. profile[p].alert # NoAlert
      BY <2>1 DEF CanPreempt
    <3>2. Orderly(p, Preempted(profile[p], i)) /\ Covers(Preempted(profile[p], i), profile[p])
      BY <1>1, <1>3, <3>1, Preempts
    <3> QED BY <2>1, <3>2
  <2>2. CASE ~CanPreempt(profile[p], i)
    <3>1. Orderly(p, Enqueued(profile[p], i)) /\ Covers(Enqueued(profile[p], i), profile[p])
      BY <1>1, <1>3, Enqueues
    <3> QED BY <2>2, <3>1
  <2> QED BY <2>1, <2>2
<1> HIDE DEF next
<1> QED BY <1>1, <1>2, <1>4, <1>5, HandlerKeeps

LEMMA TickKeeps ==
  ASSUME PlaybackInv, NEW p \in Profiles, Tick(p) PROVE PlaybackInv'
<1> DEFINE r == profile[p]
           over == r.phase \in {"due", "overdue"} /\ ~Holds(r)
           done == IF over THEN Completed(r) ELSE r
<1>1. PICK next \in IF done.paused \/ done.alert # NoAlert THEN {done} ELSE Promotions(done) :
        /\ profile' = [profile EXCEPT ![p] = next]
        /\ endings' = IF r.phase = "due" /\ over THEN [endings EXCEPT ![r.alert] = "none"]
                      ELSE endings
  BY DEF Tick
<1>2. /\ UNCHANGED <<current, ready, pending, renderer, syntheses, made, asked>>
      /\ UNCHANGED <<arrived, checked, commands, orphaned>> /\ r.calls = <<>>
  BY DEF Tick, Ticks
<1>3. /\ endings' \in [Alerts -> {"none", "ended", "failed"}]
      /\ \A i \in Alerts : endings'[i] # "none" => endings[i] # "none"
  <2> HIDE DEF over
  <2> QED BY <1>1 DEF PlaybackInv, AudioOK
<1>4. AudioOK' /\ Known' \subseteq Known /\ Recorded'
  BY <1>2, <1>3 DEF PlaybackInv, AudioOK, Served, Known, IsCurrent, Recorded
<1>5. Orderly(p, r)
  BY DEF PlaybackInv, Handled
<1>6. Orderly(p, done) /\ Covers(done, r)
  <2>1. CASE over
    <3>1. r.alert # NoAlert
      BY <1>5, <2>1 DEF Orderly
    <3>2. Orderly(p, Completed(r)) /\ Covers(Completed(r), r)
      BY <1>2, <1>5, <3>1, Completes
    <3> QED BY <2>1, <3>2
  <2>2. CASE ~over
    BY <1>5, <2>2, CoversChain
  <2> QED BY <2>1, <2>2
<1> HIDE DEF done
<1>7. Orderly(p, next) /\ Covers(next, r)
  <2>1. CASE done.paused \/ done.alert # NoAlert
    BY <1>1, <1>6, <2>1
  <2>2. CASE ~(done.paused \/ done.alert # NoAlert)
    <3>1. next \in Promotions(done) /\ done.alert = NoAlert
      BY <1>1, <2>2
    <3>2. Orderly(p, next) /\ Covers(next, done)
      BY <1>6, <3>1, Promotes
    <3>3. Covers(next, r)
      BY <1>6, <3>2, CoversChain
    <3> QED BY <3>2, <3>3
  <2> QED BY <2>1, <2>2
<1>8. profile' = [profile EXCEPT ![p] = next]
  BY <1>1
<1> QED BY <1>2, <1>4, <1>7, <1>8, HandlerKeeps

LEMMA SkipKeeps ==
  ASSUME PlaybackInv, NEW p \in Profiles, Skip(p) PROVE PlaybackInv'
<1> DEFINE done == Completed(profile[p])
<1>1. PICK next \in IF done.paused THEN {done} ELSE Promotions(done) :
        profile' = [profile EXCEPT ![p] = next]
  BY DEF Skip
<1>2. Command(p) /\ UNCHANGED orphaned /\ profile[p].alert # NoAlert /\ profile[p].calls = <<>>
  BY DEF Skip, Command, Free
<1>3. orphaned' \subseteq Alerts
  BY <1>2 DEF PlaybackInv, Recorded
<1>4. Recorded' /\ AudioOK' /\ Known' = Known
  BY <1>2, <1>3, CommandRecords
<1>5. Orderly(p, profile[p])
  BY DEF PlaybackInv, Handled
<1>6. Orderly(p, done) /\ Covers(done, profile[p]) /\ done.alert = NoAlert
  BY <1>2, <1>5, Completes
<1> HIDE DEF done
<1>7. Orderly(p, next) /\ Covers(next, profile[p])
  <2>1. CASE done.paused
    BY <1>1, <1>6, <2>1
  <2>2. CASE ~done.paused
    <3>1. Orderly(p, next) /\ Covers(next, done)
      BY <1>1, <1>6, <2>2, Promotes
    <3>2. Covers(next, profile[p])
      BY <1>6, <3>1, CoversChain
    <3> QED BY <3>1, <3>2
  <2> QED BY <2>1, <2>2
<1> QED BY <1>1, <1>2, <1>4, <1>7, HandlerKeeps

\* The steps that change a field or two of a profile: time, and four of the commands
LEMMA SettingsKeep ==
  ASSUME PlaybackInv, NEW p \in Profiles,
         Elapse(p) \/ Pause(p) \/ Replay(p) \/ Clear(p) \/ Enable(p)
  PROVE  PlaybackInv'
<1> DEFINE r == profile[p]
<1>1. Orderly(p, r) /\ r \in ProfileType
  BY DEF PlaybackInv, Handled, Orderly
<1>2. ASSUME NEW next \in ProfileType, profile' = [profile EXCEPT ![p] = next],
             next.alert = r.alert, next.calls = r.calls, next.last = r.last,
             next.phase = "none" <=> r.phase = "none",
             next.queue = r.queue \/ next.queue = <<>>,
             next.replay \in {r.replay, r.last, NoAlert},
             AudioOK', Recorded', Known' = Known, UNCHANGED orphaned
      PROVE  PlaybackInv'
  <2>1. Len(next.queue) <= MaxItems /\ \A k \in DOMAIN next.queue : Own(p, next.queue[k])
    <3>1. CASE next.queue = r.queue
      BY <1>1, <3>1 DEF Orderly
    <3>2. CASE next.queue = <<>>
      BY <3>2, AlertAssumption
    <3> QED BY <1>2, <3>1, <3>2
  <2>2. Orderly(p, next)
    BY <1>1, <1>2, <2>1 DEF Orderly
  <2>3. Covers(next, r)
    BY <1>2 DEF Covers, Covered
  <2> QED BY <1>2, <2>2, <2>3, HandlerKeeps
<1>3. CASE Elapse(p)
  <2> DEFINE next == [r EXCEPT !.phase = IF @ = "showing" THEN "due" ELSE "overdue"]
  <2>1. /\ r.phase \in {"showing", "due"} /\ profile' = [profile EXCEPT ![p] = next]
        /\ UNCHANGED <<audioVars, arrived, checked, commands, orphaned>>
    BY <1>3 DEF Elapse
  <2>2. /\ next \in ProfileType /\ next.alert = r.alert /\ next.calls = r.calls
        /\ next.last = r.last /\ next.queue = r.queue /\ next.replay = r.replay
        /\ next.phase # "none"
    BY <1>1 DEF ProfileType
  <2> HIDE DEF next
  <2>3. AudioOK' /\ Recorded' /\ Known' = Known
    BY <2>1 DEF PlaybackInv, AudioOK, Served, Known, IsCurrent, audioVars, Recorded
  <2> QED BY <1>2, <2>1, <2>2, <2>3
<1>4. ASSUME Command(p), UNCHANGED orphaned PROVE Recorded' /\ AudioOK' /\ Known' = Known
  <2>1. orphaned' \subseteq Alerts
    BY <1>4 DEF PlaybackInv, Recorded
  <2> QED BY <1>4, <2>1, CommandRecords
<1>5. CASE Pause(p)
  <2> DEFINE next == [r EXCEPT !.paused = ~@]
  <2>1. Command(p) /\ UNCHANGED orphaned /\ profile' = [profile EXCEPT ![p] = next]
    BY <1>5 DEF Pause
  <2>2. /\ next \in ProfileType /\ next.alert = r.alert /\ next.calls = r.calls
        /\ next.last = r.last /\ next.queue = r.queue /\ next.replay = r.replay
        /\ next.phase = r.phase
    BY <1>1 DEF ProfileType
  <2> HIDE DEF next
  <2> QED BY <1>2, <1>4, <2>1, <2>2
<1>6. CASE Replay(p)
  <2> DEFINE next == [r EXCEPT !.replay = r.last]
  <2>1. Command(p) /\ UNCHANGED orphaned /\ profile' = [profile EXCEPT ![p] = next]
    BY <1>6 DEF Replay
  <2>2. /\ next \in ProfileType /\ next.alert = r.alert /\ next.calls = r.calls
        /\ next.last = r.last /\ next.queue = r.queue /\ next.replay = r.last
        /\ next.phase = r.phase
    BY <1>1 DEF ProfileType
  <2> HIDE DEF next
  <2> QED BY <1>2, <1>4, <2>1, <2>2
<1>7. CASE Clear(p)
  <2> DEFINE next == [r EXCEPT !.queue = <<>>, !.replay = NoAlert]
  <2>1. Command(p) /\ UNCHANGED orphaned /\ profile' = [profile EXCEPT ![p] = next]
    BY <1>7 DEF Clear, PlaybackInv, Handled
  <2>2. /\ next.alert = r.alert /\ next.calls = r.calls /\ next.last = r.last
        /\ next.queue = <<>> /\ next.replay = NoAlert /\ next.phase = r.phase
    BY <1>1 DEF ProfileType
  <2>3. next \in ProfileType
    <3>1. \A q \in Seq(Alerts), j \in Alerts \cup {NoAlert} :
            [r EXCEPT !.queue = q, !.replay = j] \in ProfileType
      BY <1>1 DEF ProfileType
    <3>2. <<>> \in Seq(Alerts)
      OBVIOUS
    <3> QED BY <3>1, <3>2
  <2> HIDE DEF next
  <2> QED BY <1>2, <1>4, <2>1, <2>2, <2>3
<1>8. CASE Enable(p)
  <2> DEFINE next == [r EXCEPT !.enabled = TRUE]
  <2>1. Command(p) /\ UNCHANGED orphaned /\ profile' = [profile EXCEPT ![p] = next]
    BY <1>8 DEF Enable
  <2>2. /\ next \in ProfileType /\ next.alert = r.alert /\ next.calls = r.calls
        /\ next.last = r.last /\ next.queue = r.queue /\ next.replay = r.replay
        /\ next.phase = r.phase
    BY <1>1 DEF ProfileType
  <2> HIDE DEF next
  <2> QED BY <1>2, <1>4, <2>1, <2>2
<1> QED BY <1>3, <1>5, <1>6, <1>7, <1>8

LEMMA TestRuleKeeps ==
  ASSUME PlaybackInv, NEW i \in Synthetic, TestRule(i) PROVE PlaybackInv'
<1>1. AudioOK' /\ Known' = Known /\ Recorded' /\ UNCHANGED <<profile, orphaned>>
  BY AlertAssumption
     DEF TestRule, PlaybackInv, AudioOK, Served, Known, IsCurrent, audioVars, Recorded
<1> QED BY <1>1 DEF PlaybackInv, Handled, Sounds

\* Disabling a profile hides its alert and leaves its sound alone: the alert is orphaned
LEMMA DisableKeeps ==
  ASSUME PlaybackInv, NEW p \in Profiles, Disable(p) PROVE PlaybackInv'
<1> DEFINE r == profile[p]
           next == [r EXCEPT !.enabled = FALSE, !.queue = <<>>, !.replay = NoAlert,
                             !.alert = NoAlert, !.phase = "none"]
<1>1. /\ Command(p) /\ profile' = [profile EXCEPT ![p] = next]
      /\ orphaned' = orphaned \cup ({r.alert} \cap Alerts) /\ r.calls = <<>>
  BY DEF Disable, Command, Free, PlaybackInv, Handled
<1>2. orphaned' \subseteq Alerts
  BY <1>1 DEF PlaybackInv, Recorded
<1>3. Recorded' /\ AudioOK' /\ Known' = Known
  BY <1>1, <1>2, CommandRecords
<1>4. Orderly(p, r) /\ r \in ProfileType
  BY DEF PlaybackInv, Handled, Orderly
<1>5. /\ next \in ProfileType /\ next.alert = NoAlert /\ next.calls = r.calls
      /\ next.last = r.last /\ next.queue = <<>> /\ next.replay = NoAlert
      /\ next.phase = "none"
  <2>1. /\ next.alert = NoAlert /\ next.calls = r.calls /\ next.last = r.last
        /\ next.queue = <<>> /\ next.replay = NoAlert /\ next.phase = "none"
    BY <1>4 DEF ProfileType
  <2>2. \A q \in Seq(Alerts), j \in Alerts \cup {NoAlert} :
          [r EXCEPT !.enabled = FALSE, !.queue = q, !.replay = j, !.alert = j, !.phase = "none"]
            \in ProfileType
    BY <1>4 DEF ProfileType
  <2>3. <<>> \in Seq(Alerts)
    OBVIOUS
  <2> QED BY <2>1, <2>2, <2>3
<1> HIDE DEF next
<1>6. Orderly(p, next)
  BY <1>1, <1>4, <1>5, AlertAssumption DEF Orderly
<1>7. Handled'
  BY <1>1, <1>5, <1>6 DEF PlaybackInv, Handled
<1>8. Sounds'
  <2> SUFFICES ASSUME NEW i \in Known'
               PROVE  /\ Pieces[i] > 0
                      /\ i \notin orphaned' => Covered(profile'[ProfileOf[i]], i)
    BY DEF Sounds
  <2>1. i \in Alerts /\ ProfileOf[i] \in Profiles /\ i \in Known
    BY <1>3, AlertAssumption DEF Known
  <2>2. Pieces[i] > 0 /\ (i \notin orphaned => Covered(profile[ProfileOf[i]], i))
    BY <2>1 DEF PlaybackInv, Sounds
  <2>3. CASE ProfileOf[i] = p
    <3>1. i \notin orphaned' => r.alert # i /\ i \notin orphaned
      BY <1>1, <2>1
    <3> QED BY <1>1, <2>2, <2>3, <3>1 DEF Covered
  <2>4. CASE ProfileOf[i] # p
    <3>1. profile'[ProfileOf[i]] = profile[ProfileOf[i]]
      BY <1>1, <2>1, <2>4 DEF PlaybackInv, Handled
    <3> QED BY <1>1, <2>2, <3>1
  <2> QED BY <2>3, <2>4
<1> QED BY <1>3, <1>7, <1>8 DEF PlaybackInv

\* A call of a handler: a sound that is asked for is that of the alert that is shown, and
\* a cancellation that was made is needed no more
LEMMA CallKeeps ==
  ASSUME PlaybackInv, NEW p \in Profiles, Call(p) PROVE PlaybackInv'
<1> DEFINE r == profile[p]
           call == Head(r.calls)
           next == [r EXCEPT !.calls = Tail(@)]
<1>1. /\ r.calls # <<>> /\ profile' = [profile EXCEPT ![p] = next]
      /\ IF call[1] = "enqueue" THEN EnqueueAlertAudio(call[2]) ELSE CancelAlertAudio(call[2])
      /\ UNCHANGED <<arrived, checked, commands, orphaned>>
  BY DEF Call, Free
<1>2. Orderly(p, r) /\ r \in ProfileType /\ r.calls \in Seq(CallType)
  BY DEF PlaybackInv, Handled, Orderly, ProfileType, CallType
<1>3. /\ call \in CallType /\ call = r.calls[1] /\ 1 \in DOMAIN r.calls
      /\ Tail(r.calls) \in Seq(CallType) /\ From(Tail(r.calls), r.calls)
      /\ \A n \in DOMAIN r.calls : n # 1 => /\ n - 1 \in DOMAIN Tail(r.calls)
                                            /\ Tail(r.calls)[n - 1] = r.calls[n]
  BY <1>1, <1>2, Tails
<1>4. /\ next.alert = r.alert /\ next.phase = r.phase /\ next.queue = r.queue
      /\ next.replay = r.replay /\ next.last = r.last /\ next.calls = Tail(r.calls)
      /\ next \in ProfileType
  BY <1>2, <1>3 DEF ProfileType, CallType
<1>5. Due(p, r.alert, call) /\ call = <<call[1], call[2]>> /\ call[1] \in {"enqueue", "cancel"}
  BY <1>2, <1>3 DEF Orderly, CallType
<1> HIDE DEF call, next
<1>6. Orderly(p, next)
  <2>1. \A k \in DOMAIN next.calls : Due(p, next.alert, next.calls[k])
    BY <1>2, <1>3, <1>4 DEF Orderly, From
  <2> QED BY <1>2, <1>4, <2>1 DEF Orderly
<1>7. Handled'
  BY <1>1, <1>4, <1>6 DEF PlaybackInv, Handled
<1>8. Recorded'
  BY <1>1 DEF PlaybackInv, Recorded
\* All that was covered still is, but for an alert whose sound has been cancelled
<1>9. \A j \in Alerts : Covered(r, j) => Covered(next, j) \/ call = <<"cancel", j>>
  <2> SUFFICES ASSUME NEW j \in Alerts, Covered(r, j), call # <<"cancel", j>> PROVE Covered(next, j)
    OBVIOUS
  <2>1. CASE r.alert = j
    BY <1>4, <2>1 DEF Covered
  <2>2. CASE r.alert # j
    <3>1. PICK k \in DOMAIN r.calls : r.calls[k] = <<"cancel", j>>
      BY <2>2 DEF Covered
    <3>2. k # 1
      BY <1>3, <3>1
    <3> QED BY <1>3, <1>4, <3>1, <3>2 DEF Covered
  <2> QED BY <2>1, <2>2
<1>10. profile'[p] = next /\ \A o \in Profiles \ {p} : profile'[o] = profile[o]
  BY <1>1 DEF PlaybackInv, Handled
<1>11. ASSUME NEW i \in Known, call # <<"cancel", i>>
       PROVE  /\ Pieces[i] > 0
              /\ i \notin orphaned => Covered(profile'[ProfileOf[i]], i)
  <2>1. i \in Alerts /\ ProfileOf[i] \in Profiles
    BY AlertAssumption DEF Known
  <2>2. Pieces[i] > 0 /\ (i \notin orphaned => Covered(profile[ProfileOf[i]], i))
    BY DEF PlaybackInv, Sounds
  <2> QED BY <1>9, <1>10, <1>11, <2>1, <2>2
<1>12. call[2] \in Alerts /\ ProfileOf[call[2]] = p /\ Pieces[call[2]] > 0
  BY <1>5 DEF Due, Own
<1>13. CASE call[1] = "enqueue"
  <2>1. AudioOK' /\ Known' \subseteq Known \cup {call[2]}
    BY <1>1, <1>12, <1>13, EnqueuesAudio DEF PlaybackInv
  <2>2. Covered(next, call[2])
    BY <1>4, <1>5, <1>13 DEF Due, Covered
  <2>3. \A i : call # <<"cancel", i>>
    BY <1>13
  <2>4. Sounds'
    BY <1>1, <1>10, <1>11, <1>12, <2>1, <2>2, <2>3 DEF Sounds
  <2> QED BY <1>7, <1>8, <2>1, <2>4 DEF PlaybackInv
<1>14. CASE call[1] # "enqueue"
  <2>1. AudioOK' /\ Known' \subseteq Known \ {call[2]}
    BY <1>1, <1>12, <1>14, CancelsAudio DEF PlaybackInv
  <2>2. \A i \in Known' : i \in Known /\ call # <<"cancel", i>>
    BY <2>1
  <2>3. Sounds'
    BY <1>1, <1>11, <2>2 DEF Sounds
  <2> QED BY <1>7, <1>8, <2>1, <2>3 DEF PlaybackInv
<1> QED BY <1>13, <1>14

LEMMA PlaybackStep == PlaybackInv /\ [Next]_vars => PlaybackInv'
<1> SUFFICES ASSUME PlaybackInv, [Next]_vars PROVE PlaybackInv'
  OBVIOUS
<1>1. CASE AudioStep /\ UNCHANGED playbackVars
  <2>1. AudioOK' /\ Known' \subseteq Known
    BY <1>1, AudioSteps DEF PlaybackInv
  <2> QED BY <1>1, <2>1 DEF PlaybackInv, playbackVars, Handled, Recorded, Sounds
<1>2. ASSUME NEW event \in Events, Match(event) PROVE PlaybackInv'
  BY <1>2, MatchKeeps
<1>3. ASSUME NEW i \in Synthetic, TestRule(i) \/ EnqueueTest(i) PROVE PlaybackInv'
  BY <1>3, TestRuleKeeps, EnqueueTestKeeps
<1>4. ASSUME NEW p \in Profiles, ProfileStep(p) PROVE PlaybackInv'
  BY <1>4, SettingsKeep, TickKeeps, CallKeeps, SkipKeeps, DisableKeeps DEF ProfileStep
<1>5. CASE UNCHANGED vars
  BY <1>5 DEF vars, audioVars, playbackVars, PlaybackInv, AudioOK, Served, Known, IsCurrent,
              Handled, Recorded, Sounds
<1> QED BY <1>1, <1>2, <1>3, <1>4, <1>5 DEF Next

LEMMA PlaybackAlways == Spec => []PlaybackInv
<1>1. Init => PlaybackInv
  BY PlaybackStarts
<1>2. PlaybackInv /\ [Next]_vars => PlaybackInv'
  BY PlaybackStep
<1> QED BY <1>1, <1>2, PTL DEF Spec

-----------------------------------------------------------------------------
\* The profiles, the queues of alerts and of sounds, the current item and what is recorded have
\* their types, and both queues keep to their bounds, whatever the handlers, the poll loops,
\* the syntheses, the renderer and the operator do
THEOREM AlertTypeCorrect == Spec => []TypeOK
<1>1. PlaybackInv => TypeOK
  <2> SUFFICES ASSUME PlaybackInv PROVE TypeOK
    OBVIOUS
  <2>1. current \in {NoItem} \cup
                     [item : Item, bytes : {NoItem} \cup Item,
                      state : {"synthesizing", "waiting", "ready", "playing"}]
    BY DEF PlaybackInv, AudioOK, CurrentType
  <2>2. \A p \in Profiles : /\ Len(profile[p].queue) <= MaxItems
                            /\ profile[p].alert = NoAlert <=> profile[p].phase = "none"
    BY DEF PlaybackInv, Handled, Orderly
  <2>3. \A p \in Profiles : commands[p] \in 0 .. MaxCommands[p]
    <3> SUFFICES ASSUME NEW p \in Profiles PROVE commands[p] \in 0 .. MaxCommands[p]
      OBVIOUS
    <3>1. commands[p] \in Nat /\ MaxCommands[p] \in Nat /\ commands[p] <= MaxCommands[p]
      BY AlertAssumption DEF PlaybackInv, Recorded
    <3> QED BY <3>1
  <2> QED BY <2>1, <2>2, <2>3 DEF TypeOK, PlaybackInv, AudioOK, Handled, Recorded
<1> QED BY <1>1, PlaybackAlways, PTL

\* No sound of an alert is playing, queued or remembered once the alert is over, unless a handler
\* is about to cancel it, or the alert was hidden by disabling its profile
THEOREM SoundFollowsAlert == Spec => []AudioFollowsAlert
<1>1. PlaybackInv => AudioFollowsAlert
  BY DEF PlaybackInv, Sounds, Covered, AudioFollowsAlert
<1> QED BY <1>1, PlaybackAlways, PTL

-----------------------------------------------------------------------------
(* Items are new when their synthesis begins: an item waits in one place of one queue, and  *)
(* none that waits was made for a showing that has been, or is being, synthesised           *)

\* The showing an item was made for
Showing(it) == <<it.of, it.nth>>

\* Made for a showing that was counted, or for an utterance that was asked for
Counted(it) == /\ it.of \in Alerts => it.nth < made[it.of]
               /\ it.of \in Utterances => it.of \in asked

\* Nothing was made for this showing that has been begun
Unbegun(it) == /\ \A other \in syntheses : Showing(other) # Showing(it)
               /\ current # NoItem => Showing(current.item) # Showing(it)

Distinct(q) == \A j, k \in DOMAIN q : Showing(q[j]) = Showing(q[k]) => j = k

Apart ==
  /\ \A it \in syntheses : Counted(it)
  /\ current # NoItem => Counted(current.item)
  /\ \A k \in DOMAIN ready : Counted(ready[k]) /\ Unbegun(ready[k])
  /\ \A k \in DOMAIN pending : Counted(pending[k]) /\ Unbegun(pending[k])
  /\ Distinct(ready) /\ Distinct(pending)
  /\ \A j \in DOMAIN ready, k \in DOMAIN pending : Showing(ready[j]) # Showing(pending[k])

\* One queue holds some of the places of another
PartOf(q, s) == \E f \in [DOMAIN q -> DOMAIN s] : /\ \A n \in DOMAIN q : q[n] = s[f[n]]
                                                  /\ \A m, n \in DOMAIN q : f[m] = f[n] => m = n

LEMMA KeepIsPart ==
  ASSUME NEW T, NEW q \in Seq(T), NEW S \in SUBSET DOMAIN q
  PROVE  PartOf(Keep(q, S), q)
<1> DEFINE c == Cardinality(S)
           At(n) == CHOOSE i \in S : Cardinality({k \in S : k < i}) = n - 1
<1>1. DOMAIN q = 1 .. Len(q) /\ Len(q) \in Nat
  OBVIOUS
<1>2. IsFiniteSet(S) /\ c \in Nat
  <2> DEFINE l == Len(q)
  <2>1. l \in Nat /\ S \in SUBSET (1 .. l)
    BY <1>1
  <2> HIDE DEF l
  <2>2. IsFiniteSet(1 .. l)
    BY <2>1, FS_Interval
  <2> QED BY <2>1, <2>2, FS_Subset, FS_CardinalityType
<1>3. \A n \in 1 .. c : At(n) \in S /\ Cardinality(Below(S, At(n))) = n - 1
  <2> SUFFICES ASSUME NEW n \in 1 .. c
               PROVE  At(n) \in S /\ Cardinality(Below(S, At(n))) = n - 1
    OBVIOUS
  <2>1. \E i \in S : Cardinality(Below(S, i)) = n - 1
    <3>1. S \in SUBSET Nat /\ n - 1 \in Nat /\ n - 1 < c
      BY <1>1, <1>2
    <3> QED BY <1>2, <3>1, NthOfSet
  <2> QED BY <2>1 DEF Below
<1>4. Keep(q, S) = [n \in 1 .. c |-> q[At(n)]]
  BY DEF Keep
<1> DEFINE f == [n \in 1 .. c |-> At(n)]
<1> HIDE DEF At
<1>5. f \in [1 .. c -> DOMAIN q]
  BY <1>3
<1>6. \A m, n \in 1 .. c : f[m] = f[n] => m = n
  <2> SUFFICES ASSUME NEW m \in 1 .. c, NEW n \in 1 .. c, At(m) = At(n) PROVE m = n
    OBVIOUS
  <2>1. m - 1 = n - 1
    BY <1>3
  <2> QED BY <1>2, <2>1
<1>7. \A n \in 1 .. c : Keep(q, S)[n] = q[f[n]]
  BY <1>4
<1>8. DOMAIN Keep(q, S) = 1 .. c
  BY <1>4
<1> HIDE DEF f
<1> QED BY <1>5, <1>6, <1>7, <1>8 DEF PartOf

LEMMA PartsOf ==
  ASSUME NEW T
  PROVE  /\ \A q : PartOf(q, q) /\ PartOf(<<>>, q)
         /\ \A q \in Seq(T) : \A i \in DOMAIN q :
              /\ PartOf(RemoveAt(q, i), q)
              /\ Distinct(q) => \A n \in DOMAIN RemoveAt(q, i) : Showing(RemoveAt(q, i)[n]) # Showing(q[i])
         /\ \A q \in Seq(T) : q # <<>> =>
              /\ PartOf(Tail(q), q)
              /\ Distinct(q) => \A n \in DOMAIN Tail(q) : Showing(Tail(q)[n]) # Showing(Head(q))
         /\ \A q \in Seq(T) : \A gone : PartOf(Without(q, gone), q)
<1>1. ASSUME NEW q PROVE PartOf(q, q)
  <2> DEFINE f == [n \in DOMAIN q |-> n]
  <2>1. f \in [DOMAIN q -> DOMAIN q] /\ \A n \in DOMAIN q : f[n] = n
    OBVIOUS
  <2> HIDE DEF f
  <2> QED BY <2>1 DEF PartOf
<1>2. ASSUME NEW q \in Seq(T), NEW i \in DOMAIN q
      PROVE  /\ PartOf(RemoveAt(q, i), q)
             /\ Distinct(q) => \A n \in DOMAIN RemoveAt(q, i) : Showing(RemoveAt(q, i)[n]) # Showing(q[i])
  <2> DEFINE a == SubSeq(q, 1, i - 1)
             b == SubSeq(q, i + 1, Len(q))
             f == [n \in 1 .. Len(q) - 1 |-> IF n < i THEN n ELSE n + 1]
  <2>1. i \in 1 .. Len(q) /\ Len(q) \in Nat /\ DOMAIN q = 1 .. Len(q)
    OBVIOUS
  <2>2. a \in Seq(T) /\ Len(a) = i - 1 /\ \A n \in 1 .. i - 1 : a[n] = q[n]
    BY <2>1
  <2>3. b \in Seq(T) /\ Len(b) = Len(q) - i /\ \A n \in 1 .. Len(q) - i : b[n] = q[i + n]
    BY <2>1
  <2> HIDE DEF a, b
  <2>4. Len(a \o b) = Len(q) - 1 /\ DOMAIN (a \o b) = 1 .. Len(q) - 1
    <3> DEFINE ab == RemoveAt(q, i)
    <3>1. ab \in Seq(T) /\ Len(ab) = Len(q) - 1
      BY RemovesAt
    <3>2. ab = a \o b
      BY DEF RemoveAt, a, b
    <3> HIDE DEF ab
    <3>3. ab \in Seq(T) => DOMAIN ab = 1 .. Len(ab)
      OBVIOUS
    <3> QED BY <3>1, <3>2, <3>3
  <2>5. \A n \in 1 .. Len(q) - 1 : (a \o b)[n] = IF n < i THEN q[n] ELSE q[n + 1]
    <3> SUFFICES ASSUME NEW n \in 1 .. Len(q) - 1
                 PROVE  (a \o b)[n] = IF n < i THEN q[n] ELSE q[n + 1]
      OBVIOUS
    <3>1. CASE n < i
      <4>1. (a \o b)[n] = a[n] /\ n \in 1 .. i - 1
        BY <2>1, <2>2, <2>3, <3>1
      <4> QED BY <2>2, <3>1, <4>1
    <3>2. CASE ~(n < i)
      <4>1. n - (i - 1) \in 1 .. Len(q) - i /\ i + (n - (i - 1)) = n + 1
        BY <2>1, <3>2
      <4>2. (a \o b)[n] = b[n - (i - 1)]
        BY <2>1, <2>2, <2>3, <3>2
      <4>3. b[n - (i - 1)] = q[i + (n - (i - 1))]
        BY <2>3, <4>1
      <4> QED BY <3>2, <4>1, <4>2, <4>3
    <3> QED BY <3>1, <3>2
  <2>6. f \in [1 .. Len(q) - 1 -> DOMAIN q]
    BY <2>1
  <2>7. (\A m, n \in 1 .. Len(q) - 1 : f[m] = f[n] => m = n) /\ \A n \in 1 .. Len(q) - 1 : f[n] # i
    BY <2>1
  <2>8. \A n \in 1 .. Len(q) - 1 : (a \o b)[n] = q[f[n]]
    BY <2>5
  <2> HIDE DEF f
  <2>9. PartOf(a \o b, q)
    BY <2>4, <2>6, <2>7, <2>8 DEF PartOf
  <2>10. ASSUME Distinct(q), NEW n \in DOMAIN (a \o b) PROVE Showing((a \o b)[n]) # Showing(q[i])
    BY <2>4, <2>6, <2>7, <2>8, <2>10 DEF Distinct
  <2> QED BY <2>9, <2>10 DEF RemoveAt, a, b
<1>3. ASSUME NEW q \in Seq(T), q # <<>>
      PROVE  /\ PartOf(Tail(q), q)
             /\ Distinct(q) => \A n \in DOMAIN Tail(q) : Showing(Tail(q)[n]) # Showing(Head(q))
  <2> DEFINE f == [n \in 1 .. Len(q) - 1 |-> n + 1]
  <2>1. Len(q) \in Nat /\ Len(q) # 0 /\ DOMAIN q = 1 .. Len(q)
    BY <1>3
  <2>2. DOMAIN Tail(q) = 1 .. Len(q) - 1 /\ \A n \in 1 .. Len(q) - 1 : Tail(q)[n] = q[n + 1]
    BY <1>3, <2>1
  <2>3. f \in [1 .. Len(q) - 1 -> DOMAIN q] /\ \A n \in 1 .. Len(q) - 1 : f[n] = n + 1
    BY <2>1
  <2> HIDE DEF f
  <2>4. \A m, n \in 1 .. Len(q) - 1 : f[m] = f[n] => m = n
    BY <2>1, <2>3
  <2>5. PartOf(Tail(q), q)
    BY <2>2, <2>3, <2>4 DEF PartOf
  <2>6. Head(q) = q[1] /\ 1 \in DOMAIN q /\ \A n \in 1 .. Len(q) - 1 : n + 1 # 1 /\ n + 1 \in DOMAIN q
    BY <1>3, <2>1
  <2>7. ASSUME Distinct(q), NEW n \in DOMAIN Tail(q) PROVE Showing(Tail(q)[n]) # Showing(Head(q))
    BY <2>2, <2>6, <2>7 DEF Distinct
  <2> QED BY <2>5, <2>7
<1>4. ASSUME NEW q \in Seq(T), NEW gone PROVE PartOf(Without(q, gone), q)
  <2>1. {k \in DOMAIN q : q[k].of \notin gone} \in SUBSET DOMAIN q
    OBVIOUS
  <2> QED BY <2>1, KeepIsPart DEF Without
<1>5. ASSUME NEW q PROVE PartOf(<<>>, q)
  <2> DEFINE f == [n \in {} |-> n]
  <2>1. DOMAIN <<>> = {} /\ f \in [{} -> DOMAIN q]
    OBVIOUS
  <2> HIDE DEF f
  <2> QED BY <2>1 DEF PartOf
<1> QED BY <1>1, <1>2, <1>3, <1>4, <1>5

\* The bytes of the current item are its own, however many syntheses of items that were
\* skipped, cancelled or interrupted still run and bring their results, and what waits in
\* the queue has no synthesis yet
LEMMA PartKeeps ==
  ASSUME NEW q, NEW s, PartOf(q, s)
  PROVE  /\ Distinct(s) => Distinct(q)
         /\ \A n \in DOMAIN q : \E k \in DOMAIN s : q[n] = s[k]
  BY DEF PartOf, Distinct

LEMMA PartsChain ==
  ASSUME NEW q, NEW s, NEW t, PartOf(q, s), PartOf(s, t) PROVE PartOf(q, t)
<1>1. PICK f \in [DOMAIN q -> DOMAIN s] : /\ \A n \in DOMAIN q : q[n] = s[f[n]]
                                          /\ \A m, n \in DOMAIN q : f[m] = f[n] => m = n
  BY DEF PartOf
<1>2. PICK g \in [DOMAIN s -> DOMAIN t] : /\ \A n \in DOMAIN s : s[n] = t[g[n]]
                                          /\ \A m, n \in DOMAIN s : g[m] = g[n] => m = n
  BY DEF PartOf
<1> DEFINE h == [n \in DOMAIN q |-> g[f[n]]]
<1>3. h \in [DOMAIN q -> DOMAIN t] /\ \A n \in DOMAIN q : h[n] = g[f[n]]
  OBVIOUS
<1> HIDE DEF h
<1>4. (\A n \in DOMAIN q : q[n] = t[h[n]]) /\ \A m, n \in DOMAIN q : h[m] = h[n] => m = n
  BY <1>1, <1>2, <1>3
<1> QED BY <1>3, <1>4 DEF PartOf

\* Items are made, and utterances asked for, but never fewer than before
Grows == /\ made' \in [Alerts -> Nat] /\ \A i \in Alerts : made[i] <= made'[i]
         /\ asked \subseteq asked'

LEMMA StaysCounted ==
  ASSUME AudioOK, Grows, NEW it \in Item, Counted(it) PROVE Counted(it)'
  BY DEF AudioOK, Grows, Counted, Item

\* The items there are
LEMMA ItemsOf ==
  ASSUME AudioOK
  PROVE  /\ \A k \in DOMAIN ready : ready[k] \in Item
         /\ \A k \in DOMAIN pending : pending[k] \in Item
         /\ \A it \in syntheses : it \in Item
         /\ current # NoItem => current.item \in Item /\ current \in CurrentType
         /\ ready \in Seq(Item) /\ pending \in Seq(Item)
  BY DEF AudioOK, CurrentType

\* No item of this queue was made for the same showing
Lone(it, queue) == \A k \in DOMAIN queue : Showing(queue[k]) # Showing(it)

\* What was begun is still counted
LEMMA BegunStaysCounted ==
  ASSUME AudioOK, Apart, Grows
  PROVE  /\ \A it \in syntheses : Counted(it)'
         /\ current # NoItem => \A it : it = current.item => Counted(it)'
         /\ \A it \in Item : Counted(it) => Counted(it)'
         /\ \A k \in DOMAIN ready : \A it : it = ready[k] => it \in Item /\ Counted(it)' /\ Unbegun(it)
         /\ \A k \in DOMAIN pending : \A it : it = pending[k] => it \in Item /\ Counted(it)' /\ Unbegun(it)
<1>1. \A it \in Item : Counted(it) => Counted(it)'
  BY StaysCounted
<1> QED BY <1>1, ItemsOf DEF Apart

\* What has to be shown of the state after a step
LEMMA ApartAfter ==
  ASSUME \A it \in syntheses' : Counted(it)',
         \A it : current' # NoItem /\ it = current'.item => Counted(it)',
         \A n \in DOMAIN ready' : \A it : it = ready'[n] => Counted(it)' /\ Unbegun(it)',
         \A n \in DOMAIN pending' : \A it : it = pending'[n] => Counted(it)' /\ Unbegun(it)',
         Distinct(ready'), Distinct(pending'),
         \A j \in DOMAIN ready', k \in DOMAIN pending' : Showing(ready'[j]) # Showing(pending'[k])
  PROVE  Apart'
<1>1. /\ current' # NoItem => Counted(current.item)'
      /\ \A n \in DOMAIN ready' : Counted(ready[n])' /\ Unbegun(ready[n])'
      /\ \A n \in DOMAIN pending' : Counted(pending[n])' /\ Unbegun(pending[n])'
  BY DEF Counted, Unbegun, Showing
<1> QED BY <1>1 DEF Apart, Distinct, Showing

\* The queues lose some of their items: what was apart still is
LEMMA ApartQueues ==
  ASSUME AudioOK, Apart, PartOf(ready', ready), PartOf(pending', pending),
         UNCHANGED syntheses, current' = current \/ current' = NoItem, Grows
  PROVE  Apart'
<1>1. /\ Distinct(ready') /\ \A n \in DOMAIN ready' : \E k \in DOMAIN ready : ready'[n] = ready[k]
      /\ Distinct(pending')
      /\ \A n \in DOMAIN pending' : \E k \in DOMAIN pending : pending'[n] = pending[k]
  BY PartKeeps DEF Apart
<1>2. \A it : Unbegun(it) => Unbegun(it)'
  BY DEF Unbegun, Showing
<1>3. /\ \A it \in syntheses' : Counted(it)'
      /\ \A it : current' # NoItem /\ it = current'.item => Counted(it)'
  BY BegunStaysCounted
<1>4. \A n \in DOMAIN ready' : \A it : it = ready'[n] => Counted(it)' /\ Unbegun(it)'
  BY <1>1, <1>2, BegunStaysCounted
<1>5. \A n \in DOMAIN pending' : \A it : it = pending'[n] => Counted(it)' /\ Unbegun(it)'
  BY <1>1, <1>2, BegunStaysCounted
<1>6. \A j \in DOMAIN ready', k \in DOMAIN pending' : Showing(ready'[j]) # Showing(pending'[k])
  BY <1>1 DEF Apart
<1> QED BY <1>1, <1>3, <1>4, <1>5, <1>6, ApartAfter

LEMMA PlacesOf ==
  ASSUME NEW T, NEW q \in Seq(T), NEW x \in T
  PROVE  \A n \in DOMAIN Append(q, x) : \/ n = Len(q) + 1 /\ Append(q, x)[n] = x
                                        \/ n \in DOMAIN q /\ Append(q, x)[n] = q[n]
<1> DEFINE a == Append(q, x)
<1>1. /\ a \in Seq(T) /\ Len(a) = Len(q) + 1 /\ a[Len(q) + 1] = x
      /\ \A n \in DOMAIN q : a[n] = q[n]
  BY Appends
<1>2. DOMAIN q = 1 .. Len(q) /\ Len(q) \in Nat
  OBVIOUS
<1> HIDE DEF a
<1>3. DOMAIN a = 1 .. Len(a)
  BY <1>1
<1>4. \A n \in DOMAIN a : n = Len(q) + 1 \/ n \in DOMAIN q
  BY <1>1, <1>2, <1>3
<1>5. \A n \in DOMAIN a : \/ n = Len(q) + 1 /\ a[n] = x
                          \/ n \in DOMAIN q /\ a[n] = q[n]
  BY <1>1, <1>4
<1> QED BY <1>5 DEF a

\* An item enters the ready queue: a new one, or one that has been approved
LEMMA ApartAppends ==
  ASSUME AudioOK, Apart, Grows, UNCHANGED <<current, syntheses>>,
         NEW it \in Item, Counted(it)', Unbegun(it),
         ready' = Append(ready, it), PartOf(pending', pending),
         Lone(it, ready), Lone(it, pending')
  PROVE  Apart'
<1>1. \A n \in DOMAIN ready' : \/ n = Len(ready) + 1 /\ ready'[n] = it
                               \/ n \in DOMAIN ready /\ ready'[n] = ready[n]
  BY ItemsOf, PlacesOf
<1>2. /\ Distinct(pending')
      /\ \A n \in DOMAIN pending' : \E k \in DOMAIN pending : pending'[n] = pending[k]
  BY PartKeeps DEF Apart
<1>3. \A other : Unbegun(other) => Unbegun(other)'
  BY DEF Unbegun, Showing
<1>4. Distinct(ready')
  BY <1>1 DEF Distinct, Lone, Apart
<1>5. \A j \in DOMAIN ready', k \in DOMAIN pending' : Showing(ready'[j]) # Showing(pending'[k])
  BY <1>1, <1>2 DEF Apart, Lone
<1>6. \A n \in DOMAIN ready' : \A other : other = ready'[n] => Counted(other)' /\ Unbegun(other)'
  BY <1>1, <1>3, BegunStaysCounted
<1>7. \A n \in DOMAIN pending' : \A other : other = pending'[n] => Counted(other)' /\ Unbegun(other)'
  BY <1>2, <1>3, BegunStaysCounted
<1>8. /\ \A other \in syntheses' : Counted(other)'
      /\ \A other : current' # NoItem /\ other = current'.item => Counted(other)'
  BY BegunStaysCounted
<1> QED BY <1>2, <1>4, <1>5, <1>6, <1>7, <1>8, ApartAfter

\* A new item waits for approval
LEMMA ApartWaits ==
  ASSUME AudioOK, Apart, Grows, UNCHANGED <<current, syntheses, ready>>,
         NEW it \in Item, Counted(it)', Unbegun(it), pending' = Append(pending, it),
         Lone(it, ready), Lone(it, pending)
  PROVE  Apart'
<1>1. \A n \in DOMAIN pending' : \/ n = Len(pending) + 1 /\ pending'[n] = it
                                 \/ n \in DOMAIN pending /\ pending'[n] = pending[n]
  BY ItemsOf, PlacesOf
<1>2. \A other : Unbegun(other) => Unbegun(other)'
  BY DEF Unbegun, Showing
<1>3. Distinct(pending') /\ Distinct(ready')
  BY <1>1 DEF Distinct, Lone, Apart
<1>4. \A j \in DOMAIN ready', k \in DOMAIN pending' : Showing(ready'[j]) # Showing(pending'[k])
  BY <1>1 DEF Apart, Lone
<1>5. \A n \in DOMAIN pending' : \A other : other = pending'[n] => Counted(other)' /\ Unbegun(other)'
  BY <1>1, <1>2, BegunStaysCounted
<1>6. \A n \in DOMAIN ready' : \A other : other = ready'[n] => Counted(other)' /\ Unbegun(other)'
  BY <1>2, BegunStaysCounted
<1>7. /\ \A other \in syntheses' : Counted(other)'
      /\ \A other : current' # NoItem /\ other = current'.item => Counted(other)'
  BY BegunStaysCounted
<1> QED BY <1>3, <1>4, <1>5, <1>6, <1>7, ApartAfter

\* An item becomes the current one, and has left the queues
LEMMA ApartBegins ==
  ASSUME AudioOK, Apart, Grows, NEW it \in Item, Counted(it)', Promote(it, syntheses),
         PartOf(ready', ready), PartOf(pending', pending),
         Lone(it, ready'), Lone(it, pending')
  PROVE  Apart'
<1>1. (current' # NoItem => current'.item = it) /\ syntheses' = syntheses \cup {it}
  BY DEF Promote
<1>2. /\ Distinct(ready') /\ \A n \in DOMAIN ready' : \E k \in DOMAIN ready : ready'[n] = ready[k]
      /\ Distinct(pending')
      /\ \A n \in DOMAIN pending' : \E k \in DOMAIN pending : pending'[n] = pending[k]
  BY PartKeeps DEF Apart
<1>3. \A other : Unbegun(other) /\ Showing(other) # Showing(it) => Unbegun(other)'
  BY <1>1 DEF Unbegun, Showing
<1>4. \A n \in DOMAIN ready' : \A other : other = ready'[n] => Counted(other)' /\ Unbegun(other)'
  BY <1>2, <1>3, BegunStaysCounted DEF Lone
<1>5. \A n \in DOMAIN pending' : \A other : other = pending'[n] => Counted(other)' /\ Unbegun(other)'
  BY <1>2, <1>3, BegunStaysCounted DEF Lone
<1>6. /\ \A other \in syntheses' : Counted(other)'
      /\ \A other : current' # NoItem /\ other = current'.item => Counted(other)'
  BY <1>1, BegunStaysCounted
<1>7. \A j \in DOMAIN ready', k \in DOMAIN pending' : Showing(ready'[j]) # Showing(pending'[k])
  BY <1>2 DEF Apart
<1> QED BY <1>2, <1>4, <1>5, <1>6, <1>7, ApartAfter

\* What is begun was begun before, or is another piece of the same chain
LEMMA ApartCurrent ==
  ASSUME AudioOK, Apart, UNCHANGED <<ready, pending, made, asked>>,
         \A it \in syntheses' : \/ it \in syntheses
                                \/ current # NoItem /\ Showing(it) = Showing(current.item),
         current' # NoItem => current # NoItem /\ Showing(current'.item) = Showing(current.item)
  PROVE  Apart'
<1>1. \A i, k : Showing(i) = Showing(k) => (Counted(i) <=> Counted(k))
  BY DEF Showing, Counted
<1>2. \A it : Counted(it) => Counted(it)'
  BY DEF Counted
<1>3. \A it : Unbegun(it) => Unbegun(it)'
  BY DEF Unbegun, Showing
<1>4. /\ \A n \in DOMAIN ready' : \A other : other = ready'[n] => Counted(other)' /\ Unbegun(other)'
      /\ \A n \in DOMAIN pending' : \A other : other = pending'[n] => Counted(other)' /\ Unbegun(other)'
  BY <1>2, <1>3 DEF Apart
<1>5. /\ \A other \in syntheses' : Counted(other)'
      /\ \A other : current' # NoItem /\ other = current'.item => Counted(other)'
  BY <1>1, <1>2 DEF Apart
<1>6. Distinct(ready') /\ Distinct(pending')
      /\ \A j \in DOMAIN ready', k \in DOMAIN pending' : Showing(ready'[j]) # Showing(pending'[k])
  BY DEF Apart
<1> QED BY <1>4, <1>5, <1>6, ApartAfter

\* The rest of a chain was made for the same showing
LEMMA ApartFinishes ==
  ASSUME AudioOK, Apart, UNCHANGED <<ready, pending, made, asked>>, current # NoItem,
         NEW others \in SUBSET syntheses,
         \/ \E ending \in {"ended", "failed"} : Finish(ending, others)
         \/ Abort
  PROVE  Apart'
<1>1. current.item \in Item
  BY ItemsOf
<1>2. CASE \E ending \in {"ended", "failed"} : Finish(ending, others)
  <2> DEFINE rest == [current.item EXCEPT !.more = @ - 1]
  <2>1. Showing(rest) = Showing(current.item)
    BY <1>1 DEF Showing, Item
  <2>2. \/ Promote(rest, others)
        \/ current' = NoItem /\ syntheses' = others
    BY <1>2 DEF Finish
  <2> HIDE DEF rest
  <2>3. CASE Promote(rest, others)
    <3>1. syntheses' = others \cup {rest} /\ current'.item = rest
      BY <2>3 DEF Promote
    <3> QED BY <2>1, <3>1, ApartCurrent DEF Showing
  <2>4. CASE current' = NoItem /\ syntheses' = others
    BY <2>4, ApartCurrent DEF Showing
  <2> QED BY <2>2, <2>3, <2>4
<1>3. CASE Abort
  BY <1>3, ApartCurrent DEF Abort, Showing
<1> QED BY <1>2, <1>3

LEMMA ApartAudio ==
  ASSUME AudioOK, Apart, AudioStep PROVE Apart'
<1>1. /\ Alerts \cap Utterances = {} /\ made \in [Alerts -> Nat]
      /\ ready \in Seq(Item) /\ pending \in Seq(Item) /\ Distinct(ready) /\ Distinct(pending)
  BY AudioAssumption DEF AudioOK, Apart
<1>2. UNCHANGED <<made, asked>> => Grows
  BY <1>1 DEF Grows
<1>3. ASSUME NEW u \in Utterances, Ask(u) PROVE Apart'
  <2> DEFINE it == [of |-> u, nth |-> 0, more |-> 0]
  <2>1. it \in Item /\ it.of = u
    BY DEF Item
  <2>2. \/ ready' = Append(ready, it) /\ pending' = pending
        \/ pending' = Append(pending, it) /\ ready' = ready
        \/ ready' = ready /\ pending' = pending
    BY <1>3 DEF Ask
  <2>3. UNCHANGED <<current, endings, renderer, syntheses, made>> /\ u \notin asked
        /\ asked' = asked \cup {u}
    BY <1>3 DEF Ask
  <2> HIDE DEF it
  <2>4. Grows
    BY <1>1, <2>3 DEF Grows
  <2>5. Counted(it)'
    BY <1>1, <2>1, <2>3 DEF Counted
  <2>6. \A other : Counted(other) => Showing(other) # Showing(it)
    BY <2>1, <2>3 DEF Counted, Showing
  <2>7. Unbegun(it) /\ Lone(it, ready) /\ Lone(it, pending)
    BY <2>6 DEF Apart, Unbegun, Lone
  <2>8. PartOf(ready, ready) /\ PartOf(pending, pending)
    BY PartsOf
  <2>9. CASE ready' = Append(ready, it) /\ pending' = pending
    BY <2>1, <2>3, <2>4, <2>5, <2>7, <2>8, <2>9, ApartAppends
  <2>10. CASE pending' = Append(pending, it) /\ ready' = ready
    BY <2>1, <2>3, <2>4, <2>5, <2>7, <2>10, ApartWaits
  <2>11. CASE ready' = ready /\ pending' = pending
    BY <2>3, <2>4, <2>8, <2>11, ApartQueues
  <2> QED BY <2>2, <2>9, <2>10, <2>11
<1>4. ASSUME NEW i \in DOMAIN pending, Decide(i) PROVE Apart'
  <2>0. PICK it \in Item : it = pending[i]
    BY ItemsOf
  <2>1. /\ pending' = RemoveAt(pending, i) /\ (ready' = Append(ready, it) \/ ready' = ready)
        /\ UNCHANGED <<current, endings, renderer, syntheses, made, asked>>
    BY <1>4, <2>0 DEF Decide
  <2>2. Counted(it) /\ Unbegun(it) /\ Lone(it, ready)
    BY <2>0 DEF Apart, Lone
  <2>3. PartOf(pending', pending) /\ Lone(it, pending') /\ PartOf(ready, ready)
    <3>1. Lone(it, RemoveAt(pending, i)) /\ PartOf(RemoveAt(pending, i), pending)
      BY <1>1, <2>0, PartsOf DEF Lone
    <3>2. PartOf(ready, ready)
      BY PartsOf
    <3> QED BY <2>1, <3>1, <3>2
  <2>4. Counted(it)' /\ Grows
    BY <1>2, <2>1, <2>2 DEF Counted
  <2>5. CASE ready' = Append(ready, it)
    BY <2>1, <2>2, <2>3, <2>4, <2>5, ApartAppends
  <2>6. CASE ready' = ready
    BY <2>1, <2>3, <2>4, <2>6, ApartQueues
  <2> QED BY <2>1, <2>5, <2>6
<1>5. CASE ClearAudio
  <2>1. /\ ready' = <<>> /\ pending' = <<>>
        /\ UNCHANGED <<current, endings, renderer, syntheses, made, asked>>
    BY <1>5 DEF ClearAudio
  <2>2. PartOf(<<>>, ready) /\ PartOf(<<>>, pending)
    BY PartsOf
  <2> QED BY <1>2, <2>1, <2>2, ApartQueues
<1>6. CASE SkipAudio
  <2>1. current # NoItem /\ Abort /\ UNCHANGED <<ready, pending, renderer, made, asked>>
    BY <1>6 DEF SkipAudio
  <2> QED BY <2>1, ApartFinishes
<1>7. CASE AudioTick
  <2>1. PICK gone \in SUBSET (asked \cap {ready[k].of : k \in DOMAIN ready}) :
          LET kept == Without(ready, gone)
              next == current = NoItem /\ renderer /\ kept # <<>>
          IN  /\ ready' = IF next THEN Tail(kept) ELSE kept
              /\ IF next THEN Promote(Head(kept), syntheses) ELSE UNCHANGED <<current, syntheses>>
              /\ UNCHANGED <<pending, endings, renderer, made, asked>>
    BY <1>7 DEF AudioTick
  <2> DEFINE kept == Without(ready, gone)
             next == current = NoItem /\ renderer /\ kept # <<>>
  <2>2. /\ ready' = (IF next THEN Tail(kept) ELSE kept)
        /\ IF next THEN Promote(Head(kept), syntheses) ELSE UNCHANGED <<current, syntheses>>
        /\ UNCHANGED <<pending, endings, renderer, made, asked>>
    BY <2>1
  <2>3. /\ kept \in Seq(Item) /\ PartOf(kept, ready) /\ PartOf(pending, pending)
    BY <1>1, WithoutOf, PartsOf
  <2> HIDE DEF kept
  <2>4. CASE ~next
    BY <1>2, <2>2, <2>3, <2>4, ApartQueues
  <2>5. CASE next
    <3>0. PICK it \in Item : it = Head(kept)
      BY <2>3, <2>5, Tails
    <3>1. ready' = Tail(kept) /\ Promote(it, syntheses) /\ UNCHANGED <<pending, made, asked>>
      BY <2>2, <2>5, <3>0
    <3>2. it = kept[1] /\ 1 \in DOMAIN kept
      BY <2>3, <2>5, <3>0, Tails
    <3>3. Distinct(kept) /\ \A n \in DOMAIN kept : \E k \in DOMAIN ready : kept[n] = ready[k]
      BY <1>1, <2>3, PartKeeps
    <3>4. PartOf(Tail(kept), kept) /\ Lone(it, Tail(kept))
      BY <2>3, <2>5, <3>0, <3>3, PartsOf DEF Lone
    <3>5. PartOf(Tail(kept), ready)
      BY <2>3, <3>4, PartsChain
    <3>6. Counted(it) /\ Lone(it, pending)
      BY <3>2, <3>3 DEF Apart, Lone
    <3>7. Counted(it)' /\ Grows
      BY <1>2, <3>1, <3>6 DEF Counted
    <3> QED BY <2>3, <3>1, <3>2, <3>4, <3>5, <3>6, <3>7, ApartBegins
  <2> QED BY <2>4, <2>5
<1>8. ASSUME NEW it \in syntheses, SynthesisEnds(it) PROVE Apart'
  <2> DEFINE others == syntheses \ {it}
  <2>1. UNCHANGED <<ready, pending, renderer, made, asked>> /\ others \in SUBSET syntheses
    BY <1>8 DEF SynthesisEnds
  <2>2. CASE syntheses' = others /\ current' = current
    BY <2>1, <2>2, ApartCurrent DEF Showing
  <2>3. CASE ~Discarded(it) /\ Finish("failed", others)
    <3> HIDE DEF others
    <3>1. current # NoItem
      BY <2>3 DEF Discarded
    <3> QED BY <2>1, <2>3, <3>1, ApartFinishes
  <2>4. CASE /\ ~Discarded(it) /\ syntheses' = others
             /\ current' = [current EXCEPT !.bytes = it,
                                           !.state = IF renderer THEN "ready" ELSE "waiting"]
    <3>1. current # NoItem /\ current'.item = current.item
      BY <2>4, ItemsOf DEF Discarded, CurrentType
    <3> QED BY <2>1, <2>4, <3>1, ApartCurrent DEF Showing
  <2> QED BY <1>8, <2>2, <2>3, <2>4 DEF SynthesisEnds
\* The current item stays the same, but for its state
<1>9. ASSUME UNCHANGED <<ready, pending, syntheses, made, asked>>,
             \/ current' = current \/ current' = NoItem
             \/ current # NoItem /\ \E state : current' = [current EXCEPT !.state = state]
      PROVE  Apart'
  <2>1. current' # NoItem => current # NoItem /\ current'.item = current.item
    BY <1>9, ItemsOf DEF CurrentType
  <2> QED BY <1>9, <2>1, ApartCurrent DEF Showing
<1>10. CASE Connect
  BY <1>9, <1>10 DEF Connect
<1>11. CASE Disconnect
  BY <1>9, <1>11 DEF Disconnect, Abort
<1>12. CASE Ack
  <2>1. UNCHANGED <<ready, pending, renderer, made, asked>> /\ current # NoItem
    BY <1>12 DEF Ack
  <2>2. CASE current' = [current EXCEPT !.state = "playing"] /\ UNCHANGED <<endings, syntheses>>
    BY <1>9, <2>1, <2>2
  <2>3. CASE Finish("ended", syntheses) \/ Finish("failed", syntheses)
    BY <2>1, <2>3, ApartFinishes
  <2> QED BY <1>12, <2>2, <2>3 DEF Ack
<1> QED
  BY <1>3, <1>4, <1>5, <1>6, <1>7, <1>8, <1>10, <1>11, <1>12 DEF AudioStep

\* The alerts bring new items, and take away those of an alert that is over
LEMMA ApartCall ==
  ASSUME AudioOK, Apart, NEW i \in Alerts, Pieces[i] > 0,
         EnqueueAlertAudio(i) \/ CancelAlertAudio(i)
  PROVE  Apart'
<1>1. /\ Alerts \cap Utterances = {} /\ made \in [Alerts -> Nat] /\ Pieces[i] \in 1 .. 2
      /\ ready \in Seq(Item) /\ pending \in Seq(Item)
  BY AudioAssumption DEF AudioOK
<1>2. PartOf(ready, ready) /\ PartOf(pending, pending) /\ PartOf(Without(ready, {i}), ready)
  BY <1>1, PartsOf
<1>3. CASE EnqueueAlertAudio(i)
  <2>0. PICK it \in Item : it = [of |-> i, nth |-> made[i], more |-> Pieces[i] - 1]
    <3>1. made[i] \in Nat /\ Pieces[i] - 1 \in 0 .. 1
      BY <1>1
    <3>2. [of |-> i, nth |-> made[i], more |-> Pieces[i] - 1] \in Item
      BY <3>1 DEF Item
    <3> QED BY <3>2
  <2>1. it.of = i /\ it.nth = made[i]
    BY <2>0
  <2>2. made' = [made EXCEPT ![i] = @ + 1] /\ UNCHANGED <<pending, renderer, asked>>
    BY <1>3 DEF EnqueueAlertAudio
  <2>3. \/ ready' = Append(ready, it) /\ UNCHANGED <<current, syntheses>>
        \/ ready' = ready /\ UNCHANGED <<current, syntheses>>
        \/ ready' = ready /\ Promote(it, syntheses)
    BY <1>3, <2>0 DEF EnqueueAlertAudio
  <2>4. Grows
    BY <1>1, <2>2 DEF Grows
  <2>5. Counted(it)'
    BY <1>1, <2>1, <2>2 DEF Counted
  <2>6. \A other \in Item : Counted(other) => Showing(other) # Showing(it)
    <3> SUFFICES ASSUME NEW other \in Item, Counted(other), other.of = i, other.nth = made[i]
                 PROVE  FALSE
      BY <2>1 DEF Showing
    <3>1. made[i] \in Nat /\ made[i] < made[i]
      BY <1>1 DEF Counted
    <3> QED BY <3>1
  <2>7. Unbegun(it) /\ Lone(it, ready) /\ Lone(it, pending)
    BY <2>6, ItemsOf DEF Apart, Unbegun, Lone
  <2>8. CASE ready' = Append(ready, it) /\ UNCHANGED <<current, syntheses>>
    BY <1>2, <2>1, <2>2, <2>4, <2>5, <2>7, <2>8, ApartAppends
  <2>9. CASE ready' = ready /\ UNCHANGED <<current, syntheses>>
    BY <1>2, <2>2, <2>4, <2>9, ApartQueues
  <2>10. CASE ready' = ready /\ Promote(it, syntheses)
    BY <1>2, <2>1, <2>2, <2>4, <2>5, <2>7, <2>10, ApartBegins
  <2> QED BY <2>3, <2>8, <2>9, <2>10
<1>4. CASE CancelAlertAudio(i)
  <2>1. /\ ready' = Without(ready, {i}) /\ (current' = current \/ current' = NoItem)
        /\ UNCHANGED <<pending, syntheses, made, asked>>
    BY <1>4 DEF CancelAlertAudio
  <2>2. Grows
    BY <1>1, <2>1 DEF Grows
  <2> QED BY <1>2, <2>1, <2>2, ApartQueues
<1> QED BY <1>3, <1>4

LEMMA ApartStep == PlaybackInv /\ Apart /\ [Next]_vars => Apart'
<1> SUFFICES ASSUME PlaybackInv, Apart, [Next]_vars PROVE Apart'
  OBVIOUS
<1>1. AudioOK
  BY DEF PlaybackInv
<1>2. ASSUME UNCHANGED <<current, ready, pending, syntheses, made, asked>> PROVE Apart'
  <2>1. UNCHANGED <<ready, pending, made, asked>>
    BY <1>2
  <2>2. \A it \in syntheses' : \/ it \in syntheses
                               \/ current # NoItem /\ Showing(it) = Showing(current.item)
    BY <1>2
  <2>3. current' # NoItem => current # NoItem /\ Showing(current'.item) = Showing(current.item)
    BY <1>2 DEF Showing
  <2> QED BY <1>1, <2>1, <2>2, <2>3, ApartCurrent
<1>3. CASE AudioStep
  BY <1>1, <1>3, ApartAudio
<1>4. ASSUME NEW event \in Events, Match(event) PROVE Apart'
  BY <1>2, <1>4 DEF Match, audioVars
<1>5. ASSUME NEW i \in Synthetic, TestRule(i) \/ EnqueueTest(i) PROVE Apart'
  BY <1>2, <1>5 DEF TestRule, EnqueueTest, audioVars
<1>6. ASSUME NEW p \in Profiles, ProfileStep(p) PROVE Apart'
  <2>1. CASE Call(p)
    <3>1. Orderly(p, profile[p]) /\ profile[p] \in ProfileType /\ profile[p].calls # <<>>
      BY <2>1 DEF PlaybackInv, Handled, Call, Free
    <3> DEFINE q == profile[p].calls
               call == Head(q)
    <3>2. q \in Seq(CallType)
      BY <3>1 DEF ProfileType, CallType
    <3>3. call = q[1] /\ 1 \in DOMAIN q
      BY <3>1, <3>2, Tails
    <3>4. call[2] \in Alerts /\ Pieces[call[2]] > 0
      BY <3>1, <3>3 DEF Orderly, Due, Own
    <3>5. EnqueueAlertAudio(call[2]) \/ CancelAlertAudio(call[2])
      BY <2>1 DEF Call
    <3> QED BY <1>1, <3>4, <3>5, ApartCall
  <2>2. CASE Tick(p)
    BY <1>2, <2>2 DEF Tick
  <2>3. CASE Elapse(p)
    BY <1>2, <2>3 DEF Elapse, audioVars
  <2>4. CASE Command(p)
    BY <1>2, <2>4 DEF Command, audioVars
  <2> QED BY <1>6, <2>1, <2>2, <2>3, <2>4
          DEF ProfileStep, Pause, Skip, Replay, Clear, Disable, Enable
<1>7. CASE UNCHANGED vars
  BY <1>2, <1>7 DEF vars, audioVars
<1> QED BY <1>3, <1>4, <1>5, <1>6, <1>7 DEF Next

LEMMA ApartAlways == Spec => []Apart
<1>1. Init => Apart
  <2> SUFFICES ASSUME Init PROVE Apart
    OBVIOUS
  <2>1. /\ current = NoItem /\ ready = <<>> /\ pending = <<>> /\ syntheses = {}
        /\ DOMAIN <<>> = {}
    BY DEF Init, AudioInit
  <2> QED BY <2>1 DEF Apart, Distinct
<1> QED BY <1>1, PlaybackAlways, ApartStep, PTL DEF Spec


\* The bytes of the current item are its own, however many syntheses of items that were
\* skipped, cancelled or interrupted still run and bring their results; while it has none its
\* own synthesis is running; and nothing that waits in the queue is synthesised yet
THEOREM OwnAudioOnly == Spec => []CurrentIsServed
<1>1. PlaybackInv /\ Apart => CurrentIsServed
  <2> SUFFICES ASSUME PlaybackInv, Apart PROVE CurrentIsServed
    OBVIOUS
  <2>1. \A k \in DOMAIN ready : ready[k] \notin syntheses
    BY DEF Apart, Unbegun
  <2> QED BY <2>1 DEF PlaybackInv, AudioOK, Served, CurrentIsServed
<1> QED BY <1>1, PlaybackAlways, ApartAlways, PTL

=============================================================================
