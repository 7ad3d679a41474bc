---------------------- MODULE OutboundDispatcherProofs ----------------------
(***************************************************************************)
(* Proofs about OutboundDispatcher, for every number of callers, every     *)
(* bound of the queue and every pace.                                      *)
(***************************************************************************)
EXTENDS OutboundDispatcher, WellFoundedInduction, TLAPS

-----------------------------------------------------------------------------
(* At most one copy of a message: who holds a job, and what it may have sent *)

Steps == {"none", "idle", "pacing", "polling", "calling", "refreshing", "retrying", "exited"}
Busy  == {"pacing", "polling", "calling", "refreshing", "retrying"}
Early == {"idle", "dispatched", "refused"}

JobsType ==
  /\ call \in [Jobs -> {"idle", "dispatched", "waiting"} \cup Returns]
  /\ answer \in [Jobs -> Outcomes \cup {NoAnswer}]
  /\ queue \in Seq(Jobs)
  /\ worker \in [step : Steps, job : Jobs \cup {NoJob}]
  /\ delivered \in [Jobs -> Nat]

\* The worker has a job exactly while it is busy with one
WorkerHasJob == worker.job = NoJob <=> worker.step \notin Busy

\* Nothing has been sent or answered for job j
Unsent(j) == answer[j] = NoAnswer /\ delivered[j] = 0

\* A job is in one place: with its caller, once in the queue, or with the worker; nothing has
\* been sent for it before the worker lets go of it
OnePlace ==
  /\ \A j \in Jobs : call[j] \in Early => Unsent(j)
  /\ \A i \in 1 .. Len(queue) :
       /\ call[queue[i]] \notin Early /\ Unsent(queue[i])
       /\ queue[i] # worker.job
       /\ \A k \in 1 .. Len(queue) : queue[i] = queue[k] => i = k
  /\ worker.job \in Jobs => call[worker.job] \notin Early /\ Unsent(worker.job)

SendInv == JobsType /\ WorkerHasJob /\ OnePlace /\ SentAtMostOnce

LEMMA SendInit == Init => SendInv
  BY DispatcherAssumption
  DEF Init, SendInv, JobsType, WorkerHasJob, OnePlace, SentAtMostOnce, Unsent, Steps, Busy,
      Early, Returns, Outcomes, NoAnswer

LEMMA CallerKeepsSend ==
  ASSUME SendInv, NEW j \in Jobs, CallerStep(j) PROVE SendInv'
<1>0. SendInv
  OBVIOUS
<1> USE DEF JobsType, WorkerHasJob, OnePlace, SentAtMostOnce, Unsent
<1>1. CASE Send(j)
  <2>1. call[j] = "idle" /\ UNCHANGED <<answer, queue, delivered>>
    BY <1>1 DEF Send, historyVars
  <2>2. PICK state \in {"refused", "dispatched"} : call' = [call EXCEPT ![j] = state]
    BY <1>1 DEF Send
  <2>3. worker' = worker \/ (worker.step = "none" /\ worker' = [worker EXCEPT !.step = "idle"])
    BY <1>1 DEF Send
  <2>4. JobsType' /\ WorkerHasJob' /\ worker'.job = worker.job
    BY <1>0, <2>1, <2>2, <2>3 DEF SendInv, Steps, Busy, Returns
  <2>5. OnePlace' /\ SentAtMostOnce'
    BY <1>0, <2>1, <2>2, <2>4 DEF SendInv, Early, NoAnswer
  <2> QED BY <2>4, <2>5 DEF SendInv
<1>2. CASE Enqueue(j)
  <2>1. call[j] = "dispatched" /\ UNCHANGED <<answer, worker, delivered>>
    BY <1>2 DEF Enqueue, historyVars
  <2>2. CASE queue' = Append(queue, j) /\ call' = [call EXCEPT ![j] = "waiting"]
    <3>1. /\ Len(queue') = Len(queue) + 1 /\ queue'[Len(queue) + 1] = j
          /\ \A i \in 1 .. Len(queue) : queue'[i] = queue[i] /\ queue[i] # j
      BY <1>0, <2>1, <2>2 DEF SendInv, Early
    <3>2. Unsent(j) /\ j # worker.job
      BY <1>0, <2>1 DEF SendInv, Early
    <3>3. JobsType' /\ WorkerHasJob' /\ SentAtMostOnce'
      BY <1>0, <2>1, <2>2 DEF SendInv
    <3>4. OnePlace'
      BY <1>0, <2>1, <2>2, <3>1, <3>2, <3>3 DEF SendInv, Early
    <3> QED BY <3>3, <3>4 DEF SendInv
  <2>3. CASE queue' = queue /\ call' = [call EXCEPT ![j] = "refused"]
    <3>1. JobsType' /\ WorkerHasJob' /\ SentAtMostOnce'
      BY <1>0, <2>1, <2>3 DEF SendInv, Returns, Early
    <3>2. OnePlace'
      BY <1>0, <2>1, <2>3 DEF SendInv, Early
    <3> QED BY <3>1, <3>2 DEF SendInv
  <2> QED BY <1>2, <2>2, <2>3 DEF Enqueue
<1>3. CASE call[j] = "waiting" /\ UNCHANGED <<queue, worker, delivered>>
           /\ (answer' = answer \/ answer' = [answer EXCEPT ![j] = NoAnswer])
           /\ \E state \in {"answered", "cancelled"} : call' = [call EXCEPT ![j] = state]
  <2>1. JobsType' /\ WorkerHasJob'
    BY <1>0, <1>3 DEF SendInv, Returns
  <2>2. SentAtMostOnce'
    BY <1>0, <1>3 DEF SendInv, NoAnswer
  <2>3. OnePlace'
    BY <1>0, <1>3 DEF SendInv, Early
  <2> QED BY <2>1, <2>2, <2>3 DEF SendInv
<1> QED
  BY <1>1, <1>2, <1>3 DEF CallerStep, Return, CallerLeaves, historyVars

\* What it takes for the worker to let go of its job
LEMMA FinishKeepsSend ==
  ASSUME SendInv, worker.step \in Busy, NEW outcome \in Outcomes, Finish(outcome),
         NEW n \in Copies(outcome), delivered' = [delivered EXCEPT ![Job] = @ + n],
         UNCHANGED <<call, queue>>
  PROVE  SendInv'
<1> USE DispatcherAssumption DEF SendInv, JobsType, WorkerHasJob, OnePlace, Unsent, Busy, Early
<1>1. Job \in Jobs /\ Unsent(Job) /\ call[Job] \notin Early
  BY DEF Job
<1>2. n \in {0, 1} /\ (outcome = "sent" => n = 1)
      /\ (outcome \in {"failed", "rate_limited", "cancelled"} => n = 0)
  BY DEF Copies, Outcomes
<1>3. answer' = [answer EXCEPT ![Job] = outcome] /\ worker' = [step |-> "idle", job |-> NoJob]
  BY DEF Finish, Idle
<1>4. JobsType' /\ WorkerHasJob'
  BY <1>1, <1>2, <1>3 DEF Steps
<1>5. OnePlace'
  BY <1>1, <1>3 DEF Job
<1>6. SentAtMostOnce'
  BY <1>1, <1>2, <1>3 DEF SentAtMostOnce, NoAnswer, Outcomes
<1> QED BY <1>4, <1>5, <1>6

\* ... and for it to go on with it
LEMMA WorkKeepsSend ==
  ASSUME SendInv, worker.step \in Busy, NEW step \in Busy, Goes(step),
         UNCHANGED <<call, answer, queue, delivered>>
  PROVE  SendInv'
  BY DEF SendInv, JobsType, WorkerHasJob, OnePlace, SentAtMostOnce, Unsent, Steps, Busy, Goes

LEMMA WorkerKeepsSend ==
  ASSUME SendInv, WorkerStep PROVE SendInv'
<1>1. CASE WorkerStop
  BY <1>1, DispatcherAssumption
  DEF WorkerStop, At, Goes, SendInv, JobsType, WorkerHasJob, OnePlace, SentAtMostOnce, Unsent,
      Steps, Busy
<1>2. CASE TakeJob
  <2> USE <1>2, DispatcherAssumption DEF SendInv, JobsType
  <2>1. /\ Head(queue) = queue[1] /\ queue[1] \in Jobs /\ Len(queue) >= 1
        /\ Tail(queue) \in Seq(Jobs) /\ Len(Tail(queue)) = Len(queue) - 1
        /\ \A i \in 1 .. Len(queue) - 1 : Tail(queue)[i] = queue[i + 1]
    BY DEF TakeJob
  <2>2. /\ worker' = [step |-> "pacing", job |-> queue[1]] /\ queue' = Tail(queue)
        /\ UNCHANGED <<call, answer, delivered>>
    BY <2>1 DEF TakeJob
  <2>3. OnePlace'
    BY <2>1, <2>2 DEF OnePlace, Unsent
  <2> QED
    BY <2>1, <2>2, <2>3 DEF WorkerHasJob, SentAtMostOnce, Steps, Busy
<1>3. CASE Wait
  BY <1>3, WorkKeepsSend DEF Wait, At, Busy
<1>4. CASE Start
  BY <1>4, WorkKeepsSend DEF Start, At, Busy
<1>5. CASE Poll
  BY <1>5, WorkKeepsSend DEF Poll, At, Busy
<1>0. ASSUME worker.step \in Busy, NEW outcome \in {"failed", "rate_limited", "cancelled"},
             Finish(outcome), UNCHANGED <<call, queue, delivered>>
      PROVE  SendInv'
  <2>1. 0 \in Copies(outcome) /\ outcome \in Outcomes
    BY <1>0 DEF Copies, Outcomes
  <2>2. Job \in Jobs
    BY <1>0 DEF SendInv, JobsType, WorkerHasJob, Job
  <2>3. delivered' = [delivered EXCEPT ![Job] = @ + 0]
    BY <1>0, <2>2 DEF SendInv, JobsType
  <2> QED BY <1>0, <2>1, <2>3, FinishKeepsSend
<1>6. CASE PollCancelled
  BY <1>6, <1>0 DEF PollCancelled, Finish, At, Busy
<1>7. CASE AccountRefuses
  BY <1>7, <1>0 DEF AccountRefuses, At, Busy
<1>8. CASE ProviderAnswers
  BY <1>8, FinishKeepsSend DEF ProviderAnswers, At, Busy, Outcomes
<1>9. CASE ProviderRateLimits
  BY <1>9, <1>0 DEF ProviderRateLimits, At, Busy
<1>10. CASE ProviderUnauthorized
  BY <1>10, <1>0, WorkKeepsSend DEF ProviderUnauthorized, At, Busy
<1>11. CASE RefreshEnds
  BY <1>11, <1>0, WorkKeepsSend DEF RefreshEnds, At, Busy
<1> QED
  BY <1>1, <1>2, <1>3, <1>4, <1>5, <1>6, <1>7, <1>8, <1>9, <1>10, <1>11 DEF WorkerStep

LEMMA SendStep == SendInv /\ [Next]_dispatcherVars => SendInv'
<1> SUFFICES ASSUME SendInv, [Next]_dispatcherVars PROVE SendInv'
  OBVIOUS
<1> DEFINE jobVars == <<call, answer, queue, worker, delivered>>
<1>1. CASE UNCHANGED jobVars
  BY <1>1 DEF SendInv, JobsType, WorkerHasJob, OnePlace, SentAtMostOnce, Unsent
<1>2. CASE \E j \in Jobs : CallerStep(j)
  BY <1>2, CallerKeepsSend
<1>3. CASE WorkerStep
  BY <1>3, WorkerKeepsSend
<1>4. CASE Tick \/ CloseManager \/ CancelDispatcher \/ ShutdownReturns
  BY <1>1, <1>4 DEF Tick, CloseManager, CancelDispatcher, ShutdownReturns, shutdownRest
<1>5. CASE UNCHANGED dispatcherVars
  BY <1>1, <1>5 DEF dispatcherVars
<1> QED BY <1>2, <1>3, <1>4, <1>5 DEF Next

\* The chat sees no message twice, and none that was refused or definitely failed
THEOREM AtMostOnce == Spec => []SentAtMostOnce
<1>1. SendInv => SentAtMostOnce
  BY DEF SendInv
<1> QED
  BY <1>1, SendInit, SendStep, PTL DEF Spec

-----------------------------------------------------------------------------
(* The pace of the starts *)

\* A bounded set of integers has a greatest element
LEMMA Greatest ==
  ASSUME NEW low \in Int, NEW high \in Int, NEW S \in SUBSET (low .. high), S # {}
  PROVE  Max(S) \in S /\ \A y \in S : y <= Max(S)
<1> DEFINE T == {high - x : x \in S}
<1>1. T \in SUBSET Nat /\ T # {}
  OBVIOUS
<1>2. PICK t \in T : \A y \in T : <<y, t>> \notin OpToRel(<, Nat)
  BY <1>1, NatLessThanWellFounded, WFMin
<1>3. \A y \in T : y < t => <<y, t>> \in OpToRel(<, Nat)
  BY <1>1 DEF OpToRel
<1>4. PICK x \in S : t = high - x
  OBVIOUS
<1>5. \A y \in S : high - y \in T
  OBVIOUS
<1>6. \A y \in S : ~(high - y < t)
  BY <1>2, <1>3, <1>5
<1>7. \A y \in S : x >= y
  BY <1>4, <1>6
<1> QED BY <1>7 DEF Max

LEMMA OfTwo ==
  ASSUME NEW a \in Int, NEW b \in Int
  PROVE  /\ Max({a, b}) = IF a >= b THEN a ELSE b
         /\ Min({a, b}) = IF a <= b THEN a ELSE b
<1>1. \A x \in {a, b} : (\A y \in {a, b} : x >= y) <=> x >= a /\ x >= b
  OBVIOUS
<1>2. \A x \in {a, b} : (\A y \in {a, b} : x <= y) <=> x <= a /\ x <= b
  OBVIOUS
<1> QED BY <1>1, <1>2 DEF Max, Min

OldestFirst(ages) == \A i, k \in 1 .. Len(ages) : i <= k => ages[i] >= ages[k]

LEMMA AgesAre ==
  ASSUME NEW ages \in Seq(Ages)
  PROVE  Len(ages) \in Nat /\ \A i \in 1 .. Len(ages) : ages[i] \in Nat /\ ages[i] <= Window
<1>1. \A i \in 1 .. Len(ages) : ages[i] \in Ages
  OBVIOUS
<1>2. \A a \in Ages : a \in Nat /\ a <= Window
  BY DispatcherAssumption DEF Ages
<1> QED BY <1>1, <1>2

\* InWindow keeps the end of the list, and drops nothing that is young
LEMMA YoungEnd ==
  ASSUME NEW ages \in Seq(Ages), OldestFirst(ages)
  PROVE  LET kept == InWindow(ages)
             gone == Len(ages) - Len(kept)
         IN  /\ kept \in Seq(Ages) /\ OldestFirst(kept) /\ gone \in Nat
             /\ \A i \in 1 .. Len(kept) : kept[i] = ages[gone + i] /\ kept[i] < Window
             /\ \A i \in 1 .. gone : ages[i] >= Window
<1> DEFINE old == {0} \cup {i \in DOMAIN ages : ages[i] >= Window}
           cut == Max(old)
           kept == InWindow(ages)
<1> USE DispatcherAssumption
<1>0. old \in SUBSET (0 .. Len(ages)) /\ old # {} /\ 0 \in Int /\ Len(ages) \in Int
  OBVIOUS
<1> HIDE DEF old
<1>1. cut \in old /\ (\A i \in old : i <= cut)
  BY <1>0, Greatest
<1> USE DEF old
<1>2. cut \in 0 .. Len(ages) /\ (cut # 0 => ages[cut] >= Window)
  BY <1>1
<1>3. \A i \in cut + 1 .. Len(ages) : ages[i] < Window
  <2>1. ASSUME NEW i \in cut + 1 .. Len(ages), ~(ages[i] < Window) PROVE FALSE
    <3>1. i \in old
      BY <1>2, <2>1 DEF Ages
    <3> QED BY <1>1, <1>2, <2>1, <3>1
  <2> QED BY <2>1
<1>4. kept = SubSeq(ages, cut + 1, Len(ages))
  BY DEF InWindow
<1> HIDE DEF cut, old, kept
<1>5. /\ kept \in Seq(Ages) /\ Len(kept) = Len(ages) - cut
      /\ \A i \in 1 .. Len(kept) : kept[i] = ages[cut + i]
  BY <1>2, <1>4
<1>6. \A i \in 1 .. cut : ages[i] >= Window
  BY <1>2 DEF OldestFirst, Ages
<1>7. \A i \in 1 .. Len(kept) : kept[i] < Window
  BY <1>2, <1>3, <1>5
<1>8. OldestFirst(kept)
  BY <1>2, <1>5 DEF OldestFirst
<1> QED BY <1>2, <1>5, <1>6, <1>7, <1>8 DEF kept

\* WaitLeft respects each of the three limits
LEMMA WaitLeftBounds ==
  ASSUME NEW kept \in Seq(Ages), notBefore \in 0 .. MaxRetryAfter
  PROVE  /\ WaitLeft(kept) \in Nat /\ WaitLeft(kept) >= notBefore
         /\ Len(kept) # 0 => WaitLeft(kept) >= MinInterval - kept[Len(kept)]
         /\ Len(kept) >= MaxStarts => WaitLeft(kept) >= Window - kept[1]
<1> DEFINE floor  == {MinInterval - kept[i] : i \in DOMAIN kept \cap {Len(kept)}}
           full   == IF Len(kept) >= MaxStarts THEN {Window - kept[1]} ELSE {}
           limits == {0, notBefore} \cup floor \cup full
<1> USE DispatcherAssumption DEF Ages
<1>1. floor \in SUBSET (-Window .. Window + MaxRetryAfter)
  OBVIOUS
<1>2. full \in SUBSET (-Window .. Window + MaxRetryAfter)
  OBVIOUS
<1>3. limits \in SUBSET (-Window .. Window + MaxRetryAfter)
  BY <1>1, <1>2
<1>4. limits # {} /\ -Window \in Int /\ Window + MaxRetryAfter \in Int
  OBVIOUS
<1>5. WaitLeft(kept) = Max(limits)
  BY DEF WaitLeft
<1>6. Len(kept) # 0 => MinInterval - kept[Len(kept)] \in limits
  <2>1. Len(kept) # 0 => Len(kept) \in DOMAIN kept \cap {Len(kept)}
    OBVIOUS
  <2>2. Len(kept) # 0 => MinInterval - kept[Len(kept)] \in floor
    BY <2>1
  <2> QED BY <2>2
<1>7. Len(kept) >= MaxStarts => Window - kept[1] \in limits
  OBVIOUS
<1>8. 0 \in limits /\ notBefore \in limits
  OBVIOUS
<1> HIDE DEF limits, floor, full
<1>9. WaitLeft(kept) \in limits /\ \A y \in limits : y <= WaitLeft(kept)
  BY <1>3, <1>4, <1>5, Greatest
<1>10. WaitLeft(kept) \in Nat
  <2>1. WaitLeft(kept) \in -Window .. Window + MaxRetryAfter
    BY <1>3, <1>9
  <2>2. 0 <= WaitLeft(kept)
    BY <1>8, <1>9
  <2> QED BY <2>1, <2>2
<1> QED BY <1>6, <1>7, <1>8, <1>9, <1>10

\* The newest starts that are young are remembered
Remembered ==
  \A k \in 0 .. MaxStarts - 1 :
    k < Len(starts) /\ starts[Len(starts) - k] < Window =>
      /\ k < Len(recentStarts)
      /\ recentStarts[Len(recentStarts) - k] = starts[Len(starts) - k]

PaceInv ==
  /\ recentStarts \in Seq(Ages) /\ Len(recentStarts) <= MaxStarts /\ OldestFirst(recentStarts)
  /\ starts \in Seq(Ages) /\ OldestFirst(starts)
  /\ Remembered
  /\ notBefore \in 0 .. MaxRetryAfter /\ told = notBefore

LEMMA PaceInit == Init => PaceInv
  BY DispatcherAssumption DEF Init, PaceInv, OldestFirst, Remembered, Ages

\* Forgetting what is old keeps the list of the remembered starts right
LEMMA PruneKeepsPace ==
  ASSUME PaceInv, recentStarts' = InWindow(recentStarts),
         UNCHANGED <<starts, notBefore, told>>
  PROVE  PaceInv'
<1> DEFINE gone == Len(recentStarts) - Len(recentStarts')
<1>1. /\ recentStarts' \in Seq(Ages) /\ OldestFirst(recentStarts') /\ gone \in Nat
      /\ \A i \in 1 .. Len(recentStarts') : recentStarts'[i] = recentStarts[gone + i]
      /\ \A i \in 1 .. gone : recentStarts[i] >= Window
  BY YoungEnd DEF PaceInv
<1>2. Len(recentStarts') <= MaxStarts
  BY <1>1, DispatcherAssumption DEF PaceInv
<1>3. ASSUME NEW k \in 0 .. MaxStarts - 1,
             k < Len(starts), starts[Len(starts) - k] < Window
      PROVE  /\ k < Len(recentStarts')
             /\ recentStarts'[Len(recentStarts') - k] = starts[Len(starts) - k]
  <2>1. /\ k < Len(recentStarts)
        /\ recentStarts[Len(recentStarts) - k] = starts[Len(starts) - k]
    BY <1>3 DEF PaceInv, Remembered
  <2>2. Len(recentStarts) - k \notin 1 .. gone
    <3>1. ~(recentStarts[Len(recentStarts) - k] >= Window)
      BY <1>3, <2>1, AgesAre, DispatcherAssumption DEF PaceInv
    <3> QED BY <1>1, <3>1
  <2>3. k < Len(recentStarts')
    BY <1>1, <2>1, <2>2 DEF PaceInv
  <2> QED BY <1>1, <2>1, <2>3 DEF PaceInv
<1>4. Remembered'
  BY <1>3 DEF Remembered
<1> QED BY <1>1, <1>2, <1>4 DEF PaceInv, OldestFirst

LEMMA StartKeepsPace ==
  ASSUME PaceInv, Start PROVE PaceInv'
<1> DEFINE kept  == InWindow(recentStarts)
           young == InWindow(starts)
           all   == Append(kept, 0)
           first == Max({1, Len(all) - MaxStarts + 1})
<1> USE DispatcherAssumption
<1>1. /\ kept \in Seq(Ages) /\ OldestFirst(kept)
      /\ Len(recentStarts) - Len(kept) \in Nat
      /\ \A i \in 1 .. Len(kept) : kept[i] = recentStarts[Len(recentStarts) - Len(kept) + i]
      /\ \A i \in 1 .. Len(recentStarts) - Len(kept) : recentStarts[i] >= Window
  BY YoungEnd DEF PaceInv
<1>2. /\ young \in Seq(Ages) /\ OldestFirst(young)
      /\ Len(starts) - Len(young) \in Nat
      /\ \A i \in 1 .. Len(young) :
           young[i] = starts[Len(starts) - Len(young) + i] /\ young[i] < Window
  BY YoungEnd DEF PaceInv
<1>3. /\ starts' = Append(young, 0)
      /\ recentStarts' = SubSeq(all, first, Len(all))
      /\ UNCHANGED <<notBefore, told>>
  BY DEF Start, Recorded
<1> HIDE DEF kept, young
<1>4. first = IF Len(all) >= MaxStarts THEN Len(all) - MaxStarts + 1 ELSE 1
  BY <1>1, OfTwo
<1>5. all \in Seq(Ages) /\ Len(all) = Len(kept) + 1 /\ OldestFirst(all)
  BY <1>1 DEF OldestFirst, Ages
<1>6. starts' \in Seq(Ages) /\ Len(starts') = Len(young) + 1 /\ OldestFirst(starts')
  BY <1>2, <1>3 DEF OldestFirst, Ages
<1>7. /\ first \in 1 .. Len(all) /\ Len(all) - first + 1 <= MaxStarts
      /\ MaxStarts <= Len(all) => Len(all) - first + 1 = MaxStarts
      /\ MaxStarts > Len(all) => first = 1
  BY <1>4, <1>5
<1> HIDE DEF first, all
<1>8. /\ recentStarts' \in Seq(Ages) /\ Len(recentStarts') = Len(all) - first + 1
      /\ \A i \in 1 .. Len(recentStarts') : recentStarts'[i] = all[first - 1 + i]
  BY <1>3, <1>5, <1>7
<1>9. OldestFirst(recentStarts')
  <2>1. \A i \in 1 .. Len(recentStarts') : first - 1 + i \in 1 .. Len(all)
    BY <1>5, <1>7, <1>8
  <2>2. ASSUME NEW i \in 1 .. Len(recentStarts'), NEW k \in 1 .. Len(recentStarts'), i <= k
        PROVE  recentStarts'[i] >= recentStarts'[k]
    <3>1. first - 1 + i <= first - 1 + k
      BY <1>7, <1>8, <2>2
    <3>2. all[first - 1 + i] >= all[first - 1 + k]
      BY <1>5, <2>1, <3>1 DEF OldestFirst
    <3> QED BY <1>8, <3>2
  <2> QED BY <2>2 DEF OldestFirst
<1>10. ASSUME NEW k \in 0 .. MaxStarts - 1,
              k < Len(starts'), starts'[Len(starts') - k] < Window
       PROVE  /\ k < Len(recentStarts')
              /\ recentStarts'[Len(recentStarts') - k] = starts'[Len(starts') - k]
  <2>1. CASE k = 0
    <3>1. starts'[Len(starts')] = 0 /\ all[Len(all)] = 0
      BY <1>1, <1>2, <1>3, <1>5, <1>6 DEF all
    <3> QED BY <2>1, <3>1, <1>5, <1>6, <1>7, <1>8
  <2>2. CASE k > 0
    <3>1. k - 1 < Len(young) /\ starts'[Len(starts') - k] = young[Len(young) - (k - 1)]
      BY <1>2, <1>3, <1>6, <1>10, <2>2
    <3>2. /\ k - 1 < Len(starts)
          /\ young[Len(young) - (k - 1)] = starts[Len(starts) - (k - 1)]
          /\ starts[Len(starts) - (k - 1)] < Window
      BY <1>2, <3>1, <2>2 DEF PaceInv
    <3>3. /\ k - 1 < Len(recentStarts)
          /\ recentStarts[Len(recentStarts) - (k - 1)] = starts[Len(starts) - (k - 1)]
      BY <3>2, <2>2 DEF PaceInv, Remembered
    <3>4. Len(recentStarts) - (k - 1) \notin 1 .. Len(recentStarts) - Len(kept)
      <4>1. ~(recentStarts[Len(recentStarts) - (k - 1)] >= Window)
        BY <3>2, <3>3, <2>2, AgesAre DEF PaceInv
      <4> QED BY <1>1, <4>1
    <3>5. /\ k - 1 < Len(kept)
          /\ kept[Len(kept) - (k - 1)] = recentStarts[Len(recentStarts) - (k - 1)]
      BY <1>1, <3>3, <3>4, <2>2 DEF PaceInv
    <3>6. all[Len(all) - k] = kept[Len(kept) - (k - 1)] /\ k < Len(all)
      BY <1>1, <1>5, <3>5, <2>2 DEF all
    <3>7. k < Len(recentStarts') /\ recentStarts'[Len(recentStarts') - k] = all[Len(all) - k]
      <4>1. Len(recentStarts') = Len(all) - first + 1 /\ k < Len(recentStarts')
        BY <1>5, <1>7, <1>8, <2>2, <3>6
      <4>2. /\ Len(recentStarts') - k \in 1 .. Len(recentStarts')
            /\ first - 1 + (Len(recentStarts') - k) = Len(all) - k
        BY <1>5, <1>7, <2>2, <4>1
      <4>3. recentStarts'[Len(recentStarts') - k] = all[first - 1 + (Len(recentStarts') - k)]
        BY <1>8, <4>2
      <4> QED BY <4>1, <4>2, <4>3
    <3> QED BY <3>1, <3>2, <3>3, <3>5, <3>6, <3>7
  <2> QED BY <2>1, <2>2
<1>11. Remembered'
  BY <1>10 DEF Remembered
<1>12. Len(recentStarts') <= MaxStarts
  BY <1>7, <1>8
<1> QED BY <1>3, <1>6, <1>8, <1>9, <1>11, <1>12 DEF PaceInv, OldestFirst

LEMMA TickKeepsPace ==
  ASSUME PaceInv, Tick PROVE PaceInv'
<1> USE DispatcherAssumption
<1>0. /\ Len(recentStarts) \in Nat /\ Len(starts) \in Nat
      /\ \A i \in 1 .. Len(recentStarts) : recentStarts[i] \in Nat /\ recentStarts[i] <= Window
      /\ \A i \in 1 .. Len(starts) : starts[i] \in Nat /\ starts[i] <= Window
  BY AgesAre DEF PaceInv
<1>1. ASSUME NEW ages \in Seq(Ages)
      PROVE  /\ Older(ages, 1) \in Seq(Ages) /\ Len(Older(ages, 1)) = Len(ages)
             /\ \A i \in 1 .. Len(ages) :
                  Older(ages, 1)[i] = IF ages[i] + 1 <= Window THEN ages[i] + 1 ELSE Window
  <2> DEFINE older(a) == IF a + 1 <= Window THEN a + 1 ELSE Window
  <2>1. ASSUME NEW a \in Nat PROVE Min({a + 1, Window}) = older(a)
    <3>1. a + 1 \in Int /\ Window \in Int
      OBVIOUS
    <3> QED BY <3>1, OfTwo
  <2>2. Older(ages, 1) = [i \in 1 .. Len(ages) |-> older(ages[i])]
    BY <2>1, AgesAre DEF Older
  <2>3. \A i \in 1 .. Len(ages) : older(ages[i]) \in Ages
    BY AgesAre DEF Ages
  <2> HIDE DEF older
  <2>4. Older(ages, 1) \in Seq(Ages) /\ Len(Older(ages, 1)) = Len(ages)
    BY <2>2, <2>3
  <2>5. \A i \in 1 .. Len(ages) : Older(ages, 1)[i] = older(ages[i])
    BY <2>2
  <2> QED BY <2>4, <2>5 DEF older
<1>2. /\ recentStarts' = Older(recentStarts, 1) /\ starts' = Older(starts, 1)
      /\ notBefore' = Max({0, notBefore - 1}) /\ told' = Max({0, told - 1})
  BY DEF Tick
<1>3. /\ recentStarts' \in Seq(Ages) /\ Len(recentStarts') = Len(recentStarts)
      /\ \A i \in 1 .. Len(recentStarts) :
           recentStarts'[i] = IF recentStarts[i] + 1 <= Window THEN recentStarts[i] + 1 ELSE Window
  BY <1>1, <1>2 DEF PaceInv
<1>4. /\ starts' \in Seq(Ages) /\ Len(starts') = Len(starts)
      /\ \A i \in 1 .. Len(starts) :
           starts'[i] = IF starts[i] + 1 <= Window THEN starts[i] + 1 ELSE Window
  BY <1>1, <1>2 DEF PaceInv
<1>5. OldestFirst(recentStarts') /\ OldestFirst(starts')
  <2>1. OldestFirst(recentStarts) /\ OldestFirst(starts)
    BY DEF PaceInv
  <2>2. OldestFirst(recentStarts')
    BY <1>0, <1>3, <2>1 DEF OldestFirst
  <2>3. OldestFirst(starts')
    BY <1>0, <1>4, <2>1 DEF OldestFirst
  <2> QED BY <2>2, <2>3
<1>6. Remembered'
  <2>1. ASSUME NEW k \in 0 .. MaxStarts - 1,
               k < Len(starts'), starts'[Len(starts') - k] < Window
        PROVE  /\ k < Len(recentStarts')
               /\ recentStarts'[Len(recentStarts') - k] = starts'[Len(starts') - k]
    <3>1. k < Len(starts) /\ Len(starts) - k \in 1 .. Len(starts)
      BY <1>0, <1>4, <2>1
    <3>2. starts[Len(starts) - k] < Window
      BY <1>0, <1>4, <2>1, <3>1
    <3>3. /\ k < Len(recentStarts) /\ Len(recentStarts) - k \in 1 .. Len(recentStarts)
          /\ recentStarts[Len(recentStarts) - k] = starts[Len(starts) - k]
      BY <1>0, <2>1, <3>1, <3>2 DEF PaceInv, Remembered
    <3>4. recentStarts'[Len(recentStarts) - k] = starts'[Len(starts) - k]
      <4> DEFINE r == Len(recentStarts) - k
                 a == Len(starts) - k
      <4>1. r \in 1 .. Len(recentStarts) /\ a \in 1 .. Len(starts) /\ recentStarts[r] = starts[a]
        BY <3>1, <3>3
      <4> HIDE DEF r, a
      <4>2. recentStarts'[r] = starts'[a]
        BY <1>3, <1>4, <4>1
      <4> QED BY <4>2 DEF r, a
    <3> QED BY <1>3, <1>4, <3>3, <3>4
  <2> QED BY <2>1 DEF Remembered
<1>7. notBefore' \in 0 .. MaxRetryAfter /\ told' = notBefore'
  BY <1>2, OfTwo DEF PaceInv
<1> QED BY <1>3, <1>4, <1>5, <1>6, <1>7 DEF PaceInv, OldestFirst

LEMMA PaceStep == PaceInv /\ [Next]_dispatcherVars => PaceInv'
<1> SUFFICES ASSUME PaceInv, [Next]_dispatcherVars PROVE PaceInv'
  OBVIOUS
<1>1. CASE UNCHANGED <<recentStarts, starts, notBefore, told>>
  BY <1>1 DEF PaceInv, OldestFirst, Remembered
<1>2. CASE Wait
  BY <1>2, PruneKeepsPace DEF Wait
<1>3. CASE Start
  BY <1>3, StartKeepsPace
<1>4. CASE ProviderRateLimits
  <2>1. PICK r \in 0 .. MaxRetryAfter : notBefore' = Max({notBefore, r}) /\ told' = Max({told, r})
    BY <1>4 DEF ProviderRateLimits
  <2>2. notBefore' \in 0 .. MaxRetryAfter /\ told' = notBefore'
    BY <2>1, OfTwo, DispatcherAssumption DEF PaceInv
  <2> QED BY <1>4, <2>2 DEF ProviderRateLimits, PaceInv, OldestFirst, Remembered
<1>5. CASE Tick
  BY <1>5, TickKeepsPace
<1>6. CASE WorkerStop \/ TakeJob \/ Poll \/ PollCancelled \/ AccountRefuses \/ ProviderAnswers
           \/ ProviderUnauthorized \/ RefreshEnds
  BY <1>1, <1>6
  DEF WorkerStop, TakeJob, Poll, PollCancelled, AccountRefuses, ProviderAnswers,
      ProviderUnauthorized, RefreshEnds, paceVars
<1>7. CASE \E j \in Jobs : CallerStep(j)
  BY <1>1, <1>7 DEF CallerStep, Send, Enqueue, Return, CallerLeaves, historyVars
<1>8. CASE CloseManager \/ CancelDispatcher \/ ShutdownReturns
  BY <1>1, <1>8 DEF CloseManager, CancelDispatcher, ShutdownReturns, shutdownRest, paceVars
<1>9. CASE UNCHANGED dispatcherVars
  BY <1>1, <1>9 DEF dispatcherVars
<1> QED
  BY <1>2, <1>3, <1>4, <1>5, <1>6, <1>7, <1>8, <1>9 DEF Next, WorkerStep

Paced ==
  begun' # begun =>
    /\ Len(InWindow(starts)) < MaxStarts
    /\ \A i \in DOMAIN starts : starts[i] >= MinInterval
    /\ told = 0

LEMMA StartIsPaced ==
  ASSUME PaceInv, Start PROVE Paced
<1> DEFINE kept  == InWindow(recentStarts)
           young == InWindow(starts)
<1> USE DispatcherAssumption
<1>1. /\ kept \in Seq(Ages)
      /\ Len(recentStarts) - Len(kept) \in Nat
      /\ \A i \in 1 .. Len(kept) : /\ kept[i] < Window
                                   /\ kept[i] = recentStarts[Len(recentStarts) - Len(kept) + i]
      /\ \A i \in 1 .. Len(recentStarts) - Len(kept) : recentStarts[i] >= Window
  BY YoungEnd DEF PaceInv
<1>2. /\ young \in Seq(Ages) /\ Len(starts) - Len(young) \in Nat
      /\ \A i \in 1 .. Len(young) :
           young[i] = starts[Len(starts) - Len(young) + i] /\ young[i] < Window
  BY YoungEnd DEF PaceInv
<1>3. WaitLeft(kept) = 0
  BY DEF Start
<1> HIDE DEF kept, young
<1>4. /\ notBefore = 0
      /\ Len(kept) # 0 => kept[Len(kept)] >= MinInterval
      /\ Len(kept) < MaxStarts
  <2>1. /\ 0 >= notBefore
        /\ Len(kept) # 0 => 0 >= MinInterval - kept[Len(kept)]
        /\ Len(kept) >= MaxStarts => 0 >= Window - kept[1]
    BY <1>1, <1>3, WaitLeftBounds DEF PaceInv
  <2>2. Len(kept) # 0 => kept[Len(kept)] >= MinInterval
    BY <1>1, <2>1, AgesAre
  <2>3. ~(Len(kept) >= MaxStarts)
    BY <1>1, <2>1, AgesAre
  <2>4. notBefore = 0
    BY <2>1 DEF PaceInv
  <2> QED BY <1>1, <2>2, <2>3, <2>4
<1>5. ASSUME NEW k \in 0 .. MaxStarts - 1, k < Len(starts), starts[Len(starts) - k] < Window
      PROVE  k < Len(kept) /\ kept[Len(kept) - k] = starts[Len(starts) - k]
  <2>1. /\ k < Len(recentStarts)
        /\ recentStarts[Len(recentStarts) - k] = starts[Len(starts) - k]
    BY <1>5 DEF PaceInv, Remembered
  <2>2. Len(recentStarts) - k \notin 1 .. Len(recentStarts) - Len(kept)
    <3>1. ~(recentStarts[Len(recentStarts) - k] >= Window)
      BY <1>5, <2>1, AgesAre DEF PaceInv
    <3> QED BY <1>1, <3>1
  <2> QED BY <1>1, <2>1, <2>2 DEF PaceInv
<1>6. Len(young) < MaxStarts
  <2>1. ASSUME Len(young) >= MaxStarts PROVE FALSE
    <3> DEFINE k == MaxStarts - 1
    <3>1. Len(young) - k \in 1 .. Len(young) /\ Len(starts) \in Nat
      BY <1>2, <2>1 DEF PaceInv
    <3>2. (Len(starts) - Len(young)) + (Len(young) - k) = Len(starts) - k
      BY <1>2, <3>1
    <3>3. k < Len(starts) /\ starts[Len(starts) - k] < Window
      <4>1. /\ young[Len(young) - k] < Window
            /\ young[Len(young) - k] = starts[(Len(starts) - Len(young)) + (Len(young) - k)]
        BY <1>2, <3>1
      <4>2. k < Len(starts)
        BY <1>2, <3>1
      <4> QED BY <3>2, <4>1, <4>2
    <3>4. k \in 0 .. MaxStarts - 1
      OBVIOUS
    <3>5. k < Len(kept)
      BY <1>5, <3>3, <3>4
    <3> QED BY <1>1, <1>4, <3>5
  <2> QED BY <1>2, <2>1
<1>7. \A i \in DOMAIN starts : starts[i] >= MinInterval
  <2>1. CASE Len(starts) = 0
    BY <2>1 DEF PaceInv
  <2>2. CASE Len(starts) # 0
    <3>0. Len(starts) \in 1 .. Len(starts) /\ starts[Len(starts)] \in Nat
      BY <2>2, AgesAre DEF PaceInv
    <3>1. starts[Len(starts)] >= MinInterval
      <4>1. CASE starts[Len(starts)] < Window
        <5>1. 0 < Len(kept) /\ kept[Len(kept)] = starts[Len(starts)]
          BY <1>1, <1>5, <3>0, <4>1
        <5> QED BY <1>4, <5>1
      <4>2. CASE ~(starts[Len(starts)] < Window)
        BY <3>0, <4>2
      <4> QED BY <4>1, <4>2
    <3>2. \A i \in 1 .. Len(starts) : starts[i] \in Nat /\ starts[i] >= starts[Len(starts)]
      BY <3>0, AgesAre DEF PaceInv, OldestFirst
    <3>3. DOMAIN starts = 1 .. Len(starts)
      BY DEF PaceInv
    <3> QED BY <3>0, <3>1, <3>2, <3>3
  <2> QED BY <2>1, <2>2
<1> QED BY <1>4, <1>6, <1>7 DEF Paced, PaceInv, young

\* A send starts only when its predecessors and the provider allow it
THEOREM PacedStarts == Spec => StartsArePaced
<1>1. ASSUME PaceInv, [Next]_dispatcherVars PROVE [Paced]_dispatcherVars
  <2>1. CASE Start
    BY <1>1, <2>1, StartIsPaced
  <2>2. CASE begun' = begun
    BY <2>2 DEF Paced
  <2>3. CASE Next /\ ~Start
    BY <2>2, <2>3
    DEF Next, WorkerStep, CallerStep, Send, Enqueue, Return, CallerLeaves, historyVars, Tick,
        WorkerStop, TakeJob, Wait, Poll, PollCancelled, AccountRefuses, ProviderAnswers,
        ProviderRateLimits, ProviderUnauthorized, RefreshEnds, paceVars,
        CloseManager, CancelDispatcher, ShutdownReturns, shutdownRest
  <2> QED BY <1>1, <2>1, <2>3
<1>2. [Paced]_dispatcherVars => [begun' # begun =>
       /\ Len(InWindow(starts)) < MaxStarts
       /\ \A i \in DOMAIN starts : starts[i] >= MinInterval
       /\ told = 0]_dispatcherVars
  BY DEF Paced
<1> QED
  BY <1>1, <1>2, PaceInit, PaceStep, PTL DEF Spec, StartsArePaced

-----------------------------------------------------------------------------
(* Types *)

BoundsInv ==
  /\ Len(queue) <= QueueDepth
  /\ cancelled \in BOOLEAN
  /\ shutdown \in {"no", "closing", "waiting", "done"}
  /\ begun \subseteq Jobs

LEMMA BoundsInit == Init => BoundsInv
<1> SUFFICES ASSUME Init PROVE BoundsInv
  OBVIOUS
<1>1. queue = <<>> /\ cancelled = FALSE /\ shutdown = "no" /\ begun = {}
  BY DEF Init
<1>2. Len(queue) <= QueueDepth
  BY <1>1, DispatcherAssumption
<1> QED BY <1>1, <1>2 DEF BoundsInv

LEMMA BoundsStep == SendInv /\ BoundsInv /\ [Next]_dispatcherVars => BoundsInv'
<1> SUFFICES ASSUME SendInv, BoundsInv, [Next]_dispatcherVars PROVE BoundsInv'
  OBVIOUS
<1> USE DispatcherAssumption
<1>1. CASE UNCHANGED <<queue, cancelled, shutdown, begun>>
  BY <1>1 DEF BoundsInv
<1>2. CASE \E j \in Jobs : Enqueue(j)
  <2>1. queue \in Seq(Jobs) /\ QueueDepth \in Nat
    BY DEF SendInv, JobsType
  <2>2. queue' = queue \/ \E j \in Jobs : queue' = Append(queue, j) /\ Len(queue) < QueueDepth
    BY <1>2 DEF Enqueue
  <2>3. Len(queue') <= QueueDepth
    BY <2>1, <2>2 DEF BoundsInv
  <2> QED BY <1>2, <2>3 DEF Enqueue, historyVars, BoundsInv
<1>3. CASE TakeJob
  <2>1. queue \in Seq(Jobs) /\ queue # <<>> /\ queue' = Tail(queue)
    BY <1>3 DEF TakeJob, SendInv, JobsType
  <2>2. Len(queue') <= QueueDepth
    BY <2>1 DEF BoundsInv
  <2> QED BY <1>3, <2>2 DEF TakeJob, paceVars, BoundsInv
<1>4. CASE Start
  <2>1. Job \in Jobs
    BY <1>4 DEF Start, At, Job, SendInv, JobsType, WorkerHasJob, Busy
  <2> QED BY <1>4, <2>1 DEF Start, BoundsInv
<1>5. CASE CloseManager \/ CancelDispatcher \/ ShutdownReturns
  BY <1>5 DEF CloseManager, CancelDispatcher, ShutdownReturns, shutdownRest, paceVars, BoundsInv
<1>6. CASE \E j \in Jobs : Send(j) \/ Return(j) \/ CallerLeaves(j)
  BY <1>1, <1>6 DEF Send, Return, CallerLeaves, historyVars
<1>7. CASE WorkerStop \/ Wait \/ Poll \/ PollCancelled \/ AccountRefuses \/ ProviderAnswers
           \/ ProviderRateLimits \/ ProviderUnauthorized \/ RefreshEnds \/ Tick
  BY <1>1, <1>7
  DEF WorkerStop, Wait, Poll, PollCancelled, AccountRefuses, ProviderAnswers,
      ProviderRateLimits, ProviderUnauthorized, RefreshEnds, Tick, paceVars
<1>8. CASE UNCHANGED dispatcherVars
  BY <1>1, <1>8 DEF dispatcherVars
<1> QED
  BY <1>2, <1>3, <1>4, <1>5, <1>6, <1>7, <1>8 DEF Next, WorkerStep, CallerStep

\* Every variable keeps its type, the queue its bound, the list of starts its length
THEOREM TypeCorrect == Spec => []TypeOK
<1>1. SendInv /\ PaceInv /\ BoundsInv => TypeOK
  BY DEF SendInv, JobsType, Steps, PaceInv, BoundsInv, TypeOK
<1> QED
  BY <1>1, SendInit, SendStep, PaceInit, PaceStep, BoundsInit, BoundsStep, PTL DEF Spec

=============================================================================
