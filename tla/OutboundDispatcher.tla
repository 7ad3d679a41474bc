------------------------- MODULE OutboundDispatcher -------------------------
(***************************************************************************)
(* The outbound chat dispatcher (internal/outboundchat/dispatcher.go) of   *)
(* one connected account: Send calls put a job into a bounded queue and    *)
(* wait for its outcome; one worker takes the jobs in turn, waits until a  *)
(* start is allowed and makes the provider call, with at most one token    *)
(* refresh and one second call.  Dispatchers of different accounts share   *)
(* only Manager.closed, which is modelled.                                 *)
(*                                                                         *)
(* Instants are relative, so that time can pass for ever in a finite model:*)
(* a start is its age, a retry time is what is left until it.  The state,  *)
(* the codes and the times Status reports are left out: nothing here reads *)
(* them back.                                                              *)
(***************************************************************************)
EXTENDS Integers, Sequences, FiniteSets, FiniteSetsExt, SequencesExt

CONSTANTS
  Jobs,           \* the Send calls
  NoJob,
  QueueDepth,     \* MaxQueueDepth
  MinInterval,    \* minDispatchInterval
  Window,         \* rollingWindow
  MaxStarts,      \* maxStartsInWindow
  MaxRetryAfter   \* bound on how far off a provider's retry time is

ASSUME DispatcherAssumption ==
  /\ NoJob \notin Jobs
  /\ QueueDepth \in Nat \ {0} /\ MaxStarts \in Nat \ {0}
  /\ MinInterval \in Nat \ {0} /\ Window \in Nat \ {0} /\ MinInterval <= Window
  /\ MaxRetryAfter \in Nat

VARIABLES
  call,          \* call[j]: how far the Send call of job j has come
  answer,        \* answer[j]: the job's buffered result channel
  queue,         \* accountDispatcher.queue
  worker,        \* the worker goroutine: its step and the job it processes
  cancelled,     \* is accountDispatcher.ctx cancelled?
  recentStarts,  \* the ages of the starts remembered, oldest first
  notBefore,     \* what is left until providerNotBefore
  shutdown,      \* Manager.Shutdown, and Manager.closed once it has begun
  delivered,     \* history: how often a job's message may have reached the chat
  begun,         \* history: the jobs started
  starts,        \* history: the ages of all starts younger than the window
  told           \* history: what is left until the last retry time the provider named

dispatcherVars == <<call, answer, queue, worker, cancelled,
                    recentStarts, notBefore, shutdown, delivered, begun, starts, told>>

historyVars == <<delivered, begun, starts, told>>

NoAnswer == "none"
\* "failed": the provider or the account service said that the message was not taken
Outcomes == {"sent", "failed", "rate_limited", "unknown", "cancelled"}
Closed   == shutdown # "no"

\* What a Send call has returned: the outcome of its job, or one of the errors
Returns  == {"refused", "cancelled", "answered"}
Returned(j) == call[j] \in Returns

-----------------------------------------------------------------------------
(* Pacing *)

Older(ages, d)  == [i \in DOMAIN ages |-> Min({ages[i] + d, Window})]

\* The starts younger than the window: as the list has the oldest first, its end
InWindow(ages) ==
  LET cut == Max({0} \cup {i \in DOMAIN ages : ages[i] >= Window})
  IN  SubSeq(ages, cut + 1, Len(ages))

\* Mutant of WaitLeft: the floor between two starts is forgotten once the provider named a time
WaitLeftProviderFirst(kept) ==
  IF notBefore > 0 THEN notBefore
  ELSE IF Len(kept) >= MaxStarts THEN Window - kept[1] ELSE 0

\* nextAllowedStart on a pruned list: how long until a start is allowed
WaitLeft(kept) ==
  Max({0, notBefore}
      \cup {MinInterval - kept[i] : i \in DOMAIN kept \cap {Len(kept)}}
      \cup IF Len(kept) >= MaxStarts THEN {Window - kept[1]} ELSE {})

\* recordStart keeps the newest MaxStarts
Recorded(kept) ==
  LET all == Append(kept, 0)
  IN  SubSeq(all, Max({1, Len(all) - MaxStarts + 1}), Len(all))

-----------------------------------------------------------------------------
Init ==
  /\ call = [j \in Jobs |-> "idle"]
  /\ answer = [j \in Jobs |-> NoAnswer]
  /\ queue = <<>>
  /\ worker = [step |-> "none", job |-> NoJob]
  /\ cancelled = FALSE
  /\ recentStarts = <<>> /\ notBefore = 0
  /\ shutdown = "no"
  /\ delivered = [j \in Jobs |-> 0]
  /\ begun = {} /\ starts = <<>> /\ told = 0

-----------------------------------------------------------------------------
(* Send: the caller's side *)

\* Validation, the account and its capability, which only read; then dispatcherFor: the
\* first call starts the worker, none does once the manager is closed
Send(j) ==
  /\ call[j] = "idle"
  /\ \/ /\ call' = [call EXCEPT ![j] = "refused"]
        /\ UNCHANGED worker
     \/ /\ ~Closed
        /\ call' = [call EXCEPT ![j] = "dispatched"]
        /\ worker' = IF worker.step = "none" THEN [worker EXCEPT !.step = "idle"] ELSE worker
  /\ UNCHANGED <<answer, queue, cancelled, recentStarts, notBefore, shutdown, historyVars>>

\* Mutant of Enqueue: the bound is taken for the last index
EnqueueOneMore(j) ==
  /\ call[j] = "dispatched" /\ Len(queue) <= QueueDepth
  /\ queue' = Append(queue, j)
  /\ call' = [call EXCEPT ![j] = "waiting"]
  /\ UNCHANGED <<answer, worker, cancelled, recentStarts, notBefore, shutdown, historyVars>>

\* The non-blocking send to the queue
Enqueue(j) ==
  /\ call[j] = "dispatched"
  /\ IF Len(queue) < QueueDepth
     THEN /\ queue' = Append(queue, j)
          /\ call' = [call EXCEPT ![j] = "waiting"]
     ELSE /\ call' = [call EXCEPT ![j] = "refused"]
          /\ UNCHANGED queue
  /\ UNCHANGED <<answer, worker, cancelled, recentStarts, notBefore,
                 shutdown, historyVars>>

\* Mutant of Return: the dispatcher's own context is not in the select
ReturnOnAnswer(j) ==
  /\ call[j] = "waiting" /\ answer[j] # NoAnswer
  /\ call' = [call EXCEPT ![j] = "answered"]
  /\ answer' = [answer EXCEPT ![j] = NoAnswer]
  /\ UNCHANGED <<queue, worker, cancelled, recentStarts, notBefore, shutdown, historyVars>>

\* The select of enqueueAndWait takes any case that is ready
Return(j) ==
  /\ call[j] = "waiting"
  /\ \/ /\ answer[j] # NoAnswer
        /\ call' = [call EXCEPT ![j] = "answered"]
        /\ answer' = [answer EXCEPT ![j] = NoAnswer]
     \/ /\ cancelled
        /\ call' = [call EXCEPT ![j] = "cancelled"]
        /\ UNCHANGED answer
  /\ UNCHANGED <<queue, worker, cancelled, recentStarts, notBefore, shutdown, historyVars>>

\* The caller's context ends (its HTTP request is gone): the job stays where it is
CallerLeaves(j) ==
  /\ call[j] = "waiting"
  /\ call' = [call EXCEPT ![j] = "cancelled"]
  /\ UNCHANGED <<answer, queue, worker, cancelled, recentStarts, notBefore, shutdown,
                 historyVars>>

-----------------------------------------------------------------------------
(* run and process: the worker *)

At(step)    == worker.step = step
Job         == worker.job
Goes(step)  == worker' = [worker EXCEPT !.step = step]
Idle        == worker' = [step |-> "idle", job |-> NoJob]

paceVars   == <<recentStarts, notBefore, begun, starts, told>>

\* The select of run has both cases ready when the context is cancelled and a job is queued
WorkerStop ==
  /\ At("idle") /\ cancelled
  /\ Goes("exited")
  /\ UNCHANGED <<call, answer, queue, cancelled, paceVars, shutdown, delivered>>

TakeJob ==
  /\ At("idle") /\ queue # <<>>
  /\ worker' = [step |-> "pacing", job |-> Head(queue)]
  /\ queue' = Tail(queue)
  /\ UNCHANGED <<call, answer, cancelled, paceVars, shutdown, delivered>>

\* A start is not allowed yet: ask again a poll interval later
Wait ==
  /\ At("pacing") /\ WaitLeft(InWindow(recentStarts)) > 0
  /\ recentStarts' = InWindow(recentStarts)
  /\ Goes("polling")
  /\ UNCHANGED <<call, answer, queue, cancelled, notBefore, begun, starts, told,
                 shutdown, delivered>>

\* It is: setState(sending) and recordStart (a later instant would only widen the gaps)
Start ==
  /\ At("pacing") /\ WaitLeft(InWindow(recentStarts)) = 0
  /\ recentStarts' = Recorded(InWindow(recentStarts))
  /\ Goes("calling")
  /\ begun' = begun \cup {Job}
  /\ starts' = Append(InWindow(starts), 0)
  /\ UNCHANGED <<call, answer, queue, cancelled, notBefore, told, shutdown, delivered>>

Poll ==
  /\ At("polling")
  /\ Goes("pacing")
  /\ UNCHANGED <<call, answer, queue, cancelled, paceVars, shutdown, delivered>>

PollCancelled ==
  /\ At("polling") /\ cancelled
  /\ answer' = [answer EXCEPT ![Job] = "cancelled"]
  /\ Idle
  /\ UNCHANGED <<call, queue, cancelled, paceVars, shutdown, delivered>>

\* Mutant of Finish: an unknown delivery is treated as one that failed, and sent again
FinishRetryingUnknown(outcome) ==
  IF outcome = "unknown" THEN Goes("calling") /\ UNCHANGED answer
  ELSE answer' = [answer EXCEPT ![Job] = outcome] /\ Idle

\* recordOutcome and the answer to the caller
Finish(outcome) ==
  /\ answer' = [answer EXCEPT ![Job] = outcome]
  /\ Idle

\* How many copies of the message an answer of the provider may leave in the chat
Copies(outcome) == CASE outcome = "sent"    -> {1}
                     [] outcome = "unknown" -> {0, 1}
                     [] OTHER               -> {0}

\* sendOnce gives up before the provider is called: no such account, no Client ID, or the
\* account must be reconnected
AccountRefuses ==
  /\ At("calling")
  /\ Finish("failed")
  /\ UNCHANGED <<call, queue, cancelled, paceVars, shutdown, delivered>>

\* SendChatMessage returns (the call has a timeout of its own)
ProviderAnswers ==
  /\ At("calling") \/ At("retrying")
  /\ \E outcome \in {"sent", "failed", "unknown"} :
       /\ Finish(outcome)
       /\ \E n \in Copies(outcome) : delivered' = [delivered EXCEPT ![Job] = @ + n]
  /\ UNCHANGED <<call, queue, cancelled, paceVars, shutdown>>

\* A RateLimitedError, with the time the provider names (0: none)
ProviderRateLimits ==
  /\ At("calling") \/ At("retrying")
  /\ \E r \in 0..MaxRetryAfter :
       /\ notBefore' = Max({notBefore, r})
       /\ told' = Max({told, r})
  /\ Finish("rate_limited")
  /\ UNCHANGED <<call, queue, cancelled, recentStarts, begun, starts, shutdown, delivered>>

\* WithFreshToken: the first 401 is answered with a refresh, the second ends the send
ProviderUnauthorized ==
  /\ \/ At("calling")  /\ Goes("refreshing") /\ UNCHANGED answer
     \/ At("retrying") /\ Finish("failed")
  /\ UNCHANGED <<call, queue, cancelled, paceVars, shutdown, delivered>>

RefreshEnds ==
  /\ At("refreshing")
  /\ \/ Goes("retrying") /\ UNCHANGED answer
     \/ Finish("failed")
  /\ UNCHANGED <<call, queue, cancelled, paceVars, shutdown, delivered>>

\* Time passes
Tick ==
  /\ \/ notBefore > 0 \/ told > 0
     \/ \E i \in DOMAIN recentStarts : recentStarts[i] < Window
     \/ \E i \in DOMAIN starts : starts[i] < Window
  /\ recentStarts' = Older(recentStarts, 1)
  /\ starts' = Older(starts, 1)
  /\ notBefore' = Max({0, notBefore - 1})
  /\ told' = Max({0, told - 1})
  /\ UNCHANGED <<call, answer, queue, worker, cancelled, shutdown, delivered, begun>>

-----------------------------------------------------------------------------
(* Manager.Shutdown *)

\* When its context ends first, Shutdown returns an error and everything else goes on as
\* while it waits
shutdownRest == <<call, answer, queue, worker, paceVars, delivered>>

CloseManager ==
  /\ shutdown = "no"
  /\ shutdown' = IF At("none") THEN "waiting" ELSE "closing"
  /\ UNCHANGED <<shutdownRest, cancelled>>

CancelDispatcher ==
  /\ shutdown = "closing"
  /\ shutdown' = "waiting" /\ cancelled' = TRUE
  /\ UNCHANGED shutdownRest

ShutdownReturns ==
  /\ shutdown = "waiting"
  /\ At("none") \/ At("exited")
  /\ shutdown' = "done"
  /\ UNCHANGED <<shutdownRest, cancelled>>

-----------------------------------------------------------------------------
CallerStep(j) == Send(j) \/ Enqueue(j) \/ Return(j) \/ CallerLeaves(j)

WorkerStep == \/ WorkerStop \/ TakeJob \/ Wait \/ Start \/ Poll \/ PollCancelled
              \/ AccountRefuses \/ ProviderAnswers \/ ProviderRateLimits
              \/ ProviderUnauthorized \/ RefreshEnds

Next == \/ \E j \in Jobs : CallerStep(j)
        \/ WorkerStep
        \/ Tick
        \/ CloseManager \/ CancelDispatcher \/ ShutdownReturns

(***************************************************************************)
(* Fairness: every goroutine that can run runs, the provider call and the  *)
(* refresh end (20 s timeout), time passes.  Nobody has to send, to leave  *)
(* or to shut down.                                                        *)
(***************************************************************************)
Fairness == /\ \A j \in Jobs : WF_dispatcherVars(Enqueue(j) \/ Return(j))
            /\ WF_dispatcherVars(WorkerStep)
            /\ WF_dispatcherVars(Tick)
            /\ WF_dispatcherVars(CancelDispatcher \/ ShutdownReturns)

Spec == Init /\ [][Next]_dispatcherVars /\ Fairness

-----------------------------------------------------------------------------
(* Properties *)

Ages == 0..Window

\* Every variable has its type
TypeOK ==
  /\ call \in [Jobs -> {"idle", "dispatched", "waiting"} \cup Returns]
  /\ answer \in [Jobs -> Outcomes \cup {NoAnswer}]
  /\ queue \in Seq(Jobs) /\ Len(queue) <= QueueDepth
  /\ worker \in [step : {"none", "idle", "pacing", "polling", "calling", "refreshing",
                         "retrying", "exited"}, job : Jobs \cup {NoJob}]
  /\ cancelled \in BOOLEAN
  /\ recentStarts \in Seq(Ages) /\ Len(recentStarts) <= MaxStarts
  /\ notBefore \in 0..MaxRetryAfter
  /\ shutdown \in {"no", "closing", "waiting", "done"}
  /\ delivered \in [Jobs -> Nat]
  /\ begun \subseteq Jobs
  /\ starts \in Seq(Ages) /\ told \in 0..MaxRetryAfter

\* A send starts only when fewer than MaxStarts sends started in the window before it, the
\* last of them MinInterval ago or longer, and no time the provider named is still to come
StartsArePaced ==
  [][begun' # begun =>
       /\ Len(InWindow(starts)) < MaxStarts
       /\ \A i \in DOMAIN starts : starts[i] >= MinInterval
       /\ told = 0]_dispatcherVars

\* The chat never sees a message twice; one whose send was refused, or ended with a definite
\* failure, it never sees
SentAtMostOnce ==
  \A j \in Jobs :
       /\ delivered[j] <= 1
       /\ call[j] = "refused" => delivered[j] = 0
       /\ answer[j] = "sent" => delivered[j] = 1
       /\ answer[j] \in {"failed", "rate_limited", "cancelled"} => delivered[j] = 0

\* Every Send returns, whatever the provider, the caller and Shutdown do
EverySendReturns == \A j \in Jobs : call[j] = "dispatched" ~> Returned(j)

=============================================================================
