---------------------------- MODULE AlertPlayback ----------------------------
(***************************************************************************)
(* Alert playback (internal/alerts) and the audio runtime it drives: each  *)
(* profile shows one alert at a time, from a bounded queue ordered by      *)
(* priority; an alert may interrupt another, be skipped or replayed, and   *)
(* is held on the screen while its sound is under way, no longer than a    *)
(* bound.                                                                  *)
(*                                                                         *)
(* A handler of a profile runs under its mutex and calls the audio runtime *)
(* meanwhile, which has a mutex of its own: its effect on the profile is   *)
(* one step, the calls it still has to make are "calls", and no other      *)
(* handler of the profile runs until they are made.                        *)
(*                                                                         *)
(* Time is what it makes of the alert shown: its duration is over ("due"), *)
(* so is the time it may be held ("overdue").  Whether a queued alert is   *)
(* too old is any choice of the step that asks.  An alert that joins a     *)
(* group of queued alerts is, for what is stated here, one that never came.*)
(* Rendering, the stream of revisions and the counters are left out.       *)
(***************************************************************************)
EXTENDS AudioManager, Functions

CONSTANTS
  Profiles,
  NoAlert,
  ProfileOf,      \* ProfileOf[i]: the profile of alert i
  Priority,       \* Priority[i]
  Synthetic,      \* the alerts of Test Rule
  Interrupting,   \* the alerts that may interrupt one of a lower priority
  Interruptible,  \* the alerts that may be interrupted
  Events,         \* the sets of alerts one event makes of the rules of a profile
  MaxItems,       \* queue.maxItems
  MaxCommands,    \* MaxCommands[p]: bound on the operator's commands to p
  MaxShowings     \* bound on how often a replay may bring an alert's sound back

ASSUME AlertAssumption ==
  /\ NoAlert \notin Alerts
  /\ ProfileOf \in [Alerts -> Profiles] /\ Priority \in [Alerts -> Nat]
  /\ Synthetic \cup Interrupting \cup Interruptible \subseteq Alerts
  /\ \A event \in Events : /\ event \subseteq Alerts \ Synthetic
                           /\ IsFiniteSet(event) /\ event # {}
                           /\ \A i, k \in event : ProfileOf[i] = ProfileOf[k]
  /\ MaxItems \in Nat /\ MaxCommands \in [Profiles -> Nat] /\ MaxShowings \in Nat

VARIABLES
  profile,   \* profile[p]: the profileRuntime of p
  arrived,   \* the alerts that have been matched or tested
  checked,   \* the tests that found their profile enabled and go on to enqueue
  commands,  \* commands[p]: the operator's commands to p so far
  orphaned   \* history: the alerts that were hidden by disabling their profile

playbackVars == <<profile, arrived, checked, commands, orphaned>>
vars == <<audioVars, playbackVars>>

Free(p) == profile[p].calls = <<>>

PlaybackInit ==
  /\ profile = [p \in Profiles |->
       [enabled |-> TRUE, paused |-> FALSE, alert |-> NoAlert, phase |-> "none",
        queue |-> <<>>, replay |-> NoAlert, last |-> NoAlert, calls |-> <<>>]]
  /\ arrived = {} /\ checked = {}
  /\ commands = [p \in Profiles |-> 0]
  /\ orphaned = {}

Init == AudioInit /\ PlaybackInit

-----------------------------------------------------------------------------
(* What the handlers do to a profile r *)

Calls(r, call, i) == IF Pieces[i] > 0 THEN Append(r.calls, <<call, i>>) ELSE r.calls

\* startCurrentLocked
Started(r, i) ==
  [r EXCEPT !.alert = i, !.phase = "showing", !.calls = Calls(r, "enqueue", i)]

\* Mutant of Completed: the sound of the alert is left alone
CompletedSilently(r) == [r EXCEPT !.alert = NoAlert, !.phase = "none", !.last = r.alert]

\* completeCurrentLocked, for an alert that is shown
Completed(r) ==
  [r EXCEPT !.alert = NoAlert, !.phase = "none", !.last = r.alert,
            !.calls = Calls(r, "cancel", r.alert)]

\* Which of two queued alerts is played first, and which one is evicted first
PlaysBefore(q, i, k) == \/ Priority[q[i]] > Priority[q[k]]
                        \/ Priority[q[i]] = Priority[q[k]] /\ i < k
GoesBefore(q, i, k)  == \/ Priority[q[i]] < Priority[q[k]]
                        \/ Priority[q[i]] = Priority[q[k]] /\ i < k
Worst(q) == CHOOSE i \in DOMAIN q : \A k \in DOMAIN q \ {i} : GoesBefore(q, i, k)

\* Mutant of Enqueued: one item too many
EnqueuedOneMore(r, i) ==
  IF Len(r.queue) <= MaxItems THEN [r EXCEPT !.queue = Append(@, i)] ELSE r

\* queue.enqueue
Enqueued(r, i) ==
  IF Len(r.queue) < MaxItems THEN [r EXCEPT !.queue = Append(@, i)]
  ELSE IF r.queue = <<>> \/ Priority[i] <= Priority[r.queue[Worst(r.queue)]] THEN r
  ELSE [r EXCEPT !.queue = Append(RemoveAt(@, Worst(@)), i)]

\* promoteNextLocked: the replay, else the best queued alert that is not too old; those too
\* old that were better are gone, perhaps all
Promotions(r) ==
  IF r.replay # NoAlert THEN {Started([r EXCEPT !.replay = NoAlert], r.replay)}
  ELSE {[r EXCEPT !.queue = <<>>]}
       \cup {Started([r EXCEPT !.queue =
               Keep(@, {k \in DOMAIN @ : PlaysBefore(@, i, k)})], r.queue[i])
              : i \in DOMAIN r.queue}

\* canPreemptLocked; a replay never comes here as a candidate
CanPreempt(r, i) ==
  /\ ~r.paused /\ r.alert # NoAlert
  /\ i \in Synthetic => r.alert \in Synthetic
  /\ i \in Interrupting /\ r.alert \in Interruptible
  /\ Priority[i] > Priority[r.alert]

Preempted(r, i) == Started(Completed(r), i)

\* enqueueMatched: at most one candidate interrupts; the others are enqueued
Offer(acc, i) ==
  IF ~acc.done /\ CanPreempt(acc.r, i) THEN [r |-> Preempted(acc.r, i), done |-> TRUE]
  ELSE [acc EXCEPT !.r = Enqueued(@, i)]

\* sortCandidates
Orders(event) ==
  {s \in [1 .. Cardinality(event) -> event] :
     IsInjective(s) /\ \A n, k \in DOMAIN s : n < k => Priority[s[n]] >= Priority[s[k]]}

Offered(r, order) ==
  LET after[n \in 0 .. Len(order)] ==
        IF n = 0 THEN [r |-> r, done |-> FALSE] ELSE Offer(after[n - 1], order[n])
  IN  after[Len(order)].r

-----------------------------------------------------------------------------
(* The events and the tests *)

\* handleEvent for one profile
Match(event) ==
  LET p == ProfileOf[CHOOSE i \in event : TRUE] IN
  /\ event \cap arrived = {} /\ Free(p)
  /\ arrived' = arrived \cup event
  /\ IF profile[p].enabled
     THEN \E order \in Orders(event) : profile' = [profile EXCEPT ![p] = Offered(@, order)]
     ELSE UNCHANGED profile
  /\ UNCHANGED <<audioVars, checked, commands, orphaned>>

\* TestRule asks whether the profile is enabled ...
TestRule(i) ==
  /\ i \in Synthetic \ arrived
  /\ profile[ProfileOf[i]].enabled
  /\ arrived' = arrived \cup {i} /\ checked' = checked \cup {i}
  /\ UNCHANGED <<audioVars, profile, commands, orphaned>>

\* ... and enqueueTest does not
EnqueueTest(i) ==
  LET p == ProfileOf[i] IN
  /\ i \in checked /\ Free(p)
  /\ checked' = checked \ {i}
  /\ profile' = [profile EXCEPT ![p] = IF CanPreempt(@, i) THEN Preempted(@, i) ELSE Enqueued(@, i)]
  /\ UNCHANGED <<audioVars, arrived, commands, orphaned>>

-----------------------------------------------------------------------------
(* The poll loop *)

\* Time passes for the alert shown
Elapse(p) ==
  /\ profile[p].phase \in {"showing", "due"}
  /\ profile' = [profile EXCEPT ![p].phase = IF @ = "showing" THEN "due" ELSE "overdue"]
  /\ UNCHANGED <<audioVars, arrived, checked, commands, orphaned>>

\* Mutant of Holds: the time an alert may be held is not bounded
HoldsForEver(r) == Pieces[r.alert] > 0 /\ Underway(r.alert)

\* shouldHoldForAudioLocked (at the bound it also cancels, as completing the alert does)
Holds(r) == Pieces[r.alert] > 0 /\ r.phase # "overdue" /\ Underway(r.alert)

Ticks(r) == r.calls = <<>> /\ r.enabled

\* tick; an ending that was asked for is forgotten, as the calls that follow would see to
Tick(p) ==
  /\ Ticks(profile[p])
  /\ LET r    == profile[p]
         over == r.phase \in {"due", "overdue"} /\ ~Holds(r)
         done == IF over THEN Completed(r) ELSE r
     IN  \E next \in IF done.paused \/ done.alert # NoAlert THEN {done} ELSE Promotions(done) :
           /\ profile' = [profile EXCEPT ![p] = next]
           /\ endings' = IF r.phase = "due" /\ over THEN [endings EXCEPT ![r.alert] = "none"]
                         ELSE endings
  /\ UNCHANGED <<current, ready, pending, renderer, syntheses, made, asked,
                 arrived, checked, commands, orphaned>>

\* The next call a handler makes to the audio runtime
Call(p) ==
  /\ ~Free(p)
  /\ LET call == Head(profile[p].calls)
     IN  IF call[1] = "enqueue" THEN EnqueueAlertAudio(call[2]) ELSE CancelAlertAudio(call[2])
  /\ profile' = [profile EXCEPT ![p].calls = Tail(@)]
  /\ UNCHANGED <<arrived, checked, commands, orphaned>>

-----------------------------------------------------------------------------
(* The operator's commands *)

Command(p) ==
  /\ Free(p) /\ commands[p] < MaxCommands[p]
  /\ commands' = [commands EXCEPT ![p] = @ + 1]
  /\ UNCHANGED <<audioVars, arrived, checked>>

Pause(p) ==
  /\ Command(p) /\ UNCHANGED orphaned
  /\ profile' = [profile EXCEPT ![p].paused = ~@]

\* skipCurrent
Skip(p) ==
  /\ Command(p) /\ UNCHANGED orphaned
  /\ profile[p].alert # NoAlert
  /\ LET r == Completed(profile[p]) IN
       \E next \in IF r.paused THEN {r} ELSE Promotions(r) :
         profile' = [profile EXCEPT ![p] = next]

\* replayPrevious: the alert keeps its identity; nothing asks whether the profile is enabled
Replay(p) ==
  /\ Command(p) /\ UNCHANGED orphaned
  /\ profile[p].last # NoAlert /\ made[profile[p].last] < MaxShowings
  /\ profile' = [profile EXCEPT ![p].replay = profile[p].last]

\* clearQueue
Clear(p) ==
  /\ Command(p) /\ UNCHANGED orphaned
  /\ profile' = [profile EXCEPT ![p].queue = <<>>, ![p].replay = NoAlert]

\* applyProfile with the profile disabled: disableLocked does not touch the alert's sound
Disable(p) ==
  /\ Command(p)
  /\ profile[p].enabled
  /\ profile' = [profile EXCEPT ![p].enabled = FALSE, ![p].queue = <<>>, ![p].replay = NoAlert,
                                ![p].alert = NoAlert, ![p].phase = "none"]
  /\ orphaned' = orphaned \cup ({profile[p].alert} \cap Alerts)

Enable(p) ==
  /\ Command(p) /\ UNCHANGED orphaned
  /\ ~profile[p].enabled
  /\ profile' = [profile EXCEPT ![p].enabled = TRUE]

-----------------------------------------------------------------------------
ProfileStep(p) == \/ Elapse(p) \/ Tick(p) \/ Call(p)
                  \/ Pause(p) \/ Skip(p) \/ Replay(p) \/ Clear(p) \/ Disable(p) \/ Enable(p)

Next == \/ AudioStep /\ UNCHANGED playbackVars
        \/ \E event \in Events : Match(event)
        \/ \E i \in Synthetic : TestRule(i) \/ EnqueueTest(i)
        \/ \E p \in Profiles : ProfileStep(p)

(***************************************************************************)
(* Fairness: the one poll loop of the alerts runs, time passes, a handler  *)
(* that has begun goes on.  Nothing is assumed of one profile beside the   *)
(* other, of the renderer, of a synthesis or of the operator: the alerts   *)
(* must not depend on them.                                                *)
(***************************************************************************)
Fairness == WF_vars(\E p \in Profiles : Elapse(p) \/ Tick(p) \/ Call(p))

Spec == Init /\ [][Next]_vars /\ Fairness

-----------------------------------------------------------------------------
(* Properties *)

ProfileType ==
  [enabled : BOOLEAN, paused : BOOLEAN, alert : Alerts \cup {NoAlert},
   phase : {"none", "showing", "due", "overdue"}, queue : Seq(Alerts),
   replay : Alerts \cup {NoAlert}, last : Alerts \cup {NoAlert},
   calls : Seq({"enqueue", "cancel"} \X Alerts)]

\* Every variable has its type; both queues keep to their bounds
TypeOK ==
  /\ current \in {NoItem} \cup
                 [item : Item, bytes : {NoItem} \cup Item,
                  state : {"synthesizing", "waiting", "ready", "playing"}]
  /\ ready \in Seq(Item) /\ pending \in Seq(Item) /\ Len(ready) + Len(pending) <= QueueCapacity
  /\ endings \in [Alerts -> {"none", "ended", "failed"}]
  /\ renderer \in BOOLEAN /\ syntheses \subseteq Item
  /\ made \in [Alerts -> Nat] /\ asked \subseteq Utterances
  /\ profile \in [Profiles -> ProfileType]
  /\ \A p \in Profiles : /\ Len(profile[p].queue) <= MaxItems
                         /\ profile[p].alert = NoAlert <=> profile[p].phase = "none"
  /\ arrived \subseteq Alerts /\ checked \subseteq Synthetic
  /\ \A p \in Profiles : commands[p] \in 0..MaxCommands[p]
  /\ orphaned \subseteq Alerts

\* docs/alert-audio.md, 9: the sound of an alert is there, playing, queued or remembered, only
\* while the alert is shown or a handler is about to cancel it.  (It is left alone when the
\* alert is hidden by disabling its profile.)
AudioFollowsAlert ==
  \A i \in Known \ orphaned :
    LET r == profile[ProfileOf[i]]
    IN  r.alert = i \/ \E k \in DOMAIN r.calls : r.calls[k] = <<"cancel", i>>

\* audio/manager.go:1094: the bytes that are served are those of the current item, never of one
\* that was skipped, cancelled or interrupted while it was synthesised, were it made for the
\* same alert, which has been replayed since.  An item that has no bytes has its own synthesis
\* running, so it is never waited for in vain, and one that has them is held back exactly while
\* there is no renderer to play it.  Nothing is synthesised before its turn
CurrentIsServed ==
  /\ current # NoItem =>
       IF current.bytes = NoItem THEN current.item \in syntheses
       ELSE /\ current.bytes = current.item /\ current.item \notin syntheses
            /\ current.state = "waiting" <=> ~renderer
  /\ \A k \in DOMAIN ready : ready[k] \notin syntheses

\* Nothing is shown for longer than its time, and nothing waits that may be shown
Settled(r) == /\ r.phase \in {"none", "showing"}
              /\ r.queue = <<>> \/ r.paused \/ ~r.enabled

\* docs/alert-audio.md, 8.5: the alert queue never waits for audio for ever.  Whatever the
\* renderer and the syntheses do, the alert that is shown ends, and those that wait are shown
\* after it: every profile comes again to where there is nothing left to wait for
AlertsEnd == \A p \in Profiles : []<>Settled(profile[p])

=============================================================================
