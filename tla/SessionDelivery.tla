-------------------------- MODULE SessionDelivery --------------------------
(***************************************************************************)
(* How a message reaches the conversation of a session: the queues of the  *)
(* agent core (steering, follow-ups), the peers' messages and background   *)
(* results that ride along as asides, the messages kept for the next turn, *)
(* the polls of the agent loop, and what the session does with a message   *)
(* that comes after the last poll (session/agent-session.ts, agent.ts and  *)
(* agent-loop.ts of packages/agent, session/yield-queue.ts).               *)
(*                                                                         *)
(* A message is in one place at a time, because every reader of a queue    *)
(* empties it in the step in which it reads it. A task that holds messages *)
(* is itself a place.                                                      *)
(*                                                                         *)
(* Left out: the side turn that answers a peer for a busy agent; its own   *)
(* record joins the asides after an await, polled by the run if one is     *)
(* still on, else flushed by the next prompt.                              *)
(***************************************************************************)
EXTENDS Naturals, FiniteSets

CONSTANTS Msgs,         \* messages
          Kind,         \* what each one is: a user's steer or followUp, a
                        \* peer's irc, a background result, a deferred one
          Tasks,        \* identities for turns and continuations under way: a
                        \* bound on how many there are at a time
          NoTask,
          Mixes,        \* bound on the messages: those sent are within one mix
          MaxPrompts,   \* bound on the prompts of the user
          MaxAborts     \* bound on the aborts

ASSUME KindAssumption ==
    Kind \in [Msgs -> {"steer", "followUp", "irc", "result", "deferred"}]

Places == {"unsent", "preparing", "steering", "followUps", "asides", "staged", "nextTurn",
           "picked", "history", "lost"}

ASSUME TaskAssumption ==
    NoTask \notin Tasks /\ IsFiniteSet(Tasks) /\ Tasks \cap Places = {}
ASSUME BoundAssumption ==
    Mixes \subseteq SUBSET Msgs /\ MaxPrompts \in Nat /\ MaxAborts \in Nat

VARIABLES s,            \* the session and its agent: where each message is,
                        \* the run, the tasks, #promptInFlightCount, whether a
                        \* user interrupt is in effect, whether the transcript
                        \* ends in a message a provider can continue from
          idleFlush,    \* the yield queue's timer, and its flag that one is set
          abort,        \* progress of session.abort()
          accepted,     \* prompts that found the session idle and have not begun
          overtaken,    \* history: user messages in preparation when the user
                        \* interrupted
          prompts, aborts
vars == <<s, idleFlush, abort, accepted, overtaken, prompts, aborts>>

NotOpen == [kind |-> "none", at |-> "none", stale |-> FALSE, own |-> {}]

Init ==
    /\ s = [at |-> [m \in Msgs |-> "unsent"],
            run |-> [at |-> "off", by |-> NoTask, kind |-> "none", aborted |-> FALSE],
            task |-> [t \in Tasks |-> NotOpen],
            count |-> 0, suppressed |-> FALSE, tail |-> TRUE]
    /\ idleFlush = [timer |-> FALSE, pending |-> FALSE]
    /\ abort = "no"
    /\ accepted = 0 /\ overtaken = {}
    /\ prompts = 0 /\ aborts = 0

-----------------------------------------------------------------------------
(* The session's helpers, as functions of its state x. *)

In(x, place) == {m \in Msgs : x.at[m] = place}
Move(x, S, place) == [x EXCEPT !.at = [m \in Msgs |-> IF m \in S THEN place ELSE x.at[m]]]

StreamingByCount(x) == x.count > 0      \* mutant: forgets runs outside the count

\* isStreaming: the agent runs, or a prompt is in flight.
IsStreaming(x) == x.run.at # "off" \/ x.count > 0

\* Opening a task: any identity that is free. What may open one needs room for
\* it; while the session streams, only a prompt opens one.
HasFree(x) == {t \in Tasks : x.task[t].kind = "none"} # {}
HasRoom(x) == IsStreaming(x) \/ HasFree(x)
Free(x) == CHOOSE t \in Tasks : x.task[t].kind = "none"
Open(x, kind, at, own) ==
    [x EXCEPT !.task[Free(x)] = [kind |-> kind, at |-> at, stale |-> FALSE, own |-> own]]
Close(x, t) == [x EXCEPT !.task[t] = NotOpen]

BeginInFlight(x) == [x EXCEPT !.count = @ + 1]

\* Agent.#runLoop with the given messages. Its first poll takes what is steered.
RunLoop(x, t, S) ==
    [Move(x, S \cup In(x, "steering"), "history") EXCEPT
        !.run = [at |-> "turn", by |-> t, kind |-> x.task[t].kind, aborted |-> FALSE],
        !.task[t].at = "running"]

\* Agent.prompt: a busy agent throws, and whoever does not catch it by queueing
\* loses the messages.
AgentPrompt(x, t, S) ==
    IF x.run.at # "off" THEN [Move(x, S, "lost") EXCEPT !.task[t].at = "over"]
                        ELSE RunLoop(x, t, S)

\* A steer resumes from any tail. Follow-ups alone wait for the user after an
\* interrupt, and for a tail that a provider accepts.
CanAutoContinue(x) ==
    /\ ~IsStreaming(x)
    /\ In(x, "steering") # {} \/ (~x.suppressed /\ x.tail)

HasQueued(x) == In(x, "steering") \cup In(x, "followUps") # {}

\* The continuation it schedules starts, and counts as in flight, at once.
ScheduleQueuedMessageDrain(x) ==
    IF CanAutoContinue(x) /\ HasQueued(x)
    THEN BeginInFlight(Open(x, "continue", "setup", {}))
    ELSE x

WakeKeepsFollowUps(x, S) ==             \* mutant: a wake turn drains what is blocked
    AgentPrompt(BeginInFlight(Open(x, "wake", "running", {})), Free(x), S)

\* wakeForIrc: a turn for a peer's message. Follow-ups that a user interrupt
\* holds back are parked with the task, out of reach of the run's polls.
WakeForIrc(x, S) ==
    LET parks == /\ In(x, "steering") = {}
                 /\ ~CanAutoContinue(x)
        t     == Free(x)
        y     == IF parks THEN Move(x, In(x, "followUps"), t) ELSE x
    IN  AgentPrompt(BeginInFlight(Open(y, "wake", "running", {})), t, S)

ResumeNothing(x) == x                   \* mutant: a stranded aside waits for a prompt

ResumeStrandedIrcAsides(x) ==
    IF \/ IsStreaming(x)
       \/ In(x, "asides") = {}
       \/ CanAutoContinue(x) /\ HasQueued(x)
    THEN x
    ELSE WakeForIrc(x, In(x, "asides"))

DrainStrandedQueuedMessages(x) ==
    IF abort # "no" THEN x ELSE ResumeStrandedIrcAsides(ScheduleQueuedMessageDrain(x))

EndBelowZero(x, t) ==                   \* mutant: an end after a reset counts down
    LET y == [Close(x, t) EXCEPT !.count = @ - 1]
    IN  IF y.count = 0 THEN DrainStrandedQueuedMessages(y) ELSE y

\* A task leaves its begin/end bracket: the last one drains what is stranded.
EndInFlight(x, t) ==
    LET n == IF x.count = 0 THEN 0 ELSE x.count - 1
        y == [Close(x, t) EXCEPT !.count = n]
    IN  IF n = 0 THEN DrainStrandedQueuedMessages(y) ELSE y

\* Asides are recorded without a turn: the transcript then ends in one.
FlushPendingIrcAsides(x) ==
    IF In(x, "asides") = {} THEN x
    ELSE [Move(x, In(x, "asides"), "history") EXCEPT !.tail = FALSE]

Untimed == UNCHANGED <<idleFlush, abort, accepted, overtaken, prompts, aborts>>

-----------------------------------------------------------------------------
(* Messages arrive. *)

Arrives(m, kinds) ==
    /\ s.at[m] = "unsent" /\ Kind[m] \in kinds
    /\ \E mix \in Mixes : {m} \cup (Msgs \ In(s, "unsent")) \subseteq mix

\* queueUserMessage: the user resumes, so an earlier interrupt is over.
ReceiveUserMessage(m) ==
    /\ Arrives(m, {"steer", "followUp"})
    /\ s' = [Move(s, {m}, "preparing") EXCEPT !.suppressed = FALSE]
    /\ Untimed

\* Its images have been awaited; the user may have interrupted meanwhile.
QueueUserMessage(m) ==
    /\ s.at[m] = "preparing" /\ HasRoom(s)
    /\ LET place == IF Kind[m] = "steer" THEN "steering" ELSE "followUps"
       IN  s' = ScheduleQueuedMessageDrain(Move(s, {m}, place))
    /\ Untimed

DeliverIrcMessage(m) ==
    /\ Arrives(m, {"irc"}) /\ HasRoom(s)
    /\ s' = IF IsStreaming(s) THEN Move(s, {m}, "asides") ELSE WakeForIrc(s, {m})
    /\ Untimed

\* A result is staged; only while the session is idle does that set the timer.
EnqueueResult(m) ==
    /\ Arrives(m, {"result"})
    /\ s' = Move(s, {m}, "staged")
    /\ idleFlush' = IF IsStreaming(s) \/ idleFlush.pending THEN idleFlush
                    ELSE [timer |-> TRUE, pending |-> TRUE]
    /\ UNCHANGED <<abort, accepted, overtaken, prompts, aborts>>

\* A message for the next turn; one that triggers a turn starts a prompt of its
\* own, with everything kept so far, even while the agent runs.
QueueHiddenNextTurnMessage(m, triggerTurn) ==
    /\ Arrives(m, {"deferred"})
    /\ triggerTurn => HasFree(s)
    /\ LET own == {m} \cup In(s, "nextTurn")
       IN  s' = IF ~triggerTurn THEN Move(s, {m}, "nextTurn")
                ELSE BeginInFlight(FlushPendingIrcAsides(
                        Open(Move(s, own, Free(s)), "deferred", "setup", own)))
    /\ Untimed

-----------------------------------------------------------------------------
(* Prompts: of the user, and of deferred messages. *)

\* A prompt that finds the session streaming is refused or queued; another one
\* is accepted, and awaits its images before it counts as in flight.
Prompt ==
    /\ prompts < MaxPrompts
    /\ ~IsStreaming(s)
    /\ prompts' = prompts + 1
    /\ accepted' = accepted + 1
    /\ s' = [s EXCEPT !.suppressed = FALSE]
    /\ UNCHANGED <<idleFlush, abort, overtaken, aborts>>

\* It does not look again: by now the session may be streaming.
PromptBegins ==
    /\ accepted > 0 /\ HasFree(s)
    /\ accepted' = accepted - 1
    /\ s' = BeginInFlight(FlushPendingIrcAsides(Open(s, "prompt", "setup", {})))
    /\ UNCHANGED <<idleFlush, abort, overtaken, prompts, aborts>>

IsPrompt(t) == s.task[t].kind \in {"prompt", "deferred"}
Superseded(t) == EndInFlight(Move(s, In(s, t), "lost"), t)

\* Setup ends by taking the next-turn messages, unless an abort superseded it.
PromptTakesNextTurn(t) ==
    /\ IsPrompt(t) /\ s.task[t].at = "setup"
    /\ s' = IF s.task[t].stale THEN Superseded(t)
            ELSE [Move(s, In(s, "nextTurn"), t) EXCEPT !.task[t].at = "taken"]
    /\ Untimed

\* More setup has been awaited: bail out, or prompt the agent, which may be busy.
PromptAgent(t) ==
    /\ IsPrompt(t) /\ s.task[t].at = "taken"
    /\ s' = IF s.task[t].stale THEN Superseded(t)
            ELSE IF s.run.at # "off" THEN [s EXCEPT !.task[t].at = "busy"]
            ELSE RunLoop(s, t, In(s, t))
    /\ Untimed

\* promptAgentWithIdleRetry, which looks at no generation any more.
PromptRetries(t) ==
    /\ s.task[t].at = "busy" /\ s.run.at = "off"
    /\ s' = RunLoop(s, t, In(s, t))
    /\ Untimed

\* Thirty seconds have passed: the prompt throws. A deferred one puts back the
\* messages it came with.
PromptGivesUp(t) ==
    /\ s.task[t].at = "busy" /\ s.run.at # "off"
    /\ LET own == s.task[t].own
       IN  s' = EndInFlight(Move(Move(s, In(s, t), "lost"), own, "nextTurn"), t)
    /\ Untimed

-----------------------------------------------------------------------------
(* Continuations and idle flushes. *)

\* The task of scheduleAgentContinue, after its await: skipped when cancelled;
\* Agent.continue() throws when the agent is busy or has nothing to go on.
AgentContinue(t) ==
    /\ s.task[t].kind = "continue" /\ s.task[t].at = "setup"
    /\ s' = IF \/ s.task[t].stale
               \/ s.run.at # "off"
               \/ s.tail /\ ~HasQueued(s)
            THEN EndInFlight(s, t)
            ELSE RunLoop(s, t, IF s.tail /\ In(s, "steering") = {} THEN In(s, "followUps") ELSE {})
    /\ Untimed

\* The timer fires. The turn that injectIdle starts is in no bracket.
IdleFlush ==
    /\ idleFlush.timer /\ HasRoom(s)
    /\ idleFlush' = [timer |-> FALSE, pending |-> FALSE]
    /\ s' = IF IsStreaming(s) \/ In(s, "staged") = {} THEN s
            ELSE AgentPrompt(Open(s, "flush", "running", {}), Free(s), In(s, "staged"))
    /\ UNCHANGED <<abort, accepted, overtaken, prompts, aborts>>

-----------------------------------------------------------------------------
(* The agent loop. An aborted run polls nothing more. *)

Polled(place) == IF s.run.aborted THEN {} ELSE In(s, place)

\* A turn is over: steering is polled, asides only if the agent goes on anyway.
TurnEnds(goesOn) ==
    /\ s.run.at = "turn" /\ ~s.run.aborted
    /\ LET steering == In(s, "steering")
           asides   == IF goesOn THEN In(s, "asides") \cup In(s, "staged") ELSE {}
       IN  s' = [Move(s, steering \cup asides, "history") EXCEPT
                    !.run.at = IF goesOn \/ steering # {} THEN "turn" ELSE "yield"]
    /\ Untimed

\* The three polls at the stop boundary, each after an await of its own.
LateSteering ==
    /\ s.run.at = "yield"
    /\ s' = [Move(s, Polled("steering"), "picked") EXCEPT !.run.at = "steered"]
    /\ Untimed

LateAsides ==
    /\ s.run.at = "steered"
    /\ s' = [Move(s, Polled("asides") \cup Polled("staged"), "picked") EXCEPT !.run.at = "asided"]
    /\ Untimed

\* With anything picked up the loop goes round again, else it is about to end.
LateFollowUps ==
    /\ s.run.at = "asided"
    /\ LET all == In(s, "picked") \cup Polled("followUps")
       IN  s' = [Move(s, all, "history") EXCEPT !.run.at = IF all = {} THEN "ending" ELSE "turn"]
    /\ Untimed

\* A run leaves a tail to continue from, and nothing but the memory of its kind.
Off(x) == [x EXCEPT !.run.at = "off", !.run.by = NoTask, !.run.aborted = FALSE,
                    !.tail = TRUE, !.task[x.run.by].at = "over"]

RunEnds ==
    /\ s.run.at = "ending" \/ (s.run.aborted /\ s.run.at = "turn")
    /\ s' = Off(s)
    /\ Untimed

\* A provider error ends the run without another poll.
RunFails ==
    /\ s.run.at = "turn" /\ ~s.run.aborted
    /\ s' = Off(s)
    /\ Untimed

\* Tasks the session tracks as post-prompt tasks.
PostPrompt == {t \in Tasks : s.task[t].kind \in {"continue", "flush", "deferred"}}

\* Whoever awaited the run goes on. A prompt first waits for the recovery tasks,
\* unless it was superseded; a wake restores the follow-ups it had parked.
Settle(t) ==
    /\ s.task[t].at = "over"
    /\ s.task[t].kind = "prompt" =>
           s.task[t].stale \/ (PostPrompt = {} /\ ~idleFlush.timer /\ s.run.at = "off")
    /\ s' = IF s.task[t].kind = "flush" THEN Close(s, t)
            ELSE EndInFlight(Move(s, In(s, t), "followUps"), t)
    /\ Untimed

-----------------------------------------------------------------------------
(* abort() *)

\* Up to its first await: bump the generation, cancel the post-prompt tasks (the
\* idle-flush timer among them; the yield queue's flag stays), stop the agent.
AbortStart(userInterrupt) ==
    /\ aborts < MaxAborts
    /\ abort = "no"
    /\ aborts' = aborts + 1
    /\ abort' = "draining"
    /\ idleFlush' = [idleFlush EXCEPT !.timer = FALSE]
    /\ s' = [s EXCEPT !.suppressed = @ \/ userInterrupt,
                      !.run.aborted = s.run.at # "off",
                      !.task = [t \in Tasks |-> [s.task[t] EXCEPT !.stale = s.task[t].kind # "none"]]]
    /\ overtaken' = IF userInterrupt THEN overtaken \cup In(s, "preparing") ELSE overtaken
    /\ UNCHANGED <<accepted, prompts>>

\* The cancelled tasks and the run are over; the goal runtime is awaited next.
AbortIdle ==
    /\ abort = "draining"
    /\ \A t \in PostPrompt : ~s.task[t].stale
    /\ s.run.at = "off"
    /\ abort' = "idle"
    /\ UNCHANGED <<s, idleFlush, accepted, overtaken, prompts, aborts>>

\* resetInFlight(), whatever is in flight by now, and the finally block.
AbortEnd ==
    /\ abort = "idle"
    /\ abort' = "no"
    /\ LET x == [s EXCEPT !.count = 0]
       IN  HasRoom(x) /\ s' = ResumeStrandedIrcAsides(ScheduleQueuedMessageDrain(x))
    /\ UNCHANGED <<idleFlush, accepted, overtaken, prompts, aborts>>

-----------------------------------------------------------------------------
Next ==
    \/ \E m \in Msgs : \/ ReceiveUserMessage(m) \/ QueueUserMessage(m)
                       \/ DeliverIrcMessage(m) \/ EnqueueResult(m)
                       \/ \E trigger \in BOOLEAN : QueueHiddenNextTurnMessage(m, trigger)
    \/ Prompt \/ PromptBegins
    \/ \E t \in Tasks : \/ PromptTakesNextTurn(t) \/ PromptAgent(t)
                        \/ PromptRetries(t) \/ PromptGivesUp(t)
                        \/ AgentContinue(t) \/ Settle(t)
    \/ \E goesOn \in BOOLEAN : TurnEnds(goesOn)
    \/ IdleFlush
    \/ LateSteering \/ LateAsides \/ LateFollowUps \/ RunEnds \/ RunFails
    \/ \E userInterrupt \in BOOLEAN : AbortStart(userInterrupt)
    \/ AbortIdle \/ AbortEnd

Spec == Init /\ [][Next]_vars

\* Continuations run, timers fire, and a model does not call tools for ever.
\* Nobody has to send, to prompt or to abort.
Fairness ==
    /\ WF_vars(TurnEnds(FALSE)) /\ WF_vars(RunEnds)
    /\ WF_vars(LateSteering) /\ WF_vars(LateAsides) /\ WF_vars(LateFollowUps)
    /\ WF_vars(PromptBegins) /\ WF_vars(IdleFlush) /\ WF_vars(AbortIdle) /\ WF_vars(AbortEnd)
    /\ \A t \in Tasks : /\ WF_vars(PromptTakesNextTurn(t)) /\ WF_vars(PromptAgent(t))
                        /\ WF_vars(PromptRetries(t)) /\ WF_vars(AgentContinue(t))
                        /\ WF_vars(Settle(t))

FairSpec == Spec /\ Fairness

-----------------------------------------------------------------------------
(* Properties. *)

\* The type invariant of the session.
TypeOK ==
    /\ s.at \in [Msgs -> Places \cup Tasks]
    /\ s.run \in [at : {"off", "turn", "yield", "steered", "asided", "ending"},
                  by : Tasks \cup {NoTask}, aborted : BOOLEAN,
                  kind : {"none", "prompt", "deferred", "wake", "continue", "flush"}]
    /\ s.task \in [Tasks -> [kind : {"none", "prompt", "deferred", "wake", "continue", "flush"},
                             at : {"none", "setup", "taken", "busy", "running", "over"},
                             stale : BOOLEAN, own : SUBSET Msgs]]
    /\ s.count \in 0..Cardinality(Tasks) /\ s.suppressed \in BOOLEAN /\ s.tail \in BOOLEAN
    /\ idleFlush \in [timer : BOOLEAN, pending : BOOLEAN]
    /\ abort \in {"no", "draining", "idle"}
    /\ accepted \in 0..MaxPrompts /\ overtaken \subseteq Msgs
    /\ prompts \in 0..MaxPrompts /\ aborts \in 0..MaxAborts

\* A session at rest, with no turn that ran outside a bracket.
AtRest == /\ \A t \in Tasks : s.task[t].kind = "none"
          /\ s.run.at = "off" /\ s.run.kind # "flush" /\ abort = "no"

\* A prompt or a message of the user is on its way in, and has lifted whatever
\* interrupt there was.
UserResumes == accepted > 0 \/ In(s, "preparing") # {}

\* No message is left with no loop to poll it (#drainStrandedQueuedMessages):
\* whenever the session settles, a steer or a peer's message that came after the
\* last poll has been taken care of, and a follow-up waits only for the user or
\* for a tail to continue from.
NothingStranded ==
    AtRest => /\ In(s, "steering") = {} /\ In(s, "asides") = {}
              /\ In(s, "followUps") # {} => s.suppressed \/ ~s.tail \/ UserResumes

\* A peer's message, once accepted, is never dropped: waking a turn for it
\* cannot find the agent busy.
PeerNeverLost == \A m \in Msgs : Kind[m] = "irc" => s.at[m] # "lost"

Held == {m \in Msgs \ overtaken : Kind[m] = "followUp" /\ s.at[m] \in {"followUps"} \cup Tasks}
Heard == {m \in Msgs : s.at[m] = "history"}

\* The follow-up queue is parked across a wake (wakeForIrc): while a user interrupt is in
\* effect and nobody steered, a turn that only answers a peer does not run the
\* follow-ups the user had queued. Two exceptions: with two peers' messages around
\* an abort, the first wake hands them to the second one (one message is assumed);
\* and a follow-up still in preparation when the user interrupts may be queued
\* after the wake has parked the others, within reach of its polls.
WakeSparesFollowUps ==
    [][(/\ s.suppressed /\ s'.suppressed
        /\ s.run.kind = "wake" /\ s'.run.kind = "wake"
        /\ \A m \in Msgs : Kind[m] = "steer" => s.at[m] \in {"unsent", "preparing"})
            => Held \cap Heard' = {}]_vars

\* A background result that was staged reaches the conversation: "the result is
\* delivered automatically when complete" (docs/tools/bash.md).
ResultDelivered == \A m \in Msgs : s.at[m] = "staged" ~> s.at[m] # "staged"

=============================================================================
