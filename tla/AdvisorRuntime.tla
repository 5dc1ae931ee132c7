--------------------------- MODULE AdvisorRuntime ---------------------------
(***************************************************************************)
(* The advisor: a second model that is shown what a session added to its   *)
(* transcript since it last looked (advisor/runtime.ts), and what the      *)
(* session does to it: it ends turns, waits for the advisor to catch up,   *)
(* rewrites its history, retries a turn, maintains the advisor's context   *)
(* (session/agent-session.ts).                                             *)
(*                                                                         *)
(* A message is a number, given in the order in which messages appear.     *)
(* What the advisor knows is the set of messages its conversation derives  *)
(* from; its own replies are not represented.                              *)
(***************************************************************************)
EXTENDS Integers, SequencesExt

CONSTANTS MaxMsgs,      \* bound on the messages of the session
          MaxResets,    \* bound on the rewrites of its history
          MaxRetries,   \* bound on the turns it takes back
          Thresholds    \* what advisor.syncBacklog may be when it is on

ASSUME BoundAssumption == MaxMsgs \in Nat /\ MaxResets \in Nat /\ MaxRetries \in Nat
ASSUME ThresholdAssumption == Thresholds \subseteq Nat \ {0}

VARIABLES
    session,    \* transcript, the first message of this history, whether a
                \* turn is open, the positions at which a message was retried
    latest,     \* #latestMessages, which the run's later messages join while
                \* it is the array of the run that is under way
    cursor,     \* #lastCount
    pending,    \* #pending, taken only as a whole: its messages and turns
    drain,      \* the loop of #drain: where it awaits, with what in hand
    backlog,    \* #backlog
    epoch,      \* #epoch
    failures,   \* #consecutiveFailures
    advisor,    \* the messages behind the advisor agent's own conversation
    dropped,    \* the messages of the batches given up after three failures
    wait,       \* the threshold the session waits for, 0 when it does not
    disposed,
    count       \* messages, resets and retries so far, for the bounds

vars == <<session, latest, cursor, pending, drain, backlog, epoch, failures,
          advisor, dropped, wait, disposed, count>>

Nothing == [msgs |-> {}, turns |-> 0]
Resting == [at |-> "rest", msgs |-> {}, turns |-> 0, epoch |-> 0, held |-> {}]

Init ==
    /\ session = [transcript |-> <<>>, first |-> 1, turn |-> "none", retried |-> {}]
    /\ latest = [msgs |-> <<>>, live |-> FALSE]
    /\ cursor = 0 /\ pending = Nothing /\ drain = Resting
    /\ backlog = 0 /\ epoch = 0 /\ failures = 0
    /\ advisor = {} /\ dropped = {} /\ wait = 0 /\ disposed = FALSE
    /\ count = [msgs |-> 0, resets |-> 0, retries |-> 0]

-----------------------------------------------------------------------------
(* The waits and the loop of #drain. *)

\* notifyWaiters: a wait ends once the backlog b is below its threshold.
Notified(b) == IF b < wait THEN 0 ELSE wait

\* The head of #drain's loop: with batches p it takes them all and awaits the
\* maintenance of the context c, which has the advisor's messages in hand.
Loop(p, c, e) ==
    IF p.turns > 0 /\ ~disposed
    THEN /\ drain' = [at |-> "maintain", msgs |-> p.msgs, turns |-> p.turns,
                      epoch |-> e, held |-> c]
         /\ pending' = Nothing
    ELSE drain' = Resting /\ pending' = p

\* A batch of t turns is done with, and the loop goes round with batches p.
Account(t, p, c) ==
    /\ backlog' = IF t < backlog THEN backlog - t ELSE 0
    /\ wait' = Notified(backlog')
    /\ Loop(p, c, epoch)

-----------------------------------------------------------------------------
(* The session. *)

\* The agent appends a message to its transcript, and the loop pushes it on the
\* array it was given; a new run is given a copy.
AddMessage(newRun) ==
    /\ wait = 0 /\ count.msgs < MaxMsgs
    /\ LET m == count.msgs + 1 IN
       /\ session' = [session EXCEPT !.transcript = Append(@, m), !.turn = "open"]
       /\ latest' = IF latest.live /\ ~newRun THEN [latest EXCEPT !.msgs = Append(@, m)]
                    ELSE [latest EXCEPT !.live = FALSE]
       /\ count' = [count EXCEPT !.msgs = m]
    /\ UNCHANGED <<cursor, pending, drain, backlog, epoch, failures, advisor,
                   dropped, wait, disposed>>

DeltaSkips(all) == ToSet(SubSeq(all, cursor + 2, Len(all)))   \* mutant: off by one

\* The messages renderDelta shows: those past the cursor. A transcript that
\* shrank shows nothing.
Delta(all) == IF Len(all) < cursor THEN {} ELSE ToSet(SubSeq(all, cursor + 1, Len(all)))

\* onTurnEnd and waitForCatchup, from the hook of a turn that ended well;
\* threshold 0 stands for syncBacklog "off".
TurnEnd(threshold) ==
    /\ ~disposed /\ session.turn = "open"
    /\ session' = [session EXCEPT !.turn = "over"]
    /\ latest' = [msgs |-> session.transcript, live |-> TRUE]
    /\ cursor' = Len(session.transcript)
    /\ LET delta == Delta(session.transcript)
           more == [msgs |-> pending.msgs \union delta, turns |-> pending.turns + 1]
       IN IF delta = {} THEN UNCHANGED <<pending, drain, backlog>>
          ELSE /\ backlog' = backlog + 1
               /\ IF drain.at = "rest" THEN Loop(more, advisor, epoch)
                  ELSE pending' = more /\ UNCHANGED drain
    /\ wait' = IF threshold > 0 /\ backlog' >= threshold THEN threshold ELSE 0
    /\ UNCHANGED <<epoch, failures, advisor, dropped, disposed, count>>

\* The wait ends without the advisor: 30 seconds passed or the run was aborted.
CatchupGivenUp ==
    /\ wait > 0 /\ wait' = 0
    /\ UNCHANGED <<session, latest, cursor, pending, drain, backlog, epoch,
                   failures, advisor, dropped, disposed, count>>

\* The session takes back its last answer, failed, cut short or empty, and
\* lets the model answer again. It tells the advisor nothing.
RetryTurn ==
    /\ wait = 0 /\ session.turn \in {"open", "over"}
    /\ Len(session.transcript) > 1 /\ count.retries < MaxRetries
    /\ session' = [session EXCEPT !.transcript = Front(@), !.turn = "none",
                                  !.retried = @ \union {Len(session.transcript)}]
    /\ latest' = [latest EXCEPT !.live = FALSE]
    /\ count' = [count EXCEPT !.retries = @ + 1]
    /\ UNCHANGED <<cursor, pending, drain, backlog, epoch, failures, advisor,
                   dropped, wait, disposed>>

\* reset, after the history was rewritten: compacted into a summary, or
\* replaced by an empty one. It also aborts a prompt that is in flight.
Reset ==
    /\ ~disposed /\ count.resets < MaxResets
    /\ \E summary \in {0, 1} :
       /\ count.msgs + summary <= MaxMsgs
       /\ session' = [transcript |-> IF summary = 1 THEN <<count.msgs + 1>> ELSE <<>>,
                      first |-> count.msgs + 1, turn |-> "none", retried |-> {}]
       /\ count' = [count EXCEPT !.msgs = @ + summary, !.resets = @ + 1]
    /\ epoch' = epoch + 1
    /\ cursor' = 0 /\ pending' = Nothing /\ backlog' = 0 /\ failures' = 0
    /\ wait' = 0 /\ advisor' = {} /\ dropped' = {}
    /\ latest' = [latest EXCEPT !.live = FALSE]
    /\ UNCHANGED <<drain, disposed>>

\* dispose, when the advisor is switched off or the session goes.
Dispose ==
    /\ ~disposed /\ disposed' = TRUE
    /\ epoch' = epoch + 1
    /\ pending' = Nothing /\ backlog' = 0 /\ failures' = 0 /\ wait' = 0
    /\ UNCHANGED <<session, latest, cursor, drain, advisor, dropped, count>>

-----------------------------------------------------------------------------
(* The steps of #drain. *)

ContextKeptBlindly ==   \* mutant: no look at the epoch after the await
    /\ drain.at = "maintain"
    /\ \E compacted \in BOOLEAN : advisor' = IF compacted THEN drain.held ELSE advisor
    /\ drain' = [drain EXCEPT !.at = "prompt", !.epoch = epoch] /\ UNCHANGED pending
    /\ UNCHANGED <<session, latest, cursor, backlog, epoch, failures, dropped,
                   wait, disposed, count>>

\* maintainAdvisorContext resolves false: there was room, a larger model was
\* found, or the advisor's messages were compacted, which puts a summary of
\* those it held when it began in place of those it has now.
ContextKept ==
    /\ drain.at = "maintain"
    /\ \E compacted \in BOOLEAN : advisor' = IF compacted THEN drain.held ELSE advisor
    /\ IF drain.epoch # epoch THEN Loop(pending, advisor', epoch)
       ELSE drain' = [drain EXCEPT !.at = "prompt"] /\ UNCHANGED pending
    /\ UNCHANGED <<session, latest, cursor, backlog, epoch, failures, dropped,
                   wait, disposed, count>>

ReprimeForgets ==       \* mutant: the turns that came meanwhile are not counted
    /\ drain.at = "maintain" /\ drain.epoch = epoch
    /\ cursor' = Len(latest.msgs) /\ failures' = 0 /\ advisor' = {}
    /\ pending' = Nothing
    /\ drain' = [drain EXCEPT !.at = "prompt", !.msgs = ToSet(latest.msgs)]
    /\ UNCHANGED <<session, latest, backlog, epoch, dropped, wait, disposed, count>>

\* It resolves true: the advisor starts afresh with the latest transcript,
\* which stands for the batch in hand and for those that came meanwhile.
Reprime ==
    /\ drain.at = "maintain"
    /\ IF drain.epoch # epoch
       THEN /\ Loop(pending, advisor, epoch)
            /\ UNCHANGED <<cursor, failures, advisor>>
       ELSE /\ cursor' = Len(latest.msgs) /\ failures' = 0 /\ advisor' = {}
            /\ pending' = Nothing
            /\ drain' = [drain EXCEPT !.at = "prompt", !.msgs = ToSet(latest.msgs),
                                      !.turns = @ + pending.turns]
    /\ UNCHANGED <<session, latest, backlog, epoch, dropped, wait, disposed, count>>

\* The advisor's prompt returns. One that a reset or a dispose aborted counts
\* for nothing: the backlog is already that of the new epoch.
PromptAnswered ==
    /\ drain.at = "prompt"
    /\ IF drain.epoch = epoch
       THEN /\ advisor' = advisor \union drain.msgs
            /\ Account(drain.turns, pending, advisor')
       ELSE Loop(pending, advisor, epoch) /\ UNCHANGED <<advisor, backlog, wait>>
    /\ failures' = 0
    /\ UNCHANGED <<session, latest, cursor, epoch, dropped, disposed, count>>

PromptFailsForever ==   \* mutant: no third failure drops the batch
    /\ drain.at = "prompt" /\ drain.epoch = epoch
    /\ failures' = failures + 1
    /\ pending' = [msgs |-> pending.msgs \union drain.msgs,
                   turns |-> pending.turns + drain.turns]
    /\ drain' = [Resting EXCEPT !.at = "sleep"]
    /\ UNCHANGED <<session, latest, cursor, backlog, epoch, advisor, dropped,
                   wait, disposed, count>>

\* It throws. The batch goes back to the head of the queue and the loop
\* sleeps, twice; the third failure in a row drops it.
PromptFailed ==
    /\ drain.at = "prompt"
    /\ IF drain.epoch # epoch
       THEN Loop(pending, advisor, epoch) /\ UNCHANGED <<failures, dropped, backlog, wait>>
       ELSE IF failures + 1 >= 3
       THEN /\ failures' = 0
            /\ dropped' = dropped \union drain.msgs
            /\ Account(drain.turns, pending, advisor)
       ELSE /\ failures' = failures + 1
            /\ pending' = [msgs |-> pending.msgs \union drain.msgs,
                           turns |-> pending.turns + drain.turns]
            /\ drain' = [Resting EXCEPT !.at = "sleep"]
            /\ UNCHANGED <<dropped, backlog, wait>>
    /\ UNCHANGED <<session, latest, cursor, epoch, advisor, disposed, count>>

SleepOverReturns ==      \* mutant: leaves the loop instead of going round
    /\ drain.at = "sleep" /\ drain' = Resting
    /\ UNCHANGED <<session, latest, cursor, pending, backlog, epoch, failures,
                   advisor, dropped, wait, disposed, count>>

SleepOver ==
    /\ drain.at = "sleep"
    /\ Loop(pending, advisor, epoch)
    /\ UNCHANGED <<session, latest, cursor, backlog, epoch, failures, advisor,
                   dropped, wait, disposed, count>>

Next ==
    \/ \E newRun \in BOOLEAN : AddMessage(newRun)
    \/ \E t \in Thresholds \union {0} : TurnEnd(t)
    \/ CatchupGivenUp
    \/ RetryTurn
    \/ Reset
    \/ Dispose
    \/ ContextKept
    \/ Reprime
    \/ PromptAnswered
    \/ PromptFailed
    \/ SleepOver

Spec == Init /\ [][Next]_vars

-----------------------------------------------------------------------------
Messages == 1..MaxMsgs

\* The type invariant of the advisor and the session it follows.
TypeOK ==
    /\ session \in [transcript : Seq(Messages), first : 1..(MaxMsgs + 1),
                    turn : {"none", "open", "over"}, retried : SUBSET Nat]
    /\ latest \in [msgs : Seq(Messages), live : BOOLEAN]
    /\ cursor \in Nat /\ backlog \in Nat /\ epoch \in Nat
    /\ pending \in [msgs : SUBSET Messages, turns : Nat]
    /\ drain \in [at : {"rest", "maintain", "prompt", "sleep"}, msgs : SUBSET Messages,
                  turns : Nat, epoch : Nat, held : SUBSET Messages]
    /\ failures \in 0..2
    /\ advisor \subseteq Messages /\ dropped \subseteq Messages
    /\ wait \in Thresholds \union {0} /\ disposed \in BOOLEAN
    /\ count \in [msgs : 0..MaxMsgs, resets : 0..MaxResets, retries : 0..MaxRetries]

\* What the loop has in hand belongs to the history the session has now.
Current == drain.at \in {"maintain", "prompt"} /\ drain.epoch = epoch

\* The backlog is the turns the advisor has yet to see, through every retry,
\* reset and restart of its context: a session that waits for it to fall
\* neither waits for turns that are gone nor runs ahead of turns that are not.
BacklogExact ==
    /\ backlog = pending.turns + IF Current THEN drain.turns ELSE 0
    /\ wait > 0 => backlog >= wait

\* Turns that wait for the advisor have a loop that will take them.
PendingServed == pending.turns > 0 /\ ~disposed => drain.at # "rest"

\* A message of a history that is gone is never shown to the advisor again:
\* a batch a reset overtook is neither sent nor put back in the queue.
OldNeverSent ==
    /\ \A m \in pending.msgs : m >= session.first
    /\ Current => \A m \in drain.msgs : m >= session.first

\* Every message the cursor passed is known to the advisor, or on its way to
\* it, or of a batch that failed three times. The exception are the positions
\* of a turn that was taken back.
Shown == advisor \union pending.msgs \union (IF Current THEN drain.msgs ELSE {})

NothingSkipped ==
    disposed \/ \A i \in 1..Len(session.transcript) :
        i <= cursor /\ i \notin session.retried
            => session.transcript[i] \in Shown \union dropped

=============================================================================
