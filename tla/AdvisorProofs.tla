---------------------------- MODULE AdvisorProofs ----------------------------
(***************************************************************************)
(* Proofs about AdvisorRuntime, for any bounds and thresholds.             *)
(***************************************************************************)
EXTENDS AdvisorRuntime, SequenceTheorems, TLAPS

\* Whether what the advisor took as the latest transcript is one of this
\* history: a reset leaves the former one in place until the next turn ends.
Relevant == latest.live \/ cursor > 0 \/ pending.turns > 0 \/ Current

Positions == DOMAIN session.transcript

\* The latest transcript is the session's, but for what it took back: what the
\* cursor skips when the advisor restarts from it was there to be shown.
Aligned ==
    /\ latest.live => latest.msgs = session.transcript
    /\ cursor <= Len(latest.msgs)
    /\ Relevant =>
         /\ \A i \in DOMAIN latest.msgs : latest.msgs[i] >= session.first
         /\ \A i \in Positions \ session.retried :
                i \in DOMAIN latest.msgs => latest.msgs[i] = session.transcript[i]
         /\ \A i \in DOMAIN latest.msgs \ Positions : i \in session.retried

\* Messages are numbered in order, and a history begins where the last one
\* ended.
Numbered ==
    /\ session.first <= count.msgs + 1
    /\ \A i \in Positions : session.transcript[i] >= session.first

\* No batch is of a later epoch, and what a compaction may put back is all that
\* the advisor still holds.
InHandSound ==
    /\ drain.epoch <= epoch
    /\ drain.at = "maintain" => advisor \subseteq drain.held

IInv == /\ TypeOK /\ BacklogExact /\ PendingServed /\ OldNeverSent /\ NothingSkipped
        /\ Aligned /\ Numbered /\ InHandSound

Batches == [msgs : SUBSET Messages, turns : Nat]
Drains == [at : {"rest", "maintain", "prompt", "sleep"}, msgs : SUBSET Messages,
           turns : Nat, epoch : Nat, held : SUBSET Messages]

\* What is in hand counts only in the epoch it was taken in.
HandTurns == IF Current THEN drain.turns ELSE 0
HandMsgs == IF Current THEN drain.msgs ELSE {}

LEMMA InitIInv == Init => IInv
  <1> SUFFICES ASSUME Init PROVE IInv
    OBVIOUS
  <1> USE DEF Init, Nothing, Resting, Current
  <1>1. <<>> \in Seq(Messages) /\ DOMAIN <<>> = {} /\ Len(<<>>) = 0
    OBVIOUS
  <1>2. TypeOK
    <2>1. 1 \in 1..(MaxMsgs + 1) /\ 0 \in 0..MaxMsgs /\ 0 \in 0..MaxResets /\ 0 \in 0..MaxRetries
      BY BoundAssumption
    <2>2. /\ 0 \in Thresholds \union {0} /\ FALSE \in BOOLEAN /\ TRUE \in BOOLEAN
          /\ 0 \in Nat /\ 0 \in 0..2
      OBVIOUS
    <2>3. /\ session \in [transcript : Seq(Messages), first : 1..(MaxMsgs + 1),
                         turn : {"none", "open", "over"}, retried : SUBSET Nat]
          /\ latest \in [msgs : Seq(Messages), live : BOOLEAN]
      BY <1>1, <2>1
    <2>4. count \in [msgs : 0..MaxMsgs, resets : 0..MaxResets, retries : 0..MaxRetries]
      BY <2>1
    <2> QED
      BY <2>2, <2>3, <2>4 DEF TypeOK
  <1>3. BacklogExact /\ PendingServed /\ OldNeverSent
    BY DEF BacklogExact, PendingServed, OldNeverSent
  <1>4. NothingSkipped
    BY <1>1 DEF NothingSkipped
  <1>5. Aligned /\ Numbered /\ InHandSound
    BY <1>1 DEF Aligned, Relevant, Numbered, Positions, InHandSound
  <1> QED
    BY <1>2, <1>3, <1>4, <1>5 DEF IInv

\* The head of the loop passes every batch on, or leaves it where it was.
LEMMA LoopFacts ==
    ASSUME NEW p \in Batches, NEW c \in SUBSET Messages, epoch \in Nat, Loop(p, c, epoch),
           epoch' = epoch
    PROVE  /\ drain' \in Drains /\ pending' \in Batches
           /\ pending'.turns + HandTurns' = p.turns
           /\ pending'.msgs \union HandMsgs' = p.msgs
           /\ pending'.turns > 0 => disposed
           /\ drain'.epoch <= epoch
           /\ drain'.at = "maintain" => drain'.held = c
           /\ pending'.turns > 0 \/ Current' => p.turns > 0
  <1>1. CASE p.turns > 0 /\ ~disposed
    BY <1>1 DEF Loop, Batches, Drains, Nothing, HandTurns, HandMsgs, Current
  <1>2. CASE ~(p.turns > 0 /\ ~disposed)
    <2>1. drain' = Resting /\ pending' = p
      BY <1>2 DEF Loop
    <2>2. ~Current'
      BY <2>1 DEF Resting, Current
    <2> QED
      BY <1>2, <2>1, <2>2 DEF Batches, Drains, Resting, HandTurns, HandMsgs
  <1> QED
    BY <1>1, <1>2

\* What all steps of the loop have in common: they leave the session alone, and
\* no message leaves the ones that were shown or are about to be.
LEMMA DrainIInv ==
    ASSUME IInv, UNCHANGED <<session, latest, cursor, epoch, disposed, count>>,
           TypeOK', BacklogExact', PendingServed', InHandSound',
           pending'.turns > 0 \/ Current' => pending.turns > 0 \/ Current,
           pending'.msgs \union HandMsgs' \subseteq pending.msgs \union HandMsgs,
           Shown \union dropped \subseteq (Shown \union dropped)'
    PROVE  IInv'
  <1>1. OldNeverSent'
    BY DEF IInv, OldNeverSent, HandMsgs
  <1>2. NothingSkipped'
    BY DEF IInv, NothingSkipped
  <1>3. Aligned'
    BY DEF IInv, Aligned, Relevant, Positions
  <1>4. Numbered'
    BY DEF IInv, Numbered, Positions
  <1> QED
    BY <1>1, <1>2, <1>3, <1>4 DEF IInv

\* The batches that wait, and the one in hand, in the types of the loop.
LEMMA HandFacts ==
    ASSUME IInv
    PROVE  /\ pending \in Batches /\ drain \in Drains /\ epoch \in Nat /\ backlog \in Nat
           /\ advisor \in SUBSET Messages /\ wait \in Nat
           /\ backlog = pending.turns + HandTurns
           /\ Shown = advisor \union pending.msgs \union HandMsgs
  <1>1. wait \in Nat
    BY ThresholdAssumption DEF IInv, TypeOK
  <1> QED
    BY <1>1 DEF IInv, TypeOK, BacklogExact, Batches, Drains, HandTurns, HandMsgs, Shown

\* One more turn of the loop, with nothing else changed but the advisor's
\* messages, which may grow, and the batch in hand, which was overtaken.
LEMMA LoopIInv ==
    ASSUME IInv, ~Current, NEW c \in SUBSET Messages, advisor \subseteq c,
           Loop(pending, c, epoch), advisor' = c, failures' \in 0..2,
           UNCHANGED <<session, latest, cursor, backlog, epoch, dropped, wait, disposed, count>>
    PROVE  IInv'
  <1>1. /\ pending \in Batches /\ epoch \in Nat /\ backlog \in Nat /\ wait \in Nat
        /\ backlog = pending.turns + HandTurns
        /\ Shown = advisor \union pending.msgs \union HandMsgs
    BY HandFacts
  <1>2. /\ drain' \in Drains /\ pending' \in Batches
        /\ pending'.turns + HandTurns' = pending.turns
        /\ pending'.msgs \union HandMsgs' = pending.msgs
        /\ pending'.turns > 0 => disposed
        /\ drain'.epoch <= epoch
        /\ drain'.at = "maintain" => drain'.held = c
        /\ pending'.turns > 0 \/ Current' => pending.turns > 0
    BY <1>1, LoopFacts
  <1>3. TypeOK'
    BY <1>2 DEF IInv, TypeOK, Batches, Drains
  <1>4. BacklogExact'
    <2>1. HandTurns = 0 /\ pending.turns \in Nat
      BY <1>1 DEF HandTurns, Batches
    <2>2. backlog' = pending'.turns + HandTurns'
      BY <1>1, <1>2, <2>1
    <2> QED
      BY <2>2 DEF IInv, BacklogExact, HandTurns
  <1>5. PendingServed' /\ InHandSound'
    BY <1>2 DEF PendingServed, InHandSound
  <1>6. Shown \union dropped \subseteq (Shown \union dropped)'
    BY <1>1, <1>2 DEF HandMsgs, Shown
  <1> QED
    BY <1>2, <1>3, <1>4, <1>5, <1>6, DrainIInv

LEMMA ContextKeptIInv == ASSUME IInv, ContextKept PROVE IInv'
  <1>1. /\ pending \in Batches /\ drain \in Drains /\ epoch \in Nat
        /\ advisor \in SUBSET Messages
        /\ Shown = advisor \union pending.msgs \union HandMsgs
    BY HandFacts
  <1>2. /\ drain.at = "maintain" /\ advisor \subseteq drain.held
        /\ advisor' \in {advisor, drain.held}
        /\ UNCHANGED <<session, latest, cursor, backlog, epoch, failures, dropped,
                       wait, disposed, count>>
    BY DEF ContextKept, IInv, InHandSound
  <1>3. advisor' \in SUBSET Messages /\ advisor \subseteq advisor'
    BY <1>1, <1>2 DEF Drains
  <1>4. CASE drain.epoch # epoch
    <2>1. ~Current /\ Loop(pending, advisor', epoch) /\ failures' \in 0..2
      BY <1>2, <1>4 DEF Current, ContextKept, IInv, TypeOK
    <2> QED
      BY <1>2, <1>3, <2>1, LoopIInv
  <1>5. CASE drain.epoch = epoch
    <2>1. drain' = [drain EXCEPT !.at = "prompt"] /\ UNCHANGED pending
      BY <1>5 DEF ContextKept
    <2>2. /\ drain' \in Drains /\ drain'.at = "prompt" /\ drain'.epoch = drain.epoch
          /\ drain'.msgs = drain.msgs /\ drain'.turns = drain.turns
      BY <1>1, <2>1 DEF Drains
    <2>3. Current /\ Current' /\ HandMsgs' = HandMsgs /\ HandTurns' = HandTurns
      BY <1>2, <1>5, <2>2 DEF Current, HandMsgs, HandTurns
    <2>4. TypeOK'
      BY <1>2, <1>3, <2>1, <2>2 DEF IInv, TypeOK, Drains
    <2>5. BacklogExact' /\ PendingServed' /\ InHandSound'
      BY <1>2, <2>1, <2>2, <2>3
         DEF IInv, BacklogExact, PendingServed, InHandSound
    <2>6. Shown \union dropped \subseteq (Shown \union dropped)'
      BY <1>1, <1>2, <1>3, <2>1, <2>3 DEF Shown, HandMsgs
    <2> QED
      BY <1>2, <2>1, <2>3, <2>4, <2>5, <2>6, DrainIInv
  <1> QED
    BY <1>4, <1>5

LEMMA SleepOverIInv == ASSUME IInv, SleepOver PROVE IInv'
  <1>1. ~Current /\ advisor \in SUBSET Messages /\ failures' \in 0..2 /\ advisor' = advisor
    BY DEF SleepOver, Current, IInv, TypeOK
  <1> QED
    BY <1>1, LoopIInv DEF SleepOver

\* A batch of drain.turns turns is done with.
LEMMA AccountIInv ==
    ASSUME IInv, Current, NEW c \in SUBSET Messages, NEW d \in SUBSET Messages,
           advisor \subseteq c, dropped \subseteq d, drain.msgs \subseteq c \union d,
           Account(drain.turns, pending, c), advisor' = c, dropped' = d, failures' \in 0..2,
           UNCHANGED <<session, latest, cursor, epoch, disposed, count>>
    PROVE  IInv'
  <1>1. /\ pending \in Batches /\ drain \in Drains /\ epoch \in Nat /\ backlog \in Nat
        /\ wait \in Nat /\ backlog = pending.turns + HandTurns
        /\ Shown = advisor \union pending.msgs \union HandMsgs
    BY HandFacts
  <1>2. Loop(pending, c, epoch)
    BY DEF Account
  <1>3. /\ drain' \in Drains /\ pending' \in Batches
        /\ pending'.turns + HandTurns' = pending.turns
        /\ pending'.msgs \union HandMsgs' = pending.msgs
        /\ pending'.turns > 0 => disposed
        /\ drain'.epoch <= epoch
        /\ drain'.at = "maintain" => drain'.held = c
        /\ pending'.turns > 0 \/ Current' => pending.turns > 0
    BY <1>1, <1>2, LoopFacts
  <1>4. HandTurns = drain.turns /\ HandMsgs = drain.msgs
    BY DEF HandTurns, HandMsgs
  <1>5. backlog' = pending.turns
    BY <1>1, <1>4 DEF Account, Drains, Batches
  <1>6. wait' = IF backlog' < wait THEN 0 ELSE wait
    BY DEF Account, Notified
  <1>7. TypeOK'
    BY <1>1, <1>3, <1>5, <1>6 DEF IInv, TypeOK, Batches, Drains
  <1>8. BacklogExact'
    BY <1>1, <1>3, <1>5, <1>6 DEF BacklogExact, HandTurns, Batches
  <1>9. PendingServed' /\ InHandSound'
    BY <1>3 DEF PendingServed, InHandSound
  <1>10. Shown \union dropped \subseteq (Shown \union dropped)'
    BY <1>1, <1>3, <1>4 DEF HandMsgs, Shown
  <1> QED
    BY <1>3, <1>7, <1>8, <1>9, <1>10, DrainIInv

LEMMA PromptAnsweredIInv == ASSUME IInv, PromptAnswered PROVE IInv'
  <1>1. drain \in Drains /\ advisor \in SUBSET Messages /\ dropped \in SUBSET Messages
    BY HandFacts DEF IInv, TypeOK
  <1>2. /\ drain.at = "prompt" /\ failures' \in 0..2
        /\ UNCHANGED <<session, latest, cursor, epoch, dropped, disposed, count>>
    BY DEF PromptAnswered
  <1>3. CASE drain.epoch = epoch
    <2>1. /\ advisor' = advisor \union drain.msgs /\ Current
          /\ Account(drain.turns, pending, advisor')
      BY <1>2, <1>3 DEF PromptAnswered, Current
    <2>2. advisor' \in SUBSET Messages /\ advisor \subseteq advisor' /\ dropped \subseteq dropped
          /\ drain.msgs \subseteq advisor' \union dropped
      BY <1>1, <2>1 DEF Drains
    <2> QED
      BY <1>1, <1>2, <2>1, <2>2, AccountIInv
  <1>4. CASE drain.epoch # epoch
    <2>1. ~Current /\ Loop(pending, advisor, epoch) /\ UNCHANGED <<advisor, backlog, wait>>
      BY <1>4 DEF PromptAnswered, Current
    <2> QED
      BY <1>1, <1>2, <2>1, LoopIInv
  <1> QED
    BY <1>3, <1>4

\* A batch that goes back to the queue is no longer in hand.
LEMMA PromptFailedIInv == ASSUME IInv, PromptFailed PROVE IInv'
  <1>1. /\ pending \in Batches /\ drain \in Drains /\ epoch \in Nat
        /\ advisor \in SUBSET Messages /\ dropped \in SUBSET Messages
        /\ backlog = pending.turns + HandTurns /\ failures \in 0..2
        /\ Shown = advisor \union pending.msgs \union HandMsgs
    BY HandFacts DEF IInv, TypeOK
  <1>2. /\ drain.at = "prompt"
        /\ UNCHANGED <<session, latest, cursor, epoch, advisor, disposed, count>>
    BY DEF PromptFailed
  <1>3. CASE drain.epoch # epoch
    <2>1. /\ ~Current /\ Loop(pending, advisor, epoch)
          /\ UNCHANGED <<failures, dropped, backlog, wait>>
      BY <1>3 DEF PromptFailed, Current
    <2> QED
      BY <1>1, <1>2, <2>1, LoopIInv
  <1>4. CASE drain.epoch = epoch /\ failures + 1 >= 3
    <2>1. /\ failures' = 0 /\ dropped' = dropped \union drain.msgs /\ Current
          /\ Account(drain.turns, pending, advisor)
      BY <1>2, <1>4 DEF PromptFailed, Current
    <2>2. dropped' \in SUBSET Messages /\ drain.msgs \subseteq advisor \union dropped'
      BY <1>1, <2>1 DEF Drains
    <2> QED
      BY <1>1, <1>2, <2>1, <2>2, AccountIInv
  <1>5. CASE drain.epoch = epoch /\ ~(failures + 1 >= 3)
    <2>1. /\ failures' = failures + 1
          /\ pending' = [msgs |-> pending.msgs \union drain.msgs,
                         turns |-> pending.turns + drain.turns]
          /\ drain' = [Resting EXCEPT !.at = "sleep"]
          /\ UNCHANGED <<dropped, backlog, wait>>
      BY <1>5 DEF PromptFailed
    <2>2. Current /\ HandTurns = drain.turns /\ HandMsgs = drain.msgs
      BY <1>2, <1>5 DEF Current, HandTurns, HandMsgs
    <2>3. /\ pending' \in Batches /\ drain' \in Drains /\ drain'.at = "sleep"
          /\ drain'.epoch = 0
      BY <1>1, <2>1 DEF Batches, Drains, Resting
    <2>4. ~Current' /\ HandTurns' = 0 /\ HandMsgs' = {}
      BY <2>3 DEF Current, HandTurns, HandMsgs
    <2>5. TypeOK'
      <3>1. failures' \in 0..2
        BY <1>1, <1>5, <2>1
      <3> QED
        BY <1>2, <2>1, <2>3, <3>1 DEF IInv, TypeOK, Batches, Drains
    <2>6. BacklogExact'
      BY <1>1, <2>1, <2>2, <2>4 DEF IInv, BacklogExact, Batches, Drains
    <2>7. PendingServed' /\ InHandSound'
      BY <1>1, <1>2, <2>3 DEF PendingServed, InHandSound
    <2>8. Shown \union dropped \subseteq (Shown \union dropped)'
      BY <1>1, <1>2, <2>1, <2>2 DEF Shown
    <2> QED
      BY <1>2, <2>1, <2>2, <2>4, <2>5, <2>6, <2>7, <2>8, DrainIInv
  <1> QED
    BY <1>3, <1>4, <1>5

-----------------------------------------------------------------------------
(* The session's steps, and the restart of the advisor. *)

\* The last message of a history is no longer of the transcript, or is new.
LEMMA TranscriptFacts ==
    ASSUME IInv
    PROVE  /\ session.transcript \in Seq(Messages) /\ latest.msgs \in Seq(Messages)
           /\ Len(session.transcript) \in Nat /\ Positions = 1..Len(session.transcript)
           /\ Len(latest.msgs) \in Nat /\ DOMAIN latest.msgs = 1..Len(latest.msgs)
           /\ count.msgs \in 0..MaxMsgs /\ cursor \in Nat /\ MaxMsgs \in Nat
           /\ session.first \in 1..(MaxMsgs + 1)
  BY BoundAssumption, LenProperties DEF IInv, TypeOK, Positions

\* What is appended to a transcript is its last message.
LEMMA AppendFacts ==
    ASSUME NEW q \in Seq(Messages), NEW m \in Messages
    PROVE  /\ Append(q, m) \in Seq(Messages)
           /\ DOMAIN Append(q, m) = 1..(Len(q) + 1) /\ Len(Append(q, m)) = Len(q) + 1
           /\ \A i \in 1..Len(q) : Append(q, m)[i] = q[i]
           /\ Append(q, m)[Len(q) + 1] = m
  BY AppendProperties, LenProperties

LEMMA AddMessageIInv ==
    ASSUME IInv, NEW newRun \in BOOLEAN, AddMessage(newRun)
    PROVE  IInv'
  <1> DEFINE m == count.msgs + 1
             n == Len(session.transcript)
             joins == latest.live /\ ~newRun
  <1>1. /\ session.transcript \in Seq(Messages) /\ latest.msgs \in Seq(Messages)
        /\ n \in Nat /\ Positions = 1..n
        /\ Len(latest.msgs) \in Nat /\ DOMAIN latest.msgs = 1..Len(latest.msgs)
        /\ count.msgs \in 0..MaxMsgs /\ cursor \in Nat /\ MaxMsgs \in Nat
        /\ session.first \in 1..(MaxMsgs + 1)
    BY TranscriptFacts
  <1>2. /\ count.msgs < MaxMsgs
        /\ session' = [session EXCEPT !.transcript = Append(@, m), !.turn = "open"]
        /\ latest' = IF joins THEN [latest EXCEPT !.msgs = Append(@, m)]
                     ELSE [latest EXCEPT !.live = FALSE]
        /\ count' = [count EXCEPT !.msgs = m]
        /\ UNCHANGED <<cursor, pending, drain, backlog, epoch, failures, advisor,
                       dropped, wait, disposed>>
    BY DEF AddMessage
  <1>3. m \in Messages /\ m \in 0..MaxMsgs
    BY <1>1, <1>2 DEF Messages
  <1>3a. joins \in BOOLEAN /\ (joins => latest.live)
    BY DEF IInv, TypeOK
  <1> HIDE DEF m, n, joins
  <1>4. /\ session'.transcript = Append(session.transcript, m)
        /\ session'.first = session.first /\ session'.retried = session.retried
        /\ latest'.live = joins
        /\ latest'.msgs = IF joins THEN Append(latest.msgs, m) ELSE latest.msgs
        /\ count'.msgs = m
    BY <1>2, <1>3a DEF IInv, TypeOK
  <1>5. /\ session'.transcript \in Seq(Messages)
        /\ Positions' = 1..(n + 1)
        /\ \A i \in 1..n : session'.transcript[i] = session.transcript[i]
        /\ session'.transcript[n + 1] = m
    BY <1>1, <1>3, <1>4, AppendFacts DEF n, Positions
  <1>6. /\ latest'.msgs \in Seq(Messages)
        /\ Len(latest'.msgs) = Len(latest.msgs) + (IF joins THEN 1 ELSE 0)
        /\ DOMAIN latest'.msgs = 1..Len(latest'.msgs)
        /\ \A i \in 1..Len(latest.msgs) : latest'.msgs[i] = latest.msgs[i]
    <2>1. CASE joins
      BY <1>1, <1>3, <1>4, <2>1, AppendFacts
    <2>2. CASE ~joins
      BY <1>1, <1>4, <2>2
    <2> QED
      BY <2>1, <2>2
  <1>7. TypeOK'
    <2>1. latest' \in [msgs : Seq(Messages), live : BOOLEAN]
      BY <1>2, <1>3, <1>3a, <1>6 DEF IInv, TypeOK
    <2> QED
      BY <1>2, <1>3, <1>5, <2>1 DEF IInv, TypeOK
  <1>8. BacklogExact' /\ PendingServed' /\ OldNeverSent' /\ InHandSound'
    BY <1>2, <1>4 DEF IInv, BacklogExact, PendingServed, OldNeverSent, InHandSound, Current
  <1>9. m >= session.first
    BY <1>1 DEF IInv, Numbered, m
  <1>10. Numbered'
    <2>1. session.first <= m + 1
      BY <1>1 DEF IInv, Numbered, m
    <2>2. \A i \in 1..(n + 1) : i \in 1..n \/ i = n + 1
      BY <1>1
    <2>3. \A i \in 1..n : session.transcript[i] >= session.first
      BY <1>1 DEF IInv, Numbered
    <2> QED
      BY <1>4, <1>5, <1>9, <2>1, <2>2, <2>3 DEF Numbered
  <1>11. latest.live => latest.msgs = session.transcript /\ Len(latest.msgs) = n
    BY DEF IInv, Aligned, n
  <1>12. Relevant' => Relevant
    BY <1>2, <1>3a, <1>4 DEF Relevant, Current
  <1>13. cursor <= Len(latest.msgs)
    BY DEF IInv, Aligned
  <1>14. Aligned'
    <2>1. latest'.live => latest'.msgs = session'.transcript
      BY <1>3a, <1>4, <1>11
    <2>2. cursor' <= Len(latest'.msgs)
      BY <1>1, <1>2, <1>6, <1>13
    <2>3. CASE ~joins
      <3>1. latest'.msgs = latest.msgs
        BY <1>4, <2>3
      <3>2. ASSUME Relevant'
            PROVE  /\ \A i \in DOMAIN latest'.msgs : latest'.msgs[i] >= session'.first
                   /\ \A i \in Positions' \ session'.retried :
                          i \in DOMAIN latest'.msgs => latest'.msgs[i] = session'.transcript[i]
                   /\ \A i \in DOMAIN latest'.msgs \ Positions' : i \in session'.retried
        <4>1. /\ \A i \in DOMAIN latest.msgs : latest.msgs[i] >= session.first
              /\ \A i \in Positions \ session.retried :
                     i \in DOMAIN latest.msgs => latest.msgs[i] = session.transcript[i]
              /\ \A i \in DOMAIN latest.msgs \ Positions : i \in session.retried
          BY <1>12, <3>2 DEF IInv, Aligned
        <4>2. \A i \in Positions' : i \in Positions \/ (i = n + 1 /\ i \notin Positions)
          <5>1. \A i \in 1..(n + 1) : i \in 1..n \/ (i = n + 1 /\ i \notin 1..n)
            BY <1>1
          <5>2. Positions = 1..n /\ Positions' = 1..(n + 1)
            BY <1>1, <1>5
          <5> QED
            BY <5>1, <5>2
        <4>3. Positions \subseteq Positions'
          BY <1>1, <1>5
        <4> QED
          BY <1>1, <1>4, <1>5, <3>1, <4>1, <4>2, <4>3
      <3> QED
        BY <2>1, <2>2, <3>2 DEF Aligned
    <2>4. CASE joins
      <3>1. latest'.msgs = session'.transcript
        BY <1>3a, <1>4, <1>11, <2>4
      <3>2. \A i \in Positions' : session'.transcript[i] >= session'.first
        BY <1>10 DEF Numbered
      <3> QED
        BY <2>1, <2>2, <3>1, <3>2 DEF Aligned, Positions
    <2> QED
      BY <2>3, <2>4
  <1>15. NothingSkipped'
    <2>1. (Shown \union dropped)' = Shown \union dropped
      BY <1>2 DEF Shown, Current
    <2>2. CASE disposed
      BY <1>2, <2>2 DEF NothingSkipped
    <2>3. ASSUME NEW i \in 1..(n + 1), i <= cursor, i \notin session.retried, ~disposed
          PROVE  session'.transcript[i] \in Shown \union dropped
      <3>1. CASE i \in 1..n
        BY <1>1, <1>5, <2>3, <3>1 DEF IInv, NothingSkipped, n
      <3>2. CASE i = n + 1
        <4>1. Relevant /\ i \in DOMAIN latest.msgs /\ i \notin Positions
          BY <1>1, <1>13, <2>3, <3>2 DEF Relevant
        <4> QED
          BY <2>3, <4>1 DEF IInv, Aligned
      <3> QED
        BY <1>1, <2>3, <3>1, <3>2
    <2>4. Len(session'.transcript) = n + 1
      BY <1>1, <1>3, <1>4, AppendFacts DEF n
    <2> QED
      BY <1>2, <1>4, <2>1, <2>2, <2>3, <2>4 DEF NothingSkipped
  <1> QED
    BY <1>7, <1>8, <1>10, <1>14, <1>15 DEF IInv

\* A transcript without its last message.
LEMMA FrontFacts ==
    ASSUME NEW q \in Seq(Messages), Len(q) > 1
    PROVE  /\ Front(q) \in Seq(Messages) /\ Len(Front(q)) = Len(q) - 1
           /\ DOMAIN Front(q) = 1..(Len(q) - 1)
           /\ \A i \in 1..(Len(q) - 1) : Front(q)[i] = q[i]
  <1>1. Len(q) \in Nat /\ Len(q) - 1 \in Nat /\ Len(q) - 1 <= Len(q)
    BY LenProperties
  <1>2. \A i \in 1..(Len(q) - 1) : q[i] \in Messages
    BY <1>1
  <1>3. /\ SubSeq(q, 1, Len(q) - 1) \in Seq(Messages)
        /\ Len(SubSeq(q, 1, Len(q) - 1)) = IF 1 <= Len(q) - 1 THEN Len(q) - 1 - 1 + 1 ELSE 0
        /\ \A i \in 1..(Len(q) - 1 - 1 + 1) : SubSeq(q, 1, Len(q) - 1)[i] = q[1 + i - 1]
    BY <1>1, <1>2, 1 \in Int, Len(q) - 1 \in Int, SubSeqProperties
  <1>4. \A i \in 1..(Len(q) - 1) : 1 + i - 1 = i
    BY <1>1
  <1> QED
    BY <1>1, <1>3, <1>4, LenProperties DEF Front

LEMMA RetryTurnIInv == ASSUME IInv, RetryTurn PROVE IInv'
  <1> DEFINE n == Len(session.transcript)
  <1>1. /\ session.transcript \in Seq(Messages)
        /\ n \in Nat /\ Positions = 1..n
        /\ Len(latest.msgs) \in Nat /\ DOMAIN latest.msgs = 1..Len(latest.msgs)
    BY TranscriptFacts
  <1>2. /\ n > 1 /\ count.retries < MaxRetries
        /\ session' = [session EXCEPT !.transcript = Front(@), !.turn = "none",
                                      !.retried = @ \union {n}]
        /\ latest' = [latest EXCEPT !.live = FALSE]
        /\ count' = [count EXCEPT !.retries = @ + 1]
        /\ UNCHANGED <<cursor, pending, drain, backlog, epoch, failures, advisor,
                       dropped, wait, disposed>>
    BY DEF RetryTurn
  <1>3. /\ session'.transcript = Front(session.transcript) /\ session'.first = session.first
        /\ session'.retried = session.retried \union {n}
        /\ latest'.msgs = latest.msgs /\ latest'.live = FALSE /\ count'.msgs = count.msgs
    BY <1>2 DEF IInv, TypeOK
  <1>4. /\ session'.transcript \in Seq(Messages) /\ Len(session'.transcript) = n - 1
        /\ Positions' = 1..(n - 1)
        /\ \A i \in 1..(n - 1) : session'.transcript[i] = session.transcript[i]
    BY <1>1, <1>2, <1>3, FrontFacts DEF Positions
  <1>6. TypeOK'
    <2>1. count'.retries \in 0..MaxRetries
      BY <1>2, BoundAssumption, SMTT(30) DEF IInv, TypeOK
    <2> QED
      BY <1>1, <1>2, <1>3, <1>4, <2>1 DEF IInv, TypeOK
  <1>7. BacklogExact' /\ PendingServed' /\ OldNeverSent' /\ InHandSound'
    BY <1>2, <1>3 DEF IInv, BacklogExact, PendingServed, OldNeverSent, InHandSound, Current
  <1>8. Numbered'
    BY <1>1, <1>3, <1>4 DEF IInv, Numbered
  <1>9. Relevant' => Relevant
    BY <1>2, <1>3 DEF Relevant, Current
  <1>10. Aligned'
    <2>1. cursor' <= Len(latest'.msgs) /\ ~latest'.live
      BY <1>2, <1>3 DEF IInv, Aligned
    <2>2. ASSUME Relevant'
          PROVE  /\ \A i \in DOMAIN latest'.msgs : latest'.msgs[i] >= session'.first
                 /\ \A i \in Positions' \ session'.retried :
                        i \in DOMAIN latest'.msgs => latest'.msgs[i] = session'.transcript[i]
                 /\ \A i \in DOMAIN latest'.msgs \ Positions' : i \in session'.retried
      <3>1. /\ \A i \in DOMAIN latest.msgs : latest.msgs[i] >= session.first
            /\ \A i \in Positions \ session.retried :
                   i \in DOMAIN latest.msgs => latest.msgs[i] = session.transcript[i]
            /\ \A i \in DOMAIN latest.msgs \ Positions : i \in session.retried
        BY <1>9, <2>2 DEF IInv, Aligned
      <3>2. /\ \A i \in Positions' : i \in Positions
            /\ \A i \in Positions : i \in Positions' \/ i = n
        <4>1. /\ \A i \in 1..(n - 1) : i \in 1..n
              /\ \A i \in 1..n : i \in 1..(n - 1) \/ i = n
          BY <1>1
        <4> QED
          BY <1>1, <1>4, <4>1
      <3> QED
        BY <1>3, <1>4, <3>1, <3>2
    <2> QED
      BY <2>1, <2>2 DEF Aligned
  <1>11. NothingSkipped'
    <2>1. (Shown \union dropped)' = Shown \union dropped
      BY <1>2 DEF Shown, Current
    <2>2. \A i \in 1..(n - 1) : i \in 1..n
      BY <1>1
    <2> QED
      BY <1>2, <1>3, <1>4, <2>1, <2>2 DEF IInv, NothingSkipped
  <1> QED
    BY <1>6, <1>7, <1>8, <1>10, <1>11 DEF IInv

\* The turns a hook adds, and whom it makes wait, in the code's two cases.
LEMMA TurnEndIInv ==
    ASSUME IInv, NEW h \in Thresholds \union {0}, TurnEnd(h)
    PROVE  IInv'
  <1> DEFINE all == session.transcript
             n == Len(all)
             delta == Delta(all)
             more == [msgs |-> pending.msgs \union delta, turns |-> pending.turns + 1]
  <1>1. /\ all \in Seq(Messages) /\ n \in Nat /\ Positions = 1..n /\ DOMAIN all = 1..n
        /\ cursor \in Nat
    BY TranscriptFacts DEF Positions
  <1>2. /\ pending \in Batches /\ drain \in Drains /\ epoch \in Nat /\ backlog \in Nat
        /\ advisor \in SUBSET Messages /\ h \in Nat
        /\ backlog = pending.turns + HandTurns
        /\ Shown = advisor \union pending.msgs \union HandMsgs
    BY HandFacts, ThresholdAssumption
  <1>3. /\ ~disposed
        /\ session' = [session EXCEPT !.turn = "over"]
        /\ latest' = [msgs |-> all, live |-> TRUE]
        /\ cursor' = n
        /\ IF delta = {} THEN UNCHANGED <<pending, drain, backlog>>
           ELSE /\ backlog' = backlog + 1
                /\ IF drain.at = "rest" THEN Loop(more, advisor, epoch)
                   ELSE pending' = more /\ UNCHANGED drain
        /\ wait' = IF h > 0 /\ backlog' >= h THEN h ELSE 0
        /\ UNCHANGED <<epoch, failures, advisor, dropped, disposed, count>>
    BY DEF TurnEnd
  <1>4. delta = {all[i] : i \in (cursor + 1)..n}
    <2>1. CASE n < cursor
      <3>1. (cursor + 1)..n = {}
        BY <1>1, <2>1
      <3> QED
        BY <2>1, <3>1 DEF Delta
    <2>2. CASE ~(n < cursor)
      <3>1. \A i \in (cursor + 1)..n : all[i] \in Messages
        BY <1>1
      <3>2. cursor + 1 \in Int /\ n \in Int
        BY <1>1
      <3> DEFINE q == SubSeq(all, cursor + 1, n)
      <3>3. /\ q \in Seq(Messages)
            /\ Len(q) = IF cursor + 1 <= n THEN n - (cursor + 1) + 1 ELSE 0
            /\ \A i \in 1..(n - (cursor + 1) + 1) : q[i] = all[(cursor + 1) + i - 1]
        BY <3>1, <3>2, SubSeqProperties
      <3>4. Len(q) = n - cursor /\ DOMAIN q = 1..(n - cursor)
        BY <1>1, <2>2, <3>3, LenProperties
      <3>5. \A i \in 1..(n - cursor) : q[i] = all[cursor + i] /\ cursor + i \in (cursor + 1)..n
        BY <1>1, <3>3
      <3>6. \A j \in (cursor + 1)..n : j - cursor \in 1..(n - cursor) /\ cursor + (j - cursor) = j
        BY <1>1
      <3>7. delta = {q[i] : i \in DOMAIN q}
        BY <2>2 DEF Delta, ToSet
      <3> HIDE DEF q, delta
      <3>8. \A x \in delta : x \in {all[i] : i \in (cursor + 1)..n}
        BY <3>4, <3>5, <3>7
      <3>9. \A x \in {all[i] : i \in (cursor + 1)..n} : x \in delta
        <4>1. ASSUME NEW j \in (cursor + 1)..n PROVE all[j] \in delta
          BY <3>4, <3>5, <3>6, <3>7, <4>1
        <4> QED
          BY <4>1
      <3> QED
        BY <3>8, <3>9
    <2> QED
      BY <2>1, <2>2
  <1> HIDE DEF delta
  <1>5. delta \in SUBSET Messages /\ \A m \in delta : m >= session.first
    BY <1>1, <1>4 DEF IInv, Numbered
  <1>6. /\ session'.transcript = all /\ session'.first = session.first
        /\ session'.retried = session.retried
        /\ latest'.msgs = all /\ latest'.live = TRUE
    BY <1>3 DEF IInv, TypeOK
  <1>7. more \in Batches /\ more.msgs = pending.msgs \union delta /\ more.turns = pending.turns + 1
    BY <1>2, <1>5 DEF Batches
  <1> HIDE DEF more
  \* What the two cases have in common.
  <1>8. /\ drain' \in Drains /\ pending' \in Batches /\ backlog' \in Nat
        /\ backlog' = pending'.turns + HandTurns'
        /\ pending'.msgs \union HandMsgs' = pending.msgs \union HandMsgs \union delta
        /\ PendingServed' /\ InHandSound'
    <2>1. CASE delta = {}
      <3>1. HandTurns' = HandTurns /\ HandMsgs' = HandMsgs /\ UNCHANGED <<pending, drain, backlog>>
        BY <1>3, <2>1 DEF HandTurns, HandMsgs, Current
      <3>2. PendingServed' /\ InHandSound'
        BY <1>3, <2>1 DEF IInv, PendingServed, InHandSound
      <3> QED
        BY <1>2, <2>1, <3>1, <3>2
    <2>2. CASE delta # {} /\ drain.at = "rest"
      <3>1. /\ drain' \in Drains /\ pending' \in Batches
            /\ pending'.turns + HandTurns' = more.turns
            /\ pending'.msgs \union HandMsgs' = more.msgs
            /\ pending'.turns > 0 => disposed
            /\ drain'.epoch <= epoch
            /\ drain'.at = "maintain" => drain'.held = advisor
        BY <1>2, <1>3, <1>7, <2>2, LoopFacts
      <3>2. HandTurns = 0 /\ HandMsgs = {}
        BY <2>2 DEF HandTurns, HandMsgs, Current
      <3>3. PendingServed' /\ InHandSound'
        BY <1>3, <3>1 DEF PendingServed, InHandSound
      <3>4. backlog' = backlog + 1 /\ pending.turns \in Nat
        BY <1>2, <1>3, <2>2 DEF Batches
      <3> QED
        BY <1>2, <1>7, <3>1, <3>2, <3>3, <3>4
    <2>3. CASE delta # {} /\ drain.at # "rest"
      <3>1. pending' = more /\ drain' = drain /\ backlog' = backlog + 1 /\ epoch' = epoch
        BY <1>3, <2>3
      <3>2. HandTurns' = HandTurns /\ HandMsgs' = HandMsgs /\ HandTurns \in Nat
        BY <1>2, <3>1 DEF HandTurns, HandMsgs, Current, Drains
      <3>3. PendingServed' /\ InHandSound'
        BY <1>3, <2>3, <3>1 DEF IInv, PendingServed, InHandSound
      <3>4. pending.turns \in Nat
        BY <1>2 DEF Batches
      <3> QED
        BY <1>2, <1>7, <3>1, <3>2, <3>3, <3>4
    <2> QED
      BY <2>1, <2>2, <2>3
  <1>9. TypeOK'
    <2>1. latest' \in [msgs : Seq(Messages), live : BOOLEAN] /\ cursor' \in Nat
          /\ wait' \in Thresholds \union {0}
      BY <1>1, <1>3
    <2>2. session' \in [transcript : Seq(Messages), first : 1..(MaxMsgs + 1),
                        turn : {"none", "open", "over"}, retried : SUBSET Nat]
      BY <1>3 DEF IInv, TypeOK
    <2> QED
      BY <1>3, <1>8, <2>1, <2>2 DEF IInv, TypeOK, Batches, Drains
  <1>10. BacklogExact'
    <2>1. wait' > 0 => backlog' >= wait'
      BY <1>2, <1>3
    <2> QED
      BY <1>8, <2>1 DEF BacklogExact, HandTurns
  <1>11. OldNeverSent'
    <2>1. \A m \in pending.msgs \union HandMsgs : m >= session.first
      BY DEF IInv, OldNeverSent, HandMsgs
    <2> QED
      BY <1>5, <1>6, <1>8, <2>1 DEF OldNeverSent, HandMsgs
  <1>12. Numbered'
    BY <1>3, <1>6 DEF IInv, Numbered, Positions
  <1>13. Aligned'
    <2>1. \A i \in DOMAIN all : all[i] >= session.first
      BY DEF IInv, Numbered, Positions
    <2>2. cursor' <= Len(latest'.msgs)
      BY <1>1, <1>3, <1>6
    <2> QED
      BY <1>6, <2>1, <2>2 DEF Aligned, Positions
  <1>14. NothingSkipped'
    <2>1. Shown' = Shown \union delta
      BY <1>2, <1>3, <1>8 DEF Shown, HandMsgs
    <2>2. ASSUME NEW i \in 1..n, i \notin session.retried
          PROVE  all[i] \in Shown' \union dropped'
      <3>1. CASE i <= cursor
        BY <1>3, <2>1, <2>2, <3>1 DEF IInv, NothingSkipped
      <3>2. CASE ~(i <= cursor)
        <4>1. i \in (cursor + 1)..n
          BY <1>1, <3>2
        <4> QED
          BY <1>4, <2>1, <4>1
      <3> QED
        BY <3>1, <3>2
    <2> QED
      BY <1>6, <2>2 DEF NothingSkipped
  <1> QED
    BY <1>8, <1>9, <1>10, <1>11, <1>12, <1>13, <1>14 DEF IInv

LEMMA CatchupGivenUpIInv == ASSUME IInv, CatchupGivenUp PROVE IInv'
  <1>1. /\ wait' = 0 /\ UNCHANGED <<pending, drain, backlog, epoch, advisor, dropped>>
        /\ UNCHANGED <<session, latest, cursor, failures, disposed, count>>
    BY DEF CatchupGivenUp
  <1>2. TypeOK'
    BY <1>1 DEF IInv, TypeOK
  <1>3. BacklogExact' /\ PendingServed' /\ InHandSound'
    BY <1>1 DEF IInv, BacklogExact, PendingServed, InHandSound, Current
  <1>4. /\ (pending'.turns > 0 \/ Current') => (pending.turns > 0 \/ Current)
        /\ pending'.msgs \union HandMsgs' = pending.msgs \union HandMsgs
        /\ (Shown \union dropped)' = Shown \union dropped
    BY <1>1 DEF Current, HandMsgs, Shown
  <1> QED
    BY <1>1, <1>2, <1>3, <1>4, DrainIInv

\* A reset overtakes what is in hand, and nothing of the former history is
\* relevant any more.
LEMMA ResetIInv == ASSUME IInv, Reset PROVE IInv'
  <1>1. PICK summary \in {0, 1} :
            /\ count.msgs + summary <= MaxMsgs
            /\ session' = [transcript |-> IF summary = 1 THEN <<count.msgs + 1>> ELSE <<>>,
                           first |-> count.msgs + 1, turn |-> "none", retried |-> {}]
            /\ count' = [count EXCEPT !.msgs = @ + summary, !.resets = @ + 1]
    BY DEF Reset
  <1>2. /\ ~disposed /\ count.resets < MaxResets /\ epoch' = epoch + 1
        /\ cursor' = 0 /\ pending' = Nothing /\ backlog' = 0 /\ failures' = 0
        /\ wait' = 0 /\ advisor' = {} /\ dropped' = {}
        /\ latest' = [latest EXCEPT !.live = FALSE]
        /\ UNCHANGED <<drain, disposed>>
    BY DEF Reset
  <1>3. /\ count.msgs \in 0..MaxMsgs /\ count.resets \in 0..MaxResets
        /\ MaxMsgs \in Nat /\ MaxResets \in Nat /\ epoch \in Nat
        /\ drain.epoch \in Nat /\ drain.epoch <= epoch /\ latest.msgs \in Seq(Messages)
    BY BoundAssumption DEF IInv, TypeOK, InHandSound
  <1>4. ~Current' /\ drain.epoch <= epoch'
    BY <1>2, <1>3 DEF Current
  <1>5. /\ session'.transcript = (IF summary = 1 THEN <<count.msgs + 1>> ELSE <<>>)
        /\ session'.first = count.msgs + 1 /\ session'.retried = {}
        /\ latest'.msgs = latest.msgs /\ ~latest'.live
        /\ count'.msgs = count.msgs + summary /\ count'.resets = count.resets + 1
    BY <1>1, <1>2 DEF IInv, TypeOK
  <1>6. session'.transcript \in Seq(Messages)
    <2>1. CASE summary = 1
      <3>1. count.msgs + 1 \in Messages
        BY <1>1, <1>3, <2>1 DEF Messages
      <3> QED
        BY <1>5, <2>1, <3>1
    <2>2. CASE summary = 0
      BY <1>5, <2>2
    <2> QED
      BY <2>1, <2>2
  <1>7. TypeOK'
    <2>1. /\ count'.msgs \in 0..MaxMsgs /\ count'.resets \in 0..MaxResets
          /\ count.msgs + 1 \in 1..(MaxMsgs + 1)
      BY <1>1, <1>2, <1>3, <1>5
    <2>2. session' \in [transcript : Seq(Messages), first : 1..(MaxMsgs + 1),
                        turn : {"none", "open", "over"}, retried : SUBSET Nat]
      BY <1>1, <1>6, <1>5, <2>1
    <2>3. count' \in [msgs : 0..MaxMsgs, resets : 0..MaxResets, retries : 0..MaxRetries]
      BY <1>1, <1>5, <2>1 DEF IInv, TypeOK
    <2>4. pending' \in [msgs : SUBSET Messages, turns : Nat] /\ epoch' \in Nat
      BY <1>2, <1>3 DEF Nothing
    <2>5. latest' \in [msgs : Seq(Messages), live : BOOLEAN]
      BY <1>2 DEF IInv, TypeOK
    <2>6. /\ failures' \in 0..2 /\ wait' \in Thresholds \union {0}
          /\ cursor' \in Nat /\ backlog' \in Nat
      BY <1>2
    <2> QED
      BY <1>2, <2>2, <2>3, <2>4, <2>5, <2>6 DEF IInv, TypeOK
  <1>8. BacklogExact' /\ PendingServed' /\ OldNeverSent'
    BY <1>2, <1>4 DEF BacklogExact, PendingServed, OldNeverSent, Nothing
  <1>9. NothingSkipped'
    BY <1>2 DEF NothingSkipped
  <1>10. Aligned'
    <2>1. ~Relevant'
      BY <1>2, <1>4, <1>5 DEF Relevant, Nothing
    <2>2. cursor' <= Len(latest'.msgs)
      BY <1>2, <1>3, <1>5, LenProperties
    <2> QED
      BY <1>5, <2>1, <2>2 DEF Aligned
  <1>11. Numbered'
    <2>1. session'.first <= count'.msgs + 1
      BY <1>3, <1>5
    <2>2. \A i \in DOMAIN session'.transcript : session'.transcript[i] >= session'.first
      BY <1>3, <1>5
    <2> QED
      BY <2>1, <2>2 DEF Numbered, Positions
  <1>12. InHandSound'
    BY <1>2, <1>4 DEF InHandSound
  <1> QED
    BY <1>7, <1>8, <1>9, <1>10, <1>11, <1>12 DEF IInv

LEMMA DisposeIInv == ASSUME IInv, Dispose PROVE IInv'
  <1>1. /\ disposed' = TRUE /\ epoch' = epoch + 1 /\ pending' = Nothing /\ backlog' = 0
        /\ failures' = 0 /\ wait' = 0
        /\ UNCHANGED <<session, latest, cursor, drain, advisor, dropped, count>>
    BY DEF Dispose
  <1>2. epoch \in Nat /\ drain.epoch \in Nat /\ drain.epoch <= epoch
    BY DEF IInv, TypeOK, InHandSound
  <1>3. ~Current' /\ drain.epoch <= epoch' /\ epoch' \in Nat
    BY <1>1, <1>2 DEF Current
  <1>4. TypeOK'
    <2>1. pending' \in [msgs : SUBSET Messages, turns : Nat]
      BY <1>1 DEF Nothing
    <2> QED
      BY <1>1, <1>3, <2>1 DEF IInv, TypeOK
  <1>5. BacklogExact' /\ PendingServed' /\ OldNeverSent' /\ NothingSkipped'
    BY <1>1, <1>3 DEF BacklogExact, PendingServed, OldNeverSent, NothingSkipped, Nothing
  <1>6. Relevant' => Relevant
    BY <1>1, <1>3 DEF Relevant, Nothing
  <1>7. Aligned' /\ Numbered' /\ InHandSound'
    BY <1>1, <1>3, <1>6 DEF IInv, Aligned, Numbered, InHandSound, Positions
  <1> QED
    BY <1>4, <1>5, <1>7 DEF IInv

\* The restart shows the latest transcript, which is of this history, up to the
\* cursor it is given.
LEMMA ReprimeIInv == ASSUME IInv, Reprime PROVE IInv'
  <1>1. /\ pending \in Batches /\ drain \in Drains /\ epoch \in Nat /\ backlog \in Nat
        /\ advisor \in SUBSET Messages
        /\ backlog = pending.turns + HandTurns
        /\ Shown = advisor \union pending.msgs \union HandMsgs
    BY HandFacts
  <1>2. /\ drain.at = "maintain"
        /\ UNCHANGED <<session, latest, backlog, epoch, dropped, wait, disposed, count>>
    BY DEF Reprime
  <1>3. CASE drain.epoch # epoch
    <2>1. /\ ~Current /\ Loop(pending, advisor, epoch) /\ UNCHANGED <<cursor, failures, advisor>>
          /\ failures' \in 0..2
      BY <1>3 DEF Reprime, Current, IInv, TypeOK
    <2> QED
      BY <1>1, <1>2, <2>1, LoopIInv
  <1>4. CASE drain.epoch = epoch
    <2> DEFINE shown == ToSet(latest.msgs)
    <2>1. /\ cursor' = Len(latest.msgs) /\ failures' = 0 /\ advisor' = {} /\ pending' = Nothing
          /\ drain' = [drain EXCEPT !.at = "prompt", !.msgs = shown,
                                    !.turns = @ + pending.turns]
      BY <1>4 DEF Reprime
    <2>2. /\ Len(latest.msgs) \in Nat /\ DOMAIN latest.msgs = 1..Len(latest.msgs)
          /\ latest.msgs \in Seq(Messages)
          /\ Positions = 1..Len(session.transcript)
      BY TranscriptFacts
    <2>3. Current /\ Relevant
      BY <1>2, <1>4 DEF Current, Relevant
    <2>4. /\ shown = {latest.msgs[i] : i \in DOMAIN latest.msgs} /\ shown \in SUBSET Messages
      BY <2>2 DEF ToSet
    <2>5. \A m \in shown : m >= session.first
      BY <2>3, <2>4 DEF IInv, Aligned
    <2> HIDE DEF shown
    <2>6. /\ drain'.at = "prompt" /\ drain'.msgs = shown /\ drain'.epoch = drain.epoch
          /\ drain'.turns = drain.turns + pending.turns /\ drain' \in Drains
      <3>1. drain.turns + pending.turns \in Nat
        BY <1>1 DEF Drains, Batches
      <3>2. drain' = [drain EXCEPT !.at = "prompt", !.msgs = shown,
                                   !.turns = drain.turns + pending.turns]
        BY <2>1
      <3> QED
        BY <1>1, <2>4, <3>1, <3>2 DEF Drains
    <2>7. Current' /\ HandTurns' = drain.turns + pending.turns /\ HandMsgs' = shown
      BY <1>2, <1>4, <2>6 DEF Current, HandTurns, HandMsgs
    <2>8. TypeOK'
      BY <1>2, <2>1, <2>2, <2>6 DEF IInv, TypeOK, Nothing, Drains
    <2>9. BacklogExact'
      <3>1. HandTurns = drain.turns /\ drain.turns \in Nat /\ pending.turns \in Nat
        BY <1>1, <2>3 DEF HandTurns, Drains, Batches
      <3>2. backlog' = pending'.turns + HandTurns'
        BY <1>1, <1>2, <2>1, <2>7, <3>1 DEF Nothing
      <3> QED
        BY <1>2, <3>2 DEF IInv, BacklogExact, HandTurns
    <2>10. PendingServed' /\ OldNeverSent' /\ InHandSound'
      BY <1>2, <2>1, <2>5, <2>6
         DEF IInv, PendingServed, OldNeverSent, InHandSound, Nothing
    <2>11. Numbered'
      BY <1>2 DEF IInv, Numbered, Positions
    <2>12. Aligned'
      BY <1>2, <2>1, <2>2, <2>3 DEF IInv, Aligned, Positions
    <2>13. NothingSkipped'
      <3>1. Shown' = shown
        BY <2>1, <2>7 DEF Shown, HandMsgs, Nothing
      <3>2. ASSUME NEW i \in Positions, i <= Len(latest.msgs), i \notin session.retried
            PROVE  session.transcript[i] \in shown
        <4>1. i \in DOMAIN latest.msgs
          BY <2>2, <3>2
        <4>2. latest.msgs[i] = session.transcript[i]
          BY <2>3, <3>2, <4>1 DEF IInv, Aligned
        <4> QED
          BY <2>4, <4>1, <4>2
      <3> QED
        BY <1>2, <2>1, <2>2, <3>1, <3>2 DEF NothingSkipped
    <2> QED
      BY <2>8, <2>9, <2>10, <2>11, <2>12, <2>13 DEF IInv
  <1> QED
    BY <1>3, <1>4

LEMMA StepIInv == IInv /\ [Next]_vars => IInv'
  <1> SUFFICES ASSUME IInv, [Next]_vars PROVE IInv'
    OBVIOUS
  <1>1. CASE UNCHANGED vars
    BY <1>1, SMTT(30) DEF vars, IInv, TypeOK, BacklogExact, PendingServed, OldNeverSent,
                NothingSkipped, Shown, Current, Aligned, Relevant, Positions, Numbered,
                InHandSound
  <1> QED
    BY <1>1, AddMessageIInv, TurnEndIInv, CatchupGivenUpIInv, RetryTurnIInv, ResetIInv,
       DisposeIInv, ContextKeptIInv, ReprimeIInv, PromptAnsweredIInv, PromptFailedIInv,
       SleepOverIInv DEF Next

THEOREM Invariance == Spec => []IInv
  BY InitIInv, StepIInv, PTL DEF Spec

\* The advisor's state is of its type.
THEOREM TypeCorrect == Spec => []TypeOK
  BY Invariance, PTL DEF IInv

\* The backlog is the turns that wait or are in hand, and who waits for it to
\* fall has reason to: no retry, reset, restart or dispose puts it out of step.
THEOREM BacklogIsExact == Spec => []BacklogExact
  BY Invariance, PTL DEF IInv

\* Turns that wait are never left without a loop that will take them.
THEOREM PendingIsServed == Spec => []PendingServed
  BY Invariance, PTL DEF IInv

\* What a reset overtook is neither sent nor queued again.
THEOREM OldIsNeverSent == Spec => []OldNeverSent
  BY Invariance, PTL DEF IInv

\* Every message the cursor passed was shown, is on its way, or was dropped
\* after three failures, unless the session took its turn back.
THEOREM NothingIsSkipped == Spec => []NothingSkipped
  BY Invariance, PTL DEF IInv
=============================================================================
