------------------------- MODULE SessionDeliveryProofs -------------------------
(***************************************************************************)
(* Proofs about SessionDelivery, for any set of messages, any number of    *)
(* tasks under way, and any number of prompts and aborts.                  *)
(***************************************************************************)
EXTENDS SessionDelivery, FiniteSetTheorems, TLAPS

Kinds == {"none", "prompt", "deferred", "wake", "continue", "flush"}
TaskRecords == [kind : Kinds, at : {"none", "setup", "taken", "busy", "running", "over"},
                stale : BOOLEAN, own : SUBSET Msgs]
RunRecords == [at : {"off", "turn", "yield", "steered", "asided", "ending"},
               by : Tasks \cup {NoTask}, aborted : BOOLEAN, kind : Kinds]

Typed(x) ==
    x \in [at : [Msgs -> Places \cup Tasks], run : RunRecords, task : [Tasks -> TaskRecords],
           count : Nat, suppressed : BOOLEAN, tail : BOOLEAN]

\* The task whose run it is stays open until the run is over; one that is not
\* open is nowhere.
Runner(x) ==
    /\ x.run.at # "off" =>
           /\ x.run.by \in Tasks /\ x.run.kind # "none"
           /\ x.task[x.run.by].kind = x.run.kind /\ x.task[x.run.by].at = "running"
    /\ \A t \in Tasks : x.task[t].kind = "none" => x.task[t].at = "none"

\* The tasks in a begin/end bracket.
Bracketed(x) == {t \in Tasks : x.task[t].kind \notin {"none", "flush"}}

\* #promptInFlightCount never exceeds them, though an abort may have reset it.
Counted(x) == x.count <= Cardinality(Bracketed(x))

\* No message of S is a peer's.
NoPeers(S) == \A m \in S : Kind[m] # "irc"

\* Where a peer's message can be.
PeerPlaces == {"unsent", "asides", "picked", "history"}
Peers(x) ==
    /\ \A m \in Msgs : Kind[m] = "irc" => x.at[m] \in PeerPlaces
    /\ \A t \in Tasks : NoPeers(x.task[t].own)

Sound(x) == Typed(x) /\ Runner(x) /\ Counted(x) /\ Peers(x)

\* Nothing waits that the session would have to resume.
Clean(x) == /\ In(x, "steering") = {} /\ In(x, "asides") = {}
            /\ \/ In(x, "followUps") = {} \/ x.suppressed \/ ~x.tail
               \/ accepted > 0 \/ In(x, "preparing") # {}

\* Neither a run nor a task that will drain the queues when it ends.
Unattended(x) == x.run.at = "off" /\ x.run.kind # "flush" /\ Bracketed(x) = {}

Drained == abort = "no" /\ Unattended(s) => Clean(s)

Rest ==
    /\ idleFlush \in [timer : BOOLEAN, pending : BOOLEAN]
    /\ abort \in {"no", "draining", "idle"}
    /\ prompts \in 0..MaxPrompts /\ aborts \in 0..MaxAborts
    /\ accepted \in 0..prompts /\ overtaken \subseteq Msgs

IInv == Sound(s) /\ Drained /\ Rest

-----------------------------------------------------------------------------
(* The helpers, on a sound state of the session. *)

\* Messages change their place; a peer's goes only where a peer's may be.
LEMMA MoveFacts ==
    ASSUME NEW x, Sound(x), NEW S, NEW place \in Places \cup Tasks,
           place \in PeerPlaces \/ NoPeers(S)
    PROVE  Sound(Move(x, S, place))
<1> DEFINE y == Move(x, S, place)
<1>1. /\ y = [x EXCEPT !.at = y.at]
      /\ y.at = [m \in Msgs |-> IF m \in S THEN place ELSE x.at[m]]
      /\ y.run = x.run /\ y.task = x.task /\ y.count = x.count
      /\ y.suppressed = x.suppressed /\ y.tail = x.tail
    BY DEF Move, Sound, Typed
<1>2. Typed(y)
    <2>1. y.at \in [Msgs -> Places \cup Tasks]
        BY <1>1 DEF Sound, Typed
    <2> HIDE DEF y
    <2> QED
        BY <1>1, <2>1 DEF Sound, Typed
<1> HIDE DEF y
<1>3. Runner(y)
    BY <1>1 DEF Sound, Runner
<1>4. Counted(y)
    BY <1>1 DEF Sound, Counted, Bracketed
<1>5. Peers(y)
    BY <1>1 DEF Sound, Peers, NoPeers
<1> QED
    BY <1>1, <1>2, <1>3, <1>4, <1>5 DEF Sound, y

\* Nothing else changes.
LEMMA MoveFields ==
    ASSUME NEW x, Sound(x), NEW S, NEW place
    PROVE  /\ Move(x, S, place).run = x.run /\ Move(x, S, place).task = x.task
           /\ Move(x, S, place).count = x.count /\ Move(x, S, place).tail = x.tail
           /\ Move(x, S, place).suppressed = x.suppressed
BY DEF Move, Sound, Typed

\* What is in a queue no peer's message can be in is not a peer's.
LEMMA QueuedFacts ==
    ASSUME NEW x, Sound(x), NEW place, place \notin PeerPlaces
    PROVE  NoPeers(In(x, place))
BY DEF Sound, Peers, In, NoPeers

\* A free identity is there to take.
LEMMA FreeFacts ==
    ASSUME NEW x, Sound(x), HasFree(x)
    PROVE  Free(x) \in Tasks /\ x.task[Free(x)].kind = "none"
BY DEF HasFree, Free

\* The bracketed tasks are finitely many.
LEMMA BracketedFacts ==
    ASSUME NEW x, Sound(x)
    PROVE  /\ Bracketed(x) \subseteq Tasks /\ IsFiniteSet(Bracketed(x))
           /\ Cardinality(Bracketed(x)) \in Nat /\ Cardinality(Bracketed(x)) <= Cardinality(Tasks)
           /\ x.count \in Nat /\ (Bracketed(x) = {} => x.count = 0)
<1>1. Bracketed(x) \subseteq Tasks
    BY DEF Bracketed
<1>2. IsFiniteSet(Tasks)
    BY TaskAssumption
<1>3. /\ IsFiniteSet(Bracketed(x)) /\ Cardinality(Bracketed(x)) \in Nat
      /\ Cardinality(Bracketed(x)) <= Cardinality(Tasks)
    BY <1>1, <1>2, FS_Subset, FS_CardinalityType
<1>4. x.count \in Nat /\ x.count <= Cardinality(Bracketed(x))
    BY DEF Sound, Typed, Counted
<1>5. Bracketed(x) = {} => Cardinality(Bracketed(x)) = 0
    BY FS_EmptySet
<1> QED
    BY <1>1, <1>3, <1>4, <1>5

\* A task opens inside a bracket.
LEMMA BeginFacts ==
    ASSUME NEW x, Sound(x), HasFree(x),
           NEW kind \in Kinds \ {"none", "flush"}, NEW at \in {"setup", "running"},
           NEW own \in SUBSET Msgs, NoPeers(own)
    PROVE  LET y == BeginInFlight(Open(x, kind, at, own))
           IN  /\ Sound(y) /\ y.at = x.at /\ y.run = x.run /\ y.suppressed = x.suppressed
               /\ y.tail = x.tail /\ y.count = x.count + 1
               /\ y.task[Free(x)] = [kind |-> kind, at |-> at, stale |-> FALSE, own |-> own]
               /\ Bracketed(y) # {}
<1> DEFINE y == BeginInFlight(Open(x, kind, at, own))
           t == Free(x)
           r == [kind |-> kind, at |-> at, stale |-> FALSE, own |-> own]
<1>1. t \in Tasks /\ x.task[t].kind = "none"
    BY FreeFacts
<1> HIDE DEF t
<1>2. y = [x EXCEPT !.task = [x.task EXCEPT ![t] = r], !.count = x.count + 1]
    BY DEF BeginInFlight, Open, Sound, Typed, t
<1> HIDE DEF y
<1>3. x.task \in [Tasks -> TaskRecords] /\ x.count \in Nat /\ r \in TaskRecords
    BY DEF Sound, Typed, TaskRecords, Kinds
<1>4. /\ y.at = x.at /\ y.run = x.run /\ y.suppressed = x.suppressed /\ y.tail = x.tail
      /\ y.count = x.count + 1 /\ y.task = [x.task EXCEPT ![t] = r]
    BY <1>2 DEF Sound, Typed
<1>5. /\ y.task[t] = r /\ y.task \in [Tasks -> TaskRecords]
      /\ \A u \in Tasks : u # t => y.task[u] = x.task[u]
    BY <1>1, <1>3, <1>4
<1>6. Typed(y)
    <2>1. x.count + 1 \in Nat /\ y.task \in [Tasks -> TaskRecords] /\ Typed(x)
        BY <1>3, <1>5 DEF Sound
    <2>2. y = [x EXCEPT !.task = y.task, !.count = y.count]
        BY <1>2, <1>4, <2>1 DEF Typed
    <2> QED
        BY <1>4, <2>1, <2>2 DEF Typed
<1>7. Runner(y)
    BY <1>1, <1>4, <1>5 DEF Sound, Runner
<1>8. Bracketed(y) = Bracketed(x) \cup {t} /\ t \notin Bracketed(x)
    BY <1>1, <1>5 DEF Bracketed
<1>9. Counted(y)
    <2>1. Cardinality(Bracketed(y)) = Cardinality(Bracketed(x)) + 1
        BY <1>8, BracketedFacts, FS_AddElement
    <2>2. Cardinality(Bracketed(x)) \in Nat
        BY BracketedFacts
    <2> QED
        BY <1>3, <1>4, <2>1, <2>2 DEF Sound, Counted
<1>10. Peers(y)
    BY <1>4, <1>5 DEF Sound, Peers, NoPeers
<1> QED
    BY <1>4, <1>5, <1>6, <1>7, <1>8, <1>9, <1>10 DEF Sound, y, t

\* A flush opens a task outside any bracket.
LEMMA OpenFlushFacts ==
    ASSUME NEW x, Sound(x), HasFree(x)
    PROVE  LET y == Open(x, "flush", "running", {})
           IN  /\ Sound(y) /\ y.at = x.at /\ y.run = x.run
               /\ y.task[Free(x)] = [kind |-> "flush", at |-> "running", stale |-> FALSE, own |-> {}]
<1> DEFINE y == Open(x, "flush", "running", {})
           t == Free(x)
           r == [kind |-> "flush", at |-> "running", stale |-> FALSE, own |-> {}]
<1>1. t \in Tasks /\ x.task[t].kind = "none"
    BY FreeFacts
<1> HIDE DEF t
<1>2. y = [x EXCEPT !.task = [x.task EXCEPT ![t] = r]]
    BY DEF Open, Sound, Typed, t
<1> HIDE DEF y
<1>3. x.task \in [Tasks -> TaskRecords] /\ x.count \in Nat /\ r \in TaskRecords
    BY DEF Sound, Typed, TaskRecords, Kinds
<1>4. /\ y.at = x.at /\ y.run = x.run /\ y.suppressed = x.suppressed /\ y.tail = x.tail
      /\ y.count = x.count /\ y.task = [x.task EXCEPT ![t] = r]
    BY <1>2 DEF Sound, Typed
<1>5. /\ y.task[t] = r /\ y.task \in [Tasks -> TaskRecords]
      /\ \A u \in Tasks : u # t => y.task[u] = x.task[u]
    BY <1>1, <1>3, <1>4
<1>6. Typed(y)
    <2>1. x.count + 1 \in Nat /\ y.task \in [Tasks -> TaskRecords] /\ Typed(x)
        BY <1>3, <1>5 DEF Sound
    <2>2. y = [x EXCEPT !.task = y.task, !.count = y.count]
        BY <1>2, <1>4, <2>1 DEF Typed
    <2> QED
        BY <1>4, <2>1, <2>2 DEF Typed
<1>7. Runner(y)
    BY <1>1, <1>4, <1>5 DEF Sound, Runner
<1>8. Bracketed(y) = Bracketed(x)
    BY <1>1, <1>5 DEF Bracketed
<1>9. Counted(y)
    BY <1>4, <1>8 DEF Sound, Counted
<1>10. Peers(y)
    BY <1>4, <1>5 DEF Sound, Peers, NoPeers
<1> QED
    BY <1>4, <1>5, <1>6, <1>7, <1>9, <1>10 DEF Sound, y, t

\* A run starts for a task that is open.
LEMMA RunLoopFacts ==
    ASSUME NEW x, Sound(x), NEW t \in Tasks, x.task[t].kind # "none", NEW S
    PROVE  Sound(RunLoop(x, t, S)) /\ RunLoop(x, t, S).run.at # "off"
<1> DEFINE w == Move(x, S \cup In(x, "steering"), "history")
           y == RunLoop(x, t, S)
           r == [at |-> "turn", by |-> t, kind |-> x.task[t].kind, aborted |-> FALSE]
<1>1. Sound(w) /\ w.task = x.task
    <2>1. "history" \in PeerPlaces /\ "history" \in Places \cup Tasks
        BY DEF PeerPlaces, Places
    <2>2. Sound(w)
        BY <2>1, MoveFacts
    <2> QED
        BY <2>2, MoveFields
<1> HIDE DEF w
<1>2. y = [w EXCEPT !.run = r, !.task = [w.task EXCEPT ![t].at = "running"]]
    BY <1>1 DEF RunLoop, w, Sound, Typed
<1> HIDE DEF y
<1>3. w.task \in [Tasks -> TaskRecords] /\ r \in RunRecords /\ x.task[t] = w.task[t]
    BY <1>1 DEF Sound, Typed, TaskRecords, RunRecords, Kinds
<1>4. /\ y.at = w.at /\ y.run = r /\ y.suppressed = w.suppressed /\ y.tail = w.tail
      /\ y.count = w.count /\ y.task = [w.task EXCEPT ![t].at = "running"]
    BY <1>1, <1>2 DEF Sound, Typed
<1>5. /\ y.task[t] = [w.task[t] EXCEPT !.at = "running"] /\ y.task \in [Tasks -> TaskRecords]
      /\ \A u \in Tasks : u # t => y.task[u] = w.task[u]
    BY <1>3, <1>4 DEF TaskRecords
<1>6. /\ y.task[t].kind = w.task[t].kind /\ y.task[t].own = w.task[t].own
      /\ y.task[t].at = "running"
    BY <1>3, <1>5 DEF TaskRecords
<1>7. Typed(y)
    BY <1>1, <1>2, <1>3, <1>4, <1>5 DEF Sound, Typed
<1>8. Runner(y)
    BY <1>1, <1>3, <1>4, <1>5, <1>6 DEF Sound, Runner
<1>9. Bracketed(y) = Bracketed(w)
    BY <1>5, <1>6 DEF Bracketed
<1>10. Counted(y)
    BY <1>1, <1>4, <1>9 DEF Sound, Counted
<1>11. Peers(y)
    BY <1>1, <1>4, <1>5, <1>6 DEF Sound, Peers, NoPeers
<1> QED
    BY <1>4, <1>7, <1>8, <1>10, <1>11 DEF Sound, y

\* A task that no run belongs to closes, and the count goes down with it.
LEMMA CloseFacts ==
    ASSUME NEW x, Sound(x), NEW t \in Tasks, x.task[t].at # "running", NEW n \in Nat,
           n <= x.count, t \in Bracketed(x) => n = 0 \/ n < x.count
    PROVE  LET y == [Close(x, t) EXCEPT !.count = n]
           IN  /\ Sound(y) /\ y.at = x.at /\ y.run = x.run /\ y.suppressed = x.suppressed
               /\ y.tail = x.tail /\ y.count = n /\ HasFree(y)
               /\ Bracketed(y) = Bracketed(x) \ {t}
<1> DEFINE y == [Close(x, t) EXCEPT !.count = n]
<1>1. y = [x EXCEPT !.task = [x.task EXCEPT ![t] = NotOpen], !.count = n]
    BY DEF Close, Sound, Typed
<1> HIDE DEF y
<1>2. x.task \in [Tasks -> TaskRecords] /\ NotOpen \in TaskRecords /\ NotOpen.kind = "none"
      /\ NotOpen.at = "none" /\ NotOpen.own = {}
    BY DEF Sound, Typed, TaskRecords, Kinds, NotOpen
<1>3. /\ y.at = x.at /\ y.run = x.run /\ y.suppressed = x.suppressed /\ y.tail = x.tail
      /\ y.count = n /\ y.task = [x.task EXCEPT ![t] = NotOpen]
    BY <1>1 DEF Sound, Typed
<1>4. /\ y.task[t] = NotOpen /\ y.task \in [Tasks -> TaskRecords]
      /\ \A u \in Tasks : u # t => y.task[u] = x.task[u]
    BY <1>2, <1>3
<1>5. Typed(y)
    <2>1. y = [x EXCEPT !.task = y.task, !.count = n] /\ Typed(x)
        BY <1>1, <1>3 DEF Sound
    <2> QED
        BY <1>4, <2>1 DEF Typed
<1>6. Runner(y)
    BY <1>2, <1>3, <1>4 DEF Sound, Runner
<1>7. Bracketed(y) = Bracketed(x) \ {t}
    BY <1>2, <1>4 DEF Bracketed
<1>8. Counted(y)
    <2>1. IsFiniteSet(Bracketed(x)) /\ Cardinality(Bracketed(x)) \in Nat
          /\ x.count \in Nat /\ x.count <= Cardinality(Bracketed(x))
        BY BracketedFacts DEF Sound, Counted
    <2>2. CASE t \in Bracketed(x)
        <3>1. Cardinality(Bracketed(y)) = Cardinality(Bracketed(x)) - 1
            BY <1>7, <2>1, <2>2, FS_RemoveElement
        <3>2. Cardinality(Bracketed(x)) # 0
            BY <2>1, <2>2, FS_EmptySet
        <3>3. n = 0 \/ n < x.count
            BY <2>2
        <3>4. n <= Cardinality(Bracketed(x)) - 1
            BY <2>1, <3>2, <3>3
        <3> QED
            BY <1>3, <3>1, <3>4 DEF Counted
    <2>3. CASE t \notin Bracketed(x)
        <3>1. Bracketed(y) = Bracketed(x)
            BY <1>7, <2>3
        <3> QED
            BY <1>3, <2>1, <3>1 DEF Counted
    <2> QED
        BY <2>2, <2>3
<1>9. Peers(y)
    BY <1>2, <1>3, <1>4 DEF Sound, Peers, NoPeers
<1>10. HasFree(y)
    BY <1>2, <1>4 DEF HasFree
<1> QED
    BY <1>3, <1>5, <1>6, <1>7, <1>8, <1>9, <1>10 DEF Sound, y

\* Asides are recorded, or there are none.
LEMMA FlushFacts ==
    ASSUME NEW x, Sound(x)
    PROVE  LET y == FlushPendingIrcAsides(x)
           IN  Sound(y) /\ Bracketed(y) = Bracketed(x)
<1> DEFINE w == Move(x, In(x, "asides"), "history")
           y == [w EXCEPT !.tail = FALSE]
<1>1. Sound(w)
    <2>1. "history" \in PeerPlaces /\ "history" \in Places \cup Tasks
        BY DEF PeerPlaces, Places
    <2> QED
        BY <2>1, MoveFacts
<1> HIDE DEF w
<1>2. Typed(y) /\ y.at = w.at /\ y.run = w.run /\ y.task = w.task /\ y.count = w.count
    BY <1>1 DEF Sound, Typed
<1>2a. y.task = x.task
    BY <1>2, MoveFields DEF w
<1> HIDE DEF y
<1>3. Sound(y)
    BY <1>1, <1>2 DEF Sound, Runner, Counted, Bracketed, Peers, NoPeers
<1>4. Bracketed(y) = Bracketed(x)
    BY <1>2a DEF Bracketed
<1> QED
    BY <1>3, <1>4 DEF FlushPendingIrcAsides, w, y

\* A turn for a peer's messages, while nothing runs.
LEMMA WakeFacts ==
    ASSUME NEW x, Sound(x), HasFree(x), x.run.at = "off", NEW S
    PROVE  Sound(WakeForIrc(x, S)) /\ WakeForIrc(x, S).run.at # "off"
<1> DEFINE t == Free(x)
           parks == /\ In(x, "steering") = {}
                    /\ ~CanAutoContinue(x)
           y == IF parks THEN Move(x, In(x, "followUps"), t) ELSE x
           z == BeginInFlight(Open(y, "wake", "running", {}))
<1>1. t \in Tasks
    BY FreeFacts
<1>2. Sound(y) /\ y.task = x.task /\ y.run = x.run
    <2>1. NoPeers(In(x, "followUps"))
        BY QueuedFacts DEF PeerPlaces
    <2>2. CASE parks
        <3>1. Sound(Move(x, In(x, "followUps"), t))
            BY <1>1, <2>1, MoveFacts
        <3> QED
            BY <2>2, <3>1, MoveFields
    <2>3. CASE ~parks
        BY <2>3
    <2> QED
        BY <2>2, <2>3
<1>3. WakeForIrc(x, S) = AgentPrompt(z, t, S)
    BY DEF WakeForIrc
<1> HIDE DEF y, parks
<1>4. HasFree(y) /\ Free(y) = t
    BY <1>2 DEF HasFree, Free
<1> HIDE DEF t
<1>5. Sound(z) /\ z.run = x.run /\ z.task[t].kind = "wake"
    <2>1. "wake" \in Kinds \ {"none", "flush"} /\ "running" \in {"setup", "running"}
          /\ {} \in SUBSET Msgs /\ NoPeers({})
        BY DEF Kinds, NoPeers
    <2>2. /\ Sound(z) /\ z.run = y.run
          /\ z.task[t] = [kind |-> "wake", at |-> "running", stale |-> FALSE, own |-> {}]
        BY <1>2, <1>4, <2>1, BeginFacts
    <2> QED
        BY <1>2, <2>2
<1> HIDE DEF z
<1>6. AgentPrompt(z, t, S) = RunLoop(z, t, S)
    BY <1>5 DEF AgentPrompt
<1> QED
    BY <1>1, <1>3, <1>5, <1>6, RunLoopFacts

\* A continuation is scheduled, or nothing a continuation could take is queued.
LEMMA ScheduleFacts ==
    ASSUME NEW x, Sound(x), HasRoom(x)
    PROVE  LET y == ScheduleQueuedMessageDrain(x)
           IN  /\ Sound(y)
               /\ \/ y = x /\ ~(CanAutoContinue(x) /\ HasQueued(x))
                  \/ Bracketed(y) # {} /\ y.count > 0
<1>1. CASE CanAutoContinue(x) /\ HasQueued(x)
    <2>1. HasFree(x)
        BY <1>1 DEF HasRoom, CanAutoContinue
    <2>2. "continue" \in Kinds \ {"none", "flush"} /\ "setup" \in {"setup", "running"}
          /\ {} \in SUBSET Msgs /\ NoPeers({})
        BY DEF Kinds, NoPeers
    <2> DEFINE y == BeginInFlight(Open(x, "continue", "setup", {}))
    <2>3. Sound(y) /\ y.count = x.count + 1 /\ Bracketed(y) # {}
        BY ZenonT(60), <2>1, <2>2, BeginFacts
    <2>4. ScheduleQueuedMessageDrain(x) = y
        BY <1>1 DEF ScheduleQueuedMessageDrain
    <2> HIDE DEF y
    <2>5. x.count \in Nat
        BY DEF Sound, Typed
    <2> QED
        BY <2>3, <2>4, <2>5
<1>2. CASE ~(CanAutoContinue(x) /\ HasQueued(x))
    BY <1>2 DEF ScheduleQueuedMessageDrain
<1> QED
    BY <1>1, <1>2

\* After both a run, a task in a bracket, or clean queues: this is what the
\* session counts on whenever it settles.
LEMMA ResumeFacts ==
    ASSUME NEW x, Sound(x), HasRoom(x)
    PROVE  LET y == ResumeStrandedIrcAsides(ScheduleQueuedMessageDrain(x))
           IN  Sound(y) /\ (Unattended(y) => Clean(y))
<1> DEFINE w == ScheduleQueuedMessageDrain(x)
           y == ResumeStrandedIrcAsides(w)
<1>1. Sound(w) /\ (\/ w = x /\ ~(CanAutoContinue(x) /\ HasQueued(x))
                   \/ Bracketed(w) # {} /\ w.count > 0)
    BY ScheduleFacts
<1> HIDE DEF w
<1>2. CASE w.count > 0
    <2>1. y = w
        BY <1>2 DEF ResumeStrandedIrcAsides, IsStreaming
    <2>2. Bracketed(w) # {}
        BY <1>1, <1>2, BracketedFacts
    <2> QED
        BY <1>1, <2>1, <2>2 DEF Unattended, w
<1>3. CASE ~(w.count > 0)
    <2>1. w = x /\ ~(CanAutoContinue(x) /\ HasQueued(x))
        BY <1>1, <1>3
    <2>2. CASE x.run.at # "off"
        <3>1. y = x
            BY <2>1, <2>2 DEF ResumeStrandedIrcAsides, IsStreaming
        <3> QED
            BY <1>1, <2>1, <2>2, <3>1 DEF Unattended, w
    <2>3. CASE x.run.at = "off"
        <3>1. ~IsStreaming(x) /\ HasFree(x)
            BY <1>3, <2>1, <2>3 DEF IsStreaming, HasRoom
        <3>2. CASE In(x, "asides") = {}
            <4>1. y = x
                BY <2>1, <3>2 DEF ResumeStrandedIrcAsides
            <4>2. Clean(x)
                BY <2>1, <3>1, <3>2 DEF Clean, CanAutoContinue, HasQueued
            <4> QED
                BY <1>1, <2>1, <4>1, <4>2 DEF w
        <3>3. CASE In(x, "asides") # {}
            <4>1. y = WakeForIrc(x, In(x, "asides"))
                BY <2>1, <3>1, <3>3 DEF ResumeStrandedIrcAsides
            <4>2. Sound(y) /\ y.run.at # "off"
                BY <2>3, <3>1, <4>1, WakeFacts
            <4> QED
                BY <4>2 DEF Unattended, w
        <3> QED
            BY <3>2, <3>3
    <2> QED
        BY <2>2, <2>3
<1> QED
    BY <1>2, <1>3

\* A task leaves its bracket.
LEMMA EndFacts ==
    ASSUME NEW x, Sound(x), NEW t \in Tasks, x.task[t].at # "running"
    PROVE  LET y == EndInFlight(x, t)
           IN  Sound(y) /\ (abort = "no" /\ Unattended(y) => Clean(y))
<1> DEFINE n == IF x.count = 0 THEN 0 ELSE x.count - 1
           w == [Close(x, t) EXCEPT !.count = n]
           y == EndInFlight(x, t)
<1>1. n \in Nat /\ n <= x.count /\ (n = 0 \/ n < x.count)
    BY DEF Sound, Typed
<1>2. Sound(w) /\ w.count = n /\ HasFree(w)
    BY <1>1, CloseFacts
<1>3. y = IF n = 0 THEN DrainStrandedQueuedMessages(w) ELSE w
    BY DEF EndInFlight
<1> HIDE DEF w, n, y
<1>4. CASE n = 0 /\ abort = "no"
    <2>1. y = ResumeStrandedIrcAsides(ScheduleQueuedMessageDrain(w))
        BY <1>3, <1>4 DEF DrainStrandedQueuedMessages
    <2>2. HasRoom(w)
        BY <1>2 DEF HasRoom
    <2> QED
        BY <1>2, <2>1, <2>2, ResumeFacts DEF y
<1>5. CASE n = 0 /\ abort # "no"
    BY <1>2, <1>3, <1>5 DEF DrainStrandedQueuedMessages, y
<1>6. CASE n # 0
    <2>1. Bracketed(w) # {}
        BY <1>2, <1>6, BracketedFacts
    <2> QED
        BY <1>2, <1>3, <1>6, <2>1 DEF Unattended, y
<1> QED
    BY <1>4, <1>5, <1>6

\* The asides may be recorded after the count as well.
LEMMA PromptOrder ==
    ASSUME NEW x, Sound(x), HasFree(x), NEW kind \in Kinds, NEW own \in SUBSET Msgs
    PROVE  BeginInFlight(FlushPendingIrcAsides(Open(x, kind, "setup", own)))
           = FlushPendingIrcAsides(BeginInFlight(Open(x, kind, "setup", own)))
<1> DEFINE o == Open(x, kind, "setup", own)
           b == BeginInFlight(o)
<1>1. Typed(o)
    <2> DEFINE r == [kind |-> kind, at |-> "setup", stale |-> FALSE, own |-> own]
    <2>1. r \in TaskRecords
        BY DEF TaskRecords, Kinds
    <2> HIDE DEF r
    <2>2. o = [x EXCEPT !.task = [x.task EXCEPT ![Free(x)] = r]]
        BY DEF Open, r, Sound, Typed
    <2>3. [x.task EXCEPT ![Free(x)] = r] \in [Tasks -> TaskRecords]
        BY <2>1 DEF Sound, Typed
    <2> HIDE DEF o
    <2> QED
        BY <2>2, <2>3 DEF Sound, Typed
<1> HIDE DEF o
<1>2. BeginInFlight(FlushPendingIrcAsides(o)) = FlushPendingIrcAsides(b)
    <2>1. In(b, "asides") = In(o, "asides")
        BY <1>1 DEF BeginInFlight, In, Typed
    <2>2. CASE In(o, "asides") = {}
        BY <2>1, <2>2 DEF FlushPendingIrcAsides
    <2>3. CASE In(o, "asides") # {}
        <3> DEFINE at2 == [m \in Msgs |-> IF m \in In(o, "asides") THEN "history" ELSE o.at[m]]
        <3>1. BeginInFlight(FlushPendingIrcAsides(o))
              = [o EXCEPT !.at = at2, !.tail = FALSE, !.count = o.count + 1]
            BY <1>1, <2>3 DEF FlushPendingIrcAsides, Move, BeginInFlight, Typed
        <3>2. FlushPendingIrcAsides(b)
              = [o EXCEPT !.at = at2, !.tail = FALSE, !.count = o.count + 1]
            BY <1>1, <2>1, <2>3 DEF FlushPendingIrcAsides, Move, BeginInFlight, Typed
        <3> QED
            BY <3>1, <3>2
    <2> QED
        BY <2>2, <2>3
<1> QED
    BY <1>2 DEF o

\* A prompt begins: its task opens before the asides are recorded and it counts.
LEMMA PromptFacts ==
    ASSUME NEW x, Sound(x), HasFree(x), NEW kind \in Kinds \ {"none", "flush"},
           NEW own \in SUBSET Msgs, NoPeers(own)
    PROVE  LET y == BeginInFlight(FlushPendingIrcAsides(Open(x, kind, "setup", own)))
           IN  Sound(y) /\ Bracketed(y) # {}
<1> DEFINE o == Open(x, kind, "setup", own)
           b == BeginInFlight(o)
<1>1. Sound(b) /\ Bracketed(b) # {}
    <2>1. "setup" \in {"setup", "running"}
        OBVIOUS
    <2> QED
        BY <2>1, BeginFacts
<1>2. BeginInFlight(FlushPendingIrcAsides(o)) = FlushPendingIrcAsides(b)
    BY PromptOrder
<1> HIDE DEF b
<1>3. Sound(FlushPendingIrcAsides(b)) /\ Bracketed(FlushPendingIrcAsides(b)) = Bracketed(b)
    BY <1>1, FlushFacts
<1> QED
    BY <1>1, <1>2, <1>3 DEF o

\* A message that goes elsewhere leaves no work behind.
LEMMA AwayFacts ==
    ASSUME NEW x, Sound(x), NEW S, NEW place, place \notin {"steering", "asides", "followUps"},
           S \cap In(x, "preparing") = {}, Unattended(x) => Clean(x)
    PROVE  Unattended(Move(x, S, place)) => Clean(Move(x, S, place))
<1> DEFINE y == Move(x, S, place)
<1>1. /\ y.run = x.run /\ y.task = x.task /\ y.tail = x.tail /\ y.suppressed = x.suppressed
    BY MoveFields
<1>2. /\ \A p \in {"steering", "asides", "followUps"} : In(y, p) \subseteq In(x, p)
      /\ In(x, "preparing") \subseteq In(y, "preparing")
    BY DEF Move, In, Sound, Typed
<1> HIDE DEF y
<1>3. Unattended(y) => Unattended(x)
    BY <1>1 DEF Unattended, Bracketed
<1>4. Clean(x) => Clean(y)
    BY <1>1, <1>2 DEF Clean
<1> QED
    BY <1>3, <1>4 DEF y

\* A task comes to another point.
LEMMA TaskAtFacts ==
    ASSUME NEW x, Sound(x), NEW t \in Tasks, x.task[t].at # "running",
           x.task[t].kind \notin {"none", "flush"}, NEW at \in {"taken", "busy"}
    PROVE  LET y == [x EXCEPT !.task[t].at = at]
           IN  Sound(y) /\ Bracketed(y) # {}
<1> DEFINE y == [x EXCEPT !.task[t].at = at]
<1>1. x.task \in [Tasks -> TaskRecords] /\ x.task[t] \in TaskRecords
    BY DEF Sound, Typed
<1>2. y = [x EXCEPT !.task = [x.task EXCEPT ![t].at = at]]
    BY DEF Sound, Typed
<1> HIDE DEF y
<1>3. /\ y.at = x.at /\ y.run = x.run /\ y.count = x.count
      /\ y.task = [x.task EXCEPT ![t].at = at]
    BY <1>2 DEF Sound, Typed
<1>4. /\ y.task \in [Tasks -> TaskRecords] /\ y.task[t] = [x.task[t] EXCEPT !.at = at]
      /\ \A u \in Tasks : u # t => y.task[u] = x.task[u]
    BY <1>1, <1>3 DEF TaskRecords
<1>5. y.task[t].kind = x.task[t].kind /\ y.task[t].own = x.task[t].own
    BY <1>1, <1>4 DEF TaskRecords
<1>6. Typed(y)
    <2>1. y = [x EXCEPT !.task = y.task] /\ Typed(x)
        BY <1>2, <1>3 DEF Sound
    <2> QED
        BY <1>4, <2>1 DEF Typed
<1>7. Runner(y)
    BY <1>3, <1>4, <1>5 DEF Sound, Runner
<1>8. Bracketed(y) = Bracketed(x) /\ t \in Bracketed(y)
    BY <1>4, <1>5 DEF Bracketed
<1>9. Counted(y)
    BY <1>3, <1>8 DEF Sound, Counted
<1>10. Peers(y)
    BY <1>3, <1>4, <1>5 DEF Sound, Peers, NoPeers
<1> QED
    BY <1>6, <1>7, <1>8, <1>9, <1>10 DEF Sound, y

\* A run goes on to its next poll.
LEMMA RunAtFacts ==
    ASSUME NEW x, Sound(x), x.run.at # "off",
           NEW at \in {"turn", "yield", "steered", "asided", "ending"}
    PROVE  LET y == [x EXCEPT !.run.at = at]
           IN  Sound(y) /\ y.run.at # "off"
<1> DEFINE y == [x EXCEPT !.run.at = at]
<1>1. /\ y.at = x.at /\ y.task = x.task /\ y.count = x.count /\ y.run = [x.run EXCEPT !.at = at]
      /\ y = [x EXCEPT !.run = y.run] /\ x.run \in RunRecords
    BY DEF Sound, Typed
<1> HIDE DEF y
<1>2. y.run \in RunRecords /\ y.run.by = x.run.by /\ y.run.kind = x.run.kind /\ y.run.at = at
    BY <1>1 DEF RunRecords
<1>3. Typed(y)
    BY <1>1, <1>2 DEF Sound, Typed
<1>4. Runner(y)
    BY <1>1, <1>2 DEF Sound, Runner
<1>5. Counted(y) /\ Peers(y)
    BY <1>1 DEF Sound, Counted, Bracketed, Peers, NoPeers
<1> QED
    BY <1>2, <1>3, <1>4, <1>5 DEF Sound, y

\* A run ends; unless it was a flush, its task is still in its bracket.
LEMMA OffFacts ==
    ASSUME NEW x, Sound(x), x.run.at # "off"
    PROVE  Sound(Off(x)) /\ ~Unattended(Off(x))
<1> DEFINE y == Off(x)
           t == x.run.by
           r == [x.run EXCEPT !.at = "off", !.by = NoTask, !.aborted = FALSE]
<1>1. /\ x.task \in [Tasks -> TaskRecords] /\ t \in Tasks /\ x.task[t] \in TaskRecords
      /\ x.run \in RunRecords /\ x.run.kind # "none" /\ x.task[t].kind = x.run.kind
    BY DEF Sound, Typed, Runner
<1>2. r \in RunRecords /\ r.at = "off" /\ r.kind = x.run.kind
    BY <1>1 DEF RunRecords
<1>3. y = [x EXCEPT !.run = r, !.tail = TRUE, !.task = [x.task EXCEPT ![t].at = "over"]]
    BY DEF Off, Sound, Typed
<1> HIDE DEF y, t, r
<1>4. /\ y.at = x.at /\ y.run = r /\ y.count = x.count /\ y.tail = TRUE
      /\ y.task = [x.task EXCEPT ![t].at = "over"]
    BY <1>3 DEF Sound, Typed
<1>5. /\ y.task \in [Tasks -> TaskRecords] /\ y.task[t] = [x.task[t] EXCEPT !.at = "over"]
      /\ \A u \in Tasks : u # t => y.task[u] = x.task[u]
    BY <1>1, <1>4 DEF TaskRecords
<1>6. y.task[t].kind = x.task[t].kind /\ y.task[t].own = x.task[t].own
    BY <1>1, <1>5 DEF TaskRecords
<1>7. Typed(y)
    <2>1. y = [x EXCEPT !.run = y.run, !.tail = y.tail, !.task = y.task] /\ Typed(x)
        BY <1>3, <1>4 DEF Sound
    <2> QED
        BY <1>2, <1>4, <1>5, <2>1 DEF Typed
<1>8. Runner(y)
    BY <1>1, <1>2, <1>4, <1>5, <1>6 DEF Sound, Runner
<1>9. Bracketed(y) = Bracketed(x)
    BY <1>5, <1>6 DEF Bracketed
<1>10. Counted(y)
    BY <1>4, <1>9 DEF Sound, Counted
<1>11. Peers(y)
    BY <1>4, <1>5, <1>6 DEF Sound, Peers, NoPeers
<1>12. x.run.kind # "flush" => t \in Bracketed(y)
    BY <1>1, <1>6 DEF Bracketed
<1> QED
    BY <1>2, <1>4, <1>7, <1>8, <1>10, <1>11, <1>12 DEF Sound, Unattended, y

\* The flags of the user's interrupt and of the transcript decide nothing else.
LEMMA ResumedFacts ==
    ASSUME NEW x, Sound(x)
    PROVE  LET y == [x EXCEPT !.suppressed = FALSE]
           IN  /\ Sound(y) /\ y.at = x.at /\ y.run = x.run /\ y.task = x.task /\ y.count = x.count
               /\ y.tail = x.tail
<1> DEFINE y == [x EXCEPT !.suppressed = FALSE]
<1>1. Typed(y) /\ y.at = x.at /\ y.run = x.run /\ y.task = x.task /\ y.count = x.count
      /\ y.tail = x.tail
    BY DEF Sound, Typed
<1> HIDE DEF y
<1>2. Sound(y)
    BY <1>1 DEF Sound, Runner, Counted, Bracketed, Peers, NoPeers
<1> QED
    BY <1>1, <1>2 DEF y

-----------------------------------------------------------------------------
(* The steps. *)

Good(x) == Sound(x) /\ (abort = "no" /\ Unattended(x) => Clean(x))

\* Nothing is in flight when no task is in a bracket.
LEMMA UnattendedFacts ==
    ASSUME NEW x, Sound(x), Unattended(x)
    PROVE  ~IsStreaming(x)
<1>1. x.count = 0
    BY BracketedFacts DEF Unattended
<1> QED
    BY <1>1 DEF Unattended, IsStreaming

\* The messages of a task are none of a peer's.
LEMMA OwnFacts ==
    ASSUME NEW x, Sound(x), NEW t \in Tasks
    PROVE  NoPeers(In(x, t)) /\ NoPeers(x.task[t].own)
<1>1. t \notin PeerPlaces
    BY TaskAssumption DEF PeerPlaces, Places
<1> QED
    BY <1>1, QueuedFacts DEF Sound, Peers

LEMMA ArrivalSteps ==
    ASSUME Sound(s), Drained, NEW m \in Msgs,
           \/ ReceiveUserMessage(m) \/ QueueUserMessage(m)
           \/ DeliverIrcMessage(m) \/ EnqueueResult(m)
           \/ \E trigger \in BOOLEAN : QueueHiddenNextTurnMessage(m, trigger)
    PROVE  Sound(s') /\ Drained'
<1> SUFFICES Good(s') /\ abort' = abort /\ accepted' = accepted
    BY DEF Good, Drained, Clean
<1>1. abort' = abort /\ accepted' = accepted
    BY DEF ReceiveUserMessage, QueueUserMessage, DeliverIrcMessage, EnqueueResult,
           QueueHiddenNextTurnMessage, Untimed
<1>2. Good(s)
    BY DEF Good, Drained
<1>2a. ASSUME NEW kinds, Arrives(m, kinds), "irc" \notin kinds
       PROVE  NoPeers({m}) /\ {m} \cap In(s, "preparing") = {}
    BY <1>2a DEF Arrives, NoPeers, In
<1>2b. CASE ReceiveUserMessage(m)
    <2> DEFINE w == Move(s, {m}, "preparing")
               x == [w EXCEPT !.suppressed = FALSE]
    <2>1. s' = x /\ NoPeers({m}) /\ "preparing" \in Places \cup Tasks
        BY <1>2a, <1>2b DEF ReceiveUserMessage, Places
    <2>2. Sound(w) /\ w.run = s.run /\ w.task = s.task
        BY <2>1, MoveFacts, MoveFields
    <2>3. /\ In(w, "steering") \subseteq In(s, "steering")
          /\ In(w, "asides") \subseteq In(s, "asides") /\ m \in In(w, "preparing")
        BY DEF Move, In, Sound, Typed
    <2> HIDE DEF w
    <2>4. Sound(x) /\ x.run = s.run /\ x.task = s.task /\ x.at = w.at
        BY <2>2, ResumedFacts
    <2>5. /\ In(x, "steering") \subseteq In(s, "steering")
          /\ In(x, "asides") \subseteq In(s, "asides") /\ In(x, "preparing") # {}
        BY <2>3, <2>4 DEF In
    <2> HIDE DEF x
    <2>6. Unattended(x) => Unattended(s)
        BY <2>4 DEF Unattended, Bracketed
    <2>7. Clean(s) => Clean(x)
        BY <2>5 DEF Clean
    <2> QED
        BY <1>1, <1>2, <2>1, <2>4, <2>6, <2>7 DEF Good
<1>3. CASE QueueUserMessage(m)
    <2> DEFINE place == IF Kind[m] = "steer" THEN "steering" ELSE "followUps"
               x == Move(s, {m}, place)
    <2>1. s' = ScheduleQueuedMessageDrain(x) /\ HasRoom(s) /\ m \in In(s, "preparing")
        BY <1>3 DEF QueueUserMessage, In
    <2>2. place \in Places \cup Tasks /\ NoPeers({m})
        <3>1. NoPeers(In(s, "preparing"))
            BY QueuedFacts DEF PeerPlaces
        <3> QED
            BY <2>1, <3>1 DEF Places, NoPeers
    <2>6. Sound(x) /\ x.run = s.run /\ x.task = s.task /\ x.count = s.count
        BY <2>2, MoveFacts, MoveFields
    <2>7. In(x, "asides") \subseteq In(s, "asides")
        BY DEF Move, In, Sound, Typed
    <2> HIDE DEF x
    <2>8. HasRoom(x)
        BY <2>1, <2>6 DEF HasRoom, HasFree, IsStreaming
    <2>9. Sound(s') /\ (\/ s' = x /\ ~(CanAutoContinue(x) /\ HasQueued(x))
                        \/ Bracketed(s') # {} /\ s'.count > 0)
        BY <2>1, <2>6, <2>8, ScheduleFacts
    <2>10. CASE Bracketed(s') # {}
        BY <1>1, <2>9, <2>10 DEF Good, Unattended
    <2>11. CASE s' = x /\ ~(CanAutoContinue(x) /\ HasQueued(x))
        <3> SUFFICES ASSUME abort = "no", Unattended(x)
                     PROVE  Clean(x)
            BY <1>1, <2>9, <2>11 DEF Good
        <3>1. ~IsStreaming(x)
            BY <2>6, UnattendedFacts
        <3>2. Clean(s)
            BY <1>2, <2>6 DEF Good, Unattended, Bracketed
        <3>3. In(x, "asides") = {}
            BY <2>7, <3>2 DEF Clean
        <3> QED
            BY <2>11, <3>1, <3>3 DEF Clean, CanAutoContinue, HasQueued
    <2> QED
        BY <2>9, <2>10, <2>11
<1>4. CASE DeliverIrcMessage(m)
    <2>1. HasRoom(s)
        BY <1>4 DEF DeliverIrcMessage
    <2>2. CASE IsStreaming(s)
        <3>1. s' = Move(s, {m}, "asides")
            BY <1>4, <2>2 DEF DeliverIrcMessage
        <3>2. "asides" \in PeerPlaces /\ "asides" \in Places \cup Tasks
            BY DEF PeerPlaces, Places
        <3>3. Sound(s') /\ s'.run = s.run /\ s'.count = s.count
            BY <3>1, <3>2, MoveFacts, MoveFields
        <3>4. ~Unattended(s')
            BY <2>2, <3>3, UnattendedFacts DEF IsStreaming
        <3> QED
            BY <1>1, <3>3, <3>4 DEF Good
    <2>3. CASE ~IsStreaming(s)
        <3>1. s' = WakeForIrc(s, {m}) /\ HasFree(s) /\ s.run.at = "off"
            BY <1>4, <2>1, <2>3 DEF DeliverIrcMessage, HasRoom, IsStreaming
        <3>2. Sound(s') /\ s'.run.at # "off"
            BY <3>1, WakeFacts
        <3> QED
            BY <1>1, <3>2 DEF Good, Unattended
    <2> QED
        BY <2>2, <2>3
<1>5. CASE EnqueueResult(m)
    <2>1. s' = Move(s, {m}, "staged") /\ NoPeers({m}) /\ {m} \cap In(s, "preparing") = {}
        BY <1>2a, <1>5 DEF EnqueueResult
    <2>2. "staged" \in Places \cup Tasks /\ "staged" \notin {"steering", "asides", "followUps"}
        BY DEF Places
    <2>3. Sound(s')
        BY <2>1, <2>2, MoveFacts
    <2>4. CASE abort = "no"
        BY <1>1, <1>2, <2>1, <2>2, <2>3, <2>4, AwayFacts DEF Good
    <2> QED
        BY <1>1, <2>3, <2>4 DEF Good
<1>6. ASSUME NEW trigger \in BOOLEAN, QueueHiddenNextTurnMessage(m, trigger)
      PROVE  Good(s')
    <2> DEFINE own == {m} \cup In(s, "nextTurn")
    <2>1. NoPeers(own) /\ own \in SUBSET Msgs
        <3>1. NoPeers(In(s, "nextTurn"))
            BY QueuedFacts DEF PeerPlaces
        <3> QED
            BY <1>2a, <1>6, <3>1 DEF QueueHiddenNextTurnMessage, NoPeers, In
    <2> HIDE DEF own
    <2>2. CASE ~trigger
        <3>1. s' = Move(s, {m}, "nextTurn") /\ NoPeers({m}) /\ {m} \cap In(s, "preparing") = {}
            BY <1>2a, <1>6, <2>2 DEF QueueHiddenNextTurnMessage
        <3>2. "nextTurn" \in Places \cup Tasks /\ "nextTurn" \notin {"steering", "asides", "followUps"}
            BY DEF Places
        <3>3. Sound(s')
            BY <3>1, <3>2, MoveFacts
        <3>4. CASE abort = "no"
            BY <1>2, <3>1, <3>2, <3>3, <3>4, AwayFacts DEF Good
        <3> QED
            BY <1>1, <3>3, <3>4 DEF Good
    <2>3. CASE trigger
        <3> DEFINE x == Move(s, own, Free(s))
        <3>1. HasFree(s)
            BY <1>6, <2>3 DEF QueueHiddenNextTurnMessage
        <3>2. Free(s) \in Tasks
            BY <3>1, FreeFacts
        <3>3. Sound(x) /\ x.task = s.task
            BY <2>1, <3>2, MoveFacts, MoveFields
        <3>4. s' = BeginInFlight(FlushPendingIrcAsides(Open(x, "deferred", "setup", own)))
            BY <1>6, <2>3 DEF QueueHiddenNextTurnMessage, own
        <3> HIDE DEF x
        <3>5. HasFree(x) /\ "deferred" \in Kinds \ {"none", "flush"}
            BY <3>1, <3>3 DEF HasFree, Kinds
        <3>6. Sound(s') /\ Bracketed(s') # {}
            BY <2>1, <3>3, <3>4, <3>5, PromptFacts
        <3> QED
            BY <3>6 DEF Good, Unattended
    <2> QED
        BY <2>2, <2>3
<1> QED
    BY <1>1, <1>2b, <1>3, <1>4, <1>5, <1>6

\* A prompt is accepted: the user resumes. It begins once its images are there.
LEMMA PromptSteps ==
    ASSUME Sound(s), Drained, Rest, Prompt \/ PromptBegins
    PROVE  Sound(s') /\ Drained'
<1>1. CASE Prompt
    <2>1. /\ s' = [s EXCEPT !.suppressed = FALSE] /\ abort' = abort /\ accepted' > 0
        BY <1>1 DEF Prompt, Rest
    <2>2. Sound(s') /\ s'.at = s.at /\ s'.run = s.run /\ s'.task = s.task
        BY <2>1, ResumedFacts
    <2>3. Unattended(s') => Unattended(s)
        BY <2>2 DEF Unattended, Bracketed
    <2>4. Clean(s) => Clean(s)'
        BY <2>1, <2>2 DEF Clean, In
    <2> QED
        BY <2>1, <2>2, <2>3, <2>4 DEF Drained
<1>2. CASE PromptBegins
    <2>1. /\ HasFree(s)
          /\ s' = BeginInFlight(FlushPendingIrcAsides(Open(s, "prompt", "setup", {})))
        BY <1>2 DEF PromptBegins
    <2>2. "prompt" \in Kinds \ {"none", "flush"} /\ {} \in SUBSET Msgs /\ NoPeers({})
        BY DEF Kinds, NoPeers
    <2>3. Sound(s') /\ Bracketed(s') # {}
        BY <2>1, <2>2, PromptFacts
    <2> QED
        BY <2>3 DEF Drained, Unattended
<1> QED
    BY <1>1, <1>2

LEMMA TaskSteps ==
    ASSUME Sound(s), Drained,
           \/ \E t \in Tasks : \/ PromptTakesNextTurn(t) \/ PromptAgent(t)
                               \/ PromptRetries(t) \/ PromptGivesUp(t)
                               \/ AgentContinue(t) \/ Settle(t)
           \/ IdleFlush
    PROVE  Sound(s') /\ Drained'
<1> SUFFICES Good(s') /\ abort' = abort /\ accepted' = accepted
    BY DEF Good, Drained, Clean
<1>1. abort' = abort /\ accepted' = accepted
    BY DEF PromptTakesNextTurn, PromptAgent, PromptRetries, PromptGivesUp, AgentContinue,
           Settle, IdleFlush, Untimed
<1>2. Good(s)
    BY DEF Good, Drained
<1>3. /\ "lost" \in Places \cup Tasks /\ "nextTurn" \in Places \cup Tasks
      /\ "followUps" \in Places \cup Tasks
    BY DEF Places
<1>4. ASSUME NEW t \in Tasks, s.task[t].at # "running", s' = Superseded(t)
      PROVE  Good(s')
    <2> DEFINE x == Move(s, In(s, t), "lost")
    <2>1. Sound(x) /\ x.task = s.task
        BY <1>3, OwnFacts, MoveFacts, MoveFields
    <2> HIDE DEF x
    <2>2. s' = EndInFlight(x, t)
        BY <1>4 DEF Superseded, x
    <2> QED
        BY <1>4, <2>1, <2>2, EndFacts DEF Good
<1>5. ASSUME NEW t \in Tasks, NEW S, s' = RunLoop(s, t, S), s.task[t].kind # "none"
      PROVE  Good(s')
    <2>1. Sound(s') /\ s'.run.at # "off"
        BY <1>5, RunLoopFacts
    <2> QED
        BY <2>1 DEF Good, Unattended
<1>7. ASSUME NEW t \in Tasks, PromptTakesNextTurn(t)
      PROVE  Good(s')
    <2>1. s.task[t].at = "setup" /\ s.task[t].kind \notin {"none", "flush"}
        BY <1>7 DEF PromptTakesNextTurn, IsPrompt
    <2>2. CASE s.task[t].stale
        <3>1. s' = Superseded(t)
            BY <1>7, <2>2 DEF PromptTakesNextTurn
        <3> QED
            BY <1>4, <2>1, <3>1
    <2>3. CASE ~s.task[t].stale
        <3> DEFINE x == Move(s, In(s, "nextTurn"), t)
        <3>1. NoPeers(In(s, "nextTurn"))
            BY QueuedFacts DEF PeerPlaces
        <3>2. Sound(x) /\ x.task = s.task
            BY <3>1, MoveFacts, MoveFields
        <3>3. s' = [x EXCEPT !.task[t].at = "taken"]
            BY <1>7, <2>3 DEF PromptTakesNextTurn
        <3> HIDE DEF x
        <3>4. Sound(s') /\ Bracketed(s') # {}
            BY <2>1, <3>2, <3>3, TaskAtFacts
        <3> QED
            BY <3>4 DEF Good, Unattended
    <2> QED
        BY <2>2, <2>3
<1>8. ASSUME NEW t \in Tasks, PromptAgent(t)
      PROVE  Good(s')
    <2>1. s.task[t].at = "taken" /\ s.task[t].kind \notin {"none", "flush"}
        BY <1>8 DEF PromptAgent, IsPrompt
    <2>2. \/ s' = Superseded(t)
          \/ s' = [s EXCEPT !.task[t].at = "busy"]
          \/ s' = RunLoop(s, t, In(s, t))
        BY <1>8 DEF PromptAgent
    <2>3. CASE s' = [s EXCEPT !.task[t].at = "busy"]
        <3>1. Sound(s') /\ Bracketed(s') # {}
            BY <2>1, <2>3, TaskAtFacts
        <3> QED
            BY <3>1 DEF Good, Unattended
    <2> QED
        BY <1>4, <1>5, <2>1, <2>2, <2>3
<1>9. ASSUME NEW t \in Tasks, PromptRetries(t)
      PROVE  Good(s')
    <2>1. s' = RunLoop(s, t, In(s, t)) /\ s.task[t].kind # "none"
        BY <1>9 DEF PromptRetries, Sound, Runner
    <2> QED
        BY <1>5, <2>1
<1>10. ASSUME NEW t \in Tasks, PromptGivesUp(t)
       PROVE  Good(s')
    <2> DEFINE own == s.task[t].own
               w == Move(s, In(s, t), "lost")
               x == Move(w, own, "nextTurn")
    <2>1. Sound(w) /\ w.task = s.task
        BY <1>3, OwnFacts, MoveFacts, MoveFields
    <2> HIDE DEF w
    <2>2. Sound(x) /\ x.task = s.task
        BY <1>3, <2>1, OwnFacts, MoveFacts, MoveFields
    <2>3. s' = EndInFlight(x, t) /\ s.task[t].at = "busy"
        BY <1>10 DEF PromptGivesUp, w
    <2> HIDE DEF x
    <2> QED
        BY <2>2, <2>3, EndFacts DEF Good
<1>11. ASSUME NEW t \in Tasks, AgentContinue(t)
       PROVE  Good(s')
    <2>1. s.task[t].kind = "continue" /\ s.task[t].at = "setup"
        BY <1>11 DEF AgentContinue
    <2>2. s' = EndInFlight(s, t) \/ \E S : s' = RunLoop(s, t, S)
        BY <1>11 DEF AgentContinue
    <2>3. CASE s' = EndInFlight(s, t)
        BY <2>1, <2>3, EndFacts DEF Good
    <2> QED
        BY <1>5, <2>1, <2>2, <2>3
<1>12. ASSUME NEW t \in Tasks, Settle(t)
       PROVE  Good(s')
    <2>1. s.task[t].at = "over"
        BY <1>12 DEF Settle
    <2>2. CASE s.task[t].kind = "flush"
        <3> DEFINE x == [Close(s, t) EXCEPT !.count = s.count]
        <3>1. s' = x
            BY <1>12, <2>2 DEF Settle, Close, Sound, Typed
        <3>2. s.count \in Nat /\ s.count <= s.count /\ t \notin Bracketed(s)
            BY <2>2 DEF Sound, Typed, Bracketed
        <3>3. /\ Sound(x) /\ x.at = s.at /\ x.run = s.run /\ x.suppressed = s.suppressed
              /\ x.tail = s.tail /\ Bracketed(x) = Bracketed(s) \ {t}
            BY <2>1, <3>2, CloseFacts
        <3> HIDE DEF x
        <3>4. Unattended(x) => Unattended(s)
            BY <3>2, <3>3 DEF Unattended
        <3>5. Clean(s) => Clean(x)
            BY <3>3 DEF Clean, In
        <3> QED
            BY <1>2, <3>1, <3>3, <3>4, <3>5 DEF Good
    <2>3. CASE s.task[t].kind # "flush"
        <3> DEFINE x == Move(s, In(s, t), "followUps")
        <3>1. Sound(x) /\ x.task = s.task
            BY <1>3, OwnFacts, MoveFacts, MoveFields
        <3>2. s' = EndInFlight(x, t)
            BY <1>12, <2>3 DEF Settle
        <3> HIDE DEF x
        <3> QED
            BY <2>1, <3>1, <3>2, EndFacts DEF Good
    <2> QED
        BY <2>2, <2>3
<1>13. CASE IdleFlush
    <2>1. CASE s' = s
        BY <1>1, <1>2, <2>1
    <2>2. CASE s' # s
        <3> DEFINE x == Open(s, "flush", "running", {})
                   t == Free(s)
        <3>1. ~IsStreaming(s) /\ HasFree(s) /\ s' = AgentPrompt(x, t, In(s, "staged"))
            BY <1>13, <2>2 DEF IdleFlush, HasRoom
        <3>2. /\ Sound(x) /\ x.run = s.run /\ t \in Tasks
              /\ x.task[t] = [kind |-> "flush", at |-> "running", stale |-> FALSE, own |-> {}]
            BY <3>1, OpenFlushFacts, FreeFacts
        <3> HIDE DEF x, t
        <3>3. x.task[t].kind # "none" /\ x.run.at = "off"
            BY <3>1, <3>2 DEF IsStreaming
        <3>4. s' = RunLoop(x, t, In(s, "staged"))
            BY <3>1, <3>3 DEF AgentPrompt
        <3>5. Sound(s') /\ s'.run.at # "off"
            BY <3>2, <3>3, <3>4, RunLoopFacts
        <3> QED
            BY <1>1, <3>5 DEF Good, Unattended
    <2> QED
        BY <2>1, <2>2
<1> QED
    BY <1>1, <1>7, <1>8, <1>9, <1>10, <1>11, <1>12, <1>13

LEMMA LoopSteps ==
    ASSUME Sound(s), Drained,
           \/ \E goesOn \in BOOLEAN : TurnEnds(goesOn)
           \/ LateSteering \/ LateAsides \/ LateFollowUps \/ RunEnds \/ RunFails
    PROVE  Sound(s') /\ Drained'
<1> SUFFICES Sound(s') /\ ~Unattended(s')
    BY DEF Drained
<1>1. ASSUME NEW S, NEW place \in {"history", "picked"}, s.run.at # "off",
             NEW at \in {"turn", "yield", "steered", "asided", "ending"},
             s' = [Move(s, S, place) EXCEPT !.run.at = at]
      PROVE  Sound(s') /\ ~Unattended(s')
    <2> DEFINE x == Move(s, S, place)
    <2>1. place \in PeerPlaces /\ place \in Places \cup Tasks
        BY DEF PeerPlaces, Places
    <2>2. Sound(x) /\ x.run = s.run
        BY <2>1, MoveFacts, MoveFields
    <2> HIDE DEF x
    <2>3. Sound(s') /\ s'.run.at # "off"
        BY <1>1, <2>2, RunAtFacts DEF x
    <2> QED
        BY <2>3 DEF Unattended
<1>2. ASSUME NEW goesOn \in BOOLEAN, TurnEnds(goesOn)
      PROVE  Sound(s') /\ ~Unattended(s')
    <2>1. PICK S : /\ s.run.at # "off"
                   /\ \/ s' = [Move(s, S, "history") EXCEPT !.run.at = "turn"]
                      \/ s' = [Move(s, S, "history") EXCEPT !.run.at = "yield"]
        BY <1>2 DEF TurnEnds
    <2> QED
        BY <1>1, <2>1
<1>3. CASE LateSteering
    BY <1>1, <1>3 DEF LateSteering
<1>4. CASE LateAsides
    BY <1>1, <1>4 DEF LateAsides
<1>5. CASE LateFollowUps
    <2>1. PICK S : /\ s.run.at # "off"
                   /\ \/ s' = [Move(s, S, "history") EXCEPT !.run.at = "ending"]
                      \/ s' = [Move(s, S, "history") EXCEPT !.run.at = "turn"]
        BY <1>5 DEF LateFollowUps
    <2> QED
        BY <1>1, <2>1
<1>6. CASE RunEnds \/ RunFails
    <2>1. s' = Off(s) /\ s.run.at # "off"
        BY <1>6 DEF RunEnds, RunFails
    <2> QED
        BY <2>1, OffFacts
<1> QED
    BY <1>2, <1>3, <1>4, <1>5, <1>6

LEMMA AbortSteps ==
    ASSUME Sound(s), Drained,
           (\E userInterrupt \in BOOLEAN : AbortStart(userInterrupt)) \/ AbortIdle \/ AbortEnd
    PROVE  Sound(s') /\ Drained'
<1>1. ASSUME NEW userInterrupt \in BOOLEAN, AbortStart(userInterrupt)
      PROVE  Sound(s') /\ Drained'
    <2> DEFINE r == [s.run EXCEPT !.aborted = s.run.at # "off"]
               tk == [t \in Tasks |-> [s.task[t] EXCEPT !.stale = s.task[t].kind # "none"]]
    <2>1. abort' # "no"
        BY <1>1 DEF AbortStart
    <2>2. s.run \in RunRecords /\ s.task \in [Tasks -> TaskRecords] /\ s.suppressed \in BOOLEAN
        BY DEF Sound, Typed
    <2>3. s' = [s EXCEPT !.suppressed = @ \/ userInterrupt, !.run = r, !.task = tk]
        BY <1>1 DEF AbortStart, Sound, Typed
    <2>4. r \in RunRecords /\ r.at = s.run.at /\ r.by = s.run.by /\ r.kind = s.run.kind
        BY <2>2 DEF RunRecords
    <2>5. ASSUME NEW t \in Tasks
          PROVE  /\ tk[t] \in TaskRecords /\ tk[t].kind = s.task[t].kind
                 /\ tk[t].at = s.task[t].at /\ tk[t].own = s.task[t].own
        BY <2>2 DEF TaskRecords
    <2>6. tk \in [Tasks -> TaskRecords]
        BY <2>5
    <2> HIDE DEF r, tk
    <2>7. /\ s'.run = r /\ s'.task = tk /\ s'.at = s.at /\ s'.count = s.count
        BY <2>3 DEF Sound, Typed
    <2>8. Typed(s')
        BY <2>2, <2>3, <2>4, <2>6 DEF Sound, Typed
    <2>9. Runner(s')
        BY <2>4, <2>5, <2>7 DEF Sound, Runner
    <2>10. Bracketed(s') = Bracketed(s)
        BY <2>5, <2>7 DEF Bracketed
    <2>11. Counted(s') /\ Peers(s')
        BY <2>5, <2>7, <2>10 DEF Sound, Counted, Peers
    <2> QED
        BY <2>1, <2>8, <2>9, <2>11 DEF Sound, Drained
<1>2. CASE AbortIdle
    BY <1>2 DEF AbortIdle, Drained
<1>3. CASE AbortEnd
    <2> DEFINE x == [s EXCEPT !.count = 0]
    <2>1. /\ HasRoom(x) /\ s' = ResumeStrandedIrcAsides(ScheduleQueuedMessageDrain(x))
          /\ accepted' = accepted
        BY <1>3 DEF AbortEnd
    <2>2. Typed(x) /\ x.run = s.run /\ x.task = s.task /\ x.at = s.at /\ x.count = 0
        BY DEF Sound, Typed
    <2> HIDE DEF x
    <2>3. Bracketed(x) = Bracketed(s)
        BY <2>2 DEF Bracketed
    <2>4. Cardinality(Bracketed(s)) \in Nat
        BY BracketedFacts
    <2>5. Sound(x)
        BY <2>2, <2>3, <2>4 DEF Sound, Runner, Counted, Peers
    <2>6. Sound(s') /\ (Unattended(s') => Clean(s'))
        BY <2>1, <2>5, ResumeFacts
    <2> QED
        BY <2>1, <2>6 DEF Drained, Clean
<1> QED
    BY <1>1, <1>2, <1>3

LEMMA RestStep ==
    ASSUME Rest, [Next]_vars
    PROVE  Rest'
<1> USE DEF Rest
<1>1. ASSUME Untimed
      PROVE  Rest'
    BY <1>1 DEF Untimed
<1>2. CASE \E m \in Msgs : \/ ReceiveUserMessage(m) \/ QueueUserMessage(m)
                           \/ DeliverIrcMessage(m)
                           \/ \E trigger \in BOOLEAN : QueueHiddenNextTurnMessage(m, trigger)
    BY <1>1, <1>2 DEF ReceiveUserMessage, QueueUserMessage, DeliverIrcMessage,
                      QueueHiddenNextTurnMessage
<1>3. CASE \E m \in Msgs : EnqueueResult(m)
    BY <1>3 DEF EnqueueResult
<1>4. CASE Prompt
    BY <1>4, BoundAssumption DEF Prompt
<1>4a. CASE PromptBegins
    BY <1>4a DEF PromptBegins
<1>5. CASE \E t \in Tasks : \/ PromptTakesNextTurn(t) \/ PromptAgent(t)
                            \/ PromptRetries(t) \/ PromptGivesUp(t)
                            \/ AgentContinue(t) \/ Settle(t)
    BY <1>1, <1>5 DEF PromptTakesNextTurn, PromptAgent, PromptRetries, PromptGivesUp,
                      AgentContinue, Settle
<1>6. CASE \/ \E goesOn \in BOOLEAN : TurnEnds(goesOn)
           \/ LateSteering \/ LateAsides \/ LateFollowUps \/ RunEnds \/ RunFails
    BY <1>1, <1>6 DEF TurnEnds, LateSteering, LateAsides, LateFollowUps, RunEnds, RunFails
<1>7. CASE IdleFlush
    BY <1>7 DEF IdleFlush
<1>8. CASE \E userInterrupt \in BOOLEAN : AbortStart(userInterrupt)
    <2>1. idleFlush' \in [timer : BOOLEAN, pending : BOOLEAN]
        BY <1>8 DEF AbortStart
    <2>2. aborts' \in 0..MaxAborts /\ prompts' \in 0..MaxPrompts
        BY <1>8, BoundAssumption DEF AbortStart
    <2>3. /\ abort' \in {"no", "draining", "idle"} /\ accepted' \in 0..prompts'
          /\ overtaken' \subseteq Msgs
        BY <1>8 DEF AbortStart, In
    <2> QED
        BY <2>1, <2>2, <2>3
<1>9. CASE AbortIdle \/ AbortEnd
    BY <1>9 DEF AbortIdle, AbortEnd
<1>10. CASE UNCHANGED vars
    BY <1>10 DEF vars
<1> QED
    BY <1>2, <1>3, <1>4, <1>4a, <1>5, <1>6, <1>7, <1>8, <1>9, <1>10 DEF Next

LEMMA InitInv == Init => IInv
<1> SUFFICES ASSUME Init
             PROVE  IInv
    OBVIOUS
<1>1. Typed(s)
    BY DEF Init, Typed, Places, RunRecords, TaskRecords, Kinds, NotOpen
<1>2. Runner(s) /\ Peers(s)
    BY DEF Init, Runner, Peers, PeerPlaces, NoPeers, NotOpen
<1>3. Bracketed(s) = {}
    BY DEF Init, Bracketed, NotOpen
<1>4. Counted(s)
    <2>1. Cardinality(Bracketed(s)) = 0
        BY <1>3, FS_EmptySet
    <2> QED
        BY <2>1 DEF Init, Counted
<1>5. Clean(s)
    BY DEF Init, Clean, In
<1>6. Rest
    BY BoundAssumption DEF Init, Rest
<1> QED
    BY <1>1, <1>2, <1>4, <1>5, <1>6 DEF IInv, Sound, Drained

\* Every state of a run satisfies IInv.
THEOREM Invariant == Spec => []IInv
<1>1. IInv /\ [Next]_vars => IInv'
    <2> SUFFICES ASSUME IInv, [Next]_vars
                 PROVE  IInv'
        OBVIOUS
    <2>1. Rest'
        BY RestStep DEF IInv
    <2>2. Sound(s') /\ Drained'
        <3>1. Sound(s) /\ Drained
            BY DEF IInv
        <3>2. CASE UNCHANGED vars
            BY <3>1, <3>2 DEF vars, Drained, Clean
        <3> QED
            BY <3>1, <3>2, ArrivalSteps, PromptSteps, TaskSteps, LoopSteps, AbortSteps
               DEF IInv, Next
    <2> QED
        BY <2>1, <2>2 DEF IInv
<1> QED
    BY <1>1, InitInv, PTL DEF Spec

\* Types, and that #promptInFlightCount never goes below zero nor beyond the
\* tasks there are, though an abort resets it in the middle of them.
THEOREM TypeCorrect == Spec => []TypeOK
<1>1. IInv => TypeOK
    <2> SUFFICES ASSUME IInv
                 PROVE  TypeOK
        OBVIOUS
    <2>1. s.count \in 0..Cardinality(Tasks)
        <3>1. /\ Cardinality(Bracketed(s)) \in Nat /\ s.count \in Nat
              /\ Cardinality(Bracketed(s)) <= Cardinality(Tasks)
            BY BracketedFacts DEF IInv
        <3>2. s.count <= Cardinality(Bracketed(s))
            BY DEF IInv, Sound, Counted
        <3>3. Cardinality(Tasks) \in Nat
            BY TaskAssumption, FS_CardinalityType
        <3> QED
            BY <3>1, <3>2, <3>3
    <2>2. accepted \in 0..MaxPrompts
        BY BoundAssumption DEF IInv, Rest
    <2> QED
        BY <2>1, <2>2 DEF IInv, Sound, Typed, Rest, TypeOK, RunRecords, TaskRecords, Kinds
<1> QED
    BY <1>1, Invariant, PTL

\* Whenever the session has settled, no steer and no peer's message waits for
\* a poll that will not come, and a follow-up waits only for the user, who may
\* be resuming already.
THEOREM NothingStrandedHolds == Spec => []NothingStranded
<1>1. IInv => NothingStranded
    <2> SUFFICES ASSUME IInv, AtRest
                 PROVE  /\ In(s, "steering") = {} /\ In(s, "asides") = {}
                        /\ In(s, "followUps") # {} => s.suppressed \/ ~s.tail \/ UserResumes
        BY DEF NothingStranded
    <2>1. Bracketed(s) = {}
        BY DEF AtRest, Bracketed
    <2>2. Clean(s)
        BY <2>1 DEF IInv, Drained, Unattended, AtRest
    <2> QED
        BY <2>2 DEF Clean, UserResumes
<1> QED
    BY <1>1, Invariant, PTL

\* A peer's message that was accepted is never dropped, whatever aborts,
\* supersedes or outwaits the turns that carry the others.
THEOREM PeerNeverLostHolds == Spec => []PeerNeverLost
<1>1. IInv => PeerNeverLost
    BY DEF IInv, Sound, Peers, PeerPlaces, PeerNeverLost
<1> QED
    BY <1>1, Invariant, PTL

-----------------------------------------------------------------------------
(* Follow-ups across a wake, for one peer's message. *)

\* One message at most is a peer's.
OnePeer == \A m, n \in Msgs : Kind[m] = "irc" /\ Kind[n] = "irc" => m = n

\* A user's interrupt is in effect, and nobody steered.
Calm(x) ==
    x.suppressed /\ \A m \in Msgs : Kind[m] = "steer" => x.at[m] \in {"unsent", "preparing"}

\* What waits where; a follow-up is with a task only while a wake parks it.
Placed(x) == \A m \in Msgs :
    /\ x.at[m] = "preparing" => Kind[m] \in {"steer", "followUp"}
    /\ x.at[m] = "steering" => Kind[m] = "steer"
    /\ x.at[m] = "asides" => Kind[m] = "irc"
    /\ x.at[m] = "nextTurn" => Kind[m] = "deferred"
    /\ Kind[m] = "followUp" => \A t \in Tasks : x.at[m] = t => x.task[t].kind = "wake"
Owned(x) == \A t \in Tasks : \A m \in x.task[t].own : Kind[m] = "deferred"

\* The peer's message is answered once, by one wake.
Wakes(x) ==
    /\ \A t, u \in Tasks : x.task[t].kind = "wake" /\ x.task[u].kind = "wake" => t = u
    /\ \A t \in Tasks : x.task[t].kind = "wake" =>
           /\ x.task[t].at \in {"running", "over"}
           /\ \A m \in Msgs : Kind[m] = "irc" => x.at[m] = "history"

\* A wake runs with the follow-ups out of its reach, but for those in preparation
\* when the user interrupted.
Spared(x) ==
    Calm(x) /\ x.run.at # "off" /\ x.run.kind = "wake" /\ ~x.run.aborted =>
        \A m \in Msgs : Kind[m] = "followUp" /\ x.at[m] = "followUps" => m \in overtaken

\* While an interrupt is in effect, nothing else is in preparation.
Barred(x) == x.suppressed => In(x, "preparing") \subseteq overtaken

Apart(x) == Placed(x) /\ Owned(x) /\ Wakes(x) /\ Spared(x) /\ Barred(x)

\* No follow-up enters the history between x and y.
Unheard(x, y) == \A m \in Msgs : Kind[m] = "followUp" /\ y.at[m] = "history" => x.at[m] = "history"

LEMMA MoveAt ==
    ASSUME NEW x, Sound(x), NEW S, NEW place
    PROVE  \A m \in Msgs : Move(x, S, place).at[m] = IF m \in S THEN place ELSE x.at[m]
BY DEF Move, Sound, Typed

\* What the helpers leave alone.
LEMMA BeginFrame ==
    ASSUME NEW x, Sound(x), HasFree(x), NEW kind, NEW at, NEW own
    PROVE  LET y == BeginInFlight(Open(x, kind, at, own))
           IN  /\ y.at = x.at /\ y.run = x.run /\ y.suppressed = x.suppressed
               /\ y.task = [x.task EXCEPT ![Free(x)] =
                               [kind |-> kind, at |-> at, stale |-> FALSE, own |-> own]]
BY DEF BeginInFlight, Open, Sound, Typed

LEMMA CloseFrame ==
    ASSUME NEW x, Sound(x), NEW t \in Tasks, NEW n
    PROVE  LET y == [Close(x, t) EXCEPT !.count = n]
           IN  /\ y.at = x.at /\ y.run = x.run /\ y.suppressed = x.suppressed
               /\ y.task = [x.task EXCEPT ![t] = NotOpen]
BY DEF Close, Sound, Typed

\* y is x with a run of t started on the messages of S.
Started(x, y, t, S) ==
    /\ \A m \in Msgs :
           y.at[m] = IF m \in S \/ x.at[m] = "steering" THEN "history" ELSE x.at[m]
    /\ y.run.at = "turn" /\ y.run.kind = x.task[t].kind /\ ~y.run.aborted
    /\ y.suppressed = x.suppressed
    /\ \A u \in Tasks : y.task[u].kind = x.task[u].kind /\ y.task[u].own = x.task[u].own
    /\ \A u \in Tasks : u # t => y.task[u] = x.task[u]
    /\ y.task[t].at = "running"

LEMMA RunLoopFrame ==
    ASSUME NEW x, Sound(x), NEW t \in Tasks, NEW S
    PROVE  Started(x, RunLoop(x, t, S), t, S)
<1> DEFINE w == Move(x, S \cup In(x, "steering"), "history")
           r == [at |-> "turn", by |-> t, kind |-> x.task[t].kind, aborted |-> FALSE]
           f == [x.task EXCEPT ![t].at = "running"]
           y == RunLoop(x, t, S)
<1>1. /\ w.task = x.task /\ w.suppressed = x.suppressed /\ Typed(x)
      /\ w = [x EXCEPT !.at = w.at]
    BY MoveFields DEF Sound, Move
<1>2. \A m \in Msgs : w.at[m] = IF m \in S \/ x.at[m] = "steering" THEN "history" ELSE x.at[m]
    BY MoveAt DEF In
<1> HIDE DEF w
<1>3. y = [w EXCEPT !.run = r, !.task = f]
    BY <1>1 DEF RunLoop, w, Typed
<1>4. r.at = "turn" /\ r.kind = x.task[t].kind /\ ~r.aborted
    OBVIOUS
<1>5. /\ \A u \in Tasks : f[u].kind = x.task[u].kind /\ f[u].own = x.task[u].own
      /\ \A u \in Tasks : u # t => f[u] = x.task[u]
      /\ f[t].at = "running"
    <2>1. x.task \in [Tasks -> TaskRecords] /\ x.task[t] \in TaskRecords
        BY <1>1 DEF Typed
    <2>2. f[t] = [x.task[t] EXCEPT !.at = "running"] /\ \A u \in Tasks : u # t => f[u] = x.task[u]
        BY <2>1
    <2>3. f[t].kind = x.task[t].kind /\ f[t].own = x.task[t].own /\ f[t].at = "running"
        BY <2>1, <2>2 DEF TaskRecords
    <2> QED
        BY <2>2, <2>3
<1> HIDE DEF y, r, f
<1>6. y.at = w.at /\ y.run = r /\ y.suppressed = w.suppressed /\ y.task = f
    BY <1>1, <1>3 DEF Typed
<1>7. y.run.at = "turn" /\ y.run.kind = x.task[t].kind /\ ~y.run.aborted
    BY <1>4, <1>6
<1>8. \A m \in Msgs : y.at[m] = IF m \in S \/ x.at[m] = "steering" THEN "history" ELSE x.at[m]
    BY <1>2, <1>6
<1> QED
    BY <1>1, <1>5, <1>6, <1>7, <1>8 DEF Started, y

-----------------------------------------------------------------------------

\* Messages change their place.
LEMMA ApartMove ==
    ASSUME NEW x, Sound(x), Apart(x), NEW S, NEW place \in Places \cup Tasks,
           place # "unsent", place = "preparing" => ~x.suppressed,
           \A m \in S \cap Msgs :
               /\ place = "preparing" => Kind[m] \in {"steer", "followUp"}
               /\ place = "steering" => Kind[m] = "steer"
               /\ place = "asides" => Kind[m] = "irc"
               /\ place = "nextTurn" => Kind[m] = "deferred"
               /\ place \in Tasks => Kind[m] # "followUp"
               /\ Kind[m] = "irc" => place = "history" \/ x.at[m] # "history",
           \/ place # "followUps"
           \/ ~Calm(x) \/ x.run.at = "off" \/ x.run.kind # "wake" \/ x.run.aborted
           \/ \A m \in S \cap Msgs : Kind[m] = "followUp" => m \in overtaken
    PROVE  Apart(Move(x, S, place))
<1> DEFINE y == Move(x, S, place)
<1>0. \A m \in Msgs : y.at[m] = IF m \in S THEN place ELSE x.at[m]
    BY MoveAt
<1>1. y.run = x.run /\ y.task = x.task /\ y.suppressed = x.suppressed
    BY MoveFields
<1> HIDE DEF y
<1>2. Placed(y)
    <2> SUFFICES ASSUME NEW m \in Msgs
                 PROVE  /\ y.at[m] = "preparing" => Kind[m] \in {"steer", "followUp"}
                        /\ y.at[m] = "steering" => Kind[m] = "steer"
                        /\ y.at[m] = "asides" => Kind[m] = "irc"
                        /\ y.at[m] = "nextTurn" => Kind[m] = "deferred"
                        /\ Kind[m] = "followUp" =>
                               \A t \in Tasks : y.at[m] = t => y.task[t].kind = "wake"
        BY DEF Placed
    <2>1. CASE m \in S
        BY <1>0, <1>1, <2>1
    <2>2. CASE m \notin S
        BY <1>0, <1>1, <2>2 DEF Apart, Placed
    <2> QED
        BY <2>1, <2>2
<1>3. Owned(y)
    BY <1>1 DEF Apart, Owned
<1>4. Wakes(y)
    <2>1. \A t \in Tasks : x.task[t].kind = "wake" =>
              \A m \in Msgs : Kind[m] = "irc" => y.at[m] = "history"
        BY <1>0 DEF Apart, Wakes
    <2> QED
        BY <1>1, <2>1 DEF Apart, Wakes
<1>5. Calm(y) => Calm(x)
    BY <1>0, <1>1 DEF Calm
<1>6. Spared(y)
    BY <1>0, <1>1, <1>5 DEF Apart, Spared
<1>7. Barred(y)
    BY <1>0, <1>1 DEF Apart, Barred, In
<1> QED
    BY <1>2, <1>3, <1>4, <1>6, <1>7 DEF Apart, y

\* Messages stay and every task is what it was.
LEMMA TasksSame ==
    ASSUME NEW x, Apart(x), NEW y, \A m \in Msgs : y.at[m] = x.at[m],
           \A t \in Tasks : /\ y.task[t].kind = x.task[t].kind /\ y.task[t].own = x.task[t].own
                            /\ \/ y.task[t].at = x.task[t].at \/ y.task[t].at \in {"running", "over"}
                               \/ y.task[t].kind # "wake"
    PROVE  Placed(y) /\ Owned(y) /\ Wakes(y)
<1>1. Placed(y)
    BY DEF Apart, Placed
<1>2. Owned(y)
    BY DEF Apart, Owned
<1>3. Wakes(y)
    BY DEF Apart, Wakes
<1> QED
    BY <1>1, <1>2, <1>3

LEMMA ApartSame ==
    ASSUME NEW x, Apart(x), NEW y, \A m \in Msgs : y.at[m] = x.at[m],
           \A t \in Tasks : /\ y.task[t].kind = x.task[t].kind /\ y.task[t].own = x.task[t].own
                            /\ \/ y.task[t].at = x.task[t].at \/ y.task[t].at \in {"running", "over"}
                               \/ y.task[t].kind # "wake",
           y.suppressed => x.suppressed, Spared(y)
    PROVE  Apart(y)
<1>1. Placed(y) /\ Owned(y) /\ Wakes(y)
    BY TasksSame
<1>2. Barred(y)
    BY DEF Apart, Barred, In
<1> QED
    BY <1>1, <1>2 DEF Apart

\* A task that is no wake opens or closes.
LEMMA ApartTask ==
    ASSUME NEW x, Apart(x), NEW y, y.at = x.at, y.run = x.run, y.suppressed = x.suppressed,
           NEW t \in Tasks, \A u \in Tasks : u # t => y.task[u] = x.task[u],
           \A m \in y.task[t].own : Kind[m] = "deferred", y.task[t].kind # "wake",
           \A m \in Msgs : Kind[m] = "followUp" => x.at[m] # t
    PROVE  Apart(y)
<1>1. Placed(y)
    BY DEF Apart, Placed
<1>2. Owned(y)
    BY DEF Apart, Owned
<1>3. Wakes(y)
    <2>1. \A u \in Tasks : y.task[u].kind = "wake" => u # t /\ x.task[u].kind = "wake"
        OBVIOUS
    <2> QED
        BY <2>1 DEF Apart, Wakes
<1>4. Spared(y)
    BY DEF Apart, Spared, Calm
<1>5. Barred(y)
    BY DEF Apart, Barred, In
<1> QED
    BY <1>1, <1>2, <1>3, <1>4, <1>5 DEF Apart

LEMMA ApartHistory ==
    ASSUME NEW x, Sound(x), Apart(x), NEW S
    PROVE  Apart(Move(x, S, "history"))
<1> DEFINE place == "history"
<1>1. /\ place \in Places \cup Tasks /\ place \notin Tasks /\ place # "unsent"
      /\ place # "preparing" /\ place # "followUps" /\ place # "steering" /\ place # "asides"
      /\ place # "nextTurn"
      /\ place = "history"
    BY TaskAssumption DEF Places
<1> HIDE DEF place
<1>2. Apart(Move(x, S, place))
    BY <1>1, ApartMove
<1> QED
    BY <1>2 DEF place

\* A run that is not a wake's starts.
LEMMA ApartRunLoop ==
    ASSUME NEW x, Sound(x), Apart(x), NEW t \in Tasks, x.task[t].kind # "wake", NEW S
    PROVE  LET y == RunLoop(x, t, S) IN Apart(y) /\ y.run.kind # "wake"
<1> DEFINE w == Move(x, S \cup In(x, "steering"), "history")
           y == RunLoop(x, t, S)
<1>1. w.task = x.task /\ w.suppressed = x.suppressed
    BY MoveFields
<1>2. Apart(w)
    BY ApartHistory
<1>3. Started(x, y, t, S)
    BY RunLoopFrame
<1>4. \A m \in Msgs : w.at[m] = IF m \in S \/ x.at[m] = "steering" THEN "history" ELSE x.at[m]
    BY MoveAt DEF In
<1> HIDE DEF w, y
<1>5. Spared(y)
    BY <1>3 DEF Spared, Started
<1>6. Apart(y)
    BY <1>1, <1>2, <1>3, <1>4, <1>5, ApartSame DEF Started
<1> QED
    BY <1>3, <1>6 DEF Started, y

\* Asides are recorded.
LEMMA ApartFlush ==
    ASSUME NEW x, Sound(x), Apart(x)
    PROVE  LET y == FlushPendingIrcAsides(x) IN Apart(y) /\ Unheard(x, y)
<1> DEFINE w == Move(x, In(x, "asides"), "history")
           y == [w EXCEPT !.tail = FALSE]
<1>1. "history" \in Places \cup Tasks /\ "history" \in PeerPlaces
    BY DEF Places, PeerPlaces
<1>2. Apart(w) /\ Sound(w)
    BY <1>1, ApartHistory, MoveFacts
<1>3. \A m \in Msgs : w.at[m] = IF m \in In(x, "asides") THEN "history" ELSE x.at[m]
    BY MoveAt
<1> HIDE DEF w
<1>4. y.at = w.at /\ y.task = w.task /\ y.run = w.run /\ y.suppressed = w.suppressed
    BY <1>2 DEF Sound, Typed
<1> HIDE DEF y
<1>5. Apart(y)
    BY <1>2, <1>4, ApartSame DEF Apart, Spared, Calm
<1>6. Unheard(x, y)
    BY <1>3, <1>4 DEF Unheard, In, Apart, Placed
<1>7. Unheard(x, x)
    BY DEF Unheard
<1> QED
    BY <1>5, <1>6, <1>7 DEF FlushPendingIrcAsides, w, y

\* The wake for the peer's message: nobody had been woken before, and what an
\* interrupt holds back is parked with the wake.
LEMMA ApartWake ==
    ASSUME OnePeer, NEW x, Sound(x), Apart(x), HasFree(x), x.run.at = "off",
           NEW S, S \subseteq Msgs, S # {},
           \A m \in S : Kind[m] = "irc" /\ x.at[m] # "history"
    PROVE  LET y == WakeForIrc(x, S) IN Apart(y) /\ Unheard(x, y)
<1> DEFINE t == Free(x)
           parks == /\ In(x, "steering") = {}
                    /\ ~CanAutoContinue(x)
           p == IF parks THEN Move(x, In(x, "followUps"), t) ELSE x
           z == BeginInFlight(Open(p, "wake", "running", {}))
           y == WakeForIrc(x, S)
<1>1. t \in Tasks /\ x.task[t].kind = "none"
    BY FreeFacts
<1>2. /\ \A m \in Msgs : p.at[m] = IF parks /\ x.at[m] = "followUps" THEN t ELSE x.at[m]
      /\ p.task = x.task /\ p.run = x.run /\ p.suppressed = x.suppressed /\ Sound(p)
    <2>1. NoPeers(In(x, "followUps"))
        BY QueuedFacts DEF PeerPlaces
    <2>2. CASE parks
        <3>1. Sound(Move(x, In(x, "followUps"), t))
            BY <1>1, <2>1, MoveFacts
        <3> QED
            BY <2>2, <3>1, MoveFields, MoveAt DEF In
    <2>3. CASE ~parks
        BY <2>3 DEF Sound, Typed
    <2> QED
        BY <2>2, <2>3
<1>3. y = AgentPrompt(z, t, S)
    BY DEF WakeForIrc
<1>4. Calm(x) => parks
    BY DEF Calm, Apart, Placed, CanAutoContinue, In
<1> HIDE DEF p, parks
<1>5. HasFree(p) /\ Free(p) = t
    BY <1>2 DEF HasFree, Free
<1> HIDE DEF t
<1>6. /\ Sound(z) /\ z.at = p.at /\ z.run = p.run /\ z.suppressed = p.suppressed
      /\ z.task = [x.task EXCEPT ![t] =
                      [kind |-> "wake", at |-> "running", stale |-> FALSE, own |-> {}]]
    <2>1. "wake" \in Kinds \ {"none", "flush"} /\ "running" \in {"setup", "running"}
          /\ {} \in SUBSET Msgs /\ NoPeers({})
        BY DEF Kinds, NoPeers
    <2>2. Sound(z)
        BY <1>2, <1>5, <2>1, BeginFacts
    <2> QED
        BY <1>2, <1>5, <2>2, BeginFrame
<1> HIDE DEF z
<1>7. y = RunLoop(z, t, S)
    BY <1>2, <1>3, <1>6 DEF AgentPrompt
<1> HIDE DEF y
<1>8. x.task \in [Tasks -> TaskRecords]
    BY DEF Sound, Typed
<1>9. /\ z.task[t] = [kind |-> "wake", at |-> "running", stale |-> FALSE, own |-> {}]
      /\ \A u \in Tasks : u # t => z.task[u] = x.task[u]
    BY <1>1, <1>6, <1>8
<1>a. Started(z, y, t, S)
    BY <1>1, <1>6, <1>7, RunLoopFrame
<1>10. /\ y.task[t].kind = "wake" /\ y.task[t].at = "running" /\ y.task[t].own = {}
       /\ \A u \in Tasks : u # t => y.task[u] = x.task[u]
    BY <1>1, <1>9, <1>a DEF Started
<1>11. /\ y.run.kind = "wake" /\ y.suppressed = x.suppressed
       /\ \A m \in Msgs : y.at[m] =
              IF m \in S \cup In(z, "steering") THEN "history" ELSE p.at[m]
    BY <1>1, <1>2, <1>6, <1>9, <1>a DEF In, Started
<1>12. \A m \in Msgs : p.at[m] = "steering" <=> x.at[m] = "steering"
    BY <1>1, <1>2, TaskAssumption DEF Places
<1>13. \A m \in In(z, "steering") : m \in Msgs /\ Kind[m] = "steer" /\ x.at[m] = "steering"
    BY <1>6, <1>12 DEF In, Apart, Placed
<1>14. \A u \in Tasks : x.task[u].kind # "wake"
    BY DEF Apart, Wakes
<1>15. \A m \in Msgs : Kind[m] = "irc" => m \in S
    BY DEF OnePeer
<1>16. \A u \in Tasks : u \notin Places
    BY TaskAssumption
<1>17. Placed(y)
    <2> SUFFICES ASSUME NEW m \in Msgs
                 PROVE  /\ y.at[m] = "preparing" => Kind[m] \in {"steer", "followUp"}
                        /\ y.at[m] = "steering" => Kind[m] = "steer"
                        /\ y.at[m] = "asides" => Kind[m] = "irc"
                        /\ y.at[m] = "nextTurn" => Kind[m] = "deferred"
                        /\ Kind[m] = "followUp" =>
                               \A u \in Tasks : y.at[m] = u => y.task[u].kind = "wake"
        BY DEF Placed
    <2>1. CASE y.at[m] = "history"
        BY <1>16, <2>1 DEF Places
    <2>2. CASE y.at[m] = t
        BY <1>1, <1>10, <1>16, <2>2 DEF Places
    <2>3. CASE y.at[m] # "history" /\ y.at[m] # t
        <3>1. y.at[m] = x.at[m]
            BY <1>2, <1>11, <2>3
        <3> QED
            BY <1>10, <2>3, <3>1 DEF Apart, Placed
    <2> QED
        BY <2>1, <2>2, <2>3
<1>18. Owned(y)
    BY <1>10 DEF Apart, Owned
<1>19. Wakes(y)
    <2>1. \A u \in Tasks : y.task[u].kind = "wake" => u = t
        BY <1>10, <1>14
    <2>2. \A m \in Msgs : Kind[m] = "irc" => y.at[m] = "history"
        BY <1>11, <1>15
    <2> QED
        BY <1>10, <2>1, <2>2 DEF Wakes
<1>20. Calm(y) => Calm(x)
    <2> SUFFICES ASSUME NEW m \in Msgs, y.at[m] \in {"unsent", "preparing"}
                 PROVE  x.at[m] \in {"unsent", "preparing"}
        BY <1>11 DEF Calm
    <2>1. t \notin {"unsent", "preparing"}
        BY <1>1, <1>16 DEF Places
    <2> QED
        BY <1>2, <1>11, <2>1
<1>21. Spared(y)
    <2> SUFFICES ASSUME Calm(x), NEW m \in Msgs, y.at[m] = "followUps"
                 PROVE  FALSE
        BY <1>20 DEF Spared
    <2>1. p.at[m] = "followUps"
        BY <1>11
    <2>2. t # "followUps"
        BY <1>1, <1>16 DEF Places
    <2> QED
        BY <1>2, <1>4, <2>1, <2>2
<1>22. Unheard(x, y)
    <2> SUFFICES ASSUME NEW m \in Msgs, Kind[m] = "followUp", y.at[m] = "history"
                 PROVE  x.at[m] = "history"
        BY DEF Unheard
    <2>1. m \notin S \cup In(z, "steering")
        BY <1>13
    <2>2. t # "history"
        BY <1>1, <1>16 DEF Places
    <2> QED
        BY <1>2, <1>11, <2>1, <2>2
<1>23. Barred(y)
    <2>1. t # "preparing"
        BY <1>1, <1>16 DEF Places
    <2>2. In(y, "preparing") \subseteq In(x, "preparing")
        BY <1>2, <1>11, <2>1 DEF In
    <2> QED
        BY <1>11, <2>2 DEF Apart, Barred
<1> QED
    BY <1>17, <1>18, <1>19, <1>21, <1>22, <1>23 DEF Apart, y

\* What is heard along two changes was heard in one of them.
LEMMA UnheardTrans ==
    ASSUME NEW x, NEW y, NEW z, Unheard(x, y), Unheard(y, z)
    PROVE  Unheard(x, z)
BY DEF Unheard

LEMMA UnheardMove ==
    ASSUME NEW x, Sound(x), NEW S, NEW place, place # "history"
    PROVE  Unheard(x, Move(x, S, place))
<1>1. \A m \in Msgs : Move(x, S, place).at[m] = IF m \in S THEN place ELSE x.at[m]
    BY MoveAt
<1> QED
    BY <1>1 DEF Unheard

\* A task opens that is no wake.
LEMMA ApartBegin ==
    ASSUME NEW x, Sound(x), Apart(x), HasFree(x), NEW kind, kind # "wake", NEW at,
           NEW own, \A m \in own : Kind[m] = "deferred"
    PROVE  LET y == BeginInFlight(Open(x, kind, at, own)) IN Apart(y) /\ Unheard(x, y)
<1> DEFINE y == BeginInFlight(Open(x, kind, at, own))
           t == Free(x)
           r == [kind |-> kind, at |-> at, stale |-> FALSE, own |-> own]
<1>1. /\ y.at = x.at /\ y.run = x.run /\ y.suppressed = x.suppressed
      /\ y.task = [x.task EXCEPT ![t] = r]
    BY BeginFrame
<1>2. t \in Tasks /\ x.task[t].kind = "none" /\ x.task \in [Tasks -> TaskRecords]
    BY FreeFacts DEF Sound, Typed
<1>3. r.own = own /\ r.kind = kind
    OBVIOUS
<1> HIDE DEF y, t, r
<1>4. y.task[t] = r /\ \A u \in Tasks : u # t => y.task[u] = x.task[u]
    BY <1>1, <1>2
<1>5. \A m \in Msgs : Kind[m] = "followUp" => x.at[m] # t
    BY <1>2 DEF Apart, Placed
<1>6. Apart(y)
    BY <1>1, <1>2, <1>3, <1>4, <1>5, ApartTask
<1> QED
    BY <1>1, <1>6 DEF Unheard, y

LEMMA ApartClose ==
    ASSUME NEW x, Sound(x), Apart(x), NEW t \in Tasks, NEW n,
           \A m \in Msgs : Kind[m] = "followUp" => x.at[m] # t
    PROVE  LET y == [Close(x, t) EXCEPT !.count = n] IN Apart(y) /\ Unheard(x, y)
<1> DEFINE y == [Close(x, t) EXCEPT !.count = n]
<1>1. /\ y.at = x.at /\ y.run = x.run /\ y.suppressed = x.suppressed
      /\ y.task = [x.task EXCEPT ![t] = NotOpen]
    BY CloseFrame
<1> HIDE DEF y
<1>2. y.task[t] = NotOpen /\ \A u \in Tasks : u # t => y.task[u] = x.task[u]
    BY <1>1 DEF Sound, Typed
<1>3. y.task[t].kind # "wake" /\ \A m \in y.task[t].own : Kind[m] = "deferred"
    BY <1>2 DEF NotOpen
<1>4. /\ y.at = x.at /\ y.run = x.run /\ y.suppressed = x.suppressed
      /\ \A u \in Tasks : u # t => y.task[u] = x.task[u]
    BY <1>1, <1>2
<1>5. Apart(y)
    BY <1>3, <1>4, ApartTask
<1> QED
    BY <1>1, <1>5 DEF Unheard, y

\* The drain of what is stranded.
LEMMA ApartSchedule ==
    ASSUME NEW x, Sound(x), Apart(x), HasRoom(x)
    PROVE  LET y == ScheduleQueuedMessageDrain(x) IN Apart(y) /\ Unheard(x, y)
<1>1. CASE CanAutoContinue(x) /\ HasQueued(x)
    <2>1. HasFree(x)
        BY <1>1 DEF HasRoom, CanAutoContinue
    <2>2. "continue" # "wake" /\ \A m \in {} : Kind[m] = "deferred"
        OBVIOUS
    <2> DEFINE y == BeginInFlight(Open(x, "continue", "setup", {}))
    <2>3. Apart(y) /\ Unheard(x, y)
        BY <2>1, <2>2, ApartBegin
    <2> QED
        BY <1>1, <2>3 DEF ScheduleQueuedMessageDrain
<1>2. CASE ~(CanAutoContinue(x) /\ HasQueued(x))
    BY <1>2 DEF ScheduleQueuedMessageDrain, Unheard
<1> QED
    BY <1>1, <1>2

LEMMA ApartResume ==
    ASSUME OnePeer, NEW x, Sound(x), Apart(x), HasRoom(x)
    PROVE  LET y == ResumeStrandedIrcAsides(ScheduleQueuedMessageDrain(x))
           IN  Apart(y) /\ Unheard(x, y)
<1> DEFINE w == ScheduleQueuedMessageDrain(x)
           y == ResumeStrandedIrcAsides(w)
<1>1. \/ w = x /\ ~(CanAutoContinue(x) /\ HasQueued(x))
      \/ w.count > 0
    BY ScheduleFacts
<1>2. Apart(w) /\ Unheard(x, w)
    BY ApartSchedule
<1> HIDE DEF w
<1>3. CASE y = w
    BY <1>2, <1>3 DEF w
<1>4. CASE y # w
    <2>1. ~IsStreaming(w) /\ In(w, "asides") # {} /\ y = WakeForIrc(w, In(w, "asides"))
        BY <1>4 DEF ResumeStrandedIrcAsides
    <2>2. w = x /\ x.run.at = "off" /\ HasFree(x)
        BY <1>1, <2>1 DEF IsStreaming, HasRoom
    <2> DEFINE S == In(x, "asides")
    <2>3. S \subseteq Msgs /\ S # {} /\ \A m \in S : Kind[m] = "irc" /\ x.at[m] # "history"
        BY <2>1, <2>2 DEF In, Apart, Placed
    <2> HIDE DEF S
    <2>4. y = WakeForIrc(x, S)
        BY <2>1, <2>2 DEF S
    <2> HIDE DEF y
    <2>5. Apart(y) /\ Unheard(x, y)
        BY <2>2, <2>3, <2>4, ApartWake
    <2> QED
        BY <2>5 DEF y, w
<1> QED
    BY <1>3, <1>4

\* A task leaves its bracket, with no follow-up in its keeping.
LEMMA ApartEnd ==
    ASSUME OnePeer, NEW x, Sound(x), Apart(x), NEW t \in Tasks, x.task[t].at # "running",
           \A m \in Msgs : Kind[m] = "followUp" => x.at[m] # t
    PROVE  LET y == EndInFlight(x, t) IN Apart(y) /\ Unheard(x, y)
<1> DEFINE n == IF x.count = 0 THEN 0 ELSE x.count - 1
           w == [Close(x, t) EXCEPT !.count = n]
           y == EndInFlight(x, t)
<1>1. n \in Nat /\ n <= x.count /\ (n = 0 \/ n < x.count)
    BY DEF Sound, Typed
<1>2. Sound(w) /\ HasFree(w)
    BY <1>1, CloseFacts
<1>3. Apart(w) /\ Unheard(x, w)
    BY ApartClose
<1>4. y = w \/ y = ResumeStrandedIrcAsides(ScheduleQueuedMessageDrain(w))
    BY DEF EndInFlight, DrainStrandedQueuedMessages
<1> HIDE DEF w, n, y
<1>5. CASE y = w
    BY <1>3, <1>5 DEF y
<1>6. CASE y = ResumeStrandedIrcAsides(ScheduleQueuedMessageDrain(w))
    <2>1. HasRoom(w)
        BY <1>2 DEF HasRoom
    <2>2. Apart(y) /\ Unheard(w, y)
        BY <1>2, <1>3, <1>6, <2>1, ApartResume
    <2>3. Unheard(x, y)
        BY <1>3, <2>2, UnheardTrans
    <2> QED
        BY <2>2, <2>3 DEF y
<1> QED
    BY <1>4, <1>5, <1>6

LEMMA ApartPrompt ==
    ASSUME NEW x, Sound(x), Apart(x), HasFree(x), NEW kind \in {"prompt", "deferred"},
           NEW own \in SUBSET Msgs, \A m \in own : Kind[m] = "deferred"
    PROVE  LET y == BeginInFlight(FlushPendingIrcAsides(Open(x, kind, "setup", own)))
           IN  Apart(y) /\ Unheard(x, y)
<1> DEFINE b == BeginInFlight(Open(x, kind, "setup", own))
           y == FlushPendingIrcAsides(b)
<1>1. /\ kind \in Kinds \ {"none", "flush"} /\ kind # "wake" /\ "setup" \in {"setup", "running"}
      /\ NoPeers(own)
    BY DEF Kinds, NoPeers
<1>2. BeginInFlight(FlushPendingIrcAsides(Open(x, kind, "setup", own))) = y
    BY <1>1, PromptOrder
<1>3. Sound(b)
    BY <1>1, BeginFacts
<1>4. Apart(b) /\ Unheard(x, b)
    BY <1>1, ApartBegin
<1> HIDE DEF b
<1>5. Apart(y) /\ Unheard(b, y)
    BY <1>3, <1>4, ApartFlush
<1> HIDE DEF y
<1>6. Unheard(x, y)
    BY <1>4, <1>5, UnheardTrans
<1> QED
    BY <1>2, <1>5, <1>6

-----------------------------------------------------------------------------
(* The steps, for the follow-ups. *)

Steady(x, y) == /\ x.suppressed /\ y.suppressed
                /\ x.run.kind = "wake" /\ y.run.kind = "wake"
                /\ \A m \in Msgs : Kind[m] = "steer" => x.at[m] \in {"unsent", "preparing"}

\* No follow-up that is held back in x is heard in y.
Kept(x, y) == \A m \in Msgs \ overtaken :
    Kind[m] = "followUp" /\ x.at[m] \in {"followUps"} \cup Tasks => y.at[m] # "history"

Fine(x, y) == Apart(y) /\ (Unheard(x, y) \/ (Steady(x, y) => Kept(x, y)))

\* A run for something else than a wake.
LEMMA OtherRun ==
    ASSUME NEW x, NEW y, Apart(y), y.run.kind # "wake"
    PROVE  Fine(x, y)
BY DEF Fine, Steady

\* Only the flag of the user's interrupt changes.
LEMMA ApartResumed ==
    ASSUME NEW x, Sound(x), Apart(x)
    PROVE  LET y == [x EXCEPT !.suppressed = FALSE]
           IN  Apart(y) /\ ~y.suppressed /\ y.at = x.at
<1> DEFINE y == [x EXCEPT !.suppressed = FALSE]
<1>1. y.at = x.at /\ y.run = x.run /\ y.task = x.task /\ y.suppressed = FALSE
    BY DEF Sound, Typed
<1> HIDE DEF y
<1>2. Spared(y)
    BY <1>1 DEF Spared, Calm
<1>3. Apart(y)
    BY <1>1, <1>2, ApartSame
<1> QED
    BY <1>1, <1>3 DEF y

\* A message, or all of a task's, goes where it cannot be heard.
LEMMA ApartAway ==
    ASSUME NEW x, Sound(x), Apart(x), NEW S, NEW place \in {"lost", "nextTurn", "staged"},
           \A m \in S \cap Msgs : /\ Kind[m] # "irc"
                                  /\ place = "nextTurn" => Kind[m] = "deferred"
    PROVE  Apart(Move(x, S, place)) /\ Unheard(x, Move(x, S, place))
<1>1. /\ place \in Places \cup Tasks /\ place \notin Tasks
      /\ place \notin {"unsent", "preparing", "followUps", "steering", "asides", "history"}
    BY TaskAssumption DEF Places
<1>2. Apart(Move(x, S, place))
    BY <1>1, ApartMove
<1> QED
    BY <1>1, <1>2, UnheardMove

\* Messages are given to a task.
LEMMA ApartGiven ==
    ASSUME NEW x, Sound(x), Apart(x), NEW t \in Tasks, NEW S, \A m \in S : Kind[m] = "deferred"
    PROVE  Apart(Move(x, S, t)) /\ Unheard(x, Move(x, S, t))
<1>1. t \notin Places
    BY TaskAssumption
<1>2. /\ t # "unsent" /\ t # "preparing" /\ t # "followUps" /\ t # "steering" /\ t # "asides"
      /\ t # "nextTurn" /\ t # "history"
    BY <1>1 DEF Places
<1>3. Apart(Move(x, S, t))
    BY <1>2, ApartMove
<1> QED
    BY <1>2, <1>3, UnheardMove

LEMMA ApartArrivals ==
    ASSUME OnePeer, Sound(s), Apart(s), NEW m \in Msgs,
           \/ ReceiveUserMessage(m) \/ QueueUserMessage(m)
           \/ DeliverIrcMessage(m) \/ EnqueueResult(m)
           \/ \E trigger \in BOOLEAN : QueueHiddenNextTurnMessage(m, trigger)
    PROVE  Fine(s, s')
<1> SUFFICES Apart(s') /\ Unheard(s, s')
    BY DEF Fine
<1>0. CASE ReceiveUserMessage(m)
    <2> DEFINE place == "preparing"
               r == [s EXCEPT !.suppressed = FALSE]
    <2>1. s' = Move(r, {m}, place) /\ Kind[m] \in {"steer", "followUp"}
        BY <1>0 DEF ReceiveUserMessage, Arrives, Move, Sound, Typed
    <2>2. Sound(r) /\ Apart(r) /\ ~r.suppressed /\ r.at = s.at
        BY ResumedFacts, ApartResumed
    <2>3. /\ place \in Places \cup Tasks /\ place \notin Tasks
          /\ place \notin {"unsent", "steering", "asides", "nextTurn", "followUps", "history"}
        BY TaskAssumption DEF Places
    <2>4. \A n \in {m} \cap Msgs : Kind[n] \in {"steer", "followUp"}
        BY <2>1
    <2> HIDE DEF place, r
    <2>5. Apart(s')
        BY <2>1, <2>2, <2>3, <2>4, ApartMove
    <2>6. Unheard(r, s')
        BY <2>1, <2>2, <2>3, UnheardMove
    <2> QED
        BY <2>2, <2>5, <2>6 DEF Unheard
<1>1. CASE QueueUserMessage(m)
    <2> DEFINE place == IF Kind[m] = "steer" THEN "steering" ELSE "followUps"
               x == Move(s, {m}, place)
    <2>1. /\ s' = ScheduleQueuedMessageDrain(x) /\ HasRoom(s) /\ m \in In(s, "preparing")
          /\ Kind[m] \in {"steer", "followUp"}
        BY <1>1 DEF QueueUserMessage, Apart, Placed, In
    <2>2. /\ place \in Places \cup Tasks /\ place \notin Tasks
          /\ place \notin {"unsent", "preparing", "asides", "nextTurn", "history"}
          /\ NoPeers({m}) /\ (place = "steering" => Kind[m] = "steer")
        BY <2>1, TaskAssumption DEF Places, NoPeers
    <2>3. Calm(s) => m \in overtaken
        BY <2>1 DEF Calm, Apart, Barred
    <2> HIDE DEF place
    <2>4. Sound(x) /\ x.run = s.run /\ x.task = s.task /\ x.count = s.count
        BY <2>2, MoveFacts, MoveFields
    <2>5. \A n \in {m} \cap Msgs :
              /\ place = "steering" => Kind[n] = "steer"
              /\ Kind[n] # "irc" /\ (Calm(s) => n \in overtaken)
        BY <2>1, <2>2, <2>3
    <2>6. Apart(x) /\ Unheard(s, x)
        BY <2>2, <2>5, ApartMove, UnheardMove
    <2> HIDE DEF x
    <2>7. HasRoom(x)
        BY <2>1, <2>4 DEF HasRoom, HasFree, IsStreaming
    <2>8. Apart(s') /\ Unheard(x, s')
        BY <2>1, <2>4, <2>6, <2>7, ApartSchedule
    <2> QED
        BY <2>6, <2>8, UnheardTrans
<1>2. CASE DeliverIrcMessage(m)
    <2>1. s.at[m] = "unsent" /\ Kind[m] = "irc" /\ HasRoom(s)
        BY <1>2 DEF DeliverIrcMessage, Arrives
    <2>2. CASE IsStreaming(s)
        <3>1. s' = Move(s, {m}, "asides")
            BY <1>2, <2>2 DEF DeliverIrcMessage
        <3> DEFINE place == "asides"
        <3>2. /\ place \in Places \cup Tasks /\ place \notin Tasks
              /\ place \notin {"unsent", "preparing", "steering", "nextTurn", "history", "followUps"}
            BY TaskAssumption DEF Places
        <3>3. s' = Move(s, {m}, place)
            BY <3>1
        <3> HIDE DEF place
        <3> QED
            BY <2>1, <3>2, <3>3, ApartMove, UnheardMove
    <2>3. CASE ~IsStreaming(s)
        <3>1. s' = WakeForIrc(s, {m}) /\ HasFree(s) /\ s.run.at = "off"
            BY <1>2, <2>1, <2>3 DEF DeliverIrcMessage, HasRoom, IsStreaming
        <3>2. {m} \subseteq Msgs /\ {m} # {}
              /\ \A n \in {m} : Kind[n] = "irc" /\ s.at[n] # "history"
            BY <2>1
        <3> QED
            BY <3>1, <3>2, ApartWake
    <2> QED
        BY <2>2, <2>3
<1>3. CASE EnqueueResult(m)
    <2>1. s' = Move(s, {m}, "staged") /\ Kind[m] = "result"
        BY <1>3 DEF EnqueueResult, Arrives
    <2> QED
        BY <2>1, ApartAway
<1>4. ASSUME NEW trigger \in BOOLEAN, QueueHiddenNextTurnMessage(m, trigger)
      PROVE  Apart(s') /\ Unheard(s, s')
    <2> DEFINE own == {m} \cup In(s, "nextTurn")
    <2>1. Kind[m] = "deferred" /\ own \in SUBSET Msgs /\ \A n \in own : Kind[n] = "deferred"
        BY <1>4 DEF QueueHiddenNextTurnMessage, Arrives, In, Apart, Placed
    <2>2. NoPeers(own)
        BY <2>1 DEF NoPeers
    <2> HIDE DEF own
    <2>3. CASE ~trigger
        <3>1. s' = Move(s, {m}, "nextTurn")
            BY <1>4, <2>3 DEF QueueHiddenNextTurnMessage
        <3> QED
            BY <2>1, <3>1, ApartAway
    <2>4. CASE trigger
        <3> DEFINE x == Move(s, own, Free(s))
        <3>1. HasFree(s) /\ Free(s) \in Tasks
            BY <1>4, <2>4, FreeFacts DEF QueueHiddenNextTurnMessage
        <3>2. Sound(x) /\ x.task = s.task
            BY <2>2, <3>1, MoveFacts, MoveFields
        <3>3. Apart(x) /\ Unheard(s, x)
            BY <2>1, <3>1, ApartGiven
        <3>4. s' = BeginInFlight(FlushPendingIrcAsides(Open(x, "deferred", "setup", own)))
            BY <1>4, <2>4 DEF QueueHiddenNextTurnMessage, own
        <3> HIDE DEF x
        <3>5. HasFree(x)
            BY <3>1, <3>2 DEF HasFree
        <3>6. Apart(s') /\ Unheard(x, s')
            BY <2>1, <3>2, <3>3, <3>4, <3>5, ApartPrompt
        <3> QED
            BY <3>3, <3>6, UnheardTrans
    <2> QED
        BY <2>3, <2>4
<1> QED
    BY <1>0, <1>1, <1>2, <1>3, <1>4

\* A task comes to another point; no wake waits anywhere but in its run.
LEMMA ApartTaskAt ==
    ASSUME NEW x, Sound(x), Apart(x), NEW t \in Tasks, NEW at, x.task[t].kind # "wake"
    PROVE  LET y == [x EXCEPT !.task[t].at = at] IN Apart(y) /\ Unheard(x, y)
<1> DEFINE f == [x.task EXCEPT ![t].at = at]
           y == [x EXCEPT !.task[t].at = at]
<1>1. y.at = x.at /\ y.run = x.run /\ y.task = f /\ y.suppressed = x.suppressed
    BY DEF Sound, Typed
<1>2. x.task \in [Tasks -> TaskRecords] /\ x.task[t] \in TaskRecords
    BY DEF Sound, Typed
<1>3. f[t] = [x.task[t] EXCEPT !.at = at] /\ \A u \in Tasks : u # t => f[u] = x.task[u]
    BY <1>2
<1>4. f[t].kind = x.task[t].kind /\ f[t].own = x.task[t].own
    BY <1>2, <1>3 DEF TaskRecords
<1> HIDE DEF y, f
<1>5. Spared(y)
    BY <1>1 DEF Apart, Spared, Calm
<1>6. \A u \in Tasks : /\ y.task[u].kind = x.task[u].kind /\ y.task[u].own = x.task[u].own
                       /\ y.task[u].at = x.task[u].at \/ y.task[u].kind # "wake"
    BY <1>1, <1>3, <1>4
<1>7. \A m \in Msgs : y.at[m] = x.at[m]
    BY <1>1
<1>8. Apart(y)
    BY <1>1, <1>5, <1>6, <1>7, ApartSame
<1> QED
    BY <1>1, <1>8 DEF Unheard, y

LEMMA ApartTasks ==
    ASSUME OnePeer, Sound(s), Apart(s),
           \/ Prompt \/ PromptBegins
           \/ \E t \in Tasks : \/ PromptTakesNextTurn(t) \/ PromptAgent(t)
                               \/ PromptRetries(t) \/ PromptGivesUp(t)
                               \/ AgentContinue(t) \/ Settle(t)
           \/ IdleFlush
    PROVE  Fine(s, s')
<1>1. ASSUME NEW t \in Tasks, s.task[t].kind # "wake", NEW S, s' = RunLoop(s, t, S)
      PROVE  Fine(s, s')
    <2>1. Apart(s') /\ s'.run.kind # "wake"
        BY <1>1, ApartRunLoop
    <2> QED
        BY <2>1, OtherRun
<1>2. ASSUME NEW t \in Tasks, NEW x, Sound(x), Apart(x), Unheard(s, x), x.task[t].at # "running",
             \A m \in Msgs : Kind[m] = "followUp" => x.at[m] # t,
             s' = EndInFlight(x, t)
      PROVE  Fine(s, s')
    <2>1. Apart(s') /\ Unheard(x, s')
        BY <1>2, ApartEnd
    <2>2. Unheard(s, s')
        BY <1>2, <2>1, UnheardTrans
    <2> QED
        BY <2>1, <2>2 DEF Fine
<1>3. ASSUME NEW t \in Tasks, s.task[t].kind # "wake"
      PROVE  LET x == Move(s, In(s, t), "lost")
             IN  /\ Sound(x) /\ x.task = s.task /\ Apart(x) /\ Unheard(s, x)
                 /\ \A m \in Msgs : Kind[m] = "followUp" => x.at[m] # t
    <2> DEFINE x == Move(s, In(s, t), "lost")
    <2>1. NoPeers(In(s, t)) /\ "lost" \in Places \cup Tasks
        BY OwnFacts DEF Places
    <2>2. Sound(x) /\ x.task = s.task
        BY <2>1, MoveFacts, MoveFields
    <2>3. \A m \in In(s, t) \cap Msgs :
              Kind[m] # "irc" /\ ("lost" = "nextTurn" => Kind[m] = "deferred")
        BY <2>1 DEF NoPeers
    <2>4. Apart(x) /\ Unheard(s, x)
        BY <2>3, ApartAway
    <2>5. \A m \in Msgs : x.at[m] = IF m \in In(s, t) THEN "lost" ELSE s.at[m]
        BY MoveAt
    <2>6. t # "lost"
        BY TaskAssumption DEF Places
    <2> HIDE DEF x
    <2>7. \A m \in Msgs : Kind[m] = "followUp" => x.at[m] # t
        BY <2>5, <2>6 DEF In
    <2> QED
        BY <2>2, <2>4, <2>7 DEF x
<1>4. ASSUME NEW t \in Tasks, s.task[t].at # "running", s.task[t].kind # "wake",
             s' = Superseded(t)
      PROVE  Fine(s, s')
    <2> DEFINE x == Move(s, In(s, t), "lost")
    <2>1. s' = EndInFlight(x, t)
        BY <1>4 DEF Superseded
    <2>2. /\ Sound(x) /\ x.task = s.task /\ Apart(x) /\ Unheard(s, x)
          /\ \A m \in Msgs : Kind[m] = "followUp" => x.at[m] # t
        BY <1>3, <1>4
    <2> HIDE DEF x
    <2> QED
        BY <1>2, <1>4, <2>1, <2>2
<1>5. CASE Prompt
    <2>1. Apart(s') /\ s'.at = s.at
        BY <1>5, ApartResumed DEF Prompt
    <2> QED
        BY <2>1 DEF Fine, Unheard
<1>5a. CASE PromptBegins
    <2>1. /\ HasFree(s)
          /\ s' = BeginInFlight(FlushPendingIrcAsides(Open(s, "prompt", "setup", {})))
        BY <1>5a DEF PromptBegins
    <2>2. {} \in SUBSET Msgs /\ \A m \in {} : Kind[m] = "deferred"
        OBVIOUS
    <2>3. Apart(s') /\ Unheard(s, s')
        BY <2>1, <2>2, ApartPrompt
    <2> QED
        BY <2>3 DEF Fine
<1>6. ASSUME NEW t \in Tasks, PromptTakesNextTurn(t)
      PROVE  Fine(s, s')
    <2>1. s.task[t].at = "setup" /\ s.task[t].kind # "wake"
        BY <1>6 DEF PromptTakesNextTurn, IsPrompt
    <2>2. CASE s.task[t].stale
        BY <1>4, <1>6, <2>1, <2>2 DEF PromptTakesNextTurn
    <2>3. CASE ~s.task[t].stale
        <3> DEFINE x == Move(s, In(s, "nextTurn"), t)
        <3>0. NoPeers(In(s, "nextTurn"))
            BY QueuedFacts DEF PeerPlaces
        <3>1. NoPeers(In(s, "nextTurn")) /\ \A m \in In(s, "nextTurn") : Kind[m] = "deferred"
            BY <3>0 DEF In, Apart, Placed
        <3>2. Sound(x) /\ x.task = s.task
            BY <3>1, MoveFacts, MoveFields
        <3>3. Apart(x) /\ Unheard(s, x)
            BY <3>1, ApartGiven
        <3>4. s' = [x EXCEPT !.task[t].at = "taken"]
            BY <1>6, <2>3 DEF PromptTakesNextTurn
        <3> HIDE DEF x
        <3>5. Apart(s') /\ Unheard(x, s')
            BY <2>1, <3>2, <3>3, <3>4, ApartTaskAt
        <3>6. Unheard(s, s')
            BY <3>3, <3>5, UnheardTrans
        <3> QED
            BY <3>5, <3>6 DEF Fine
    <2> QED
        BY <2>2, <2>3
<1>7. ASSUME NEW t \in Tasks, PromptAgent(t)
      PROVE  Fine(s, s')
    <2>1. s.task[t].at = "taken" /\ s.task[t].kind # "wake"
        BY <1>7 DEF PromptAgent, IsPrompt
    <2>2. \/ s' = Superseded(t)
          \/ s' = [s EXCEPT !.task[t].at = "busy"]
          \/ s' = RunLoop(s, t, In(s, t))
        BY <1>7 DEF PromptAgent
    <2>3. CASE s' = [s EXCEPT !.task[t].at = "busy"]
        <3>1. Apart(s') /\ Unheard(s, s')
            BY <2>1, <2>3, ApartTaskAt
        <3> QED
            BY <3>1 DEF Fine
    <2> QED
        BY <1>1, <1>4, <2>1, <2>2, <2>3
<1>8. ASSUME NEW t \in Tasks, s.task[t].at = "busy"
      PROVE  s.task[t].kind # "wake"
    BY <1>8 DEF Apart, Wakes
<1>9. ASSUME NEW t \in Tasks, PromptRetries(t)
      PROVE  Fine(s, s')
    <2>1. s' = RunLoop(s, t, In(s, t)) /\ s.task[t].kind # "wake"
        BY <1>8, <1>9 DEF PromptRetries
    <2> QED
        BY <1>1, <2>1
<1>10. ASSUME NEW t \in Tasks, PromptGivesUp(t)
       PROVE  Fine(s, s')
    <2> DEFINE own == s.task[t].own
               w == Move(s, In(s, t), "lost")
               x == Move(w, own, "nextTurn")
    <2>1. s.task[t].at = "busy" /\ s.task[t].kind # "wake"
        BY <1>8, <1>10 DEF PromptGivesUp
    <2>2. /\ Sound(w) /\ w.task = s.task /\ Apart(w) /\ Unheard(s, w)
          /\ \A m \in Msgs : Kind[m] = "followUp" => w.at[m] # t
        BY <1>3, <2>1
    <2>3. s' = EndInFlight(x, t)
        BY <1>10 DEF PromptGivesUp
    <2> HIDE DEF w
    <2>4. /\ NoPeers(own) /\ "nextTurn" \in Places \cup Tasks
          /\ \A m \in own : Kind[m] = "deferred"
        BY OwnFacts DEF Places, Apart, Owned
    <2> HIDE DEF own
    <2>5. Sound(x) /\ x.task = w.task
        BY <2>2, <2>4, MoveFacts, MoveFields
    <2>6. Apart(x) /\ Unheard(w, x)
        BY <2>2, <2>4, ApartAway
    <2>7. \A m \in Msgs : x.at[m] = IF m \in own THEN "nextTurn" ELSE w.at[m]
        BY <2>2, MoveAt
    <2>8. Unheard(s, x)
        BY <2>2, <2>6, UnheardTrans
    <2> HIDE DEF x
    <2>9. \A m \in Msgs : Kind[m] = "followUp" => x.at[m] # t
        BY <2>2, <2>4, <2>7
    <2> QED
        BY <1>2, <2>1, <2>2, <2>3, <2>5, <2>6, <2>8, <2>9
<1>11. ASSUME NEW t \in Tasks, AgentContinue(t)
       PROVE  Fine(s, s')
    <2>1. s.task[t].kind = "continue" /\ s.task[t].at = "setup"
        BY <1>11 DEF AgentContinue
    <2>2. s' = EndInFlight(s, t) \/ \E S : s' = RunLoop(s, t, S)
        BY <1>11 DEF AgentContinue
    <2>3. CASE s' = EndInFlight(s, t)
        <3>1. \A m \in Msgs : Kind[m] = "followUp" => s.at[m] # t
            BY <2>1 DEF Apart, Placed
        <3>2. Unheard(s, s)
            BY DEF Unheard
        <3> QED
            BY <1>2, <2>1, <2>3, <3>1, <3>2
    <2> QED
        BY <1>1, <2>1, <2>2, <2>3
<1>12. ASSUME NEW t \in Tasks, Settle(t)
       PROVE  Fine(s, s')
    <2>1. s.task[t].at = "over"
        BY <1>12 DEF Settle
    <2>2. CASE s.task[t].kind = "flush"
        <3> DEFINE x == [Close(s, t) EXCEPT !.count = s.count]
        <3>1. s' = x
            BY <1>12, <2>2 DEF Settle, Close, Sound, Typed
        <3>2. \A m \in Msgs : Kind[m] = "followUp" => s.at[m] # t
            BY <2>2 DEF Apart, Placed
        <3>3. Apart(x) /\ Unheard(s, x)
            BY <3>2, ApartClose
        <3> QED
            BY <3>1, <3>3 DEF Fine
    <2>3. CASE s.task[t].kind # "flush"
        <3> DEFINE S == In(s, t)
                   place == "followUps"
                   x == Move(s, S, place)
        <3>1. NoPeers(S) /\ t # "followUps"
            BY OwnFacts, TaskAssumption DEF Places
        <3>2. /\ place \in Places \cup Tasks /\ place \notin Tasks
              /\ place \notin {"unsent", "preparing", "steering", "asides", "nextTurn", "history"}
            BY TaskAssumption DEF Places
        \* A run of a wake would be another task's.
        <3>3. \/ s.run.at = "off" \/ s.run.kind # "wake"
              \/ \A m \in S \cap Msgs : Kind[m] # "followUp"
            <4> SUFFICES ASSUME s.run.at # "off", s.run.kind = "wake",
                                NEW m \in S \cap Msgs, Kind[m] = "followUp"
                         PROVE  FALSE
                OBVIOUS
            <4>1. /\ s.run.by \in Tasks /\ s.task[s.run.by].kind = "wake"
                  /\ s.task[s.run.by].at = "running"
                BY DEF Sound, Runner
            <4>2. s.task[t].kind = "wake"
                BY DEF In, Apart, Placed
            <4>3. s.run.by = t
                BY <4>1, <4>2 DEF Apart, Wakes
            <4> QED
                BY <2>1, <4>1, <4>3
        <3>4. Sound(x) /\ x.task = s.task
            BY <3>1, <3>2, MoveFacts, MoveFields
        <3>5. s' = EndInFlight(x, t)
            BY <1>12, <2>3 DEF Settle
        <3>6. \A m \in Msgs : x.at[m] = IF m \in S THEN "followUps" ELSE s.at[m]
            BY MoveAt
        <3>7. \A m \in Msgs : Kind[m] = "followUp" => x.at[m] # t
            BY <3>1, <3>6 DEF In
        <3>8. \A m \in S \cap Msgs : Kind[m] # "irc"
            BY <3>1 DEF NoPeers
        <3> HIDE DEF S, place
        <3>9. Apart(x) /\ Unheard(s, x)
            BY <3>2, <3>3, <3>8, ApartMove, UnheardMove
        <3> HIDE DEF x
        <3> QED
            BY <1>2, <2>1, <3>4, <3>5, <3>7, <3>9
    <2> QED
        BY <2>2, <2>3
<1>13. CASE IdleFlush
    <2>1. CASE s' = s
        BY <2>1 DEF Fine, Unheard
    <2>2. CASE s' # s
        <3> DEFINE x == Open(s, "flush", "running", {})
                   t == Free(s)
                   r == [kind |-> "flush", at |-> "running", stale |-> FALSE, own |-> {}]
        <3>1. ~IsStreaming(s) /\ HasFree(s) /\ s' = AgentPrompt(x, t, In(s, "staged"))
            BY <1>13, <2>2 DEF IdleFlush, HasRoom
        <3>2. t \in Tasks /\ s.task[t].kind = "none"
            BY <3>1, FreeFacts
        <3>3. /\ x.at = s.at /\ x.run = s.run /\ x.suppressed = s.suppressed
              /\ x.task = [s.task EXCEPT ![t] = r]
            BY DEF Open, Sound, Typed
        <3>4. Sound(x)
            BY <3>1, OpenFlushFacts
        <3>5. r.kind = "flush" /\ r.own = {}
            OBVIOUS
        <3> HIDE DEF x, t, r
        <3>6. x.task[t] = r /\ \A u \in Tasks : u # t => x.task[u] = s.task[u]
            BY <3>2, <3>3 DEF Sound, Typed
        <3>7. \A m \in Msgs : Kind[m] = "followUp" => s.at[m] # t
            BY <3>2 DEF Apart, Placed
        <3>8. x.task[t].kind # "wake" /\ \A m \in x.task[t].own : Kind[m] = "deferred"
            BY <3>5, <3>6
        <3>9. x.at = s.at /\ x.run = s.run /\ x.suppressed = s.suppressed
            BY <3>3
        <3>10. Apart(x)
            BY <3>2, <3>6, <3>7, <3>8, <3>9, ApartTask
        <3>11. s' = RunLoop(x, t, In(s, "staged"))
            BY <3>1, <3>9 DEF AgentPrompt, IsStreaming
        <3>12. Apart(s') /\ s'.run.kind # "wake"
            BY <3>2, <3>4, <3>8, <3>10, <3>11, ApartRunLoop
        <3> QED
            BY <3>12, OtherRun
    <2> QED
        BY <2>1, <2>2
<1> QED
    BY <1>5, <1>5a, <1>6, <1>7, <1>9, <1>10, <1>11, <1>12, <1>13

\* The run goes on, with messages that it polled.
LEMMA ApartPoll ==
    ASSUME NEW x, Sound(x), Apart(x), NEW S, NEW place \in {"history", "picked"},
           \A m \in S : x.at[m] # "history", NEW at, x.run.at # "off"
    PROVE  LET y == [Move(x, S, place) EXCEPT !.run.at = at]
           IN  Apart(y) /\ \A m \in Msgs : y.at[m] = IF m \in S THEN place ELSE x.at[m]
<1> DEFINE w == Move(x, S, place)
           y == [w EXCEPT !.run.at = at]
<1>1. /\ place \in Places \cup Tasks /\ place \notin Tasks /\ place \in PeerPlaces
      /\ place \notin {"unsent", "preparing", "followUps", "steering", "asides", "nextTurn"}
    BY TaskAssumption DEF Places, PeerPlaces
<1>2. Sound(w) /\ w.run = x.run
    BY <1>1, MoveFacts, MoveFields
<1>3. Apart(w)
    BY <1>1, ApartMove
<1>4. \A m \in Msgs : w.at[m] = IF m \in S THEN place ELSE x.at[m]
    BY MoveAt
<1> HIDE DEF w
<1>5. /\ y.at = w.at /\ y.task = w.task /\ y.suppressed = w.suppressed
      /\ y.run = [w.run EXCEPT !.at = at]
    BY <1>2 DEF Sound, Typed
<1>6. y.run.kind = w.run.kind /\ y.run.aborted = w.run.aborted
    BY <1>2, <1>5 DEF Sound, Typed, RunRecords
<1> HIDE DEF y
<1>7. Spared(y)
    BY <1>2, <1>3, <1>5, <1>6 DEF Apart, Spared, Calm
<1>8. Apart(y)
    BY <1>3, <1>5, <1>7, ApartSame
<1> QED
    BY <1>4, <1>5, <1>8 DEF y, w

LEMMA ApartLoop ==
    ASSUME Sound(s), Apart(s),
           \/ \E goesOn \in BOOLEAN : TurnEnds(goesOn)
           \/ LateSteering \/ LateAsides \/ LateFollowUps \/ RunEnds \/ RunFails
    PROVE  Fine(s, s')
<1>1. \A place : \A m \in In(s, place) : m \in Msgs /\ s.at[m] = place
    BY DEF In
<1>2. \A place : Polled(place) \subseteq In(s, place)
    BY DEF Polled
<1>3. \A m \in Msgs : s.at[m] \in {"followUps"} \cup Tasks =>
          s.at[m] \notin {"steering", "asides", "staged", "picked", "history"}
    BY TaskAssumption DEF Places
<1>4. ASSUME NEW S, \A m \in S : s.at[m] # "history", s.run.at # "off", NEW at,
             s' = [Move(s, S, "picked") EXCEPT !.run.at = at]
      PROVE  Fine(s, s')
    <2>1. Apart(s') /\ \A m \in Msgs : s'.at[m] = IF m \in S THEN "picked" ELSE s.at[m]
        BY <1>4, ApartPoll
    <2>2. Unheard(s, s')
        BY <2>1 DEF Unheard
    <2> QED
        BY <2>1, <2>2 DEF Fine
<1>5. ASSUME NEW S, \A m \in S : s.at[m] # "history", s.run.at # "off", NEW at,
             s' = [Move(s, S, "history") EXCEPT !.run.at = at],
             Steady(s, s') => \A m \in (S \cap Msgs) \ overtaken :
                                  Kind[m] = "followUp" => s.at[m] \notin {"followUps"} \cup Tasks
      PROVE  Fine(s, s')
    <2>1. Apart(s') /\ \A m \in Msgs : s'.at[m] = IF m \in S THEN "history" ELSE s.at[m]
        BY <1>5, ApartPoll
    <2>2. Steady(s, s') => Kept(s, s')
        BY <1>3, <1>5, <2>1 DEF Kept
    <2> QED
        BY <2>1, <2>2 DEF Fine
<1>6. ASSUME NEW goesOn \in BOOLEAN, TurnEnds(goesOn)
      PROVE  Fine(s, s')
    <2> DEFINE S == In(s, "steering") \cup (IF goesOn THEN In(s, "asides") \cup In(s, "staged") ELSE {})
    <2>1. s.run.at # "off" /\ \E at : s' = [Move(s, S, "history") EXCEPT !.run.at = at]
        BY <1>6 DEF TurnEnds
    <2>2. \A m \in S : m \in Msgs /\ s.at[m] \in {"steering", "asides", "staged"}
        BY <1>1
    <2> HIDE DEF S
    <2>3. \A m \in S : s.at[m] # "history" /\ s.at[m] \notin {"followUps"} \cup Tasks
        BY <1>3, <2>2
    <2> QED
        BY <1>5, <2>1, <2>3
<1>7. CASE LateSteering
    <2>1. \A m \in Polled("steering") : s.at[m] # "history"
        BY <1>1, <1>2
    <2>2. s.run.at # "off" /\ s' = [Move(s, Polled("steering"), "picked") EXCEPT !.run.at = "steered"]
        BY <1>7 DEF LateSteering
    <2> QED
        BY <1>4, <2>1, <2>2
<1>8. CASE LateAsides
    <2> DEFINE S == Polled("asides") \cup Polled("staged")
    <2>1. \A m \in S : s.at[m] # "history"
        BY <1>1, <1>2
    <2>2. s.run.at # "off" /\ s' = [Move(s, S, "picked") EXCEPT !.run.at = "asided"]
        BY <1>8 DEF LateAsides
    <2> HIDE DEF S
    <2> QED
        BY <1>4, <2>1, <2>2
<1>9. CASE LateFollowUps
    <2> DEFINE S == In(s, "picked") \cup Polled("followUps")
    <2>1. s.run.at # "off" /\ \E at : s' = [Move(s, S, "history") EXCEPT !.run.at = at]
        BY <1>9 DEF LateFollowUps
    <2>2. \A m \in S : s.at[m] # "history"
        BY <1>1, <1>2
    <2>3. Steady(s, s') => \A m \in (S \cap Msgs) \ overtaken :
              Kind[m] = "followUp" => s.at[m] \notin {"followUps"} \cup Tasks
        <3> SUFFICES ASSUME Steady(s, s'), NEW m \in (S \cap Msgs) \ overtaken,
                            Kind[m] = "followUp",
                            s.at[m] \in {"followUps"} \cup Tasks
                     PROVE  FALSE
            OBVIOUS
        <3>1. m \in Polled("followUps")
            BY <1>1, <1>3
        <3>2. ~s.run.aborted /\ s.at[m] = "followUps"
            BY <3>1 DEF Polled, In
        <3>3. Calm(s) /\ s.run.kind = "wake"
            BY DEF Steady, Calm
        <3> QED
            BY <2>1, <3>2, <3>3 DEF Apart, Spared
    <2> HIDE DEF S
    <2> QED
        BY <1>5, <2>1, <2>2, <2>3
<1>10. CASE RunEnds \/ RunFails
    <2> DEFINE t == s.run.by
               f == [s.task EXCEPT ![t].at = "over"]
    <2>1. s' = Off(s) /\ s.run.at # "off"
        BY <1>10 DEF RunEnds, RunFails
    <2>2. /\ t \in Tasks /\ s.task \in [Tasks -> TaskRecords] /\ s.task[t] \in TaskRecords
          /\ s.run \in RunRecords
        BY <2>1 DEF Sound, Typed, Runner
    <2>3. /\ s'.at = s.at /\ s'.task = f /\ s'.suppressed = s.suppressed
          /\ s'.run = [s.run EXCEPT !.at = "off", !.by = NoTask, !.aborted = FALSE]
        BY <2>1 DEF Off, Sound, Typed
    <2>4. s'.run.at = "off"
        BY <2>2, <2>3 DEF RunRecords
    <2>5. f[t] = [s.task[t] EXCEPT !.at = "over"] /\ \A u \in Tasks : u # t => f[u] = s.task[u]
        BY <2>2
    <2>6. f[t].kind = s.task[t].kind /\ f[t].own = s.task[t].own /\ f[t].at = "over"
        BY <2>2, <2>5 DEF TaskRecords
    <2> HIDE DEF t, f
    <2>7. \A u \in Tasks :
              /\ s'.task[u].kind = s.task[u].kind /\ s'.task[u].own = s.task[u].own
              /\ s'.task[u].at = s.task[u].at \/ s'.task[u].at \in {"running", "over"}
        BY <2>3, <2>5, <2>6
    <2>8. Spared(s') /\ \A m \in Msgs : s'.at[m] = s.at[m]
        BY <2>3, <2>4 DEF Spared
    <2>9. Apart(s')
        BY <2>3, <2>7, <2>8, ApartSame
    <2> QED
        BY <2>8, <2>9 DEF Fine, Unheard
<1> QED
    BY <1>6, <1>7, <1>8, <1>9, <1>10

\* An abort stops the run; a user's takes note of what is in preparation.
LEMMA ApartInterrupt ==
    ASSUME Sound(s), Apart(s), \E userInterrupt \in BOOLEAN : AbortStart(userInterrupt)
    PROVE  Apart(s)' /\ Unheard(s, s')
<1>1. ASSUME NEW userInterrupt \in BOOLEAN, AbortStart(userInterrupt)
      PROVE  Apart(s)' /\ Unheard(s, s')
    <2> DEFINE tk == [t \in Tasks |-> [s.task[t] EXCEPT !.stale = s.task[t].kind # "none"]]
    <2>1. s.run \in RunRecords /\ s.task \in [Tasks -> TaskRecords]
        BY DEF Sound, Typed
    <2>2. /\ s'.at = s.at /\ s'.run = [s.run EXCEPT !.aborted = s.run.at # "off"]
          /\ s'.task = tk /\ s'.suppressed = (s.suppressed \/ userInterrupt)
        BY <1>1 DEF AbortStart, Sound, Typed
    <2>3. s'.run.at # "off" => s'.run.aborted
        BY <2>1, <2>2 DEF RunRecords
    <2>4. \A t \in Tasks : /\ tk[t].kind = s.task[t].kind /\ tk[t].at = s.task[t].at
                           /\ tk[t].own = s.task[t].own
        BY <2>1 DEF TaskRecords
    <2> HIDE DEF tk
    <2>5. Placed(s') /\ Owned(s') /\ Wakes(s')
        BY <2>2, <2>4, TasksSame
    <2>6. Spared(s)'
        BY <2>3 DEF Spared
    <2>7. Barred(s)'
        <3>1. In(s', "preparing") = In(s, "preparing")
            BY <2>2 DEF In
        <3>2. CASE userInterrupt
            <4>1. overtaken' = overtaken \cup In(s, "preparing")
                BY <1>1, <3>2 DEF AbortStart
            <4> QED
                BY <3>1, <4>1 DEF Barred
        <3>3. CASE ~userInterrupt
            <4>1. overtaken' = overtaken /\ (s'.suppressed => s.suppressed)
                BY <1>1, <2>2, <3>3 DEF AbortStart
            <4> QED
                BY <3>1, <4>1 DEF Apart, Barred
        <3> QED
            BY <3>2, <3>3
    <2> QED
        BY <2>2, <2>5, <2>6, <2>7 DEF Apart, Unheard, Placed, Owned, Wakes
<1> QED
    BY <1>1

LEMMA ApartAborts ==
    ASSUME OnePeer, Sound(s), Apart(s), AbortIdle \/ AbortEnd
    PROVE  Fine(s, s')
<1>2. CASE AbortIdle
    BY <1>2 DEF AbortIdle, Fine, Unheard
<1>3. CASE AbortEnd
    <2> DEFINE x == [s EXCEPT !.count = 0]
    <2>1. HasRoom(x) /\ s' = ResumeStrandedIrcAsides(ScheduleQueuedMessageDrain(x))
        BY <1>3 DEF AbortEnd
    <2>2. /\ Typed(x) /\ x.run = s.run /\ x.task = s.task /\ x.at = s.at /\ x.count = 0
          /\ x.suppressed = s.suppressed
        BY DEF Sound, Typed
    <2> HIDE DEF x
    <2>3. Bracketed(x) = Bracketed(s)
        BY <2>2 DEF Bracketed
    <2>4. Cardinality(Bracketed(s)) \in Nat
        BY BracketedFacts
    <2>5. Sound(x)
        BY <2>2, <2>3, <2>4 DEF Sound, Runner, Counted, Peers
    <2>6. Spared(x)
        BY <2>2 DEF Apart, Spared, Calm
    <2>7. Apart(x)
        BY <2>2, <2>6, ApartSame
    <2>8. Apart(s') /\ Unheard(x, s')
        BY <2>1, <2>5, <2>7, ApartResume
    <2> QED
        BY <2>2, <2>8 DEF Fine, Unheard
<1> QED
    BY <1>2, <1>3

\* While a user's interrupt is in effect and nobody steered, a turn that only
\* answers a peer runs none of the follow-ups the user had queued, wherever
\* aborts, continuations and prompts come in between; one that the interrupt met
\* in preparation may be queued behind the wake's back. Two peers' messages around an
\* abort do break this, so there is one.
THEOREM WakeSparesHolds ==
    ASSUME OnePeer
    PROVE  Spec => WakeSparesFollowUps
<1> DEFINE Step == (/\ s.suppressed /\ s'.suppressed
                    /\ s.run.kind = "wake" /\ s'.run.kind = "wake"
                    /\ \A m \in Msgs : Kind[m] = "steer" => s.at[m] \in {"unsent", "preparing"})
                        => Held \cap Heard' = {}
<1>1. Init => Apart(s)
    <2> SUFFICES ASSUME Init
                 PROVE  Apart(s)
        OBVIOUS
    <2>1. /\ \A m \in Msgs : s.at[m] = "unsent"
          /\ \A t \in Tasks : s.task[t].kind = "none" /\ s.task[t].own = {}
          /\ s.run.at = "off"
        BY DEF Init, NotOpen
    <2>2. "unsent" \notin Tasks
        BY TaskAssumption DEF Places
    <2> QED
        BY <2>1, <2>2 DEF Apart, Placed, Owned, Wakes, Spared, Barred, In
<1>2. IInv /\ Apart(s) /\ [Next]_vars => Apart(s)' /\ [Step]_vars
    <2> SUFFICES ASSUME IInv, Apart(s), [Next]_vars
                 PROVE  Apart(s)' /\ Step
        OBVIOUS
    <2>1. Apart(s)' /\ (Unheard(s, s') \/ (Steady(s, s') => Kept(s, s')))
        <3>1. Sound(s)
            BY DEF IInv
        <3>2. CASE \E userInterrupt \in BOOLEAN : AbortStart(userInterrupt)
            BY <3>1, <3>2, ApartInterrupt
        <3>3. CASE ~\E userInterrupt \in BOOLEAN : AbortStart(userInterrupt)
            <4>1. overtaken' = overtaken
                BY <3>3 DEF Next, vars, Untimed, ReceiveUserMessage, QueueUserMessage,
                    DeliverIrcMessage, EnqueueResult, QueueHiddenNextTurnMessage, Prompt,
                    PromptBegins, PromptTakesNextTurn, PromptAgent, PromptRetries, PromptGivesUp,
                    AgentContinue, Settle, TurnEnds, IdleFlush, LateSteering, LateAsides,
                    LateFollowUps, RunEnds, RunFails, AbortIdle, AbortEnd
            <4>2. Fine(s, s')
                <5>1. CASE UNCHANGED vars
                    BY <5>1 DEF vars, Fine, Unheard
                <5> QED
                    BY <3>1, <3>3, <5>1, ApartArrivals, ApartTasks, ApartLoop, ApartAborts DEF Next
            <4> QED
                BY <4>1, <4>2 DEF Fine, Apart, Placed, Owned, Wakes, Spared, Barred
        <3> QED
            BY <3>2, <3>3
    <2>2. ASSUME Steady(s, s'), NEW m \in Held \cap Heard'
          PROVE  FALSE
        <3>1. /\ m \in Msgs \ overtaken /\ Kind[m] = "followUp"
              /\ s.at[m] \in {"followUps"} \cup Tasks /\ s'.at[m] = "history"
            BY <2>2 DEF Held, Heard
        <3>2. s.at[m] # "history"
            BY <3>1, TaskAssumption DEF Places
        <3> QED
            BY <2>1, <2>2, <3>1, <3>2 DEF Unheard, Kept
    <2> QED
        BY <2>1, <2>2 DEF Steady
<1>3. Spec => [][Step]_vars
    BY <1>1, <1>2, Invariant, PTL DEF Spec
<1> QED
    BY <1>3 DEF WakeSparesFollowUps

=============================================================================
