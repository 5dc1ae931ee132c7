----------------------------- MODULE JobManager -----------------------------
(***************************************************************************)
(* AsyncJobManager (packages/scipi-agent/src/async/job-manager.ts) with    *)
(* the callers that share it: the spawn paths (task and bash tools), the   *)
(* job tool's polls, the foreground wait of an auto-backgrounded bash      *)
(* command, the scoped drain used by ACP, the completion callback of       *)
(* sdk.ts and the session's yield queue it feeds.                          *)
(*                                                                         *)
(* A member of Jobs is one AsyncJob record; job ids are small numbers and, *)
(* as in resolveJobId, the lowest free one is taken, so an evicted id is   *)
(* used again. A delivery is identified by the record it reports. Time is  *)
(* abstract: a delivery is either due or in backoff, a timer that is armed *)
(* may fire, and a poll or a drain may time out whenever it waits.         *)
(***************************************************************************)
EXTENDS Integers, Sequences, FiniteSets

CONSTANTS Jobs,          \* job records that may ever be registered
          NoJob,         \* absence of a record
          Owner,         \* [Jobs -> agent ids]
          Kind,          \* [Jobs -> {"task", "bash", "foreground"}]: who registers it
          DrainFor,      \* agents for whom the ACP adapter drains deliveries
          Polls,         \* job tool calls that may wait concurrently
          MaxRunning,    \* maxRunningJobs
          MaxFailures,   \* bound: how often the callback may reject per record
          MaxPolls,      \* bound: how many job tool calls are made
          LongRetention  \* TRUE: retention outlasts teardown and staged entries

ASSUME JobsAssumption ==
    /\ IsFiniteSet(Jobs) /\ NoJob \notin Jobs
    /\ Kind \in [Jobs -> {"task", "bash", "foreground"}]
ASSUME BoundsAssumption == MaxRunning \in Nat \ {0} /\ MaxFailures \in Nat /\ MaxPolls \in Nat
ASSUME RetentionAssumption == LongRetention \in BOOLEAN

Ids == 1..Cardinality(Jobs)
Owners == {Owner[j] : j \in Jobs}

VARIABLES
    st,          \* status of each record; "cancelling" is status cancelled, run unsettled
    queued,      \* the queued flag
    id,          \* the id each record was registered under, 0 before
    jobs,        \* #jobs, a Map from id to record
    timers,      \* ids with an armed eviction timer
    suppressed,  \* #suppressedDeliveries
    watched,     \* #watchedJobs
    deliveries,  \* #deliveries
    backoff,     \* deliveries whose nextAttemptAt lies in the future
    failures,    \* delivery.attempt
    inFlight,    \* #inFlightDeliveries: the callback has started
    loop,        \* #deliveryLoop: [at, job]
    staged,      \* async-result entries in the yield queue, per record
    shown,       \* follow-ups that reached the conversation, per record
    told,        \* records whose outcome a tool result reported
    poll,        \* each waiting job tool call: [at, tracked, watching]
    polls,       \* job tool calls made so far
    fg,          \* foreground wait of each auto-backgrounded bash record
    drain,       \* the scoped drain: [at, owner, job]
    disp         \* teardown: [at, for], the records waitForAll() waits for

vars == <<st, queued, id, jobs, timers, suppressed, watched, deliveries, backoff, failures,
          inFlight, loop, staged, shown, told, poll, polls, fg, drain, disp>>
record == <<st, queued, id>>
queue == <<deliveries, backoff, failures, inFlight, loop>>
clients == <<poll, polls, fg, drain, disp>>

Live(j) == st[j] = "running"
Settled(j) == st[j] \in {"completed", "failed", "cancelled"}
Registered == {j \in Jobs : id[j] # 0 /\ jobs[id[j]] = j}
OwnedBy(o) == {j \in Registered : Owner[j] = o}

IsQueued(j) == \E k \in 1..Len(deliveries) : deliveries[k] = j

\* isDeliverySuppressed, for given values of the two sets.
Quiet(j, sup, wat) == id[j] \in sup \cup wat

\* Array.filter: the entries of q that are in S, in order.
Keep(q, S) ==
    LET kept[n \in 0..Len(q)] == IF n = 0 THEN <<>>
                                 ELSE IF q[n] \in S THEN Append(kept[n - 1], q[n])
                                 ELSE kept[n - 1]
    IN  kept[Len(q)]

\* acknowledgeDeliveries: the queue without what is suppressed or watched.
Loud(q, sup, wat) == Keep(q, {d \in Jobs : ~Quiet(d, sup, wat)})

Init ==
    /\ st = [j \in Jobs |-> "none"]
    /\ queued = [j \in Jobs |-> FALSE]
    /\ id = [j \in Jobs |-> 0]
    /\ jobs = [i \in Ids |-> NoJob]
    /\ timers = {} /\ suppressed = {} /\ watched = {}
    /\ deliveries = <<>> /\ backoff = {} /\ inFlight = {}
    /\ failures = [j \in Jobs |-> 0]
    /\ loop = [at |-> "off", job |-> NoJob]
    /\ staged = [j \in Jobs |-> 0]
    /\ shown = [j \in Jobs |-> 0]
    /\ told = {}
    /\ poll = [p \in Polls |-> [at |-> "idle", tracked |-> {}, watching |-> {}]]
    /\ polls = 0
    /\ fg = [j \in Jobs |-> "none"]
    /\ drain = [at |-> "idle", owner |-> NoJob, job |-> NoJob]
    /\ disp = [at |-> "no", for |-> {}]

-----------------------------------------------------------------------------
(* The delivery loop. *)

\* runDeliveryLoop from the top of its while: drop suppressed heads, then end,
\* sleep on a head in backoff, or shift the head and start its callback.
RunLoop(q, back, sup, wat) ==
    LET loud == {i \in 1..Len(q) : ~Quiet(q[i], sup, wat)}
        k    == IF loud = {} THEN Len(q) + 1 ELSE CHOOSE i \in loud : \A m \in loud : i <= m
        rest == SubSeq(q, k, Len(q))
    IN  IF rest = <<>>
        THEN [q |-> <<>>, at |-> "ending", job |-> NoJob, start |-> {}]
        ELSE IF Head(rest) \in back
        THEN [q |-> rest, at |-> "sleep", job |-> Head(rest), start |-> {}]
        ELSE [q |-> Tail(rest), at |-> "deliver", job |-> Head(rest), start |-> {Head(rest)}]

\* Leave the queue as q with callbacks fly running; resume says whether the
\* loop is at the top of its while (it was awaiting what just happened).
Continue(q, back, fly, sup, wat, resume) ==
    /\ backoff' = back
    /\ IF resume \/ (loop.at = "off" /\ q # <<>>)
       THEN LET r == RunLoop(q, back, sup, wat)
            IN  /\ deliveries' = r.q
                /\ loop' = [at |-> r.at, job |-> r.job]
                /\ inFlight' = fly \cup r.start
       ELSE deliveries' = q /\ inFlight' = fly /\ UNCHANGED loop

EnqueueUnlessAcknowledged(j, sup) ==        \* mutant: forgets #watchedJobs
    IF id[j] \in sup
    THEN UNCHANGED <<deliveries, backoff, inFlight, loop>>
    ELSE Continue(Append(deliveries, j), backoff \ {j}, inFlight, sup, {}, FALSE)

\* enqueueDelivery(): skipped for a suppressed id.
EnqueueDelivery(j, sup) ==
    IF Quiet(j, sup, watched)
    THEN UNCHANGED <<deliveries, backoff, inFlight, loop>>
    ELSE Continue(Append(deliveries, j), backoff \ {j}, inFlight, sup, watched, FALSE)

\* The sleep of the loop ends; the head it slept on is due now.
LoopWake ==
    /\ loop.at = "sleep"
    /\ Continue(deliveries, backoff \ {loop.job}, inFlight, suppressed, watched, TRUE)
    /\ UNCHANGED <<record, jobs, timers, suppressed, watched, failures, staged, shown, told, clients>>

\* The finally handler of the loop's promise: clear #deliveryLoop, and start it
\* again when something was pushed since the while loop saw an empty queue.
LoopEnd ==
    /\ loop.at = "ending"
    /\ IF deliveries # <<>>
       THEN Continue(deliveries, backoff, inFlight, suppressed, watched, TRUE)
       ELSE loop' = [at |-> "off", job |-> NoJob] /\ UNCHANGED <<deliveries, backoff, inFlight>>
    /\ UNCHANGED <<record, jobs, timers, suppressed, watched, failures, staged, shown, told, clients>>

\* The completion callback of sdk.ts resolves: after formatting, it looks at the
\* suppression once more and stages the result in the yield queue.
CallbackResolves(j) ==
    /\ j \in inFlight
    /\ staged' = IF Quiet(j, suppressed, watched) THEN staged
                 ELSE [staged EXCEPT ![j] = @ + 1]
    /\ Continue(deliveries, backoff, inFlight \ {j}, suppressed, watched,
                loop.at = "deliver" /\ loop.job = j)
    /\ UNCHANGED <<record, jobs, timers, suppressed, watched, failures, shown, told, clients>>

CallbackStagesAndRejects(j) ==              \* mutant: the callback fails after its enqueue
    /\ j \in inFlight
    /\ failures[j] < MaxFailures
    /\ failures' = [failures EXCEPT ![j] = @ + 1]
    /\ staged' = [staged EXCEPT ![j] = @ + 1]
    /\ Continue(Append(deliveries, j), backoff \cup {j}, inFlight \ {j}, suppressed, watched,
                loop.at = "deliver" /\ loop.job = j)
    /\ UNCHANGED <<record, jobs, timers, suppressed, watched, shown, told, clients>>

\* The callback rejects: count the attempt, back off and go to the tail, unless
\* the id was suppressed meanwhile.
CallbackRejects(j) ==
    /\ j \in inFlight
    /\ failures[j] < MaxFailures
    /\ failures' = [failures EXCEPT ![j] = @ + 1]
    /\ Continue(IF Quiet(j, suppressed, watched) THEN deliveries ELSE Append(deliveries, j),
                backoff \cup {j}, inFlight \ {j}, suppressed, watched,
                loop.at = "deliver" /\ loop.job = j)
    /\ UNCHANGED <<record, jobs, timers, suppressed, watched, staged, shown, told, clients>>

FlushStale ==                               \* mutant: no staleness check at the flush
    /\ \E j \in Jobs : staged[j] > 0
    /\ shown' = [j \in Jobs |-> shown[j] + staged[j]]
    /\ staged' = [j \in Jobs |-> 0]
    /\ UNCHANGED <<record, jobs, timers, suppressed, watched, queue, told, clients>>

\* The yield queue is drained into the conversation; stale entries are dropped.
FlushYieldQueue ==
    /\ \E j \in Jobs : staged[j] > 0
    /\ shown' = [j \in Jobs |-> IF Quiet(j, suppressed, watched) THEN shown[j]
                                ELSE shown[j] + staged[j]]
    /\ staged' = [j \in Jobs |-> 0]
    /\ UNCHANGED <<record, jobs, timers, suppressed, watched, queue, told, clients>>

-----------------------------------------------------------------------------
(* Registration, execution, cancellation, eviction. *)

AtCapacity == Cardinality({j \in Registered : Live(j) /\ ~queued[j]}) >= MaxRunning

\* resolveJobId(): the lowest id no record holds.
ResolveJobId ==
    LET free == {i \in Ids : jobs[i] = NoJob}
    IN  CHOOSE i \in free : \A k \in free : i <= k

\* register(): a task job starts queued, a bash job does not; the path that may
\* background a foreground command acknowledges its job in the same turn.
Register(j) ==
    LET i          == ResolveJobId
        foreground == Kind[j] = "foreground"
    IN  /\ disp.at \in {"no", "closing"}
        /\ st[j] = "none"
        /\ ~AtCapacity
        /\ st' = [st EXCEPT ![j] = "running"]
        /\ queued' = [queued EXCEPT ![j] = Kind[j] = "task"]
        /\ id' = [id EXCEPT ![j] = i]
        /\ jobs' = [jobs EXCEPT ![i] = j]
        /\ fg' = [fg EXCEPT ![j] = IF foreground THEN "waiting" ELSE "none"]
        /\ suppressed' = IF foreground THEN suppressed \cup {i} ELSE suppressed \ {i}
        /\ deliveries' = IF foreground
                         THEN Loud(deliveries, suppressed', watched)
                         ELSE deliveries
        /\ UNCHANGED <<timers, watched, backoff, failures, inFlight, loop, staged, shown, told,
                       poll, polls, drain, disp>>

\* A spawn has its slot, and was not cancelled while it waited for it.
MarkRunning(j) ==
    /\ Live(j) /\ queued[j]
    /\ queued' = [queued EXCEPT ![j] = FALSE]
    /\ UNCHANGED <<st, id, jobs, timers, suppressed, watched, queue, staged, shown, told, clients>>

SettleAlwaysDelivers(j, outcome) ==         \* mutant: a cancelled job reports itself
    /\ fg[j] # "waiting"
    /\ \/ Live(j) /\ ~queued[j] /\ st' = [st EXCEPT ![j] = outcome]
       \/ st[j] = "cancelling" /\ st' = [st EXCEPT ![j] = "cancelled"]
    /\ EnqueueDelivery(j, suppressed)
    /\ timers' = timers \cup {id[j]}
    /\ UNCHANGED <<queued, id, jobs, suppressed, watched, failures, staged, shown, told, clients>>

\* The run promise of a job settles: deliver unless cancelled, then arm the
\* eviction timer of the job's id. A foreground wait is told before that.
Settle(j, outcome) ==
    /\ fg[j] # "waiting"
    /\ \/ /\ Live(j) /\ ~queued[j]
          /\ st' = [st EXCEPT ![j] = outcome]
          /\ EnqueueDelivery(j, suppressed)
       \/ /\ st[j] = "cancelling"
          /\ st' = [st EXCEPT ![j] = "cancelled"]
          /\ UNCHANGED <<deliveries, backoff, inFlight, loop>>
    /\ timers' = timers \cup {id[j]}
    /\ UNCHANGED <<queued, id, jobs, suppressed, watched, failures, staged, shown, told, clients>>

\* The retention window the program uses is five minutes. LongRetention is the
\* assumption that by then the run has settled, its foreground wait and the polls
\* that track it are over, and its delivery has ended in the conversation.
MayEvict(i) ==
    LongRetention =>
        \A j \in Jobs : id[j] = i =>
            /\ st[j] # "cancelling"
            /\ ~IsQueued(j) /\ j \notin inFlight /\ staged[j] = 0
            /\ fg[j] \in {"none", "over"} /\ \A p \in Polls : j \notin poll[p].tracked

\* The eviction timer of an id fires: record, suppression and watch go together.
Evict(i) ==
    /\ i \in timers
    /\ MayEvict(i)
    /\ timers' = timers \ {i}
    /\ jobs' = [jobs EXCEPT ![i] = NoJob]
    /\ suppressed' = suppressed \ {i}
    /\ watched' = watched \ {i}
    /\ UNCHANGED <<record, queue, staged, shown, told, clients>>

CancelMarksAborted(who) ==                  \* mutant: an agent status given to a job
    /\ st' = [j \in Jobs |-> IF j \in who /\ Live(j) THEN "aborted" ELSE st[j]]
    /\ timers' = timers \cup {id[j] : j \in {k \in who : Live(k)}}

\* cancelAll(filter): every running record of #jobs that matches.
CancelMarks(who) ==
    /\ st' = [j \in Jobs |-> IF j \in who /\ Live(j) THEN "cancelling" ELSE st[j]]
    /\ timers' = timers \cup {id[j] : j \in {k \in who : Live(k)}}

\* A session cancels the jobs it registered (teardown, new session, handoff).
CancelAll(o) ==
    /\ \E j \in OwnedBy(o) : Live(j)
    /\ CancelMarks(OwnedBy(o))
    /\ UNCHANGED <<queued, id, jobs, suppressed, watched, queue, staged, shown, told, clients>>

-----------------------------------------------------------------------------
(* The job tool. *)

\* buildResult(): snapshot the current holder of each tracked id, falling back
\* to the tracked record, report what is no longer running and acknowledge it.
Latest(j) == IF jobs[id[j]] # NoJob THEN jobs[id[j]] ELSE j

BuildResult(tracked, status, wat) ==
    LET done == {l \in {Latest(j) : j \in tracked} : status[l] # "running"}
        sup  == suppressed \cup {id[l] : l \in done}
    IN  /\ suppressed' = sup
        /\ watched' = wat
        /\ told' = told \cup {l \in done : status[l] \in {"completed", "failed"}}
        /\ deliveries' = IF done = {} THEN deliveries
                         ELSE Loud(deliveries, sup, wat)
        /\ UNCHANGED <<backoff, failures, inFlight, loop>>

\* A foreground wait that has just timed out is ahead in the microtask queue of
\* every continuation of the job tool.
NoneTimedOut(tracked) == \A j \in tracked : fg[j] # "timedout"

\* list, or a poll none of whose jobs is running: an immediate snapshot.
JobSnapshot(tracked) ==
    /\ polls < MaxPolls
    /\ tracked # {}
    /\ NoneTimedOut(tracked)
    /\ \E o \in Owners : \/ tracked = OwnedBy(o)
                        \/ tracked \subseteq {j \in OwnedBy(o) : ~Live(j)}
    /\ polls' = polls + 1
    /\ BuildResult(tracked, st, watched)
    /\ UNCHANGED <<record, jobs, timers, staged, shown, poll, fg, drain, disp>>

\* cancel without poll: cancel one job of the caller and report it.
JobCancel(j) ==
    /\ polls < MaxPolls
    /\ j \in Registered /\ Live(j)
    /\ polls' = polls + 1
    /\ CancelMarks({j})
    /\ BuildResult({j}, st', watched)
    /\ UNCHANGED <<queued, id, jobs, staged, shown, poll, fg, drain, disp>>

\* poll: watch the running jobs among those tracked, and wait.
PollStart(p, tracked) ==
    LET running == {j \in tracked : Live(j)}
    IN  /\ polls < MaxPolls
        /\ poll[p].at = "idle"
        /\ \E o \in Owners : tracked \subseteq OwnedBy(o)
        /\ running # {}
        /\ polls' = polls + 1
        /\ watched' = watched \cup {id[j] : j \in running}
        /\ poll' = [poll EXCEPT ![p] = [at |-> "waiting", tracked |-> tracked,
                                        watching |-> {id[j] : j \in running}]]
        /\ UNCHANGED <<record, jobs, timers, suppressed, queue, staged, shown, told, fg, drain, disp>>

\* The race ends (a job settled, the window elapsed, or the call was aborted):
\* unwatch and report, in one turn.
PollReturn(p) ==
    /\ poll[p].at = "waiting"
    /\ NoneTimedOut(poll[p].tracked)
    /\ poll' = [poll EXCEPT ![p] = [at |-> "idle", tracked |-> {}, watching |-> {}]]
    /\ BuildResult(poll[p].tracked, st, watched \ poll[p].watching)
    /\ UNCHANGED <<record, jobs, timers, staged, shown, polls, fg, drain, disp>>

-----------------------------------------------------------------------------
(* The foreground wait of the bash tool. *)

FgTimeout(j) ==
    /\ fg[j] = "waiting"
    /\ fg' = [fg EXCEPT ![j] = "timedout"]
    /\ UNCHANGED <<record, jobs, timers, suppressed, watched, queue, staged, shown, told,
                   poll, polls, drain, disp>>

\* The command ends: run() resolves the completion before the job settles.
FgComplete(j) ==
    /\ fg[j] = "waiting"
    /\ fg' = [fg EXCEPT ![j] = "ended"]
    /\ UNCHANGED <<record, jobs, timers, suppressed, watched, queue, staged, shown, told,
                   poll, polls, drain, disp>>

\* The completion won the race: it is the tool result.
FgReturn(j) ==
    /\ fg[j] = "ended"
    /\ fg' = [fg EXCEPT ![j] = "over"]
    /\ told' = told \cup {j}
    /\ UNCHANGED <<record, jobs, timers, suppressed, watched, queue, staged, shown,
                   poll, polls, drain, disp>>

\* The tool call is aborted: cancel what runs under the job's id.
FgAbort(j) ==
    /\ fg[j] = "waiting"
    /\ fg' = [fg EXCEPT ![j] = "over"]
    /\ CancelMarks({jobs[id[j]]} \ {NoJob})
    /\ UNCHANGED <<queued, id, jobs, suppressed, watched, queue, staged, shown, told,
                   poll, polls, drain, disp>>

FgResumeLater(j) ==                         \* mutant: lifts the suppression, no re-enqueue
    /\ fg[j] = "timedout"
    /\ fg' = [fg EXCEPT ![j] = "over"]
    /\ suppressed' = suppressed \ {id[j]}
    /\ UNCHANGED <<record, jobs, timers, watched, queue, staged, shown, told,
                   poll, polls, drain, disp>>

\* Backgrounded after all: resumeDeliveries() lifts the suppression and, when
\* the job finished meanwhile, enqueues the completion that was skipped.
FgResume(j) ==
    /\ fg[j] = "timedout"
    /\ fg' = [fg EXCEPT ![j] = "over"]
    /\ suppressed' = suppressed \ {id[j]}
    /\ LET now == jobs[id[j]]
       IN  IF /\ id[j] \in suppressed
              /\ now # NoJob /\ st[now] \in {"completed", "failed"}
              /\ \A d \in inFlight : id[d] # id[j]
              /\ \A k \in 1..Len(deliveries) : id[deliveries[k]] # id[j]
           THEN EnqueueDelivery(now, suppressed')
           ELSE UNCHANGED <<deliveries, backoff, inFlight, loop>>
    /\ UNCHANGED <<record, jobs, timers, watched, failures, staged, shown, told,
                   poll, polls, drain, disp>>

-----------------------------------------------------------------------------
(* drainDeliveries with an owner filter, one at a time. *)

Pending(o) == {j \in Jobs : /\ Owner[j] = o /\ ~Quiet(j, suppressed, watched)
                            /\ j \in inFlight \/ IsQueued(j)}

DrainStart(o) ==
    /\ drain.at = "idle" /\ disp.at = "no"
    /\ Pending(o) # {}
    /\ drain' = [at |-> "ready", owner |-> o, job |-> NoJob]
    /\ UNCHANGED <<record, jobs, timers, suppressed, watched, queue, staged, shown, told,
                   poll, polls, fg, disp>>

DrainPickTakesAll(j) ==                     \* mutant: takes all of the owner's, delivers one
    LET mine == Pending(drain.owner) \ inFlight
    IN  /\ drain.at = "ready"
        /\ j \in mine
        /\ drain' = [drain EXCEPT !.at = "await", !.job = j]
        /\ deliveries' = Keep(deliveries, Jobs \ mine)
        /\ backoff' = backoff \ mine
        /\ inFlight' = inFlight \cup {j}
        /\ UNCHANGED <<record, jobs, timers, suppressed, watched, failures, loop, staged, shown,
                       told, poll, polls, fg, disp>>

\* deliverNextFiltered: take a due delivery of the owner out of the queue and
\* start its callback beside the loop; a delivery in backoff is slept for.
DrainPick(j) ==
    LET mine == Pending(drain.owner) \ inFlight
        at   == CHOOSE k \in 1..Len(deliveries) : deliveries[k] = j
        rest == SubSeq(deliveries, 1, at - 1) \o SubSeq(deliveries, at + 1, Len(deliveries))
    IN  /\ drain.at = "ready"
        /\ j \in mine
        /\ j \in backoff => mine \subseteq backoff
        /\ drain' = [drain EXCEPT !.at = "await", !.job = j]
        /\ deliveries' = rest
        /\ backoff' = backoff \ {j}
        /\ inFlight' = inFlight \cup {j}
        /\ UNCHANGED <<record, jobs, timers, suppressed, watched, failures, loop, staged, shown, told,
                       poll, polls, fg, disp>>

\* Nothing of the owner is queued: wait for what is in flight, or be done.
DrainAwait(j) ==
    /\ drain.at = "ready"
    /\ Pending(drain.owner) \subseteq inFlight
    /\ j \in Pending(drain.owner)
    /\ drain' = [drain EXCEPT !.at = "await", !.job = j]
    /\ UNCHANGED <<record, jobs, timers, suppressed, watched, queue, staged, shown, told,
                   poll, polls, fg, disp>>

DrainNext ==
    /\ drain.at = "await" /\ drain.job \notin inFlight
    /\ drain' = [drain EXCEPT !.at = "ready", !.job = NoJob]
    /\ UNCHANGED <<record, jobs, timers, suppressed, watched, queue, staged, shown, told,
                   poll, polls, fg, disp>>

\* The drain returns: nothing is pending, or its deadline passed in a wait.
DrainReturn ==
    /\ LET mine == Pending(drain.owner) \ inFlight
       IN  \/ drain.at = "ready" /\ Pending(drain.owner) = {}
           \/ drain.at = "ready" /\ mine # {} /\ mine \subseteq backoff
           \/ drain.at = "await"
    /\ drain' = [at |-> "idle", owner |-> NoJob, job |-> NoJob]
    /\ UNCHANGED <<record, jobs, timers, suppressed, watched, queue, staged, shown, told,
                   poll, polls, fg, disp>>

-----------------------------------------------------------------------------
(* Teardown: the owning session's beginDispose(), then the manager's dispose(). *)

\* beginDispose() empties the yield queue; the manager is disposed of only after
\* the session has awaited its shutdown hooks and its post-prompt tasks.
BeginDispose ==
    /\ disp.at = "no"
    /\ disp' = [disp EXCEPT !.at = "closing"]
    /\ staged' = [j \in Jobs |-> 0]
    /\ UNCHANGED <<record, jobs, timers, suppressed, watched, queue, shown, told,
                   poll, polls, fg, drain>>

\* Synchronous part: refuse registrations, clear the timers, cancel everything.
DisposeStart ==
    /\ disp.at = "closing"
    /\ disp' = [at |-> "waiting", for |-> Registered]
    /\ st' = [j \in Jobs |-> IF j \in Registered /\ Live(j) THEN "cancelling" ELSE st[j]]
    /\ timers' = {id[j] : j \in {k \in Registered : Live(k)}}
    /\ UNCHANGED <<queued, id, jobs, suppressed, watched, queue, staged, shown, told,
                   poll, polls, fg, drain>>

\* waitForAll() is over; then the unfiltered drain ends, drained or timed out,
\* and the state is cleared. Callbacks in flight are not stopped.
DisposeEnd ==
    /\ disp.at = "waiting"
    /\ \A j \in disp.for : Settled(j)
    /\ disp' = [disp EXCEPT !.at = "done"]
    /\ timers' = {} /\ suppressed' = {} /\ watched' = {}
    /\ jobs' = [i \in Ids |-> NoJob]
    /\ deliveries' = <<>>
    /\ UNCHANGED <<record, backoff, failures, inFlight, loop, staged, shown, told,
                   poll, polls, fg, drain>>

-----------------------------------------------------------------------------
\* Disposed, and every continuation has run: the manager rests.
Rest == /\ disp.at = "done" /\ inFlight = {} /\ loop.at = "off" /\ drain.at = "idle"
        /\ \A p \in Polls : poll[p].at = "idle"
        /\ UNCHANGED vars

Next ==
    \/ LoopWake \/ LoopEnd \/ FlushYieldQueue
    \/ \E j \in Jobs : \/ CallbackResolves(j) \/ CallbackRejects(j)
                       \/ Register(j)
                       \/ MarkRunning(j)
                       \/ \E o \in {"completed", "failed"} : Settle(j, o)
                       \/ JobCancel(j)
                       \/ FgTimeout(j) \/ FgComplete(j) \/ FgReturn(j) \/ FgAbort(j) \/ FgResume(j)
                       \/ DrainPick(j) \/ DrainAwait(j)
    \/ \E i \in Ids : Evict(i)
    \/ \E o \in Owners : CancelAll(o)
    \/ \E o \in DrainFor : DrainStart(o)
    \/ \E S \in SUBSET Jobs : JobSnapshot(S) \/ \E p \in Polls : PollStart(p, S)
    \/ \E p \in Polls : PollReturn(p)
    \/ DrainNext \/ DrainReturn
    \/ BeginDispose \/ DisposeStart \/ DisposeEnd
    \/ Rest

Spec == Init /\ [][Next]_vars

\* Timers fire and continuations run; the callback, which may reject at most
\* MaxFailures times per record, in the end resolves. Nothing obliges a job to
\* settle, a session to cancel, anyone to poll, or the session to drain its
\* yield queue: an entry staged after a turn's last poll waits there until
\* something else wakes the session.
Fairness ==
    /\ WF_vars(LoopWake) /\ WF_vars(LoopEnd)
    /\ \A j \in Jobs : WF_vars(CallbackResolves(j)) /\ WF_vars(FgReturn(j)) /\ WF_vars(FgResume(j))
    /\ \A p \in Polls : WF_vars(PollReturn(p))

FairSpec == Spec /\ Fairness

-----------------------------------------------------------------------------
(* Properties. *)

\* The type invariant of the manager and of its callers.
TypeOK ==
    /\ st \in [Jobs -> {"none", "running", "cancelling", "cancelled", "completed", "failed"}]
    /\ queued \in [Jobs -> BOOLEAN]
    /\ id \in [Jobs -> Ids \cup {0}]
    /\ jobs \in [Ids -> Jobs \cup {NoJob}]
    /\ timers \subseteq Ids /\ suppressed \subseteq Ids /\ watched \subseteq Ids
    /\ deliveries \in Seq(Jobs) /\ backoff \subseteq Jobs /\ inFlight \subseteq Jobs
    /\ failures \in [Jobs -> 0..MaxFailures]
    /\ loop \in [at : {"off", "sleep", "deliver", "ending"}, job : Jobs \cup {NoJob}]
    /\ staged \in [Jobs -> Nat] /\ shown \in [Jobs -> Nat] /\ told \subseteq Jobs
    /\ poll \in [Polls -> [at : {"idle", "waiting"}, tracked : SUBSET Jobs, watching : SUBSET Ids]]
    /\ polls \in 0..MaxPolls
    /\ fg \in [Jobs -> {"none", "waiting", "timedout", "ended", "over"}]
    /\ drain \in [at : {"idle", "ready", "await"}, owner : Owners \cup {NoJob}, job : Jobs \cup {NoJob}]
    /\ disp \in [at : {"no", "closing", "waiting", "done"}, for : SUBSET Jobs]

\* "the result is still delivered exactly once": at most one follow-up per job,
\* with the loop, the scoped drain, retries and resumed waits all delivering.
FollowUpOnce == \A j \in Jobs : shown[j] + staged[j] <= 1

\* Reporting an outcome in a tool result "suppresses later automatic follow-up
\* delivery for the same completions", staged or in flight ones included, as
\* long as dispose() has not cleared the manager.
AcknowledgedStaysQuiet ==
    [][disp.at # "done" => \A j \in told : shown'[j] = shown[j]]_vars

\* Watching "suppresses automatic completion delivery for those ids while they
\* are being watched": a job some poll call still waits on is not on its way to
\* the conversation, neither queued, nor in flight, nor staged.
WatchedNotDelivered ==
    \A p \in Polls : \A j \in poll[p].tracked :
        id[j] \in poll[p].watching => ~IsQueued(j) /\ j \notin inFlight /\ staged[j] = 0

\* A cancelled job never reports itself.
CancelledStaysQuiet ==
    \A j \in Jobs : st[j] \in {"cancelling", "cancelled"} =>
        /\ shown[j] = 0 /\ staged[j] = 0
        /\ j \notin inFlight /\ ~IsQueued(j)

\* A result nobody has reported yet is on its way: queued, in flight, staged, or
\* with a poll or a foreground wait that will report it. Neither the scoped
\* drain, nor a retry, nor an unwatch or a resume lets it fall between two of them.
ResultHeld ==
    \A j \in Jobs :
        /\ st[j] \in {"completed", "failed"} /\ shown[j] = 0 /\ j \notin told
        /\ disp.at = "no"
        => \/ IsQueued(j) \/ j \in inFlight \/ staged[j] > 0
           \/ \E p \in Polls : j \in poll[p].tracked
           \/ fg[j] \in {"ended", "timedout"}

\* The manager hands every result over: a job that completed or failed is
\* reported by a tool result, or its follow-up gets into the session's yield
\* queue, again if an entry is dropped there unreported; unless the manager is
\* disposed of first. What the session does with the queue is not its business.
ResultHandedOver ==
    \A j \in Jobs : st[j] \in {"completed", "failed"} ~>
                        (staged[j] > 0 \/ shown[j] > 0 \/ j \in told \/ disp.at # "no")
=============================================================================
