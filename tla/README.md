# A TLA+ development of scipi's orchestration core

scipi (a fork of oh-my-pi) is a coding agent in TypeScript. Most of its four
thousand source files are tools, providers, rendering, generated protocol code and
vendored libraries. The part that is hard to get right, and that this development
is about, is the code that lets several agents and jobs run at once in one process:
who may run, how a message or a finished job's result reaches a conversation, how an
agent is put to sleep, woken and killed, what a second model that watches it is
shown, and what its session file holds after a crash. All of it is single-threaded
and asynchronous: two handlers interleave at their `await`s, timers and abort
signals, and nowhere else. An action of a model is therefore a handler's code
between two of those points.

Paths below are relative to `src/packages/scipi-agent/src/` unless they start with
`packages/` or `docs/` (then relative to `src/`).

## Inventory

| Component | State | Operations | Interacts with |
|---|---|---|---|
| Concurrency limiter, `task/parallel.ts` | `#max`, `#current`, a queue of waiters | `acquire(signal)`, `release`, `resize`; `mapWithConcurrencyLimit` | the executor (one limiter per provider), the task tool (one for spawns) |
| Background job manager, `async/job-manager.ts` | job records by id, eviction timers, suppressed and watched ids, a delivery queue and its loop | `register`, `cancel`, `cancelAll`, `watchJobs`, `acknowledgeDeliveries`, `resumeDeliveries`, `drainDeliveries`, `dispose` | the job, task and bash tools, the completion callback of `sdk.ts`, the ACP adapter |
| Job tool, `tools/job.ts` | a poll's watched ids | list, cancel, poll | job manager |
| Bash auto-background, `tools/bash.ts` | a foreground wait | start, time out, complete, abort | job manager |
| Yield queue, `session/yield-queue.ts` | staged entries per kind, idle-flush flag and timer | `enqueue`, `flush`, `drainLazy`, `clear` | the session's turn boundaries; filled by the completion callback, IRC, LSP |
| Agent session, `session/agent-session.ts` | count of prompts in flight, asides, next-turn messages, generation, wake parking | `prompt`, `abort`, `deliverIrcMessage`, `queueHiddenNextTurnMessage`, continuations, `dispose` | the agent core and all of the components here |
| Agent loop, `packages/agent/src/agent.ts`, `agent-loop.ts` | steering and follow-up queues, one run | `prompt`, `continue`, the polls at turn boundaries, `abort` | the session, providers, tools |
| Agent registry, `registry/agent-registry.ts` | an entry per id: status, session, transcript | `register`, `setStatus`, `attachSession`, `detachSession`, `unregister`; events | everybody who addresses an agent |
| Agent lifecycle, `registry/agent-lifecycle.ts`, `task/persisted-revive.ts` | adoptions with timers, parks and revivals in flight | `adopt`, `park`, `ensureLive`, `release`, `dispose` | registry events, session disposal, hub, IRC |
| Subagent executor, `task/executor.ts`, `task/index.ts` | one run: slot, session, abort state | start, drive to a yield, finalise (keep, abort, isolate) | limiter, registry, lifecycle |
| Session creation and disposal, `sdk.ts` | registration, dispose wrapper | `createAgentSession`, `dispose` | registry, lifecycle, job manager |
| IRC bus, `irc/bus.ts`, `tools/irc.ts` | mailboxes (100 messages), waiters | `send`, `wait`, `inbox` | lifecycle (revives a parked recipient), sessions |
| Tool choice queue, `session/tool-choice-queue.ts`, `tools/resolve.ts` | queued directives, the one in flight, staged previews | `push`, `nextToolChoice`, `resolve`, `reject`, `removeByLabel`, `clear`, previews | the session's turns, the resolve tool |
| Advisor runtime, `advisor/runtime.ts` | cursor, batch, backlog, epoch, failures, catch-up waiters | `onTurnEnd`, `waitForCatchup`, `reset`, `seedTo`, `dispose`, the drain loop | the session's turns and history, the advisor agent |
| Session storage, `session/session-manager.ts` and its storage | entries in memory, the writer, the disk chain and its epoch, flags | append, `flushSync`, `rewriteEntries`, `setSessionName`, `ensureOnDisk`, `close`; switch, fork, move | the session, the interactive controller |
| Swarm, `packages/swarm-extension/src/swarm/` | dependency graph, waves, results | `buildExecutionWaves`, `run` | the executor |
| Goal runtime, collaboration, MCP manager, worker client, auth broker | see `PROJECT.json` | | |

What makes each of them correct, and what is hard about it:

- **Limiter.** A slot is neither leaked nor returned twice, nobody waits beside a
  free slot, the cap holds across a resize, waiters are served in order. Hard: an
  abort between the grant of a slot and the continuation that sees it; a ceiling
  changed while slots are out.
- **Jobs.** A result is reported, once, and never behind the back of a poll that
  waits for it or after a tool result that already told it. Hard: five parties
  (loop, scoped drain, polls, foreground wait, teardown) share two sets of
  suppressed ids and one queue; the completion callback awaits; ids are reused.
- **Session delivery.** A message that comes at any moment is answered: polled by the
  running loop, or taken up by a continuation, a wake or a flush after it. Hard: the
  last poll of a run and the end of the prompt that started it are separate steps, and
  an abort resets the count of prompts in flight while some still unwind.
- **Agents.** One writer per transcript, no session that nothing can reach, an idle
  agent eventually parked, a kill that is final. Hard: a dispose takes seconds during
  which the entry still names the session; the dispose wrapper, the executor, the
  lifecycle manager and status events all write the same entry, by id.
- **IRC.** A message is handed over once or remains in a mailbox, a `wait` is answered
  once, a sender always gets a receipt and can rely on it. Hard: `send` revives the
  recipient and looks its session up again; hand-over to a session may throw.
- **Tool choices.** A forced choice is served at most once; a preview can be resolved
  until it was. Hard: rejection requeues under another label, resolve calls overlap.
- **Advisor.** It sees every message of the history, nothing of an earlier one, and the
  backlog a session waits on is exact. Hard: the drain loop awaits while a reset, a
  re-prime or a dispose replaces what it has in hand.
- **Session file.** Entries in order, once each, none lost by a crash. Hard: full
  rewrites await while synchronous appends and rewrites go on.
- **Swarm.** The waves are a topological order of the graph and leave nobody out. They
  run one after the other; an agent that fails does not stop the later waves.

`PROJECT.json` lists the hazards line by line, with the properties that cover them, and
every component with what is left out of it.

## Modules

Each module models one component, or one concern of the session, together with the
callers that make it hard. `MC...` modules and `.cfg` files give the small instances,
`...Proofs` modules the theorems. Modules meet where the code does: `IrcBus` sees a
recipient whose life `AgentLifecycle` details; the staged results of `JobManager` are
the `result` messages of `SessionDelivery`; `SessionDelivery` has the turns whose ends
`AdvisorRuntime` and `ToolChoiceQueue` react to.

| Module | Code | Abstract specification |
|---|---|---|
| `Semaphore` | `task/parallel.ts`, its callers in `task/executor.ts` and `task/index.ts` | |
| `JobManager` | `async/job-manager.ts`, `tools/job.ts`, `tools/bash.ts`, the callback of `sdk.ts` | |
| `AgentLifecycle` | `registry/`, `task/persisted-revive.ts`, parts of `task/executor.ts`, `sdk.ts`, the hub | |
| `IrcBus` | `irc/bus.ts`, `tools/irc.ts` | `PeerChannel` |
| `SessionDelivery` | `session/agent-session.ts`, `session/yield-queue.ts`, `packages/agent` | |
| `ToolChoiceQueue` | `session/tool-choice-queue.ts`, `tools/resolve.ts`, the session's side | |
| `AdvisorRuntime` | `advisor/runtime.ts`, the session's side | |
| `SessionFile` | `session/session-manager.ts` | |

### Semaphore

The class `Semaphore` of `task/parallel.ts` with its two kinds of caller. `max`,
`current` and `queue` are the private fields; `pc` and `aborted` describe the callers.
A grant and the continuation that observes it are two steps (`granted`, then
`Proceed`), so an abort can fall between them. `StartProviderRun` is
`getProviderSemaphore` (read the limit, resize the shared instance if it changed)
followed, in the same turn of the event loop, by `acquire(signal)`; `StartSpawn` is
a spawn body, which passes no signal and looks at its job's cancellation only once
admitted (`Proceed` then releases at once). `Abort` splices a queued waiter out.
`FinishRejected` is the `finally` block that must not release, because the flag
`providerSemaphoreAcquired` is still false. `Unbounded` is `Infinity`. The instance
lets both kinds of caller share one semaphore, which the program never does: it is
the harder case.

### JobManager

A member of `Jobs` is one record; ids are small numbers and, as in
`#resolveJobId`, a free one is used again. The record's status, the map `jobs`, the
eviction `timers`, the sets `suppressed` and `watched` and the `deliveries` queue are the
manager's fields. The loop is a position (`off`, `sleep`, `deliver`, `ending`): the
code's loop runs to its next await whenever something it waited for happens, which
`RunLoop` computes, so that no state exists in which the real loop could not be.
`staged` and `shown` are the yield queue and the conversation. The clients are the job
tool (`JobSnapshot`, `JobCancel`, `PollStart`, `PollReturn`), the foreground wait of
bash (`Fg*`), the scoped drain of the ACP adapter (`Drain*`), and teardown
(`BeginDispose`, `DisposeStart`, `DisposeEnd`).

Abstractions. Time: a delivery is due or in backoff, an armed timer may fire, a
waiting poll may return at any moment. A job tool call that cancels and polls is two
steps. Two continuations that the event loop runs as microtasks one after the other
keep that order (`NoneTimedOut`: a poll does not acknowledge a foreground job
between its timeout and the tool's re-enqueue). `LongRetention` says that the
retention window (five minutes by default) outlasts a staged entry and the unwinding
of a cancelled run; the runs assume it, and what happens without it is under
"Statements seen not to hold".

### AgentLifecycle

One agent id: entries of different ids do not interact. `ag` is its registry entry
together with its adoption; the registry's methods are operators on that record
(`Registered`, `SetStatus`, `Attach`, `Detach`, `Unregister`), each with the lifecycle
manager's synchronous reaction to the event it emits (`StatusEvent` arms and disarms
the timer, `Unregister` drops the adoption), so a handler is the composition of the
calls it makes, in order. Sessions are numbered; each is `live`, `disposing` (from
`beginDispose()`) or `disposed`. `by[d]` is the session whose dispose `d` awaits: a park,
a release, the executor's abort or isolation, the reaping of a session that came too
late, a failed revival. `EndDispose(d)` is the end of that dispose: listeners removed, the
wrapper's `unregisterUnlessParked` (by id, as in the code), then the awaiting caller's
continuation.

A turn is accepted (`Prompt`), prepared, and announced by `agent_start` (`StartTurn`)
only then; in a revived session whose status subscription is not installed yet it is
`silent`. A revival goes through the factory (cold) or the reviver (hot), registers the
agent anew with a null session, attaches, and becomes idle; it can fail before the
registration, after it, and after its session exists. The operator kills (`KillAborts`,
`KillReleases`), and the hub's `Rescan` lists an unregistered transcript as parked.

Abstractions. The transcript is on disk (`sessionFile` is not null). The TTL is
positive and longer than a dispose, so a second timer does not expire during a park.
The executor's dispose returns within its five-second cap. A second kill does not come while
the first one's dispose is still awaited. The manager's own `dispose()` at process exit is not
modelled.

A kill comes in any state, as in the code: `release` looks at no revival, no run and no other
dispose. `crossed` is a history variable that no guard reads. It becomes true when
`release` comes while a startup has registered the agent and not finished, while the executor
will close the session itself, or while another dispose is awaited (`Crossing`), and when the
executor winds up a run whose entry a kill had replaced meanwhile. `OneWriter`, `NoOrphan`,
`ParkKeepsEntry` and `IdleLeaves` are what the program keeps until then, `RevivalSettles` what it
always keeps; the traces of what fails afterwards are under "Statements seen not to hold".

### IrcBus and PeerChannel

One recipient: mailboxes and waiters of different agents do not interact. `place` says
where each message is; a tool call that was handed a message is a place, so that
"handed over twice" is a statement about the model's state. `mail` and `waiters` are the
recipient's entries of `#mailboxes` and `#waiters`. `Send` is `send()` up to its first
await: refuse, revive, or hand over (`HandOver`: the oldest waiter whose filter accepts
the sender, else the session, else a failure). `ResumeSend` is the continuation after
`ensureLive`, which looks everything up again. A session that is being disposed of
throws, and the catch block (`Buffer`) comes a turn of the event loop later; it shifts the
oldest message out of a full mailbox. `WaitTakes`, `WaitParks`, `WaitEnds`, `CallReturns`,
`Inbox` are the recipient's own calls. `peer` is the recipient's life, reduced to what
the bus asks about it.

`PeerChannel` is what a sender and the recipient may rely on, without mailboxes or
waiters: a message is seen at most once, its receipt is given once, a message whose
receipt says delivered is never kept for later, a kept one may still be seen or be
pushed out. `IrcBus` implements it under the mapping `Abstract`; this is checked as the
property `ImplementsChannel` and proved.

`broadcast` is a loop of sends; the relay of peers' talk to the main view is presentation.
A `send` with `await: true` whose own send fails discards a reply its waiter was already
handed: the model has the step (`ignored`), and the abstract channel allows it.

### SessionDelivery

Where each message is (`s.at`): unsent, in preparation (a user's, whose images are awaited), in the agent's steering or follow-up queue, among
the asides, staged in the yield queue, kept for the next turn, with a task that holds it,
in the history, or lost. A task is a turn or a continuation under way: a prompt in its
setup, a deferred prompt, a wake for a peer's message, a scheduled continuation, an idle
flush. The session's helpers (`isStreaming`, `canAutoContinue`, `scheduleQueuedMessageDrain`,
`wakeForIrc`, `resumeStrandedIrcAsides`, `endInFlight`) are functions from session state to
session state and are composed as the code calls them. The agent loop is its position
between polls: `turn`, `yield`, `steered`, `asided`, `ending`; each poll follows an await
of its own, so a message can fall between any two. `abort()` is three steps: up to its
first await, after the run and the cancelled tasks are over, and the reset of the in-flight
count with the drain after it. `stale` is a captured generation that an abort superseded.
A prompt looks at `isStreaming` and then awaits its images before it is counted in flight
(`accepted`, between `Prompt` and `PromptBegins`), so that it may meet a run that started meanwhile; a user's
message lifts the interrupt first and is queued later (`ReceiveUserMessage`, `QueueUserMessage`), so that an
abort may come between. `overtaken` is the history of those it came between.

Kept although a reader might expect otherwise, because the code has them: an abort during
the idle flush's wait cancels its timer and leaves the queue's flag set; the run that an idle
flush starts is in no begin/end bracket, so nothing drains after it (`NothingStranded`
excludes runs of that kind); an `endInFlight` that comes after an abort's reset counts down
a newer prompt; the retry of a prompt that found the agent busy looks at no generation.

Abstractions. Queues are in "all" mode. The session's deadline, retries after provider
errors and compaction are left out. `agent_end` and the `finally` that follows it are one
step. Ages of results are `JobManager`'s business. The side turn that answers a peer for a busy agent is
left out: its record joins the asides after an await (`session/agent-session.ts:11750`), and one that comes when
no run is on stays there until the next prompt, as the comment above it says.

### ToolChoiceQueue

`queue` and `inFlight` are the fields of the class, whose methods are functions of them
(`NextToolChoice`, `Resolve`, `Reject`, `RemoveByLabel`); `served` records what was resolved
of each force. The session's side are the actions: a user's force, the eager to-do's push
between the prompt and its first call, `nextHardToolChoice` (which rejects a choice whose
tool is inactive), `turn_end`, a run that throws, the return of the prompt. The previews
of the resolve tool are a stack that several resolve calls of one batch may read before
any has removed its entry; one whose apply threw registers it anew, one whose discard threw leaves it
where it is. `clear()`, `consumeLastServedLabel`, `onInvoked` handlers and the
to-do reminders are not modelled.

### AdvisorRuntime

A message is a number; the advisor's knowledge is the set of messages its conversation
derives from. `latest` is `#latestMessages`, an array it shares with the run: later
messages of the run join it, and none of a run that starts afterwards, which works on a copy
(`packages/agent/src/agent.ts:1055`). `AddMessage` is the loop's push together with the agent's `appendMessage`. `drain` is the loop of `#drain`: at rest, awaiting the
maintenance of the context, awaiting the advisor's prompt, or asleep before a retry, with the
batch and the epoch it captured. `Loop` is the head of the loop, reached from five places.
`Account` is the bookkeeping after a batch. A reset, a re-prime and a dispose each change the epoch or the
batch while the loop awaits.

Abstractions. What a delta looks like (the collapsing of unchanged context, the "(unchanged)"
marker, the filter of the advisor's own cards). `seedTo` runs only right after construction.
A failing prompt is one that throws; the real `Agent.prompt` resolves on provider failures
and aborts (`packages/agent/src/agent.ts:1236-1283`), so in the program the retry
branch is reached only by other exceptions.

### SessionFile

One file across crashes. An entry is the number of its append, an in-place change (a title,
pruned tool results) a revision. `AppendEntry` is `appendEntry` with `#persist` (cold: rewrite
synchronously; hot: one line through the open writer). Everything else is queued on the
promise chain `#diskTail`: `task` and `queue` are its slots, a full rewrite is four steps (begin,
serialize after the writer's close, rename or failure), and `RewriteSynchronously` resets the
chain, which turns what was queued into no-ops but does not stop a rewrite under way.
`writer = "replaced"` is an open writer whose file a rename has replaced. A crash loses the
memory and keeps the file. `overlapped` is a history variable: an append, a synchronous rewrite
or a first title happened while a full rewrite was under way. `RewriteEntries` is free to come in any
state: a session without a file gets one that way (`dropImages` before the first answer).

Abstractions. One file: `newSession`, `fork`, `moveTo`, `dropSession`, `restoreState` and switching are
not modelled (`drainAndCloseWriter` and `newSession` reset the chain without raising the epoch).
Opening a missing path is a new session; the header the code also materialises then is an
`EnsureOnDisk` right after. Fallbacks of the rename, torn lines, blobs and power loss are left
out. A title set while the first write of an `ensureOnDisk` is under way is not
persisted until the next rewrite; it counts as an overlap.

## Runs

| Run | What it explores | Distinct states | Checks |
|---|---|---|---|
| `semaphore` | three provider runs and a spawn body, limits unlimited, 1 or 2 changing at any start, aborts anywhere | 19 532 | `SlotAccounting`, `NoLostWakeup`, `CapRespected`, `NoStarvation` |
| `jobs_delivery` | a command that may be auto-backgrounded and a task of one agent, two polls in a row, the scoped drain beside the loop, one rejecting callback, cancellation, eviction, teardown | 1 469 578 | `FollowUpOnce`, `WatchedNotDelivered`, `CancelledStaysQuiet`, `ResultHeld`, `AcknowledgedStaysQuiet` |
| `jobs_polls_overlap` | two job tool calls that overlap | 303 700 | `ResultHandedOver` |
| `agent_lifecycle` | three sessions in a row; every entry, end, failure and scan; kills at any time | 123 904 | `OneWriter`, `NoOrphan`, `ParkKeepsEntry`, `IdleLeaves`, `RevivalSettles` |
| `irc_bus` | three messages of two senders, three calls of the recipient with different filters, a mailbox of one | 109 012 | `MailExact`, `AnsweredOnce`, `SendSettles`, `ImplementsChannel` |
| `session_delivery` | two messages of any kinds or three among them a follow-up and a peer's, a prompt, an abort, five tasks | 929 049 | `NothingStranded`, `PeerNeverLost`, `WakeSparesFollowUps` |
| `advisor` | six messages, two rewrites of the history, a retried turn, failing prompts, dispose | 650 891 | `BacklogExact`, `PendingServed`, `OldNeverSent`, `NothingSkipped` |
| `tool_choice` | two forces and the eager to-do over three prompts, two switches of the tool, two previews and two resolve calls | 284 679 | `ServedOnce`, `PreviewKept` |
| `session_file` | four appends, two in-place changes, three slots of disk work, failures and crashes at any step | 270 149 | `InOrder`, `OnlyOverlapLoses`, `EditsLand`, `NeverMixed` |
| `agent_resurrect`, `session_stranded_result`, `session_file_durable` | one statement of a comment or a document each, refuted (see Findings) | | |

Each passing run but `jobs_polls_overlap` also checks its module's `TypeOK`. What the
properties say, and the code they are about, is written above each of them.

**Bounds.** They are constants, named and commented in the modules.

- Four callers are a holder, two waiters and one that is aborted or resizes.
- Two jobs are enough for one job's id, timer or suppression to affect another; two polls,
  for one to unwatch what the other watches. A callback rejects at most once
  (`MaxFailures`), and there are at most two job tool calls (`MaxPolls`). The overlapping polls
  are checked for liveness without the drain, whose part is covered by `ResultHeld`.
- Three sessions are the first run and two revivals, so a timer armed in one life can
  expire in the next.
- Three messages and a mailbox of one make the mailbox overflow; three calls are a wait for
  anyone, a wait for one peer and a reply awaited, so that a filter decides who is answered.
- Session delivery: any two of the five kinds meet, and any third one comes beside a follow-up and a
  peer's message, the two that a wake has to keep apart (`Mixes`). Five tasks are a prompt, a continuation, a wake, a deferred prompt and a flush. `Tasks` bounds how many are under way at a
  time: what would open one more waits until one is free (`HasRoom`, `HasFree`), and with these
  messages five are enough that none ever has to wait (a sixth adds no state). One abort and one
  prompt: a second abort is not entered while the first awaits.
- Six messages, two resets and three failures in a row (the code's number, no bound)
  let a batch cross a reset, be retried and be dropped.
- Two forces let one wait while the other is in flight, requeued or rejected; three prompts let
  a force outlive the prompt it was made in.
- Three slots hold a rewrite under way, one queued behind it, and a close; with four
  appends an entry can precede, overlap and follow a rewrite. The slots are
  symmetric, as are the previews and the resolve calls; no liveness is checked under symmetry.

**Deadlock.** `Semaphore` and `JobManager` have an explicit action for the state in which
everybody is through (`Quiet`, `Rest`), and a session file can always be opened or crash, so TLC
checks there that the system rests nowhere else. The other runs end where their bounds end (no
session, message, prompt or rewrite left) and do not check for deadlock.

**Fairness.** Only what the event loop and the code guarantee.
`Semaphore`: continuations run, and a run that was admitted ends (it has a wall-clock limit).
`JobManager`: armed timers fire, the loop continues, the callback in the end resolves,
a poll returns (it has a timeout); no job has to settle, and the session need not drain its yield
queue: `session_stranded_result` is a case in which it does not.
`AgentLifecycle`: timers expire, disposes and revivals return, turns that started end (the agent
loop ends or is aborted), and a killer who has aborted the session releases it. Nobody has to
prompt, to revive or to kill.
`IrcBus`: continuations run, `ensureLive` answers or throws, the recipient's calls return.
`SessionDelivery` (for its violation run): continuations run, timers fire, and a model does not
call tools for ever. `AdvisorRuntime`, `ToolChoiceQueue` and `SessionFile` are checked for safety
only and state no fairness.

## Proofs

The theorems hold for every value of the constants that satisfies the named assumptions: any
finite sets of callers, messages, calls and slots, any caps, limits and thresholds, any bounds. One,
`WakeSparesHolds`, states a hypothesis of its own.
In each module an inductive invariant `IInv` strengthens the properties; `InitIInv` (`InitHolds`,
`InitInv`) and one lemma per action show that it holds and is kept, the theorem `Invariance` (or
`Invariant`) follows, and the properties from it. TLC checked each `IInv` on the small instance first.

**`SemaphoreProofs`**: `TypeCorrect`, `SlotsAccounted`, `NoWakeupLost`, `QueueExact`, and the
action properties `CapIsRespected` and `SlotsFifo` (order of service, which no run checks).
`IInv == TypeOK /\ QueueIsWaiters /\ SlotAccounting /\ NoLostWakeup`; none of the last three is
inductive alone. `release()` wakes the head of the queue and keeps `current`; the number of owners
stays the same only if the head is a waiter, which is `QueueIsWaiters`. A resize admits
the first `n` waiters; that `current` grows by exactly `n` needs that they are `n` different callers
(`PrefixCardinality`), and that none is left beside a free slot needs that `n` is what the room
allows (`AdmitCountFits`).

**`IrcBusProofs`**: `TypeCorrect`, `MailIsExact`, `WaiterAnsweredOnce`, and `BusImplementsChannel`, the
refinement of `PeerChannel`. `IInv == TypeOK /\ MailExact /\ AnsweredOnce /\ ReceiptFits`.
`AnsweredOnce` relates three pieces of state (the list of waiters, each call's progress, the places
of messages), so removing one waiter from a list without repetition (`WithoutFacts` and what
follows from it) is the core of most steps. The refinement needs `ReceiptFits` (a receipt
is given exactly when the hand-over ends) for the guards of the abstract `Deliver`, `Refuse` and
`Keep`, and `MailExact` to show that what `Buffer` shifts out was kept. `Inbox` maps to the
abstract `See` of a set of messages; a waiter's registration, a dispose and a revival to stutters.

**`AdvisorProofs`**: `TypeCorrect`, `BacklogIsExact`, `PendingIsServed`, `OldIsNeverSent`,
`NothingIsSkipped`. Three conjuncts strengthen them. `InHandSound`: no batch is of a later epoch
than the current one, so a reset cannot be mistaken for none; and what a compaction of the
advisor may put back contains all that it still holds. `Numbered`: a history begins where the last one
ended, which makes "older than `first`" the same as "of a former history". `Aligned`: the array
the runtime took as the latest transcript agrees with the session's own but for what was
taken back; a re-prime sets the cursor from that array, and `NothingSkipped` is about the transcript.

**`SessionFileProofs`**: `TypeCorrect`, `EntriesInOrder`, `OnlyOverlapsLose`, `EditsReachTheFile`,
`OldIsReplacedWhole`. `Ordered` extends the order to the memory and to every serialized body still
on its way, all below the number of the last append. `Chained`: only the head of the chain is
ever under way, unless a synchronous rewrite cut it off, which is an overlap. `Synced`: without
an overlap or a disk failure, the file and the bodies on their way have the session's entries and
no writer is on a replaced file. `Covered`: what was changed in place is on the file, in a body on its way,
or will be taken by a queued rewrite. The rest says what the flags mean (`Present`,
`Formats`, `Down`).

**`AgentProofs`**: `TypeCorrect`, `OneWriterHolds`, `NoOrphanHolds`, `ParkKeepsEntryHolds` and
`RemovalIsFinal`, for an operator who kills at any time. `IInv == TInv /\ (~crossed => Clean)`: `TInv` is what
no kill disturbs (types, what a startup finds, that whoever holds a session holds one that was built), `Clean` what
holds until a kill crosses something. The steps that matter are kills: one that crosses nothing must
keep `Clean`, which shows that `Crossing` names all that a removal by id gets wrong; `Killed` is the first
run whose session a kill has closed and whose executor has not noticed. `RemovalIsFinal` says
which part of `ReleaseIsFinal` is true: the revival in flight that `agent_resurrect` shows is the only exception. `OneWriter` counts sessions and is far from inductive. `Sole` says
which session may be writing (`Writer`: the one a revival builds, else the one the entry names)
and that only a session that writes has turns and listeners; that a revival
begins only when nothing writes (`Revival`) then follows from the entry having no session. A dispose is
the delicate part, because its end decides by id whether to unregister: `OfWriter` says that it is of the one
session that may write, `Alone` that those of a kill, an abort and an isolated run meet no other,
and `Parking` that the entry names a parking session to the end, so that the only company
of a park is the revival that built the same session. `Starting` and
`FirstRun` keep all that away from the executor's first run. `FreshFacts` (an unused number
can be taken) needs the well-foundedness of the naturals.


**`JobManagerProofs`**: `TypeCorrect`, `FollowUpOnceHolds`, `CancelledStaysQuietHolds`, `ResultHeldHolds`,
`WatchedNotDeliveredHolds` and the action property `AcknowledgedStaysQuietHolds`, under
`LongRetention`, which the runs assume too; `WatchedNotDelivered` moreover for at most one poll at a
time (two polls of one job refute it: the first to return unwatches for both). The
properties speak of records, the code of ids. `Registry` and `Current` tie them:
an id holds the record registered under it, and a record keeps its id as long as a delivery,
a foreground wait or a poll needs it, which is what `LongRetention` buys. `OnePlace` says that a
result is staged or shown at most once and not while its delivery is queued or in flight (`Busy`);
it is kept only because the loop and the drain take what they deliver out of the queue, where
it is once (`Queue`). That an acknowledgement silences what is on its way rests on
`QuietTold`: a suppressed id on its way belongs to a record that was reported, and not to one
a foreground wait holds back (`Foreground`). `Held` is `ResultHeld` and needs `SuppressedWhy`
(why a running job may be suppressed, so why its completion may be
swallowed) and `Watching`. What the filter `Keep` returns for a queue of any length is proved by the
well-foundedness of the naturals (`KeepFacts` and what precedes it), since induction is out of
reach.

**`ToolChoiceProofs`**: `TypeCorrect`, `ServedOnceHolds`, `PreviewKeptHolds`. `ServedOnce` counts calls
served and is not inductive. `Sound` says that a call of a force is in one place at most:
waiting in the queue once (`Apart`), or in flight (`Flying`), or served (`Gone`, `OnceServed`), and
that a force the user has not made is nowhere (`Known`). Each method of the class is
shown to keep it: the head's first call is taken, a rejected one put back in front, a served
one dropped, all of a label removed.

**`SessionDeliveryProofs`**: `TypeCorrect`, `NothingStrandedHolds`, `PeerNeverLostHolds`, `WakeSparesHolds`. The
invariant is a statement about the session's state between any two steps, also in the middle of
tasks: unless an abort is under way, either a run is on, or a task is in a begin/end bracket,
or nothing is left that the session would have to resume (`Drained`); a user who is resuming counts for the follow-ups. Each helper of the
session is shown to establish it from any sound state (`ScheduleFacts`, `ResumeFacts`,
`EndFacts`), as the code composes them. The count of prompts in flight may be lower than the number
of bracketed tasks, because an abort resets it, but never higher (`Counted`): so a count of
zero proves nothing about the tasks, while no task proves the count zero. A peer's message is lost only if a
wake finds the agent busy, and wakes start only when it is off (`WakeFacts`).
The last theorem is the only one about an instance narrower than the model: at most one message
is a peer's (`OnePeer`), because with two the statement is false (Findings). Its invariant,
`Apart`, says what waits in which queue, that a follow-up is with a task only while a wake parks
it, that there is one wake, for the one message, and that while it runs under the user's interrupt no
follow-up is in the queue it polls but those the interrupt overtook (`Spared`; `Barred` says that these are all that is still
in preparation). The delicate step is a wake's `finally`, which puts the
parked follow-ups back: no wake can be running then, since it would have to be the same task. TLC
checked `Apart` on the states of `session_delivery` before it was proved.
Only model-checked: liveness (`NoStarvation`, `ResultHandedOver`, `IdleLeaves`, `RevivalSettles`,
`SendSettles`), which is beyond the prover. Neither checked nor proved: `WakeSparesFollowUps` with several peers' messages, where it does not hold in general (see "Statements seen not to hold" under Findings).

## Findings

Each is a run whose one property states what a comment or a document says, and which TLC
refutes:

- `agent_resurrect`: `release` (`registry/agent-lifecycle.ts:207`, "Hard removal") does not look at
  a revival in flight, which registers the agent again after the removal, live and without
  an adoption: no timer will park it.
- `session_stranded_result`: a result staged after the loop's last poll and before the prompt is
  counted out is neither polled, nor flushed when idle (the session was streaming at
  the enqueue, `session/yield-queue.ts:67`), nor drained by `#endInFlight`, which looks at asides and
  queued messages only. It waits for the next prompt or entry. `docs/tools/bash.md:118` says results
  are "delivered automatically when complete".
- `session_file_durable`: a full rewrite serializes the entries and then awaits its write
  (`session/session-manager.ts:523`). An entry appended in between goes to the file the rename
  replaces; the writer stays on the replaced file and takes the following appends with it, until
  the next full rewrite. `docs/session.md:425`: "an entry is durable the instant the append
  returns". `OnlyOverlapLoses` says that this is the only way, outside disk failures.

**Statements seen not to hold.** No run is spent on these; each has a short trace in a model,
or was met while reading for it.

- Two polls of one job: the first to return unwatches it for both, and a delivery may then
  pass the one that still waits (`async/job-manager.ts:310`; `docs/tools/job.md:67`). The result is still
  handed over (`ResultHandedOver`). `WatchedNotDelivered` is checked for polls in a row.
- An eviction is scheduled for an id. A cancelled run that settles after its record was evicted
  and its id reused evicts the running job of that id (`async/job-manager.ts:210`;
  `docs/tools/job.md:44`); an acknowledged result that stays staged past the retention window is
  delivered. Both need a retention window shorter than the unwinding, which
  `LongRetention` excludes.
- A completion delivered after `beginDispose()` prompts the session that is going down
  (`session/agent-session.ts:1646`; comment at 4288).
- A kill that crosses something else (`modes/components/agent-hub.ts:556`, `registry/agent-lifecycle.ts:207`)
  breaks `OneWriter`, `NoOrphan` and `ParkKeepsEntry` without their exception. Between a revival's `register` and
  its attach, `release` removes the entry; `attachSession` and `setStatus` then find none
  (`registry/agent-registry.ts:101`) and do nothing, so the revived session lives and no entry names it. A scan lists the
  transcript as parked, `ensureLive` opens it again, and two sessions write one file. A kill during
  the first run's startup does the same. A kill whose dispose overlaps a park's, or the executor's own of an
  aborted or isolated run, ends with an `unregister` by id which may remove the entry of the
  incarnation that came after. A session lost that way still sets, by id, the status of the entry that took its place,
  which may disarm its idle timer; so does the executor when it winds up a run that was killed
  and revived meanwhile (`task/executor.ts:2364`).
- `ensureLive` during a park returns the session being closed (`registry/agent-lifecycle.ts:161`).
- The status turns `running` at `agent_start`; a prompt still being prepared is disposed with its
  session when the idle timer expires (`registry/agent-lifecycle.ts:245`).
- A session is null not "exactly when parked/aborted" (`registry/agent-registry.ts:39`) but also
  while the agent is being created; an aborted agent's late turn events set its status again (`:22`
  says terminal); a revival that fails after its registration unregisters the agent, so a later
  `ensureLive` has nothing to rebuild (`registry/agent-lifecycle.ts:199`); an isolated agent can
  be revived cold until its worktree is removed (`task/executor.ts:2351`).
- An advisor prompt that a reset aborts appends its aborted message after the reset cleared the
  advisor's conversation (`session/agent-session.ts` near 2199; `docs/advisor-watchdog.md:68`), and a
  compaction that ends after a reset restores what it held. `OldNeverSent` is about what is
  sent, not about what the advisor remembers. Retries after provider failures
  (`docs/advisor-watchdog.md:129`) do not happen in composition, since `Agent.prompt` does not reject
  on them. A turn that replaces one taken back is not shown to the advisor at its positions
  (`docs/advisor-watchdog.md:3`): `NothingSkipped` excepts them.
- With two peers' messages, a wake may run the follow-ups a user interrupt holds back
  (`session/agent-session.ts:1497`; comment at 1476: "park the follow-up queue across the wake and restore
  it after. It stays queued post-wake"). An abort ends a wake's run; its reset and drain come before that
  wake's `finally`, and the drain starts a second wake for an aside stranded meanwhile; the first one's `finally`
  then puts the parked follow-ups back under the second one's run, which polls them. The model of
  `session_delivery` finds this with a second message of kind `irc`. With one, there is one other way: a follow-up the user sent before
  the interrupt, whose images are still awaited (`session/agent-session.ts:6431`), is queued (:6459) during the wake,
  which has parked the others already, and is polled by it. `WakeSparesFollowUps` excepts such a message (`overtaken`).
- Overlapping resolve calls apply one preview twice (`tools/resolve.ts:71`; comment at 82: "consume the
  staged action exactly once").
- When a run throws, the forced call in flight is overwritten by the next choice and only its
  "none" is served (`session/tool-choice-queue.ts:141`; comment `session/agent-session.ts:2263`). A
  force whose tool is inactive is requeued for ever, not "dropped" (comment at 2216); a user's
  force that is exhausted still suppresses the eager to-do.
- The turn of an idle flush runs follow-ups that a user interrupt holds back; only a wake parks them
  (`session/agent-session.ts:1648`; comment 6498). Deferred messages taken by a prompt that an abort
  supersedes are gone (6214; comments 6151 and 6940).

## Not modelled

- `mapWithConcurrencyLimit` (`task/parallel.ts`) and the nesting of slots (a parent that holds a provider slot while a
  blocking child waits for one): the pool shares an index and an abort controller; nesting is
  listed as a hazard without a property.
- The swarm's waves are a pure function with tests of its own, and run one after the other.
- Goal runtime, collaboration, MCP manager, worker client, auth broker: protocols worth a model,
  left for a later extension of this project.
- Compaction, retries and branching of the agent session; the switching, forking and
  moving of session files; `clear()` and reminders of the tool choice queue.
- The terminal interface, the providers' wire formats and generated protocol code, the editing and
  search tools, the native crates, the Python packages and the benchmarks: sequential functions,
  conversions and I/O, with no protocol between concurrent parties. They are most of the
  six hundred thousand lines of the repository, so the modules map a small share of it: the
  orchestration core only.

## Running

In this directory, `tlc -config X.cfg M` for the runs in `PROJECT.json` (each ends within a few minutes on
two workers) and `tlapm M.tla` for `SemaphoreProofs`, `JobManagerProofs`, `IrcBusProofs`,
`AgentProofs`, `SessionDeliveryProofs`, `ToolChoiceProofs`, `AdvisorProofs` and `SessionFileProofs` (three
minutes for the longest, `JobManagerProofs`).
