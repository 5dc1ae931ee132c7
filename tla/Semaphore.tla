------------------------------ MODULE Semaphore ------------------------------
(***************************************************************************)
(* The counting semaphore of packages/scipi-agent/src/task/parallel.ts,    *)
(* with the two kinds of caller the code has:                              *)
(*                                                                         *)
(*  - provider runs (task/executor.ts): resolve the shared per-provider    *)
(*    limiter, resizing it in place when the configured limit changed,     *)
(*    acquire with an AbortSignal, and release in a finally block guarded  *)
(*    by the flag providerSemaphoreAcquired;                               *)
(*  - spawn job bodies (task/index.ts): acquire without a signal and look  *)
(*    at the job's own signal only once the slot is theirs.                *)
(*                                                                         *)
(* The two kinds never share a semaphore in the program; an instance may   *)
(* have callers of both, which contains either.                            *)
(* A promise that has been settled and the continuation that observes it   *)
(* are two steps ("granted", "rejected"): an abort can fall in between.    *)
(***************************************************************************)
EXTENDS Integers, Sequences, FiniteSets

CONSTANTS Runs,       \* the callers, each acquiring at most once
          Signalled,  \* the callers that pass an AbortSignal (provider runs)
          Limits      \* the limits a settings read can return

Unbounded == 0        \* stands for Number.POSITIVE_INFINITY

ASSUME RunsAssumption == IsFiniteSet(Runs) /\ Signalled \subseteq Runs
ASSUME LimitsAssumption == Limits \subseteq Int

VARIABLES max,      \* #max, Unbounded when infinite
          current,  \* #current, the slots handed out
          queue,    \* #queue, the callers whose waiter is queued, oldest first
          pc,       \* where each caller is
          aborted   \* whether each caller's signal has fired

vars == <<max, current, queue, pc, aborted>>

CeilingAsRead(limit) == limit               \* mutant: no "0 or less is unlimited"

Ceiling(limit) == IF limit > 0 THEN limit ELSE Unbounded

Fits(n, m) == m = Unbounded \/ n < m

Init == /\ \E limit \in Limits : max = Ceiling(limit)
        /\ current = 0
        /\ queue = <<>>
        /\ pc = [r \in Runs |-> "new"]
        /\ aborted = [r \in Runs |-> FALSE]

-----------------------------------------------------------------------------
(* acquire(), run on a semaphore whose first n waiters were just admitted. *)

AdmitNone(m) == 0                           \* mutant: resize only stores the limit

AdmitByLimit(m) ==                          \* mutant: forgets the slots already out
    IF m = Unbounded \/ m > Len(queue) THEN Len(queue) ELSE m

\* How many waiters the loop of resize(m) admits.
AdmitCount(m) ==
    LET room == IF m = Unbounded THEN Len(queue)
                ELSE IF m > current THEN m - current ELSE 0
    IN  IF room < Len(queue) THEN room ELSE Len(queue)

Acquire(r, m, n) ==
    LET woken == {queue[i] : i \in 1..n}
        rest  == SubSeq(queue, n + 1, Len(queue))
        held  == current + n
        Move(to) == pc' = [p \in Runs |-> IF p = r THEN to
                                          ELSE IF p \in woken THEN "granted" ELSE pc[p]]
    IN  /\ max' = m
        /\ UNCHANGED aborted
        /\ \/ /\ r \in Signalled /\ aborted[r]
              /\ Move("rejected")
              /\ current' = held
              /\ queue' = rest
           \/ /\ ~(r \in Signalled /\ aborted[r])
              /\ Fits(held, m)
              /\ Move("granted")
              /\ current' = held + 1
              /\ queue' = rest
           \/ /\ ~(r \in Signalled /\ aborted[r])
              /\ ~Fits(held, m)
              /\ Move("queued")
              /\ current' = held
              /\ queue' = Append(rest, r)

\* getProviderSemaphore() reads the limit, resizes the shared instance when it
\* differs, and acquire(signal) follows in the same turn of the event loop.
StartProviderRun(r, limit) ==
    /\ r \in Signalled
    /\ pc[r] = "new"
    /\ LET m == Ceiling(limit)
       IN  Acquire(r, m, IF m = max THEN 0 ELSE AdmitCount(m))

\* A spawn job body: acquire() without a signal, on a semaphore never resized.
StartSpawn(r) ==
    /\ r \notin Signalled
    /\ pc[r] = "new"
    /\ Acquire(r, max, 0)

-----------------------------------------------------------------------------
(* release(), abort and the continuations. *)

ReleaseOnly(r) ==                           \* mutant: wakes nobody
    /\ current' = current - 1
    /\ pc' = [pc EXCEPT ![r] = "settled"]
    /\ UNCHANGED <<max, queue, aborted>>

Release(r) ==
    LET left == IF current > 0 THEN current - 1 ELSE current
    IN  \/ /\ Fits(left, max) /\ queue # <<>>
           /\ current' = left + 1
           /\ queue' = Tail(queue)
           /\ pc' = [pc EXCEPT ![r] = "settled", ![Head(queue)] = "granted"]
           /\ UNCHANGED <<max, aborted>>
        \/ /\ ~(Fits(left, max) /\ queue # <<>>)
           /\ current' = left
           /\ pc' = [pc EXCEPT ![r] = "settled"]
           /\ UNCHANGED <<max, queue, aborted>>

\* queue.splice(i, 1)
Splice(s, i) == [j \in 1..(Len(s) - 1) |-> s[IF j < i THEN j ELSE j + 1]]

\* The caller's signal fires. A queued signalled waiter is spliced out and its
\* promise rejected; once granted, the listener is gone and nothing happens.
Abort(r) ==
    /\ ~aborted[r]
    /\ pc[r] # "settled"
    /\ aborted' = [aborted EXCEPT ![r] = TRUE]
    /\ IF r \in Signalled /\ pc[r] = "queued"
       THEN /\ \E i \in 1..Len(queue) : queue[i] = r /\ queue' = Splice(queue, i)
            /\ pc' = [pc EXCEPT ![r] = "rejected"]
       ELSE UNCHANGED <<queue, pc>>
    /\ UNCHANGED <<max, current>>

\* The caller sees its slot. A spawn whose job was cancelled meanwhile gives it
\* straight back; everyone else goes on to run.
Proceed(r) ==
    /\ pc[r] = "granted"
    /\ \/ /\ r \notin Signalled /\ aborted[r]
          /\ Release(r)
       \/ /\ r \in Signalled \/ ~aborted[r]
          /\ pc' = [pc EXCEPT ![r] = "running"]
          /\ UNCHANGED <<max, current, queue, aborted>>

\* The finally block after a run that held a slot.
Finish(r) == pc[r] = "running" /\ Release(r)

FinishRejectedReleases(r) ==                \* mutant: finally without the acquired flag
    pc[r] = "rejected" /\ Release(r)

\* The finally block after a rejected acquire: providerSemaphoreAcquired is
\* still false, so nothing is released.
FinishRejected(r) ==
    /\ pc[r] = "rejected"
    /\ pc' = [pc EXCEPT ![r] = "settled"]
    /\ UNCHANGED <<max, current, queue, aborted>>

\* Every caller is through: the only state in which the system may rest.
Quiet == (\A r \in Runs : pc[r] = "settled") /\ UNCHANGED vars

Next == \/ \E r \in Runs : \/ \E limit \in Limits : StartProviderRun(r, limit)
                           \/ StartSpawn(r)
                           \/ Abort(r)
                           \/ Proceed(r)
                           \/ Finish(r)
                           \/ FinishRejected(r)
        \/ Quiet

Spec == Init /\ [][Next]_vars

\* Continuations run, and every admitted run ends (by finishing, failing, or by
\* its wall-clock limit); nobody is obliged to start or to abort.
Fairness == \A r \in Runs : WF_vars(Proceed(r)) /\ WF_vars(Finish(r))

FairSpec == Spec /\ Fairness

-----------------------------------------------------------------------------
(* Properties. *)

States == {"new", "queued", "granted", "rejected", "running", "settled"}

\* The type invariant of the semaphore and of its callers.
TypeOK == /\ max \in Nat
          /\ current \in Nat
          /\ queue \in Seq(Runs)
          /\ pc \in [Runs -> States]
          /\ aborted \in [Runs -> BOOLEAN]

\* The callers that own a slot, whether or not their continuation has run.
Holders == {r \in Runs : pc[r] \in {"granted", "running"}}

\* #queue is exactly the callers still waiting, each once: an acquire that was
\* abandoned leaves no waiter behind for release() to wake.
QueueIsWaiters ==
    /\ \A i, j \in 1..Len(queue) : queue[i] = queue[j] => i = j
    /\ \A i \in 1..Len(queue) : pc[queue[i]] = "queued"
    /\ \A r \in Runs : pc[r] = "queued" => \E i \in 1..Len(queue) : queue[i] = r

\* #current counts the owners of a slot: no slot leaks and none is returned
\* twice, whatever aborts, rejections, cancelled spawns and resizes happen.
SlotAccounting == current = Cardinality(Holders)

\* Nobody waits while a slot is free: no wake-up is lost by release(), by a
\* resize in either direction, or by the removal of an aborted waiter.
NoLostWakeup == queue # <<>> => ~Fits(current, max)

\* "a runtime or mixed limit change can never push concurrency past the cap":
\* a step that hands out slots stays within the cap that holds after it.
CapRespected == [][current' > current => max' = Unbounded \/ current' <= max']_vars

\* Slots go to waiters in arrival order, and a newcomer never overtakes one.
FifoStep ==
    \A r \in Runs : pc'[r] = "granted" /\ pc[r] # "granted" =>
        \A i \in 1..Len(queue) :
            \/ pc'[queue[i]] # "queued"
            \/ \E j \in 1..i : queue[j] = r
Fifo == [][FifoStep]_vars

\* Every waiter is eventually admitted or rejected.
NoStarvation == \A r \in Runs : pc[r] = "queued" ~> pc[r] # "queued"
=============================================================================
