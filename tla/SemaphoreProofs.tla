--------------------------- MODULE SemaphoreProofs ---------------------------
(***************************************************************************)
(* Proofs about Semaphore, for any finite set of callers, any choice of    *)
(* which of them pass a signal and any set of integer limits.              *)
(***************************************************************************)
EXTENDS Semaphore, FiniteSetTheorems, FunctionTheorems, SequenceTheorems, TLAPS

\* The inductive invariant. SlotAccounting alone is not inductive: release()
\* wakes Head(queue), and that adds one owner only because the head is a
\* waiter (QueueIsWaiters); Proceed and Finish give back a slot the caller
\* owns only because the count is exact. NoLostWakeup rests on both.
IInv == TypeOK /\ QueueIsWaiters /\ SlotAccounting /\ NoLostWakeup

\* The first n entries of a sequence without repetition are n values.
LEMMA PrefixCardinality ==
    ASSUME NEW S, NEW q \in Seq(S), NEW n \in 0..Len(q),
           \A i, j \in 1..Len(q) : q[i] = q[j] => i = j,
           NEW T, \A x : x \in T <=> \E i \in 1..n : q[i] = x
    PROVE  IsFiniteSet(T) /\ Cardinality(T) = n
  <1> DEFINE f == [i \in 1..n |-> q[i]]
  <1>1. Len(q) \in Nat /\ n \in Nat
    BY LenProperties
  <1>2. f \in Bijection(1..n, T)
    BY <1>1 DEF Bijection, Injection, Surjection, IsInjective
  <1>3. ExistsBijection(1..n, T)
    BY <1>2 DEF ExistsBijection
  <1>4. IsFiniteSet(1..n) /\ Cardinality(1..n) = n
    BY <1>1, FS_Interval
  <1> QED
    BY <1>3, <1>4, FS_Bijection

\* Any set of callers is finite, so the owners can be counted.
LEMMA HoldersFinite == IsFiniteSet(Holders) /\ Cardinality(Holders) \in Nat
  BY RunsAssumption, FS_Subset, FS_CardinalityType DEF Holders

\* The semaphore starts in the invariant.
LEMMA InitIInv == Init => IInv
  <1> SUFFICES ASSUME Init PROVE IInv
    OBVIOUS
  <1>1. max \in Nat
    BY LimitsAssumption DEF Init, Ceiling, Unbounded
  <1>2. Holders = {}
    BY DEF Init, Holders
  <1>3. SlotAccounting
    BY <1>2, FS_EmptySet DEF Init, SlotAccounting
  <1> QED
    BY <1>1, <1>3 DEF Init, IInv, TypeOK, States, QueueIsWaiters, NoLostWakeup

-----------------------------------------------------------------------------
(* Each action preserves the invariant. *)

\* acquire() preserves the invariant provided the n waiters admitted with it
\* are as many as the ceiling m leaves room for.
LEMMA AcquireIInv ==
    ASSUME IInv, NEW r \in Runs, pc[r] = "new",
           NEW m \in Nat, NEW n \in 0..Len(queue),
           n < Len(queue) => ~Fits(current + n, m),
           Acquire(r, m, n)
    PROVE  IInv'
  <1> DEFINE woken == {queue[i] : i \in 1..n}
             rest  == SubSeq(queue, n + 1, Len(queue))
             held  == current + n
  <1> USE DEF IInv
  <1>1. queue \in Seq(Runs) /\ Len(queue) \in Nat /\ current \in Nat /\ n \in Nat
    BY LenProperties DEF TypeOK
  <1>2. /\ rest \in Seq(Runs)
        /\ Len(rest) = Len(queue) - n
        /\ \A i \in 1..Len(rest) : rest[i] = queue[n + i]
    <2>1. \A i \in (n + 1)..Len(queue) : queue[i] \in Runs
      BY <1>1
    <2>2. /\ SubSeq(queue, n + 1, Len(queue)) \in Seq(Runs)
          /\ Len(SubSeq(queue, n + 1, Len(queue)))
               = IF n + 1 <= Len(queue) THEN Len(queue) - (n + 1) + 1 ELSE 0
          /\ \A i \in 1..(Len(queue) - (n + 1) + 1) :
               SubSeq(queue, n + 1, Len(queue))[i] = queue[n + 1 + i - 1]
      BY <1>1, <2>1, n + 1 \in Int, Len(queue) \in Int, SubSeqProperties
    <2>3. Len(queue) - (n + 1) + 1 = Len(queue) - n
      BY <1>1
    <2>4. \A i \in 1..(Len(queue) - n) : n + 1 + i - 1 = n + i
      BY <1>1
    <2>5. Len(rest) = Len(queue) - n
      BY <1>1, <2>2
    <2> QED
      BY <2>2, <2>3, <2>4, <2>5
  <1> HIDE DEF rest
  <1>3. woken \subseteq Runs /\ (\A p \in woken : pc[p] = "queued") /\ r \notin woken
    <2>1. \A i \in 1..n : i \in 1..Len(queue) /\ queue[i] \in Runs
      BY <1>1
    <2> QED
      BY <2>1 DEF QueueIsWaiters
  <1>4. IsFiniteSet(woken) /\ Cardinality(woken) = n
    <2>1. \A i, j \in 1..Len(queue) : queue[i] = queue[j] => i = j
      BY DEF QueueIsWaiters
    <2>2. \A x : x \in woken <=> \E i \in 1..n : queue[i] = x
      OBVIOUS
    <2> HIDE DEF woken
    <2> QED
      BY <1>1, <2>1, <2>2, PrefixCardinality
  <1>5. \A i \in 1..Len(rest) : rest[i] \notin woken /\ rest[i] # r /\ pc[rest[i]] = "queued"
    BY <1>1, <1>2 DEF QueueIsWaiters
  <1>6. \A p \in Runs : pc[p] = "queued" =>
            p \in woken \/ \E i \in 1..Len(rest) : rest[i] = p
    <2> SUFFICES ASSUME NEW p \in Runs, pc[p] = "queued", p \notin woken
                 PROVE  \E i \in 1..Len(rest) : rest[i] = p
      OBVIOUS
    <2>1. PICK j \in 1..Len(queue) : queue[j] = p
      BY DEF QueueIsWaiters
    <2>2. j > n
      BY <1>1, <2>1
    <2>3. j - n \in 1..Len(rest) /\ n + (j - n) = j
      BY <1>1, <1>2, <2>2
    <2> QED
      BY <1>2, <2>1, <2>3
  <1>7. \A i, j \in 1..Len(rest) : rest[i] = rest[j] => i = j
    <2> SUFFICES ASSUME NEW i \in 1..Len(rest), NEW j \in 1..Len(rest), rest[i] = rest[j]
                 PROVE  i = j
      OBVIOUS
    <2>1. n + i \in 1..Len(queue) /\ n + j \in 1..Len(queue)
      BY <1>1, <1>2
    <2>2. queue[n + i] = queue[n + j]
      BY <1>2
    <2>3. n + i = n + j
      BY <2>1, <2>2 DEF QueueIsWaiters
    <2> QED
      BY <1>1, <1>2, <2>3
  \* The owners once the n waiters are admitted.
  <1>8. /\ IsFiniteSet(Holders \cup woken)
        /\ Cardinality(Holders \cup woken) = held
        /\ r \notin Holders \cup woken
    <2>1. Holders \cap woken = {} /\ r \notin Holders
      BY <1>3 DEF Holders
    <2>2. Cardinality(Holders \cap woken) = 0
      BY <2>1, FS_EmptySet
    <2>3. /\ IsFiniteSet(Holders \cup woken)
          /\ Cardinality(Holders \cup woken)
               = Cardinality(Holders) + Cardinality(woken) - Cardinality(Holders \cap woken)
      BY <1>4, HoldersFinite, FS_Union
    <2> QED
      BY <1>1, <1>3, <1>4, <2>1, <2>2, <2>3 DEF SlotAccounting
  <1>9. max' \in Nat /\ max' = m /\ aborted' = aborted
    BY DEF Acquire
  <1> HIDE DEF woken
  <1>10. CASE /\ pc' = [p \in Runs |-> IF p = r THEN "rejected"
                                       ELSE IF p \in woken THEN "granted" ELSE pc[p]]
              /\ current' = held
              /\ queue' = rest
    <2>1. Holders' = Holders \cup woken
      BY <1>3, <1>10 DEF Holders, TypeOK, States
    <2>2. TypeOK'
      BY <1>1, <1>2, <1>9, <1>10 DEF TypeOK, States
    <2>3. QueueIsWaiters'
      <3>1. \A i \in 1..Len(queue') : queue'[i] \in Runs /\ pc'[queue'[i]] = "queued"
        BY <1>2, <1>5, <1>10
      <3>2. \A p \in Runs : pc'[p] = "queued" => \E i \in 1..Len(queue') : queue'[i] = p
        BY <1>6, <1>10
      <3> QED
        BY <1>7, <1>10, <3>1, <3>2 DEF QueueIsWaiters
    <2>4. SlotAccounting'
      BY <1>8, <1>10, <2>1 DEF SlotAccounting
    <2>5. NoLostWakeup'
      BY <1>1, <1>2, <1>9, <1>10, EmptySeq DEF NoLostWakeup, Fits
    <2> QED
      BY <2>2, <2>3, <2>4, <2>5
  <1>11. CASE /\ Fits(held, m)
              /\ pc' = [p \in Runs |-> IF p = r THEN "granted"
                                       ELSE IF p \in woken THEN "granted" ELSE pc[p]]
              /\ current' = held + 1
              /\ queue' = rest
    <2>1. Holders' = (Holders \cup woken) \cup {r}
      BY <1>3, <1>11 DEF Holders, TypeOK, States
    <2>2. TypeOK'
      BY <1>1, <1>2, <1>9, <1>11 DEF TypeOK, States
    <2>3. QueueIsWaiters'
      <3>1. \A i \in 1..Len(queue') : queue'[i] \in Runs /\ pc'[queue'[i]] = "queued"
        BY <1>2, <1>5, <1>11
      <3>2. \A p \in Runs : pc'[p] = "queued" => \E i \in 1..Len(queue') : queue'[i] = p
        BY <1>6, <1>11
      <3> QED
        BY <1>7, <1>11, <3>1, <3>2 DEF QueueIsWaiters
    <2>4. SlotAccounting'
      BY <1>8, <1>11, <2>1, FS_AddElement DEF SlotAccounting
    <2>5. NoLostWakeup'
      BY <1>1, <1>2, <1>9, <1>11, EmptySeq DEF NoLostWakeup, Fits
    <2> QED
      BY <2>2, <2>3, <2>4, <2>5
  <1>12. CASE /\ ~Fits(held, m)
              /\ pc' = [p \in Runs |-> IF p = r THEN "queued"
                                       ELSE IF p \in woken THEN "granted" ELSE pc[p]]
              /\ current' = held
              /\ queue' = Append(rest, r)
    <2>1. Holders' = Holders \cup woken
      BY <1>3, <1>12 DEF Holders, TypeOK, States
    <2>2. /\ queue' \in Seq(Runs)
          /\ Len(queue') = Len(rest) + 1
          /\ \A i \in 1..Len(rest) : queue'[i] = rest[i]
          /\ queue'[Len(rest) + 1] = r
      BY <1>2, <1>12, AppendProperties
    <2>3. TypeOK'
      BY <1>1, <1>2, <1>9, <1>12, <2>2 DEF TypeOK, States
    <2>4. Len(rest) \in Nat
      BY <1>2, LenProperties
    <2>5. QueueIsWaiters'
      <3>1. \A i \in 1..Len(queue') : i \in 1..Len(rest) \/ i = Len(rest) + 1
        BY <2>2, <2>4
      <3>2. \A i, j \in 1..Len(queue') : queue'[i] = queue'[j] => i = j
        BY <1>5, <1>7, <2>2, <3>1
      <3>3. \A i \in 1..Len(queue') : pc'[queue'[i]] = "queued"
        BY <1>2, <1>5, <1>12, <2>2, <3>1
      <3>4. \A p \in Runs : pc'[p] = "queued" => \E i \in 1..Len(queue') : queue'[i] = p
        BY <1>6, <1>12, <2>2, <2>4
      <3> QED
        BY <3>2, <3>3, <3>4 DEF QueueIsWaiters
    <2>6. SlotAccounting'
      BY <1>8, <1>12, <2>1 DEF SlotAccounting
    <2>7. NoLostWakeup'
      BY <1>9, <1>12 DEF NoLostWakeup, Fits
    <2> QED
      BY <2>3, <2>5, <2>6, <2>7
  <1> QED
    BY <1>10, <1>11, <1>12 DEF Acquire, woken, rest

\* What AdmitCount, the loop of resize(), admits: no more than there are, and
\* if some are left the ceiling is reached.
LEMMA AdmitCountFits ==
    ASSUME TypeOK, NEW m \in Nat
    PROVE  /\ AdmitCount(m) \in 0..Len(queue)
           /\ AdmitCount(m) < Len(queue) => ~Fits(current + AdmitCount(m), m)
           /\ AdmitCount(m) > 0 => m = Unbounded \/ current + AdmitCount(m) <= m
  <1>1. Len(queue) \in Nat /\ current \in Nat
    BY LenProperties DEF TypeOK
  <1> QED
    BY <1>1 DEF AdmitCount, Fits, Unbounded

\* A normalised limit is a natural number.
LEMMA CeilingNat == \A limit \in Limits : Ceiling(limit) \in Nat
  BY LimitsAssumption DEF Ceiling, Unbounded

\* release() by an owner preserves the invariant.
LEMMA ReleaseIInv ==
    ASSUME IInv, NEW r \in Runs, r \in Holders, Release(r)
    PROVE  IInv'
  <1> USE DEF IInv
  <1>1. queue \in Seq(Runs) /\ Len(queue) \in Nat /\ current \in Nat /\ max \in Nat
    BY LenProperties DEF TypeOK
  <1>2. /\ IsFiniteSet(Holders \ {r})
        /\ Cardinality(Holders \ {r}) = current - 1
        /\ current > 0
    <2>1. current # 0
      BY HoldersFinite, FS_EmptySet DEF SlotAccounting
    <2> QED
      BY <1>1, <2>1, HoldersFinite, FS_RemoveElement DEF SlotAccounting
  <1>3. pc[r] \in {"granted", "running"} /\ \A i \in 1..Len(queue) : queue[i] # r
    BY DEF Holders, QueueIsWaiters
  <1>4. CASE /\ queue # <<>>
             /\ current' = current
             /\ queue' = Tail(queue)
             /\ pc' = [pc EXCEPT ![r] = "settled", ![Head(queue)] = "granted"]
             /\ UNCHANGED <<max, aborted>>
    <2> DEFINE h == Head(queue)
    <2>1. /\ Len(queue) > 0
          /\ h = queue[1] /\ h \in Runs /\ pc[h] = "queued" /\ h # r
      BY <1>1, <1>3, <1>4, EmptySeq DEF QueueIsWaiters
    <2>2. /\ queue' \in Seq(Runs)
          /\ Len(queue') = Len(queue) - 1
          /\ \A i \in 1..Len(queue') : queue'[i] = queue[i + 1]
      BY <1>1, <1>4, HeadTailProperties
    <2> HIDE DEF h
    <2>3. pc' = [p \in Runs |-> IF p = h THEN "granted" ELSE IF p = r THEN "settled" ELSE pc[p]]
      BY <1>4, <2>1 DEF TypeOK, h
    <2>4. TypeOK'
      BY <1>1, <1>4, <2>2, <2>3 DEF TypeOK, States
    <2>5. QueueIsWaiters'
      <3>1. \A i \in 1..Len(queue') : i + 1 \in 1..Len(queue) /\ i + 1 # 1
        BY <1>1, <2>2
      <3>2. \A i \in 1..Len(queue') : queue'[i] # h /\ queue'[i] # r /\ queue'[i] \in Runs
        <4> SUFFICES ASSUME NEW i \in 1..Len(queue')
                     PROVE  queue'[i] # h /\ queue'[i] # r /\ queue'[i] \in Runs
          OBVIOUS
        <4>1. queue'[i] = queue[i + 1] /\ i + 1 \in 1..Len(queue) /\ i + 1 # 1
          BY <2>2, <3>1
        <4>2. queue[i + 1] # queue[1]
          BY <1>1, <2>1, <4>1 DEF QueueIsWaiters
        <4> QED
          BY <1>1, <1>3, <2>1, <4>1, <4>2
      <3>3. \A i, j \in 1..Len(queue') : queue'[i] = queue'[j] => i = j
        <4> SUFFICES ASSUME NEW i \in 1..Len(queue'), NEW j \in 1..Len(queue'),
                            queue'[i] = queue'[j]
                     PROVE  i = j
          OBVIOUS
        <4>1. i + 1 = j + 1
          BY <2>2, <3>1 DEF QueueIsWaiters
        <4> QED
          BY <1>1, <2>2, <4>1
      <3>4. \A i \in 1..Len(queue') : pc'[queue'[i]] = "queued"
        BY <2>2, <2>3, <3>1, <3>2, SMTT(30) DEF QueueIsWaiters
      <3>5. \A p \in Runs : pc'[p] = "queued" => \E i \in 1..Len(queue') : queue'[i] = p
        <4> SUFFICES ASSUME NEW p \in Runs, pc'[p] = "queued"
                     PROVE  \E i \in 1..Len(queue') : queue'[i] = p
          OBVIOUS
        <4>1. pc[p] = "queued" /\ p # h
          BY <2>3
        <4>2. PICK j \in 1..Len(queue) : queue[j] = p
          BY <4>1 DEF QueueIsWaiters
        <4>3. j # 1
          BY <2>1, <4>1, <4>2
        <4>4. j - 1 \in 1..Len(queue') /\ (j - 1) + 1 = j
          BY <1>1, <2>2, <4>3
        <4> QED
          BY <2>2, <4>2, <4>4
      <3> QED
        BY <3>3, <3>4, <3>5 DEF QueueIsWaiters
    <2>6. SlotAccounting'
      <3>1. Holders' = (Holders \ {r}) \cup {h} /\ h \notin Holders \ {r}
        BY <2>1, <2>3 DEF Holders
      <3>2. Cardinality((Holders \ {r}) \cup {h}) = (current - 1) + 1
        BY <1>2, <3>1, FS_AddElement
      <3> QED
        BY <1>1, <1>4, <3>1, <3>2 DEF SlotAccounting
    <2>7. NoLostWakeup'
      BY <1>4 DEF NoLostWakeup, Fits
    <2> QED
      BY <2>4, <2>5, <2>6, <2>7
  <1>5. CASE /\ ~(Fits(current - 1, max) /\ queue # <<>>)
             /\ current' = current - 1
             /\ pc' = [pc EXCEPT ![r] = "settled"]
             /\ UNCHANGED <<max, queue, aborted>>
    <2>1. Holders' = Holders \ {r}
      BY <1>5 DEF Holders, TypeOK
    <2>2. TypeOK'
      BY <1>1, <1>2, <1>5 DEF TypeOK, States
    <2>3. QueueIsWaiters'
      BY <1>1, <1>3, <1>5 DEF QueueIsWaiters, TypeOK
    <2>4. SlotAccounting'
      BY <1>2, <1>5, <2>1 DEF SlotAccounting
    <2>5. NoLostWakeup'
      BY <1>5 DEF NoLostWakeup, Fits
    <2> QED
      BY <2>2, <2>3, <2>4, <2>5
  <1> QED
    BY <1>1, <1>2, <1>4, <1>5 DEF Release

\* An abort preserves the invariant: a queued signalled waiter leaves the queue.
LEMMA AbortIInv ==
    ASSUME IInv, NEW r \in Runs, Abort(r)
    PROVE  IInv'
  <1> USE DEF IInv
  <1>1. queue \in Seq(Runs) /\ Len(queue) \in Nat
    BY LenProperties DEF TypeOK
  <1>2. CASE r \in Signalled /\ pc[r] = "queued"
    <2>1. PICK k \in 1..Len(queue) : queue[k] = r /\ queue' = Splice(queue, k)
      BY <1>2 DEF Abort
    <2>2. /\ UNCHANGED <<max, current>>
          /\ aborted' = [aborted EXCEPT ![r] = TRUE]
          /\ pc' = [pc EXCEPT ![r] = "rejected"]
      BY <1>2 DEF Abort
    <2> DEFINE at(j) == IF j < k THEN j ELSE j + 1
    <2>3. \A j \in 1..(Len(queue) - 1) : at(j) \in 1..Len(queue) /\ at(j) # k
      BY <1>1
    <2>4. queue' = [j \in 1..(Len(queue) - 1) |-> queue[at(j)]]
      BY <2>1 DEF Splice
    <2>5. queue' \in Seq(Runs) /\ Len(queue') = Len(queue) - 1
      <3>1. Len(queue) - 1 \in Nat
        BY <1>1
      <3>2. queue' \in [1..(Len(queue) - 1) -> Runs]
        BY <1>1, <2>3, <2>4
      <3> QED
        BY <3>1, <3>2
    <2>6. \A j \in 1..Len(queue') : queue'[j] = queue[at(j)] /\ queue'[j] # r
      BY <2>1, <2>3, <2>4, <2>5 DEF QueueIsWaiters
    <2>7. TypeOK'
      BY <2>2, <2>5 DEF TypeOK, States
    <2>8. QueueIsWaiters'
      <3>1. \A i, j \in 1..Len(queue') : queue'[i] = queue'[j] => i = j
        <4> SUFFICES ASSUME NEW i \in 1..Len(queue'), NEW j \in 1..Len(queue'),
                            queue'[i] = queue'[j]
                     PROVE  i = j
          OBVIOUS
        <4>1. i \in 1..(Len(queue) - 1) /\ j \in 1..(Len(queue) - 1)
          BY <2>5
        <4>2. /\ at(i) \in 1..Len(queue) /\ at(j) \in 1..Len(queue)
              /\ queue[at(i)] = queue[at(j)]
          BY <2>3, <2>6, <4>1
        <4> HIDE DEF at
        <4>3. at(i) = at(j)
          BY <4>2 DEF QueueIsWaiters
        <4> QED
          BY <1>1, <4>1, <4>3 DEF at
      <3>2. \A i \in 1..Len(queue') : pc'[queue'[i]] = "queued"
        BY <1>1, <2>2, <2>3, <2>5, <2>6, SMTT(30) DEF QueueIsWaiters, TypeOK
      <3>3. \A p \in Runs : pc'[p] = "queued" => \E i \in 1..Len(queue') : queue'[i] = p
        <4> SUFFICES ASSUME NEW p \in Runs, pc'[p] = "queued"
                     PROVE  \E i \in 1..Len(queue') : queue'[i] = p
          OBVIOUS
        <4>1. pc[p] = "queued" /\ p # r
          BY <2>2 DEF TypeOK
        <4>2. PICK j \in 1..Len(queue) : queue[j] = p
          BY <4>1 DEF QueueIsWaiters
        <4>3. j # k
          BY <2>1, <4>1, <4>2
        <4>4. \E i \in 1..Len(queue') : at(i) = j
          <5>1. CASE j < k
            BY <1>1, <2>5, <5>1, SMTT(30)
          <5>2. CASE j > k
            <6>1. j - 1 \in 1..Len(queue') /\ at(j - 1) = j
              BY <1>1, <2>5, <5>2
            <6> QED
              BY <6>1
          <5> QED
            BY <4>3, <5>1, <5>2
        <4> QED
          BY <2>6, <4>2, <4>4
      <3> QED
        BY <3>1, <3>2, <3>3 DEF QueueIsWaiters
    <2>9. SlotAccounting'
      <3>1. Holders' = Holders
        BY <1>2, <2>2 DEF Holders, TypeOK
      <3> QED
        BY <2>2, <3>1 DEF SlotAccounting
    <2>10. NoLostWakeup'
      <3>1. queue # <<>>
        BY <2>1
      <3> QED
        BY <2>2, <3>1 DEF NoLostWakeup, Fits
    <2> QED
      BY <2>7, <2>8, <2>9, <2>10
  <1>3. CASE ~(r \in Signalled /\ pc[r] = "queued")
    <2>1. UNCHANGED <<max, current, queue, pc>> /\ aborted' = [aborted EXCEPT ![r] = TRUE]
      BY <1>3 DEF Abort
    <2> QED
      BY <2>1 DEF TypeOK, QueueIsWaiters, SlotAccounting, NoLostWakeup, Holders, Fits
  <1> QED
    BY <1>2, <1>3

\* Every step preserves the invariant.
LEMMA NextIInv == IInv /\ [Next]_vars => IInv'
  <1> SUFFICES ASSUME IInv, [Next]_vars PROVE IInv'
    OBVIOUS
  <1>1. TypeOK /\ current \in Nat /\ max \in Nat /\ Len(queue) \in Nat
    BY LenProperties DEF IInv, TypeOK
  <1>2. ASSUME NEW r \in Runs, NEW limit \in Limits, StartProviderRun(r, limit)
        PROVE  IInv'
    <2> DEFINE m == Ceiling(limit)
               n == IF m = max THEN 0 ELSE AdmitCount(m)
    <2>1. pc[r] = "new" /\ Acquire(r, m, n)
      BY <1>2 DEF StartProviderRun
    <2>2. m \in Nat
      BY CeilingNat
    <2> HIDE DEF m
    <2>3. n \in 0..Len(queue) /\ (n < Len(queue) => ~Fits(current + n, m))
      <3>1. CASE m = max
        <4>1. n = 0 /\ current + n = current
          BY <1>1, <3>1
        <4>2. 0 < Len(queue) => queue # <<>>
          OBVIOUS
        <4> QED
          BY <1>1, <3>1, <4>1, <4>2 DEF IInv, NoLostWakeup
      <3>2. CASE m # max
        BY <1>1, <2>2, <3>2, AdmitCountFits
      <3> QED
        BY <3>1, <3>2
    <2> HIDE DEF n
    <2> QED
      BY <2>1, <2>2, <2>3, AcquireIInv
  <1>3. ASSUME NEW r \in Runs, StartSpawn(r)
        PROVE  IInv'
    <2>1. pc[r] = "new" /\ Acquire(r, max, 0)
      BY <1>3 DEF StartSpawn
    <2>2. 0 \in 0..Len(queue) /\ (0 < Len(queue) => ~Fits(current + 0, max))
      <3>1. 0 < Len(queue) => queue # <<>>
        OBVIOUS
      <3>2. current + 0 = current
        BY <1>1
      <3> QED
        BY <1>1, <3>1, <3>2 DEF IInv, NoLostWakeup
    <2> QED
      BY <1>1, <2>1, <2>2, AcquireIInv
  <1>4. ASSUME NEW r \in Runs, Proceed(r)
        PROVE  IInv'
    <2>1. r \in Holders
      BY <1>4 DEF Proceed, Holders
    <2>2. CASE Release(r)
      BY <2>1, <2>2, ReleaseIInv
    <2>3. CASE /\ pc' = [pc EXCEPT ![r] = "running"]
               /\ UNCHANGED <<max, current, queue, aborted>>
      <3>1. Holders' = Holders
        BY <2>1, <2>3 DEF Holders, IInv, TypeOK
      <3>2. TypeOK' /\ SlotAccounting' /\ NoLostWakeup'
        BY <2>3, <3>1 DEF IInv, TypeOK, States, SlotAccounting, NoLostWakeup, Fits
      <3>3. QueueIsWaiters'
        BY <1>4, <2>3 DEF IInv, TypeOK, QueueIsWaiters, Proceed
      <3> QED
        BY <3>2, <3>3 DEF IInv
    <2> QED
      BY <1>4, <2>2, <2>3 DEF Proceed
  <1>5. ASSUME NEW r \in Runs, Finish(r)
        PROVE  IInv'
    <2>1. r \in Holders /\ Release(r)
      BY <1>5 DEF Finish, Holders
    <2> QED
      BY <2>1, ReleaseIInv
  <1>6. ASSUME NEW r \in Runs, FinishRejected(r)
        PROVE  IInv'
    <2>1. Holders' = Holders
      BY <1>6 DEF FinishRejected, Holders, IInv, TypeOK
    <2>2. TypeOK' /\ SlotAccounting' /\ NoLostWakeup'
      BY <1>6, <2>1 DEF FinishRejected, IInv, TypeOK, States, SlotAccounting, NoLostWakeup, Fits
    <2>3. QueueIsWaiters'
      BY <1>6 DEF FinishRejected, IInv, TypeOK, QueueIsWaiters
    <2> QED
      BY <2>2, <2>3 DEF IInv
  <1>7. CASE UNCHANGED vars
    BY <1>7 DEF vars, IInv, TypeOK, QueueIsWaiters, SlotAccounting, NoLostWakeup, Holders, Fits
  <1> QED
    BY <1>2, <1>3, <1>4, <1>5, <1>6, <1>7, AbortIInv DEF Next, Quiet

\* The inductive invariant holds throughout.
THEOREM Invariance == Spec => []IInv
  BY InitIInv, NextIInv, PTL DEF Spec

\* The type invariant holds throughout.
THEOREM TypeCorrect == Spec => []TypeOK
  BY Invariance, PTL DEF IInv

\* Slots are never leaked and never returned twice: #current is the number of
\* callers that own one.
THEOREM SlotsAccounted == Spec => []SlotAccounting
  BY Invariance, PTL DEF IInv

\* No caller waits in #queue while a slot is free.
THEOREM NoWakeupLost == Spec => []NoLostWakeup
  BY Invariance, PTL DEF IInv

\* #queue holds exactly the waiting callers: an abandoned acquire is not there.
THEOREM QueueExact == Spec => []QueueIsWaiters
  BY Invariance, PTL DEF IInv

\* Neither acquire, release nor a resize pushes the count past the cap.
LEMMA CapStep == IInv /\ [Next]_vars => [current' > current => max' = Unbounded \/ current' <= max']_vars
  <1> SUFFICES ASSUME IInv, Next, current' > current
               PROVE  max' = Unbounded \/ current' <= max'
    OBVIOUS
  <1>1. TypeOK /\ current \in Nat /\ max \in Nat
    BY DEF IInv, TypeOK
  <1>2. ASSUME NEW r \in Runs, NEW limit \in Limits, StartProviderRun(r, limit)
        PROVE  max' = Unbounded \/ current' <= max'
    <2> DEFINE m == Ceiling(limit)
               n == IF m = max THEN 0 ELSE AdmitCount(m)
    <2>1. m \in Nat /\ Acquire(r, m, n)
      BY <1>2, CeilingNat DEF StartProviderRun
    <2> HIDE DEF m
    <2>2. n \in Nat /\ (n > 0 => m = Unbounded \/ current + n <= m)
      BY <1>1, <2>1, AdmitCountFits, LenProperties DEF TypeOK
    <2> HIDE DEF n
    <2> QED
      BY <1>1, <2>1, <2>2 DEF Acquire, Fits, Unbounded
  <1>3. ASSUME NEW r \in Runs, StartSpawn(r)
        PROVE  max' = Unbounded \/ current' <= max'
    BY <1>1, <1>3 DEF StartSpawn, Acquire, Fits, Unbounded
  <1>4. ASSUME NEW r \in Runs, Release(r)
        PROVE  max' = Unbounded \/ current' <= max'
    BY <1>1, <1>4 DEF Release, Fits, Unbounded
  <1> QED
    BY <1>1, <1>2, <1>3, <1>4 DEF Next, Abort, Proceed, Finish, FinishRejected, Quiet, vars

\* A limit change, an acquire or a release never pushes concurrency past the
\* cap in force (the comments on resize and on getProviderSemaphore).
THEOREM CapIsRespected == Spec => CapRespected
  BY Invariance, CapStep, PTL DEF Spec, CapRespected

\* No step grants a slot past a caller that arrived earlier and still waits.
LEMMA FifoNext == IInv /\ [Next]_vars => [FifoStep]_vars
  <1> SUFFICES ASSUME IInv, Next, NEW r \in Runs, pc'[r] = "granted", pc[r] # "granted",
                      NEW i \in 1..Len(queue), pc'[queue[i]] = "queued"
               PROVE  \E j \in 1..i : queue[j] = r
    BY DEF FifoStep
  <1>1. /\ TypeOK /\ queue \in Seq(Runs) /\ Len(queue) \in Nat /\ current \in Nat /\ max \in Nat
        /\ queue # <<>> /\ ~Fits(current, max) /\ pc[queue[i]] = "queued" /\ queue[i] \in Runs
    BY LenProperties DEF IInv, TypeOK, NoLostWakeup, QueueIsWaiters
  <1>2. ASSUME NEW q \in Runs, pc[q] = "new", NEW m \in Nat, NEW n \in 0..Len(queue),
               n < Len(queue) => ~Fits(current + n, m), Acquire(q, m, n)
        PROVE  \E j \in 1..i : queue[j] = r
    <2>1. \A p \in Runs : p # q =>
             pc'[p] = IF p \in {queue[k] : k \in 1..n} THEN "granted" ELSE pc[p]
      BY <1>1, <1>2 DEF Acquire, TypeOK, States
    <2>2. i > n
      BY <1>1, <1>2, <2>1
    <2>3. q # r
      BY <1>1, <1>2, <2>2 DEF Acquire
    <2>4. PICK k \in 1..n : queue[k] = r
      BY <2>1, <2>3
    <2> QED
      BY <1>1, <2>2, <2>4
  <1>3. ASSUME NEW q \in Runs, Release(q)
        PROVE  \E j \in 1..i : queue[j] = r
    <2>1. r = Head(queue)
      BY <1>1, <1>3 DEF Release, TypeOK
    <2> QED
      BY <1>1, <2>1
  <1>4. ASSUME NEW q \in Runs, NEW limit \in Limits, StartProviderRun(q, limit)
        PROVE  \E j \in 1..i : queue[j] = r
    <2> DEFINE m == Ceiling(limit)
               n == IF m = max THEN 0 ELSE AdmitCount(m)
    <2>1. pc[q] = "new" /\ Acquire(q, m, n)
      BY <1>4 DEF StartProviderRun
    <2>2. m \in Nat
      BY CeilingNat
    <2> HIDE DEF m
    <2>3. n \in 0..Len(queue) /\ (n < Len(queue) => ~Fits(current + n, m))
      <3>1. CASE m = max
        <4>1. n = 0 /\ current + n = current
          BY <1>1, <3>1
        <4> QED
          BY <1>1, <3>1, <4>1
      <3>2. CASE m # max
        BY <1>1, <2>2, <3>2, AdmitCountFits
      <3> QED
        BY <3>1, <3>2
    <2> HIDE DEF n
    <2> QED
      BY <1>2, <2>1, <2>2, <2>3
  <1>5. ASSUME NEW q \in Runs, StartSpawn(q)
        PROVE  \E j \in 1..i : queue[j] = r
    <2>1. pc[q] = "new" /\ Acquire(q, max, 0) /\ current + 0 = current /\ 0 \in 0..Len(queue)
      BY <1>1, <1>5 DEF StartSpawn
    <2> QED
      BY <1>1, <1>2, <2>1
  <1>6. ASSUME NEW q \in Runs, NEW to \in {"rejected", "running", "settled"},
               pc' = [pc EXCEPT ![q] = to]
        PROVE  FALSE
    BY <1>1, <1>6 DEF TypeOK
  <1>7. ASSUME UNCHANGED pc
        PROVE  FALSE
    BY <1>7
  <1>8. ASSUME NEW q \in Runs, Abort(q)
        PROVE  FALSE
    BY <1>6, <1>7, <1>8 DEF Abort
  <1>9. ASSUME NEW q \in Runs, Proceed(q)
        PROVE  \E j \in 1..i : queue[j] = r
    BY <1>3, <1>6, <1>9 DEF Proceed
  <1> QED
    BY <1>3, <1>4, <1>5, <1>6, <1>7, <1>8, <1>9 DEF Next, Finish, FinishRejected, Quiet, vars

\* Slots are granted in arrival order; a newcomer never overtakes a waiter.
THEOREM SlotsFifo == Spec => Fifo
  BY Invariance, FifoNext, PTL DEF Spec, Fifo
=============================================================================
