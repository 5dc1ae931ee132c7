-------------------------- MODULE JobManagerProofs --------------------------
(***************************************************************************)
(* Proofs about JobManager, for any set of records, ids and polls and any  *)
(* bounds, as long as the retention window outlasts what still needs an    *)
(* evicted record (LongRetention, as in JobManager).                       *)
(*                                                                         *)
(* What the properties speak of are records; what the manager keeps are    *)
(* ids. The invariant ties the two: an id holds the record registered      *)
(* under it (Registry), and a record keeps its id while anything under way *)
(* still needs it (Current), so that an acknowledgement by id silences the *)
(* record that was meant. A delivery then passes three filters that look   *)
(* at ids (the loop's, the session's, the yield queue's), and QuietTold    *)
(* says of every place a delivery can be at what those filters rely on.    *)
(***************************************************************************)
EXTENDS JobManager, WellFoundedInduction, SequenceTheorems, FiniteSetTheorems, TLAPS

\* A nonempty set of naturals has a least element.
LEMMA Least ==
    ASSUME NEW S, S \subseteq Nat, S # {}
    PROVE  \E n \in S : \A m \in S : n <= m
<1> DEFINE R == OpToRel(<, Nat)
<1>1. IsWellFoundedOn(R, Nat)
    BY NatLessThanWellFounded
<1>2. PICK n \in S : \A m \in S : ~ (<<m, n>> \in R)
    <2> HIDE DEF R
    <2> QED
        BY <1>1, WFMin, Zenon
<1>3. \A m \in S : n <= m
    <2> SUFFICES ASSUME NEW m \in S
                 PROVE  n <= m
        OBVIOUS
    <2>1. ~ (<<m, n>> \in R)
        BY <1>2
    <2>2. ~ (m < n)
        BY <2>1 DEF OpToRel
    <2> QED
        BY <2>2
<1> QED
    BY <1>3

\* kept, the recursion of Keep, is defined up to k.
Keeps(g, q, S, k) ==
    g = [n \in 0..k |-> IF n = 0 THEN <<>>
                        ELSE IF q[n] \in S THEN Append(g[n - 1], q[n]) ELSE g[n - 1]]

\* The recursion defines a function.
LEMMA KeepsExists ==
    ASSUME NEW q, NEW S
    PROVE  \A k \in Nat : \E g : Keeps(g, q, S, k)
<1> DEFINE Bad == {k \in Nat : ~ \E g : Keeps(g, q, S, k)}
<1> SUFFICES ASSUME Bad # {}
             PROVE  FALSE
    OBVIOUS
<1>1. PICK k \in Bad : \A m \in Bad : k <= m
    BY Least
<1>2. k # 0
    <2>1. Keeps([n \in 0..0 |-> <<>>], q, S, 0)
        BY DEF Keeps
    <2> QED
        BY <2>1
<1>3. PICK g : Keeps(g, q, S, k - 1)
    BY <1>1, <1>2
<1> DEFINE h == [n \in 0..k |-> IF n = k THEN IF q[k] \in S THEN Append(g[k - 1], q[k])
                                              ELSE g[k - 1]
                                ELSE g[n]]
<1>4. Keeps(h, q, S, k)
    <2>1. k \in Nat /\ k # 0 /\ k - 1 \in Nat
        BY <1>2
    <2>2. \A n \in 0..(k - 1) : n # k /\ n \in 0..k /\ (n # 0 => n - 1 \in 0..(k - 1))
        BY <2>1
    <2>3. \A n \in 0..k : n # k => n \in 0..(k - 1)
        BY <2>1
    <2>4. \A n \in 0..(k - 1) : h[n] = g[n]
        BY <2>2
    <2>5. \A n \in 0..(k - 1) :
             g[n] = IF n = 0 THEN <<>> ELSE IF q[n] \in S THEN Append(g[n - 1], q[n]) ELSE g[n - 1]
        BY <1>3 DEF Keeps
    <2>6. k \in 0..k /\ k - 1 \in 0..(k - 1)
        BY <2>1
    <2>7. h[k] = IF q[k] \in S THEN Append(h[k - 1], q[k]) ELSE h[k - 1]
        BY <2>4, <2>6
    <2>8. h = [n \in 0..k |-> h[n]]
        OBVIOUS
    <2> HIDE DEF h
    <2>9. \A n \in 0..k :
             h[n] = IF n = 0 THEN <<>> ELSE IF q[n] \in S THEN Append(h[n - 1], q[n]) ELSE h[n - 1]
        <3> SUFFICES ASSUME NEW n \in 0..k
                     PROVE  h[n] = IF n = 0 THEN <<>>
                                   ELSE IF q[n] \in S THEN Append(h[n - 1], q[n]) ELSE h[n - 1]
            OBVIOUS
        <3>1. CASE n = k
            BY <2>1, <2>7, <3>1
        <3>2. CASE n # k
            <4>1. n \in 0..(k - 1)
                BY <2>3, <3>2
            <4>2. h[n] = g[n] /\ (n # 0 => h[n - 1] = g[n - 1])
                BY <2>2, <2>4, <4>1
            <4> QED
                BY <2>5, <4>1, <4>2
        <3> QED
            BY <3>1, <3>2
    <2> QED
        BY <2>8, <2>9 DEF Keeps
<1> QED
    BY <1>4

\* No entry of q is there twice.
Once(q) == \A k, m \in 1..Len(q) : q[k] = q[m] => k = m

\* What array.filter returns: the entries that are in S, none twice that was
\* not there twice.
KeptUpTo(r, q, S, n) ==
    /\ r \in Seq(S)
    /\ \A i \in 1..Len(r) : \E m \in 1..n : r[i] = q[m]
    /\ \A m \in 1..n : q[m] \in S => \E i \in 1..Len(r) : r[i] = q[m]
    /\ Once(q) => Once(r)

LEMMA KeepFacts ==
    ASSUME NEW T, NEW q \in Seq(T), NEW S
    PROVE  KeptUpTo(Keep(q, S), q, S, Len(q))
<1> DEFINE g == CHOOSE g : Keeps(g, q, S, Len(q))
<1>1. Len(q) \in Nat
    BY LenProperties
<1>2. Keeps(g, q, S, Len(q))
    BY <1>1, KeepsExists, Zenon
<1>3. Keep(q, S) = g[Len(q)]
    BY DEF Keep, Keeps
<1> HIDE DEF g
<1> DEFINE Bad == {n \in 0..Len(q) : ~ KeptUpTo(g[n], q, S, n)}
<1>4. Bad = {}
    <2> SUFFICES ASSUME Bad # {}
                 PROVE  FALSE
        OBVIOUS
    <2>1. PICK n \in Bad : \A m \in Bad : n <= m
        <3>1. Bad \subseteq Nat
            BY <1>1
        <3> QED
            BY <3>1, Least
    <2>2. n \in Nat /\ n <= Len(q)
        BY <1>1
    <2>3. n # 0
        <3>1. g[0] = <<>>
            BY <1>1, <1>2 DEF Keeps
        <3>2. KeptUpTo(<<>>, q, S, 0)
            BY DEF KeptUpTo, Once
        <3> QED
            BY <3>1, <3>2
    <2>4. KeptUpTo(g[n - 1], q, S, n - 1)
        <3>1. n - 1 \in 0..Len(q) /\ ~ (n <= n - 1)
            BY <2>2, <2>3
        <3> QED
            BY <2>1, <3>1
    <2>5. g[n] = IF q[n] \in S THEN Append(g[n - 1], q[n]) ELSE g[n - 1]
        BY <1>2, <2>2, <2>3 DEF Keeps
    <2> HIDE DEF Bad
    <2>6. n \in 1..Len(q) /\ \A m \in 1..n : m \in 1..Len(q) /\ (m = n \/ m \in 1..(n - 1))
        BY <1>1, <2>2, <2>3
    <2>6a. \A m \in 1..(n - 1) : m \in 1..n /\ m # n
        BY <2>2, <2>3
    <2> DEFINE r == g[n - 1]
    <2>7. ASSUME q[n] \notin S
          PROVE  KeptUpTo(g[n], q, S, n)
        BY <2>4, <2>5, <2>6, <2>6a, <2>7 DEF KeptUpTo
    <2>8. ASSUME q[n] \in S
          PROVE  KeptUpTo(g[n], q, S, n)
        <3>1. r \in Seq(S) /\ Len(r) \in Nat
            BY <2>4, LenProperties DEF KeptUpTo
        <3>2. /\ g[n] \in Seq(S) /\ Len(g[n]) = Len(r) + 1
              /\ \A i \in 1..Len(r) : g[n][i] = r[i]
              /\ g[n][Len(r) + 1] = q[n]
            BY <2>5, <2>8, <3>1, AppendProperties
        <3>3. \A i \in 1..Len(g[n]) : i = Len(r) + 1 \/ i \in 1..Len(r)
            BY <3>1, <3>2
        <3>3a. Len(r) + 1 \in 1..Len(g[n]) /\ \A i \in 1..Len(r) : i \in 1..Len(g[n])
            BY <3>1, <3>2
        <3>4. \A i \in 1..Len(g[n]) : \E m \in 1..n : g[n][i] = q[m]
            <4> SUFFICES ASSUME NEW i \in 1..Len(g[n])
                         PROVE  \E m \in 1..n : g[n][i] = q[m]
                OBVIOUS
            <4>1. CASE i = Len(r) + 1
                BY <2>2, <2>3, <3>2, <4>1
            <4>2. CASE i \in 1..Len(r)
                BY <2>4, <2>6a, <3>2, <4>2 DEF KeptUpTo
            <4> QED
                BY <3>3, <4>1, <4>2
        <3>5. \A m \in 1..n : q[m] \in S => \E i \in 1..Len(g[n]) : g[n][i] = q[m]
            <4> SUFFICES ASSUME NEW m \in 1..n, q[m] \in S
                         PROVE  \E i \in 1..Len(g[n]) : g[n][i] = q[m]
                OBVIOUS
            <4>1. CASE m = n
                BY <3>2, <3>3a, <4>1
            <4>2. CASE m \in 1..(n - 1)
                <5>1. PICK i \in 1..Len(r) : r[i] = q[m]
                    BY <2>4, <4>2 DEF KeptUpTo
                <5> QED
                    BY <3>2, <3>3a, <5>1
            <4> QED
                BY <2>6, <4>1, <4>2
        <3>6. ASSUME Once(q), NEW i \in 1..Len(g[n]), NEW j \in 1..Len(g[n]), g[n][i] = g[n][j]
              PROVE  i = j
            <4>1. \A k \in 1..Len(r) : r[k] # q[n]
                BY <2>4, <2>6, <2>6a, <3>6 DEF KeptUpTo, Once
            <4>2. Once(r)
                BY <2>4, <3>6 DEF KeptUpTo
            <4> QED
                BY <3>2, <3>3, <3>6, <4>1, <4>2 DEF Once
        <3> QED
            BY <3>2, <3>4, <3>5, <3>6 DEF KeptUpTo, Once
    <2> QED
        BY <2>1, <2>7, <2>8 DEF Bad
<1>5. Len(q) \in 0..Len(q)
    BY <1>1
<1> QED
    BY <1>3, <1>4, <1>5

Entries(q) == {q[k] : k \in 1..Len(q)}

\* The filter, in terms of entries.
LEMMA KeepEntries ==
    ASSUME NEW T, NEW q \in Seq(T), NEW S
    PROVE  /\ Keep(q, S) \in Seq(T) /\ Entries(Keep(q, S)) = Entries(q) \cap S
           /\ Once(q) => Once(Keep(q, S))
<1> DEFINE r == Keep(q, S)
<1> HIDE DEF r
<1>1. KeptUpTo(r, q, S, Len(q))
    BY KeepFacts DEF r
<1>2. r \in Seq(S) /\ \A i \in 1..Len(r) : r[i] \in S
    <2>1. r \in Seq(S)
        BY <1>1 DEF KeptUpTo
    <2> QED
        BY <2>1, ElementOfSeq
<1>3. \A m \in 1..Len(q) : q[m] \in T
    BY ElementOfSeq
<1>4. \A i \in 1..Len(r) : r[i] \in T
    BY <1>1, <1>3 DEF KeptUpTo
<1>5. r \in Seq(T)
    <2>1. Len(r) \in Nat /\ r = [i \in 1..Len(r) |-> r[i]]
        BY <1>2, LenProperties
    <2> QED
        BY <1>4, <2>1, IsASeq
<1>6. Entries(r) = Entries(q) \cap S
    <2>1. \A x : x \in Entries(r) => x \in Entries(q) /\ x \in S
        BY <1>1, <1>2 DEF KeptUpTo, Entries
    <2>2. \A x : x \in Entries(q) /\ x \in S => x \in Entries(r)
        BY <1>1 DEF KeptUpTo, Entries
    <2> QED
        BY <2>1, <2>2
<1>7. Once(q) => Once(r)
    BY <1>1 DEF KeptUpTo
<1> QED
    BY <1>5, <1>6, <1>7 DEF r

\* The part of a queue from its k-th entry on.
LEMMA RestFacts ==
    ASSUME NEW q \in Seq(Jobs), Once(q), NEW k \in 1..(Len(q) + 1)
    PROVE  LET r == SubSeq(q, k, Len(q))
           IN  /\ r \in Seq(Jobs) /\ Once(r) /\ Entries(r) = {q[m] : m \in k..Len(q)}
               /\ r = <<>> => k = Len(q) + 1
<1> DEFINE r == SubSeq(q, k, Len(q))
<1>1. Len(q) \in Nat /\ k \in Nat /\ k >= 1 /\ k <= Len(q) + 1
    BY LenProperties
<1>2. /\ r \in Seq(Jobs)
      /\ Len(r) = Len(q) - k + 1
      /\ \A i \in 1..(Len(q) - k + 1) : r[i] = q[k + i - 1]
    BY <1>1, SubSeqProperties
<1> HIDE DEF r
<1>3. Once(r)
    <2> SUFFICES ASSUME NEW i \in 1..Len(r), NEW j \in 1..Len(r), r[i] = r[j]
                 PROVE  i = j
        BY DEF Once
    <2>1. /\ k + i - 1 \in 1..Len(q) /\ k + j - 1 \in 1..Len(q)
          /\ q[k + i - 1] = q[k + j - 1]
        BY <1>1, <1>2
    <2>2. k + i - 1 = k + j - 1
        BY <2>1 DEF Once
    <2> QED
        BY <1>1, <1>2, <2>2
<1>4. Entries(r) \subseteq {q[m] : m \in k..Len(q)}
    <2> SUFFICES ASSUME NEW i \in 1..Len(r)
                 PROVE  r[i] \in {q[m] : m \in k..Len(q)}
        BY DEF Entries
    <2>1. r[i] = q[k + i - 1] /\ k + i - 1 \in k..Len(q)
        BY <1>1, <1>2
    <2> QED
        BY <2>1
<1>5. {q[m] : m \in k..Len(q)} \subseteq Entries(r)
    <2> SUFFICES ASSUME NEW m \in k..Len(q)
                 PROVE  q[m] \in Entries(r)
        OBVIOUS
    <2>1. m - k + 1 \in 1..Len(r) /\ r[m - k + 1] = q[m]
        BY <1>1, <1>2
    <2> QED
        BY <2>1 DEF Entries
<1>6. r = <<>> => k = Len(q) + 1
    BY <1>1, <1>2
<1> QED
    BY <1>2, <1>3, <1>4, <1>5, <1>6 DEF r

\* What a run of the loop to its next wait does to the queue: what it takes out
\* it delivers, unless it is quiet.
LEMMA RunLoopFacts ==
    ASSUME NEW q \in Seq(Jobs), Once(q), NEW back, NEW sup, NEW wat
    PROVE  LET r == RunLoop(q, back, sup, wat)
           IN  /\ r.q \in Seq(Jobs) /\ Once(r.q)
               /\ [at |-> r.at, job |-> r.job] \in
                      [at : {"off", "sleep", "deliver", "ending"}, job : Jobs \cup {NoJob}]
               /\ Entries(r.q) \cup r.start \subseteq Entries(q)
               /\ Entries(r.q) \cap r.start = {}
               /\ \A j \in Entries(q) : j \in Entries(r.q) \cup r.start \/ Quiet(j, sup, wat)
<1> DEFINE loud == {i \in 1..Len(q) : ~Quiet(q[i], sup, wat)}
           k    == IF loud = {} THEN Len(q) + 1 ELSE CHOOSE i \in loud : \A m \in loud : i <= m
           rest == SubSeq(q, k, Len(q))
           r    == RunLoop(q, back, sup, wat)
<1>1. Len(q) \in Nat /\ loud \subseteq Nat /\ \A i \in 1..Len(q) : q[i] \in Jobs
    BY LenProperties, ElementOfSeq
<1>2. k \in 1..(Len(q) + 1) /\ \A i \in 1..Len(q) : i < k => Quiet(q[i], sup, wat)
    <2>1. CASE loud = {}
        BY <1>1, <2>1
    <2>2. CASE loud # {}
        <3>1. \E i \in loud : \A m \in loud : i <= m
            BY <1>1, <2>2, Least
        <3>2. k \in loud /\ \A m \in loud : k <= m
            BY <2>2, <3>1
        <3> HIDE DEF k
        <3> QED
            BY <1>1, <3>2
    <2> QED
        BY <2>1, <2>2
<1>3. /\ rest \in Seq(Jobs) /\ Once(rest) /\ Entries(rest) = {q[m] : m \in k..Len(q)}
    <2> HIDE DEF k
    <2> QED
        BY <1>2, RestFacts
<1>4. r = IF rest = <<>>
          THEN [q |-> <<>>, at |-> "ending", job |-> NoJob, start |-> {}]
          ELSE IF Head(rest) \in back
          THEN [q |-> rest, at |-> "sleep", job |-> Head(rest), start |-> {}]
          ELSE [q |-> Tail(rest), at |-> "deliver", job |-> Head(rest), start |-> {Head(rest)}]
    BY DEF RunLoop
<1>5. Entries(rest) \subseteq Entries(q)
    <2>1. k..Len(q) \subseteq 1..Len(q)
        <3> HIDE DEF k
        <3> QED
            BY <1>1, <1>2
    <2> QED
        BY <1>3, <2>1 DEF Entries
<1>6. \A j \in Entries(q) : j \in Entries(rest) \/ Quiet(j, sup, wat)
    <2> SUFFICES ASSUME NEW m \in 1..Len(q), ~Quiet(q[m], sup, wat)
                 PROVE  q[m] \in Entries(rest)
        BY DEF Entries
    <2>1. m \in k..Len(q)
        <3> HIDE DEF k
        <3> QED
            BY <1>1, <1>2
    <2> QED
        BY <1>3, <2>1
<1> HIDE DEF k, loud, rest, r
<1>7. ASSUME rest # <<>>
      PROVE  /\ Head(rest) \in Jobs /\ Tail(rest) \in Seq(Jobs) /\ Once(Tail(rest))
             /\ Entries(rest) = Entries(Tail(rest)) \cup {Head(rest)}
             /\ Head(rest) \notin Entries(Tail(rest))
    <2>1. /\ Len(rest) \in Nat /\ Len(rest) # 0 /\ Head(rest) \in Jobs /\ Tail(rest) \in Seq(Jobs)
          /\ Head(rest) = rest[1] /\ Len(Tail(rest)) = Len(rest) - 1
          /\ \A i \in 1..Len(Tail(rest)) : Tail(rest)[i] = rest[i + 1]
        BY <1>3, <1>7, HeadTailProperties, LenProperties, EmptySeq
    <2>2. \A i \in 1..Len(Tail(rest)) : i + 1 \in 1..Len(rest) /\ i + 1 # 1
        BY <2>1
    <2>3. 1 \in 1..Len(rest) /\ \A i \in 1..Len(rest) : i # 1 => /\ i - 1 \in 1..Len(Tail(rest))
                                                                 /\ Tail(rest)[i - 1] = rest[i]
        BY <2>1
    <2>4. Once(Tail(rest))
        BY <1>3, <2>1, <2>2 DEF Once
    <2>5. Head(rest) \notin Entries(Tail(rest))
        BY <1>3, <2>1, <2>2, <2>3 DEF Once, Entries
    <2>6. Entries(Tail(rest)) \cup {Head(rest)} \subseteq Entries(rest)
        BY <2>1, <2>2, <2>3 DEF Entries
    <2>7. Entries(rest) \subseteq Entries(Tail(rest)) \cup {Head(rest)}
        <3> SUFFICES ASSUME NEW i \in 1..Len(rest), i # 1
                     PROVE  rest[i] \in Entries(Tail(rest))
            BY <2>1 DEF Entries
        <3> QED
            BY <2>3 DEF Entries
    <2> QED
        BY <2>1, <2>4, <2>5, <2>6, <2>7
<1>8. Entries(<<>>) = {} /\ <<>> \in Seq(Jobs) /\ Once(<<>>)
    BY DEF Entries, Once
<1>9. CASE rest = <<>>
    BY <1>4, <1>6, <1>8, <1>9 DEF r
<1>10. CASE rest # <<>> /\ Head(rest) \in back
    BY <1>3, <1>4, <1>5, <1>6, <1>7, <1>10 DEF r
<1>11. CASE rest # <<>> /\ Head(rest) \notin back
    BY <1>4, <1>5, <1>6, <1>7, <1>11 DEF r
<1> QED
    BY <1>9, <1>10, <1>11

LoopState == [at : {"off", "sleep", "deliver", "ending"}, job : Jobs \cup {NoJob}]

\* The queue and its loop: no delivery is queued twice, or queued and in flight.
Queue ==
    /\ deliveries \in Seq(Jobs) /\ Once(deliveries)
    /\ backoff \subseteq Jobs /\ inFlight \subseteq Jobs /\ loop \in LoopState
    /\ Entries(deliveries) \cap inFlight = {}

\* The records with a delivery queued or in flight.
Busy == Entries(deliveries) \cup inFlight

\* A step of the queue that the deliveries of new enter and those of gone leave;
\* any other stays unless it is quiet.
Flow(new, gone, sup, wat) ==
    /\ Queue'
    /\ Busy' \subseteq (Busy \cup new) \ gone
    /\ \A j \in (Busy \cup new) \ gone : j \in Busy' \/ Quiet(j, sup, wat)

LEMMA ContinueFacts ==
    ASSUME NEW q \in Seq(Jobs), Once(q), NEW back \in SUBSET Jobs, NEW fly \in SUBSET Jobs,
           Entries(q) \cap fly = {}, loop \in LoopState,
           NEW sup, NEW wat, NEW resume, Continue(q, back, fly, sup, wat, resume)
    PROVE  /\ Queue'
           /\ Busy' \subseteq Entries(q) \cup fly
           /\ \A j \in Entries(q) \cup fly : j \in Busy' \/ Quiet(j, sup, wat)
<1> DEFINE r == RunLoop(q, back, sup, wat)
<1>1. /\ r.q \in Seq(Jobs) /\ Once(r.q)
      /\ [at |-> r.at, job |-> r.job] \in LoopState
      /\ Entries(r.q) \cup r.start \subseteq Entries(q)
      /\ Entries(r.q) \cap r.start = {}
      /\ \A j \in Entries(q) : j \in Entries(r.q) \cup r.start \/ Quiet(j, sup, wat)
    BY RunLoopFacts DEF LoopState
<1>2. Entries(q) \subseteq Jobs
    BY ElementOfSeq DEF Entries
<1> HIDE DEF r
<1>3. CASE /\ deliveries' = r.q
           /\ loop' = [at |-> r.at, job |-> r.job]
           /\ inFlight' = fly \cup r.start /\ backoff' = back
    <2>1. Entries(r.q) \cap (fly \cup r.start) = {} /\ fly \cup r.start \subseteq Jobs
        BY <1>1, <1>2
    <2>2. Queue'
        BY <1>1, <1>3, <2>1 DEF Queue
    <2>3. Busy' = Entries(r.q) \cup fly \cup r.start
        BY <1>3 DEF Busy
    <2> QED
        BY <1>1, <2>2, <2>3
<1>4. CASE deliveries' = q /\ inFlight' = fly /\ backoff' = back /\ loop' = loop
    <2>1. Queue'
        BY <1>4 DEF Queue
    <2>2. Busy' = Entries(q) \cup fly
        BY <1>4 DEF Busy
    <2> QED
        BY <2>1, <2>2
<1> QED
    BY <1>3, <1>4 DEF Continue, r

\* A delivery is appended.
LEMMA AppendFacts ==
    ASSUME NEW q \in Seq(Jobs), Once(q), NEW j \in Jobs, j \notin Entries(q)
    PROVE  /\ Append(q, j) \in Seq(Jobs) /\ Once(Append(q, j))
           /\ Entries(Append(q, j)) = Entries(q) \cup {j}
<1> DEFINE r == Append(q, j)
<1>1. /\ Len(q) \in Nat /\ r \in Seq(Jobs) /\ Len(r) = Len(q) + 1
      /\ \A i \in 1..Len(q) : r[i] = q[i]
      /\ r[Len(q) + 1] = j
    BY AppendProperties, LenProperties
<1> HIDE DEF r
<1>2. /\ \A i \in 1..Len(r) : i \in 1..Len(q) \/ i = Len(q) + 1
      /\ Len(q) + 1 \in 1..Len(r) /\ \A i \in 1..Len(q) : i \in 1..Len(r)
    BY <1>1
<1>3. Once(r)
    BY <1>1, <1>2 DEF Once, Entries
<1>4. Entries(r) = Entries(q) \cup {j}
    <2>1. Entries(r) \subseteq Entries(q) \cup {j}
        BY <1>1, <1>2 DEF Entries
    <2>2. Entries(q) \cup {j} \subseteq Entries(r)
        BY <1>1, <1>2 DEF Entries
    <2> QED
        BY <2>1, <2>2
<1> QED
    BY <1>1, <1>3, <1>4 DEF r

\* The loop is resumed, or started when it is off, on the queue as it is.
LEMMA ContinueSame ==
    ASSUME Queue, NEW gone \in SUBSET inFlight, NEW back \in SUBSET Jobs, NEW resume,
           Continue(deliveries, back, inFlight \ gone, suppressed, watched, resume)
    PROVE  Flow({}, gone, suppressed, watched)
<1>1. /\ deliveries \in Seq(Jobs) /\ Once(deliveries) /\ inFlight \ gone \in SUBSET Jobs
      /\ Entries(deliveries) \cap (inFlight \ gone) = {} /\ loop \in LoopState
      /\ Entries(deliveries) \cup (inFlight \ gone) = Busy \ gone
    BY DEF Queue, Busy
<1> QED
    BY <1>1, ContinueFacts DEF Flow

\* A delivery that is not under way, or just was in flight, joins the queue.
LEMMA ContinueAppend ==
    ASSUME Queue, NEW j \in Jobs, j \notin Entries(deliveries),
           NEW fly \in SUBSET inFlight, inFlight \ {j} = fly,
           NEW back \in SUBSET Jobs, NEW sup, NEW wat, NEW resume,
           Continue(Append(deliveries, j), back, fly, sup, wat, resume)
    PROVE  Flow({j}, {}, sup, wat)
<1>1. /\ deliveries \in Seq(Jobs) /\ Once(deliveries) /\ fly \in SUBSET Jobs /\ loop \in LoopState
      /\ Entries(deliveries) \cap fly = {}
    BY DEF Queue
<1>2. /\ Append(deliveries, j) \in Seq(Jobs) /\ Once(Append(deliveries, j))
      /\ Entries(Append(deliveries, j)) = Entries(deliveries) \cup {j}
    BY <1>1, AppendFacts
<1>3. /\ Entries(Append(deliveries, j)) \cap fly = {}
      /\ Entries(Append(deliveries, j)) \cup fly = Busy \cup {j}
    BY <1>1, <1>2 DEF Busy
<1> HIDE DEF Flow
<1>4. /\ Queue'
      /\ Busy' \subseteq Entries(Append(deliveries, j)) \cup fly
      /\ \A d \in Entries(Append(deliveries, j)) \cup fly : d \in Busy' \/ Quiet(d, sup, wat)
    BY <1>1, <1>2, <1>3, ContinueFacts
<1> QED
    BY <1>3, <1>4 DEF Flow

\* What is left of the queue when nothing of it changes.
LEMMA QueueRests ==
    ASSUME Queue, UNCHANGED <<deliveries, backoff, inFlight, loop>>
    PROVE  Queue' /\ Busy' = Busy
    BY DEF Queue, Busy

LEMMA EnqueueFacts ==
    ASSUME Queue, NEW j \in Jobs, j \notin Busy, NEW sup, EnqueueDelivery(j, sup)
    PROVE  Flow(IF Quiet(j, sup, watched) THEN {} ELSE {j}, {}, sup, watched)
<1>1. CASE Quiet(j, sup, watched)
    <2>1. UNCHANGED <<deliveries, backoff, inFlight, loop>>
        BY <1>1 DEF EnqueueDelivery
    <2> QED
        BY <1>1, <2>1, QueueRests DEF Flow
<1>2. CASE ~Quiet(j, sup, watched)
    <2>1. Continue(Append(deliveries, j), backoff \ {j}, inFlight, sup, watched, FALSE)
        BY <1>2 DEF EnqueueDelivery
    <2>2. /\ j \notin Entries(deliveries) /\ inFlight \ {j} = inFlight
          /\ backoff \ {j} \in SUBSET Jobs
        BY DEF Busy, Queue
    <2>3. Flow({j}, {}, sup, watched)
        BY <2>1, <2>2, ContinueAppend
    <2> QED
        BY <1>2, <2>3
<1> QED
    BY <1>1, <1>2

\* The queue is filtered; the loop is not touched.
LEMMA LoudFacts ==
    ASSUME Queue, NEW sup, NEW wat, deliveries' = Loud(deliveries, sup, wat),
           UNCHANGED <<backoff, inFlight, loop>>
    PROVE  Flow({}, {}, sup, wat)
<1> DEFINE S == {d \in Jobs : ~Quiet(d, sup, wat)}
<1>1. deliveries' = Keep(deliveries, S)
    BY DEF Loud
<1> HIDE DEF S
<1>2. /\ deliveries' \in Seq(Jobs) /\ Once(deliveries')
      /\ Entries(deliveries') = Entries(deliveries) \cap S
    BY <1>1, KeepEntries DEF Queue
<1>3. Queue'
    BY <1>2 DEF Queue
<1>4. Busy' = (Entries(deliveries) \cap S) \cup inFlight
    BY <1>2 DEF Busy
<1>5. Entries(deliveries) \subseteq Jobs
    BY ElementOfSeq DEF Entries, Queue
<1> QED
    BY <1>3, <1>4, <1>5 DEF Flow, Busy, S

\* A queue without its entry at i.
LEMMA WithoutFacts ==
    ASSUME NEW q \in Seq(Jobs), Once(q), NEW i \in 1..Len(q)
    PROVE  LET r == SubSeq(q, 1, i - 1) \o SubSeq(q, i + 1, Len(q))
           IN  r \in Seq(Jobs) /\ Once(r) /\ Entries(r) = Entries(q) \ {q[i]}
<1> DEFINE a == SubSeq(q, 1, i - 1)
           b == SubSeq(q, i + 1, Len(q))
           r == a \o b
<1>1. Len(q) \in Nat /\ i \in Nat /\ i >= 1 /\ i <= Len(q)
    BY LenProperties
<1>2. /\ a \in Seq(Jobs) /\ Len(a) = i - 1
      /\ \A j \in 1..(i - 1) : a[j] = q[j]
    <2>1. \A j \in 1..(i - 1) : q[j] \in Jobs
        BY <1>1
    <2>2. /\ a \in Seq(Jobs)
          /\ Len(a) = IF 1 <= i - 1 THEN (i - 1) - 1 + 1 ELSE 0
          /\ \A j \in 1..((i - 1) - 1 + 1) : a[j] = q[1 + j - 1]
        BY <1>1, <2>1, 1 \in Int, i - 1 \in Int, SubSeqProperties
    <2>3. \A j \in 1..(i - 1) : 1 + j - 1 = j
        BY <1>1
    <2> QED
        BY <1>1, <2>2, <2>3
<1>3. b \in Seq(Jobs) /\ Once(b) /\ Entries(b) = {q[m] : m \in (i + 1)..Len(q)}
    BY <1>1, i + 1 \in 1..(Len(q) + 1), RestFacts
<1>4. Entries(a) = {q[m] : m \in 1..(i - 1)}
    BY <1>2 DEF Entries
<1>5. Once(a)
    BY <1>1, <1>2 DEF Once
<1>6. Entries(a) \cap Entries(b) = {}
    <2>1. \A k \in 1..(i - 1), m \in (i + 1)..Len(q) :
             k \in 1..Len(q) /\ m \in 1..Len(q) /\ k # m
        BY <1>1
    <2> HIDE DEF a, b
    <2> QED
        BY <1>3, <1>4, <2>1 DEF Once
<1>7. Entries(a) \cup Entries(b) = Entries(q) \ {q[i]}
    <2>1. /\ \A m \in 1..Len(q) : m = i \/ m \in 1..(i - 1) \/ m \in (i + 1)..Len(q)
          /\ \A m \in 1..(i - 1) : m \in 1..Len(q) /\ m # i
          /\ \A m \in (i + 1)..Len(q) : m \in 1..Len(q) /\ m # i
        BY <1>1
    <2> HIDE DEF a, b
    <2>2. Entries(q) \ {q[i]} \subseteq Entries(a) \cup Entries(b)
        BY <1>3, <1>4, <2>1 DEF Entries
    <2>3. Entries(a) \cup Entries(b) \subseteq Entries(q) \ {q[i]}
        <3>1. \A m \in 1..(i - 1) : q[m] \in Entries(q) /\ q[m] # q[i]
            BY <2>1 DEF Once, Entries
        <3>2. \A m \in (i + 1)..Len(q) : q[m] \in Entries(q) /\ q[m] # q[i]
            BY <2>1 DEF Once, Entries
        <3> QED
            BY <1>3, <1>4, <3>1, <3>2
    <2> QED
        BY <2>2, <2>3
<1> HIDE DEF a, b
<1>8. /\ r \in Seq(Jobs) /\ Len(r) = Len(a) + Len(b) /\ Len(a) \in Nat /\ Len(b) \in Nat
      /\ \A j \in 1..(Len(a) + Len(b)) : r[j] = IF j <= Len(a) THEN a[j] ELSE b[j - Len(a)]
    BY <1>2, <1>3, ConcatProperties, LenProperties
<1> HIDE DEF r
<1>9. /\ \A j \in 1..Len(r) :
             (j \in 1..Len(a) /\ r[j] = a[j]) \/ (j - Len(a) \in 1..Len(b) /\ r[j] = b[j - Len(a)])
      /\ \A j \in 1..Len(a) : j \in 1..Len(r) /\ r[j] = a[j]
      /\ \A j \in 1..Len(b) : j + Len(a) \in 1..Len(r) /\ r[j + Len(a)] = b[j]
    <2>1. \A j \in 1..Len(b) : /\ j + Len(a) \in 1..Len(r) /\ ~ (j + Len(a) <= Len(a))
                              /\ (j + Len(a)) - Len(a) = j
        BY <1>8
    <2> QED
        BY <1>8, <2>1
<1>10. Entries(r) = Entries(a) \cup Entries(b)
    <2>1. Entries(r) \subseteq Entries(a) \cup Entries(b)
        BY <1>9 DEF Entries
    <2>2. Entries(a) \subseteq Entries(r)
        BY <1>9 DEF Entries
    <2>3. Entries(b) \subseteq Entries(r)
        BY <1>9 DEF Entries
    <2> QED
        BY <2>1, <2>2, <2>3
<1>11. Once(r)
    <2> SUFFICES ASSUME NEW k \in 1..Len(r), NEW m \in 1..Len(r), r[k] = r[m]
                 PROVE  k = m
        BY DEF Once
    <2>0. \A x \in 1..Len(a), y \in 1..Len(b) : a[x] # b[y]
        BY <1>6 DEF Entries
    <2>1. CASE k \in 1..Len(a) /\ r[k] = a[k]
        <3>1. m \in 1..Len(a) /\ r[m] = a[m]
            BY <1>9, <2>0, <2>1
        <3> QED
            BY <1>5, <2>1, <3>1 DEF Once
    <2>2. CASE k - Len(a) \in 1..Len(b) /\ r[k] = b[k - Len(a)]
        <3>1. m - Len(a) \in 1..Len(b) /\ r[m] = b[m - Len(a)]
            BY <1>9, <2>0, <2>2
        <3>2. k - Len(a) = m - Len(a)
            BY <1>3, <2>2, <3>1 DEF Once
        <3> QED
            BY <1>8, <3>2
    <2> QED
        BY <1>9, <2>1, <2>2
<1> QED
    BY <1>7, <1>8, <1>10, <1>11 DEF r, a, b

\* The scoped drain takes a delivery out of the queue and starts its callback.
LEMMA PickFacts ==
    ASSUME Queue, NEW j \in Jobs, DrainPick(j)
    PROVE  Queue' /\ Busy' = Busy
<1> DEFINE at == CHOOSE k \in 1..Len(deliveries) : deliveries[k] = j
<1>1. \E k \in 1..Len(deliveries) : deliveries[k] = j
    BY DEF DrainPick, Pending, IsQueued
<1>2. at \in 1..Len(deliveries) /\ deliveries[at] = j
    BY <1>1
<1> HIDE DEF at
<1>3. deliveries' = SubSeq(deliveries, 1, at - 1) \o SubSeq(deliveries, at + 1, Len(deliveries))
    BY DEF DrainPick, at
<1>4. /\ deliveries' \in Seq(Jobs) /\ Once(deliveries')
      /\ Entries(deliveries') = Entries(deliveries) \ {j}
    BY <1>2, <1>3, WithoutFacts DEF Queue
<1>5. j \in Entries(deliveries) /\ j \notin inFlight
    BY <1>2 DEF Entries, Queue
<1>6. inFlight' = inFlight \cup {j} /\ backoff' \subseteq backoff /\ loop' = loop
    BY DEF DrainPick
<1> QED
    BY <1>4, <1>5, <1>6 DEF Queue, Busy

\* A record that is not registered leaves an id free.
LEMMA ResolveJobIdFacts ==
    ASSUME jobs \in [Ids -> Jobs \cup {NoJob}],
           \A i \in Ids : jobs[i] # NoJob => id[jobs[i]] = i,
           NEW j \in Jobs, id[j] = 0
    PROVE  ResolveJobId \in Ids /\ jobs[ResolveJobId] = NoJob
<1> DEFINE free == {i \in Ids : jobs[i] = NoJob}
<1>1. Cardinality(Jobs) \in Nat /\ IsFiniteSet(Jobs)
    BY JobsAssumption, FS_CardinalityType
<1>2. IsFiniteSet(Ids) /\ Cardinality(Ids) = Cardinality(Jobs)
    BY <1>1, FS_Interval DEF Ids
<1>3. /\ IsFiniteSet(Jobs \ {j}) /\ Cardinality(Jobs \ {j}) < Cardinality(Ids)
    <2>1. Cardinality(Jobs \ {j}) = Cardinality(Jobs) - 1
        BY <1>1, FS_RemoveElement
    <2> QED
        BY <1>1, <1>2, <2>1, FS_RemoveElement
<1>4. free # {}
    <2> SUFFICES ASSUME \A i \in Ids : jobs[i] # NoJob
                 PROVE  FALSE
        OBVIOUS
    <2>1. \A i \in Ids : jobs[i] \in Jobs /\ id[jobs[i]] = i /\ i # 0
        BY <1>1 DEF Ids
    <2>2. jobs \in [Ids -> Jobs \ {j}]
        BY <2>1
    <2>3. PICK x \in Ids, y \in Ids : x # y /\ jobs[x] = jobs[y]
        BY <1>2, <1>3, <2>2, FS_PigeonHole
    <2> QED
        BY <2>1, <2>3
<1>5. \E i \in free : \A k \in free : i <= k
    <2>1. free \subseteq Nat
        BY <1>1 DEF Ids
    <2> HIDE DEF free
    <2> QED
        BY <1>4, <2>1, Least
<1> QED
    BY <1>5 DEF ResolveJobId

-----------------------------------------------------------------------------
(* The inductive invariant. *)

Gone == disp.at = "done"
Ended == {"completed", "failed"}
Waits(j) == fg[j] \in {"waiting", "timedout", "ended"}

\* A result is staged or shown once, and neither while its delivery is under way.
OnePlace == \A j \in Jobs :
    /\ shown[j] + staged[j] <= 1
    /\ j \in Busy => shown[j] = 0 /\ staged[j] = 0

\* Only what completed or failed is delivered.
Outcomes == \A j \in Jobs : j \in Busy \/ staged[j] # 0 \/ shown[j] # 0 => st[j] \in Ended

\* An id holds the record that was registered under it.
Registry ==
    /\ \A j \in Jobs : id[j] = 0 <=> st[j] = "none"
    /\ \A i \in Ids : jobs[i] # NoJob => id[jobs[i]] = i

\* A record keeps its id while it is not settled and, until the manager is
\* cleared, while its delivery, a foreground wait or a poll needs it.
Current == \A j \in Jobs :
    /\ st[j] \in {"running", "cancelling"} => j \in Registered
    /\ ~Gone /\ (\/ j \in Busy \/ staged[j] # 0 \/ Waits(j)
                 \/ \E p \in Polls : j \in poll[p].tracked) => j \in Registered

\* An eviction timer is armed for a record that no longer runs.
Timers == \A i \in timers : jobs[i] # NoJob /\ st[jobs[i]] # "running"

\* Once dispose() was called nothing runs, and what it clears has settled.
Closing ==
    /\ disp.at \in {"waiting", "done"} => \A j \in Jobs : st[j] # "running"
    /\ disp.at = "waiting" => Registered \subseteq disp.for
    /\ Gone => \A i \in Ids : jobs[i] = NoJob

\* While a foreground wait lasts, its job is acknowledged and delivers nothing.
Foreground == \A j \in Jobs :
    /\ Waits(j) => /\ id[j] # 0 /\ j \notin Busy /\ staged[j] = 0 /\ shown[j] = 0
                   /\ Gone \/ id[j] \in suppressed
    /\ fg[j] = "waiting" => st[j] \in {"running", "cancelling"}
    /\ fg[j] \in {"waiting", "timedout"} => j \notin told

\* What a tool result reported stays suppressed while its record has its id.
Acknowledged == \A j \in told :
    id[j] # 0 /\ (Gone \/ id[j] \in suppressed \/ j \notin Registered)

\* A delivery that is under way and quiet was reported by a tool result.
QuietTold == \A j \in Jobs : ~Gone /\ (j \in Busy \/ staged[j] # 0) =>
    id[j] \notin watched /\ (id[j] \in suppressed => j \in told)

\* A running job is suppressed only by a foreground wait or a tool result.
SuppressedWhy == \A j \in Jobs : ~Gone /\ st[j] = "running" /\ id[j] \in suppressed =>
    j \in told \/ Waits(j)

\* What is watched, some poll watches.
Watching == ~Gone => \A i \in watched : \E p \in Polls : i \in poll[p].watching

\* A poll watches ids of records it tracks.
Tracking == \A p \in Polls :
    /\ poll[p].at = "idle" => poll[p].tracked = {}
    /\ \A i \in poll[p].watching : \E j \in poll[p].tracked : id[j] = i
    /\ \A j \in poll[p].tracked : id[j] # 0

\* ResultHeld, in terms of what is busy.
Held == \A j \in Jobs :
    /\ st[j] \in Ended /\ shown[j] = 0 /\ j \notin told
    /\ disp.at = "no"
    => \/ j \in Busy \/ staged[j] # 0
       \/ \E p \in Polls : j \in poll[p].tracked
       \/ fg[j] \in {"ended", "timedout"}

\* With one poll at most, what it watches is quiet and not under way.
OneWatch == (\A p, q \in Polls : p = q) =>
    \A p \in Polls : \A j \in poll[p].tracked : id[j] \in poll[p].watching =>
        /\ j \notin Busy /\ staged[j] = 0
        /\ Gone \/ id[j] \in watched

IInv ==
    /\ TypeOK /\ Queue /\ OnePlace /\ Outcomes /\ Registry /\ Current /\ Timers /\ Closing
    /\ Foreground /\ Acknowledged /\ QuietTold /\ SuppressedWhy /\ Watching /\ Tracking
    /\ Held /\ OneWatch

-----------------------------------------------------------------------------
(* Every step keeps the inductive invariant: one lemma per action, one step *)
(* per conjunct.                                                            *)

\* A delivery the queue drops because it is quiet was told.
LEMMA DroppedIsTold ==
    ASSUME IInv, ~Gone, NEW j \in Busy, Quiet(j, suppressed, watched)
    PROVE  j \in told
    BY DEF IInv, QuietTold, Quiet, Queue, Busy, Entries

\* Only records are busy.
LEMMA BusyIsJobs ==
    ASSUME Queue
    PROVE  Busy \subseteq Jobs
    BY ElementOfSeq DEF Queue, Busy, Entries

\* The record an id holds is the only one registered under it.
LEMMA SoleHolder ==
    ASSUME NEW j \in Registered, NEW k \in Registered, id[j] = id[k]
    PROVE  j = k
    BY DEF Registered

\* What cancelling does, to those of who that run.
LEMMA CancelFacts ==
    ASSUME IInv, NEW who \in SUBSET Registered, CancelMarks(who), UNCHANGED <<id, jobs>>
    PROVE  /\ \A j \in Jobs : \/ j \in who /\ st[j] = "running" /\ st'[j] = "cancelling"
                              \/ (j \in who => st[j] # "running") /\ st'[j] = st[j]
           /\ st' \in [Jobs -> {"none", "running", "cancelling", "cancelled", "completed", "failed"}]
           /\ timers' \subseteq Ids /\ Timers'
<1>1. \A j \in Jobs : st'[j] = IF j \in who /\ st[j] = "running" THEN "cancelling" ELSE st[j]
    BY DEF CancelMarks, Live
<1>2. st' \in [Jobs -> {"none", "running", "cancelling", "cancelled", "completed", "failed"}]
    BY DEF CancelMarks, Live, IInv, TypeOK
<1>3. \A j \in who : /\ j \in Jobs /\ id[j] \in Ids /\ jobs[id[j]] = j /\ j # NoJob
    BY JobsAssumption DEF Registered, IInv, TypeOK
<1>4. \A i \in timers' : i \in timers \/ \E j \in who : st[j] = "running" /\ id[j] = i
    BY DEF CancelMarks, Live
<1>5. timers' \subseteq Ids
    BY <1>3, <1>4 DEF IInv, TypeOK
<1>6. Timers'
    BY <1>1, <1>3, <1>4 DEF IInv, Timers, TypeOK
<1> QED
    BY <1>1, <1>2, <1>5, <1>6

\* What a result of the job tool does: it reports and acknowledges what is no
\* longer running among the records it tracks.
LEMMA BuildFacts ==
    ASSUME IInv, NEW tracked \in SUBSET Jobs, \A j \in tracked : id[j] # 0,
           ~Gone => tracked \subseteq Registered,
           NEW status, NEW wat, BuildResult(tracked, status, wat)
    PROVE  LET done == {j \in tracked : status[j] # "running"}
           IN  /\ suppressed' = suppressed \cup {id[j] : j \in done}
               /\ watched' = wat
               /\ told' = told \cup {j \in done : status[j] \in Ended}
               /\ Flow({}, {}, suppressed', wat)
<1> DEFINE done == {j \in tracked : status[j] # "running"}
<1>1. \A j \in tracked : Latest(j) = j
    BY DEF Latest, Registered, IInv, Closing, TypeOK, Ids
<1>2. {l \in {Latest(j) : j \in tracked} : status[l] # "running"} = done
    BY <1>1
<1>3. /\ suppressed' = suppressed \cup {id[j] : j \in done}
      /\ watched' = wat
      /\ told' = told \cup {j \in done : status[j] \in Ended}
      /\ deliveries' = IF done = {} THEN deliveries ELSE Loud(deliveries, suppressed', wat)
      /\ UNCHANGED <<backoff, inFlight, loop>>
    BY <1>2 DEF BuildResult, Loud, Ended
<1>4. Flow({}, {}, suppressed', wat)
    <2>1. CASE done = {}
        BY <1>3, <2>1, QueueRests DEF IInv, Flow
    <2>2. CASE done # {}
        <3>1. deliveries' = Loud(deliveries, suppressed', wat)
            BY <1>3, <2>2
        <3> QED
            BY <1>3, <3>1, LoudFacts DEF IInv
    <2> QED
        BY <2>1, <2>2
<1> QED
    BY <1>3, <1>4

\* A step of the queue alone.
LEMMA FlowStep ==
    ASSUME IInv, TypeOK', Flow({}, {}, suppressed, watched),
           UNCHANGED <<st, id, jobs, suppressed, watched, timers, staged, shown, told, poll,
                       fg, disp>>
    PROVE  IInv'
<1>q. Queue' /\ Busy' \subseteq Busy
    BY DEF Flow
<1>d. disp.at = "no" => \A j \in Busy : j \in Busy' \/ j \in told
    BY DroppedIsTold DEF Flow, Gone
<1>r. Registered' = Registered
    BY DEF Registered
<1>1. Queue'
    BY <1>q DEF IInv, Queue
<1>2. OnePlace'
    BY <1>q DEF IInv, OnePlace
<1>3. Outcomes'
    BY <1>q DEF IInv, Outcomes
<1>4. Registry'
    BY DEF IInv, Registry
<1>5. Current'
    BY <1>q, <1>r DEF IInv, Current, Waits, Gone
<1>6. Timers'
    BY DEF IInv, Timers
<1>7. Closing'
    BY <1>r DEF IInv, Closing, Gone
<1>8. Foreground'
    BY <1>q DEF IInv, Foreground, Waits, Gone
<1>9. Acknowledged'
    BY <1>r DEF IInv, Acknowledged, Gone
<1>10. QuietTold'
    BY <1>q DEF IInv, QuietTold, Gone
<1>11. SuppressedWhy'
    BY DEF IInv, SuppressedWhy, Waits, Gone
<1>12. Watching'
    BY DEF IInv, Watching, Gone
<1>13. Tracking'
    BY DEF IInv, Tracking
<1>14. Held'
    BY <1>q, <1>d DEF IInv, Held
<1>15. OneWatch'
    BY <1>q DEF IInv, OneWatch, Gone
<1> QED
    BY <1>1, <1>2, <1>3, <1>4, <1>5, <1>6, <1>7, <1>8, <1>9, <1>10, <1>11, <1>12, <1>13, <1>14, <1>15 DEF IInv

LEMMA LoopWakeStep ==
    ASSUME IInv, LoopWake
    PROVE  IInv'
<1>f. Flow({}, {}, suppressed, watched)
    <2>1. Continue(deliveries, backoff \ {loop.job}, inFlight \ {}, suppressed, watched, TRUE)
        BY DEF LoopWake
    <2>2. Queue /\ backoff \ {loop.job} \in SUBSET Jobs
        BY DEF IInv, Queue
    <2> QED
        BY <2>1, <2>2, ContinueSame
<1>u. /\ UNCHANGED <<st, id, jobs, suppressed, watched, timers, staged, shown, told, poll, fg, disp>>
      /\ UNCHANGED <<queued, failures, polls, drain>>
    BY DEF LoopWake, record, clients
<1>t. TypeOK'
    BY <1>f, <1>u DEF IInv, TypeOK, Queue, LoopState, Flow
<1> QED
    BY <1>f, <1>t, <1>u, FlowStep

LEMMA LoopEndStep ==
    ASSUME IInv, LoopEnd
    PROVE  IInv'
<1>f. Flow({}, {}, suppressed, watched)
    <2>1. CASE deliveries # <<>>
        <3>1. Continue(deliveries, backoff, inFlight \ {}, suppressed, watched, TRUE)
            BY <2>1 DEF LoopEnd
        <3> QED
            BY <3>1, ContinueSame DEF IInv, Queue
    <2>2. CASE deliveries = <<>>
        <3>1. UNCHANGED <<deliveries, backoff, inFlight>> /\ loop' = [at |-> "off", job |-> NoJob]
            BY <2>2 DEF LoopEnd
        <3> QED
            BY <3>1 DEF IInv, Queue, LoopState, Flow, Busy
    <2> QED
        BY <2>1, <2>2
<1>u. /\ UNCHANGED <<st, id, jobs, suppressed, watched, timers, staged, shown, told, poll, fg, disp>>
      /\ UNCHANGED <<queued, failures, polls, drain>>
    BY DEF LoopEnd, record, clients
<1>t. TypeOK'
    BY <1>f, <1>u DEF IInv, TypeOK, Queue, LoopState, Flow
<1> QED
    BY <1>f, <1>t, <1>u, FlowStep

LEMMA CallbackRejectsStep ==
    ASSUME IInv, NEW j \in Jobs, CallbackRejects(j)
    PROVE  IInv'
<1>f. Flow({}, {}, suppressed, watched)
    <2>1. Queue /\ j \in inFlight /\ j \in Busy /\ j \notin Entries(deliveries)
        BY DEF IInv, Queue, CallbackRejects, Busy
    <2>2. backoff \cup {j} \in SUBSET Jobs
        BY <2>1 DEF Queue
    <2> DEFINE resume == loop.at = "deliver" /\ loop.job = j
    <2>3. CASE Quiet(j, suppressed, watched)
        <3>1. Continue(deliveries, backoff \cup {j}, inFlight \ {j}, suppressed, watched, resume)
            BY <2>3 DEF CallbackRejects
        <3> HIDE DEF resume
        <3>2. Flow({}, {j}, suppressed, watched)
            BY <2>1, <2>2, <3>1, ContinueSame
        <3> QED
            BY <2>3, <3>2 DEF Flow
    <2>4. CASE ~Quiet(j, suppressed, watched)
        <3>1. Continue(Append(deliveries, j), backoff \cup {j}, inFlight \ {j}, suppressed, watched,
                       resume)
            BY <2>4 DEF CallbackRejects
        <3> HIDE DEF resume
        <3>2. Flow({j}, {}, suppressed, watched)
            BY <2>1, <2>2, <3>1, ContinueAppend
        <3> QED
            BY <2>1, <3>2 DEF Flow
    <2> QED
        BY <2>3, <2>4
<1>u. /\ UNCHANGED <<st, id, jobs, suppressed, watched, timers, staged, shown, told, poll, fg, disp>>
      /\ UNCHANGED <<queued, polls, drain>>
    BY DEF CallbackRejects, record, clients
<1>n. failures' \in [Jobs -> 0..MaxFailures]
    <2>1. failures[j] < MaxFailures /\ failures' = [failures EXCEPT ![j] = @ + 1]
        BY DEF CallbackRejects
    <2> QED
        BY <2>1, BoundsAssumption DEF IInv, TypeOK
<1>t. TypeOK'
    BY <1>f, <1>u, <1>n DEF IInv, TypeOK, Queue, LoopState, Flow
<1> QED
    BY <1>f, <1>t, <1>u, FlowStep

LEMMA DrainPickStep ==
    ASSUME IInv, NEW j \in Jobs, DrainPick(j)
    PROVE  IInv'
<1>f. Flow({}, {}, suppressed, watched)
    BY PickFacts DEF IInv, Flow
<1>u. /\ UNCHANGED <<st, id, jobs, suppressed, watched, timers, staged, shown, told, poll, fg, disp>>
      /\ UNCHANGED <<queued, failures, polls>>
      /\ drain' = [drain EXCEPT !.at = "await", !.job = j]
    BY DEF DrainPick, record
<1>t. TypeOK'
    BY <1>f, <1>u DEF IInv, TypeOK, Queue, LoopState, Flow
<1> QED
    BY <1>f, <1>t, <1>u, FlowStep

LEMMA MarkRunningStep ==
    ASSUME IInv, NEW j \in Jobs, MarkRunning(j)
    PROVE  IInv'
<1>f. Flow({}, {}, suppressed, watched)
    BY QueueRests DEF IInv, MarkRunning, queue, Flow
<1>u. UNCHANGED <<st, id, jobs, suppressed, watched, timers, staged, shown, told, poll, fg, disp>>
    BY DEF MarkRunning, record, clients
<1>t. TypeOK'
    BY DEF IInv, MarkRunning, TypeOK, record, queue, clients
<1> QED
    BY <1>f, <1>t, <1>u, FlowStep

LEMMA DrainStartStep ==
    ASSUME IInv, NEW o \in DrainFor, DrainStart(o)
    PROVE  IInv'
<1>f. Flow({}, {}, suppressed, watched)
    BY QueueRests DEF IInv, DrainStart, queue, Flow
<1>u. UNCHANGED <<st, id, jobs, suppressed, watched, timers, staged, shown, told, poll, fg, disp>>
    BY DEF DrainStart, record, clients
<1>t. TypeOK'
    BY DEF IInv, DrainStart, TypeOK, record, queue, clients, Pending, Owners
<1> QED
    BY <1>f, <1>t, <1>u, FlowStep

LEMMA DrainAwaitStep ==
    ASSUME IInv, NEW j \in Jobs, DrainAwait(j)
    PROVE  IInv'
<1>f. Flow({}, {}, suppressed, watched)
    BY QueueRests DEF IInv, DrainAwait, queue, Flow
<1>u. UNCHANGED <<st, id, jobs, suppressed, watched, timers, staged, shown, told, poll, fg, disp>>
    BY DEF DrainAwait, record, clients
<1>t. TypeOK'
    BY DEF IInv, DrainAwait, TypeOK, record, queue, clients
<1> QED
    BY <1>f, <1>t, <1>u, FlowStep

LEMMA DrainNextStep ==
    ASSUME IInv, DrainNext
    PROVE  IInv'
<1>f. Flow({}, {}, suppressed, watched)
    BY QueueRests DEF IInv, DrainNext, queue, Flow
<1>u. UNCHANGED <<st, id, jobs, suppressed, watched, timers, staged, shown, told, poll, fg, disp>>
    BY DEF DrainNext, record, clients
<1>t. TypeOK'
    BY DEF IInv, DrainNext, TypeOK, record, queue, clients
<1> QED
    BY <1>f, <1>t, <1>u, FlowStep

LEMMA DrainReturnStep ==
    ASSUME IInv, DrainReturn
    PROVE  IInv'
<1>f. Flow({}, {}, suppressed, watched)
    BY QueueRests DEF IInv, DrainReturn, queue, Flow
<1>u. UNCHANGED <<st, id, jobs, suppressed, watched, timers, staged, shown, told, poll, fg, disp>>
    BY DEF DrainReturn, record, clients
<1>t. TypeOK'
    BY DEF IInv, DrainReturn, TypeOK, record, queue, clients
<1> QED
    BY <1>f, <1>t, <1>u, FlowStep

LEMMA CallbackResolvesStep ==
    ASSUME IInv, NEW j \in Jobs, CallbackResolves(j)
    PROVE  IInv'
<1>q. Flow({}, {j}, suppressed, watched)
    <2> DEFINE resume == loop.at = "deliver" /\ loop.job = j
    <2>1. /\ Continue(deliveries, backoff, inFlight \ {j}, suppressed, watched, resume)
          /\ {j} \in SUBSET inFlight
        BY DEF CallbackResolves
    <2> HIDE DEF resume
    <2> QED
        BY <2>1, ContinueSame DEF IInv, Queue
<1>a. j \in Busy /\ j \in inFlight
    BY DEF CallbackResolves, Busy
<1>b. Queue' /\ Busy' \subseteq Busy \ {j}
    BY <1>q DEF Flow
<1>c. /\ UNCHANGED <<st, queued, id, jobs, timers, suppressed, watched, failures, shown, told, poll,
                     polls, fg, drain, disp>>
      /\ staged' = IF Quiet(j, suppressed, watched) THEN staged ELSE [staged EXCEPT ![j] = @ + 1]
    BY DEF CallbackResolves, record, clients
<1>r. Registered' = Registered
    BY <1>c DEF Registered
<1>d. disp.at = "no" => \A d \in Busy : d # j => d \in Busy' \/ d \in told
    BY <1>q, DroppedIsTold DEF Flow, Gone
<1>e. disp.at = "no" => staged'[j] # 0 \/ j \in told
    BY SMTT(30), <1>a, <1>c, DroppedIsTold DEF IInv, TypeOK, Gone
<1>1. TypeOK'
    <2>1. staged' \in [Jobs -> Nat]
        BY <1>c DEF IInv, TypeOK
    <2> QED
        BY <1>b, <1>c, <2>1 DEF IInv, TypeOK, Queue, LoopState
<1>2. Queue'
    BY <1>b DEF IInv, Queue
<1>3. OnePlace'
    BY <1>a, <1>b, <1>c DEF IInv, OnePlace
<1>4. Outcomes'
    BY <1>a, <1>b, <1>c DEF IInv, Outcomes
<1>5. Registry'
    BY <1>c DEF IInv, Registry
<1>6. Current'
    BY <1>a, <1>b, <1>c, <1>r DEF IInv, Current, Waits, Gone
<1>7. Timers'
    BY <1>c DEF IInv, Timers
<1>8. Closing'
    BY <1>c, <1>r DEF IInv, Closing, Gone
<1>9. Foreground'
    BY <1>a, <1>b, <1>c DEF IInv, Foreground, Waits, Gone
<1>10. Acknowledged'
    BY <1>c, <1>r DEF IInv, Acknowledged, Gone
<1>11. QuietTold'
    BY <1>a, <1>b, <1>c DEF IInv, QuietTold, Gone
<1>12. SuppressedWhy'
    BY <1>c DEF IInv, SuppressedWhy, Waits, Gone
<1>13. Watching'
    BY <1>c DEF IInv, Watching, Gone
<1>14. Tracking'
    BY <1>c DEF IInv, Tracking
<1>15. Held'
    BY <1>a, <1>b, <1>c, <1>d, <1>e DEF IInv, TypeOK, Held, OnePlace
<1>16. OneWatch'
    BY <1>a, <1>b, <1>c DEF IInv, OneWatch, Gone
<1> QED
    BY <1>1, <1>2, <1>3, <1>4, <1>5, <1>6, <1>7, <1>8, <1>9, <1>10, <1>11, <1>12, <1>13, <1>14, <1>15, <1>16 DEF IInv

LEMMA FlushYieldQueueStep ==
    ASSUME IInv, FlushYieldQueue
    PROVE  IInv'
<1>q. Queue' /\ Busy' = Busy
    BY QueueRests DEF IInv, FlushYieldQueue, queue
<1>r. Registered' = Registered
    BY DEF FlushYieldQueue, Registered, record
<1>1. TypeOK'
    BY SMTT(30), <1>q, <1>r DEF IInv, FlushYieldQueue, record, queue, clients, TypeOK, LoopState, Queue
<1>2. Queue'
    BY <1>q DEF IInv, Queue
<1>3. OnePlace'
    BY <1>q, <1>r DEF IInv, FlushYieldQueue, record, queue, OnePlace, TypeOK
<1>4. Outcomes'
    BY <1>q DEF IInv, FlushYieldQueue, record, Outcomes
<1>5. Registry'
    BY DEF IInv, FlushYieldQueue, record, Registry
<1>6. Current'
    BY <1>q, <1>r DEF IInv, FlushYieldQueue, record, clients, Current, Waits, Gone
<1>7. Timers'
    BY DEF IInv, FlushYieldQueue, record, Timers
<1>8. Closing'
    BY <1>r DEF IInv, FlushYieldQueue, record, clients, Closing, Gone
<1>9. Foreground'
    BY <1>q DEF IInv, FlushYieldQueue, record, clients, Foreground, Waits, Gone
<1>10. Acknowledged'
    BY <1>r DEF IInv, FlushYieldQueue, record, clients, Acknowledged, Gone
<1>11. QuietTold'
    BY <1>q DEF IInv, FlushYieldQueue, record, clients, QuietTold, Gone
<1>12. SuppressedWhy'
    BY DEF IInv, FlushYieldQueue, record, clients, SuppressedWhy, Waits, Gone
<1>13. Watching'
    BY DEF IInv, FlushYieldQueue, clients, Watching, Gone
<1>14. Tracking'
    BY DEF IInv, FlushYieldQueue, record, clients, Tracking
<1>15. Held'
    BY <1>q DEF IInv, FlushYieldQueue, record, clients, Held, TypeOK, Gone, Quiet, QuietTold
<1>16. OneWatch'
    BY <1>q DEF IInv, FlushYieldQueue, record, clients, OneWatch, Gone, TypeOK
<1> QED
    BY <1>1, <1>2, <1>3, <1>4, <1>5, <1>6, <1>7, <1>8, <1>9, <1>10, <1>11, <1>12, <1>13, <1>14, <1>15, <1>16 DEF IInv

LEMMA FgTimeoutStep ==
    ASSUME IInv, NEW j \in Jobs, FgTimeout(j)
    PROVE  IInv'
<1>q. Queue' /\ Busy' = Busy
    BY QueueRests DEF IInv, FgTimeout, queue
<1>r. Registered' = Registered
    BY DEF FgTimeout, Registered, record
<1>1. TypeOK'
    BY DEF IInv, FgTimeout, record, queue, TypeOK
<1>2. Queue'
    BY <1>q DEF IInv, clients, Queue
<1>3. OnePlace'
    BY <1>q DEF IInv, FgTimeout, clients, OnePlace
<1>4. Outcomes'
    BY <1>q DEF IInv, FgTimeout, record, Outcomes
<1>5. Registry'
    BY DEF IInv, FgTimeout, record, clients, Registry
<1>6. Current'
    BY <1>q, <1>r DEF IInv, FgTimeout, record, clients, Current, Waits, Gone
<1>7. Timers'
    BY DEF IInv, FgTimeout, record, clients, Timers
<1>8. Closing'
    BY <1>r DEF IInv, FgTimeout, record, clients, Closing, Gone
<1>9. Foreground'
    BY <1>q DEF IInv, FgTimeout, record, clients, Foreground, Waits, Gone
<1>10. Acknowledged'
    BY <1>r DEF IInv, FgTimeout, record, clients, Acknowledged, Gone
<1>11. QuietTold'
    BY <1>q DEF IInv, FgTimeout, record, clients, QuietTold, Gone
<1>12. SuppressedWhy'
    BY DEF IInv, FgTimeout, record, clients, SuppressedWhy, Waits, Gone
<1>13. Watching'
    BY DEF IInv, FgTimeout, clients, Watching, Gone
<1>14. Tracking'
    BY DEF IInv, FgTimeout, record, clients, Tracking
<1>15. Held'
    BY <1>q DEF IInv, FgTimeout, record, Held
<1>16. OneWatch'
    BY <1>q DEF IInv, FgTimeout, record, clients, OneWatch, Gone
<1> QED
    BY <1>1, <1>2, <1>3, <1>4, <1>5, <1>6, <1>7, <1>8, <1>9, <1>10, <1>11, <1>12, <1>13, <1>14, <1>15, <1>16 DEF IInv

LEMMA FgCompleteStep ==
    ASSUME IInv, NEW j \in Jobs, FgComplete(j)
    PROVE  IInv'
<1>q. Queue' /\ Busy' = Busy
    BY QueueRests DEF IInv, FgComplete, queue
<1>r. Registered' = Registered
    BY DEF FgComplete, Registered, record
<1>1. TypeOK'
    BY DEF IInv, FgComplete, record, queue, TypeOK
<1>2. Queue'
    BY <1>q DEF IInv, clients, Queue
<1>3. OnePlace'
    BY <1>q DEF IInv, FgComplete, clients, OnePlace
<1>4. Outcomes'
    BY <1>q DEF IInv, FgComplete, record, Outcomes
<1>5. Registry'
    BY DEF IInv, FgComplete, record, clients, Registry
<1>6. Current'
    BY <1>q, <1>r DEF IInv, FgComplete, record, clients, Current, Waits, Gone
<1>7. Timers'
    BY DEF IInv, FgComplete, record, clients, Timers
<1>8. Closing'
    BY <1>r DEF IInv, FgComplete, record, clients, Closing, Gone
<1>9. Foreground'
    BY <1>q DEF IInv, FgComplete, record, clients, Foreground, Waits, Gone
<1>10. Acknowledged'
    BY <1>r DEF IInv, FgComplete, record, clients, Acknowledged, Gone
<1>11. QuietTold'
    BY <1>q DEF IInv, FgComplete, record, clients, QuietTold, Gone
<1>12. SuppressedWhy'
    BY DEF IInv, FgComplete, record, clients, SuppressedWhy, Waits, Gone
<1>13. Watching'
    BY DEF IInv, FgComplete, clients, Watching, Gone
<1>14. Tracking'
    BY DEF IInv, FgComplete, record, clients, Tracking
<1>15. Held'
    BY <1>q DEF IInv, FgComplete, record, Held
<1>16. OneWatch'
    BY <1>q DEF IInv, FgComplete, record, clients, OneWatch, Gone
<1> QED
    BY <1>1, <1>2, <1>3, <1>4, <1>5, <1>6, <1>7, <1>8, <1>9, <1>10, <1>11, <1>12, <1>13, <1>14, <1>15, <1>16 DEF IInv

LEMMA FgReturnStep ==
    ASSUME IInv, NEW j \in Jobs, FgReturn(j)
    PROVE  IInv'
<1>q. Queue' /\ Busy' = Busy
    BY QueueRests DEF IInv, FgReturn, queue
<1>r. Registered' = Registered
    BY DEF FgReturn, Registered, record
<1>1. TypeOK'
    BY DEF IInv, FgReturn, record, queue, TypeOK
<1>2. Queue'
    BY <1>q DEF IInv, clients, Queue
<1>3. OnePlace'
    BY <1>q DEF IInv, FgReturn, clients, OnePlace
<1>4. Outcomes'
    BY <1>q DEF IInv, FgReturn, record, Outcomes
<1>5. Registry'
    BY DEF IInv, FgReturn, record, clients, Registry
<1>6. Current'
    BY <1>q, <1>r DEF IInv, FgReturn, record, clients, Current, Waits, Gone
<1>7. Timers'
    BY DEF IInv, FgReturn, record, clients, Timers
<1>8. Closing'
    BY <1>r DEF IInv, FgReturn, record, clients, Closing, Gone
<1>9. Foreground'
    BY <1>q DEF IInv, FgReturn, record, clients, Foreground, Waits, Gone
<1>10. Acknowledged'
    BY <1>r DEF IInv, FgReturn, record, Acknowledged, Gone, Waits, Registry, Current, Timers, Closing, Foreground, QuietTold, SuppressedWhy, Watching, Tracking, Held, OneWatch
<1>11. QuietTold'
    BY <1>q DEF IInv, FgReturn, record, clients, QuietTold, Gone
<1>12. SuppressedWhy'
    BY DEF IInv, FgReturn, record, clients, SuppressedWhy, Waits, Gone
<1>13. Watching'
    BY DEF IInv, FgReturn, clients, Watching, Gone
<1>14. Tracking'
    BY DEF IInv, FgReturn, record, clients, Tracking
<1>15. Held'
    BY <1>q DEF IInv, FgReturn, record, Held
<1>16. OneWatch'
    BY <1>q DEF IInv, FgReturn, record, clients, OneWatch, Gone
<1> QED
    BY <1>1, <1>2, <1>3, <1>4, <1>5, <1>6, <1>7, <1>8, <1>9, <1>10, <1>11, <1>12, <1>13, <1>14, <1>15, <1>16 DEF IInv

LEMMA BeginDisposeStep ==
    ASSUME IInv, BeginDispose
    PROVE  IInv'
<1>q. Queue' /\ Busy' = Busy
    BY QueueRests DEF IInv, BeginDispose, queue
<1>r. Registered' = Registered
    BY DEF BeginDispose, Registered, record
<1>1. TypeOK'
    BY DEF IInv, BeginDispose, record, queue, TypeOK
<1>2. Queue'
    BY <1>q DEF IInv, clients, Queue
<1>3. OnePlace'
    BY <1>q DEF IInv, BeginDispose, clients, OnePlace, TypeOK
<1>4. Outcomes'
    BY <1>q DEF IInv, BeginDispose, record, Outcomes
<1>5. Registry'
    BY DEF IInv, BeginDispose, record, clients, Registry
<1>6. Current'
    BY <1>q, <1>r DEF IInv, BeginDispose, record, clients, Current, Waits, Gone
<1>7. Timers'
    BY DEF IInv, BeginDispose, record, clients, Timers
<1>8. Closing'
    BY DEF IInv, BeginDispose, clients, Closing, Gone
<1>9. Foreground'
    BY <1>q DEF IInv, BeginDispose, record, clients, Foreground, Waits, Gone
<1>10. Acknowledged'
    BY <1>r DEF IInv, BeginDispose, record, clients, Acknowledged, Gone
<1>11. QuietTold'
    BY <1>q DEF IInv, BeginDispose, record, clients, QuietTold, Gone
<1>12. SuppressedWhy'
    BY DEF IInv, BeginDispose, record, clients, SuppressedWhy, Waits, Gone
<1>13. Watching'
    BY DEF IInv, BeginDispose, clients, Watching, Gone
<1>14. Tracking'
    BY DEF IInv, BeginDispose, record, clients, Tracking
<1>15. Held'
    BY DEF IInv, BeginDispose, Held
<1>16. OneWatch'
    BY <1>q DEF IInv, BeginDispose, record, clients, OneWatch, Gone, TypeOK
<1> QED
    BY <1>1, <1>2, <1>3, <1>4, <1>5, <1>6, <1>7, <1>8, <1>9, <1>10, <1>11, <1>12, <1>13, <1>14, <1>15, <1>16 DEF IInv

LEMMA DisposeStartStep ==
    ASSUME IInv, DisposeStart
    PROVE  IInv'
<1>q. Queue' /\ Busy' = Busy
    BY QueueRests DEF IInv, DisposeStart, queue
<1>r. Registered' = Registered
    BY DEF DisposeStart, Registered, record
<1>l. \A j \in Jobs : st[j] = "running" => j \in Registered
    BY DEF IInv, Current
<1>c. \A j \in Jobs : /\ st'[j] # "running"
                      /\ st[j] # "running" => st'[j] = st[j]
                      /\ st[j] = "running" => st'[j] = "cancelling"
    BY <1>l DEF DisposeStart, Live, IInv, TypeOK
<1>t. \A i \in timers' : \E j \in Registered : st[j] = "running" /\ id[j] = i
    BY DEF DisposeStart, Live
<1>1. TypeOK'
    BY DEF IInv, DisposeStart, queue, TypeOK, Waits, Ended, Gone, Registered
<1>2. Queue'
    BY <1>q DEF IInv, clients, Queue
<1>3. OnePlace'
    BY <1>q DEF IInv, DisposeStart, clients, OnePlace
<1>4. Outcomes'
    BY <1>q, <1>c DEF IInv, DisposeStart, Outcomes, Ended
<1>5. Registry'
    BY <1>c DEF IInv, DisposeStart, Registry
<1>6. Current'
    BY <1>q, <1>r DEF IInv, DisposeStart, clients, Current, Waits, Gone
<1>7. Timers'
    BY <1>c, <1>t, JobsAssumption DEF IInv, DisposeStart, Registered, Timers, TypeOK
<1>8. Closing'
    BY <1>r, <1>c DEF IInv, DisposeStart, Closing, Gone
<1>9. Foreground'
    BY <1>q DEF IInv, DisposeStart, clients, Foreground, Waits, Gone
<1>10. Acknowledged'
    BY <1>r DEF IInv, DisposeStart, clients, Acknowledged, Gone
<1>11. QuietTold'
    BY <1>q DEF IInv, DisposeStart, clients, QuietTold, Gone
<1>12. SuppressedWhy'
    BY <1>c DEF IInv, SuppressedWhy
<1>13. Watching'
    BY DEF IInv, DisposeStart, clients, Watching, Gone
<1>14. Tracking'
    BY DEF IInv, DisposeStart, clients, Tracking
<1>15. Held'
    BY DEF IInv, DisposeStart, Held
<1>16. OneWatch'
    BY <1>q DEF IInv, DisposeStart, clients, OneWatch, Gone
<1> QED
    BY <1>1, <1>2, <1>3, <1>4, <1>5, <1>6, <1>7, <1>8, <1>9, <1>10, <1>11, <1>12, <1>13, <1>14, <1>15, <1>16 DEF IInv

LEMMA CancelAllStep ==
    ASSUME IInv, NEW o \in Owners, CancelAll(o)
    PROVE  IInv'
<1>q. Queue' /\ Busy' = Busy
    BY QueueRests DEF IInv, CancelAll, queue
<1>r. Registered' = Registered
    BY DEF CancelAll, Registered, record
<1>c. /\ \A j \in Jobs : \/ j \in OwnedBy(o) /\ st[j] = "running" /\ st'[j] = "cancelling"
                         \/ (j \in OwnedBy(o) => st[j] # "running") /\ st'[j] = st[j]
      /\ st' \in [Jobs -> {"none", "running", "cancelling", "cancelled", "completed", "failed"}]
      /\ timers' \subseteq Ids /\ Timers'
    <2>1. OwnedBy(o) \in SUBSET Registered /\ CancelMarks(OwnedBy(o)) /\ UNCHANGED <<id, jobs>>
        BY DEF CancelAll, OwnedBy
    <2> QED
        BY <2>1, CancelFacts
<1>k. \A j \in Jobs : /\ st'[j] = "running" => st[j] = "running"
                      /\ st'[j] \in {"running", "cancelling"} => st[j] \in {"running", "cancelling"}
                      /\ st[j] \in {"running", "cancelling"} => st'[j] \in {"running", "cancelling"}
                      /\ st'[j] = "none" <=> st[j] = "none"
                      /\ st'[j] \in Ended <=> st[j] \in Ended
    BY <1>c DEF Ended
<1>1. TypeOK'
    BY <1>c DEF IInv, CancelAll, TypeOK, queue, clients, record
<1>2. Queue'
    BY <1>q DEF IInv, Queue
<1>3. OnePlace'
    BY <1>q DEF IInv, CancelAll, OnePlace
<1>4. Outcomes'
    BY <1>q, <1>k DEF IInv, CancelAll, Outcomes
<1>5. Registry'
    BY <1>k DEF IInv, CancelAll, Registry
<1>6. Current'
    BY <1>q, <1>r, <1>k DEF IInv, CancelAll, clients, Current, Waits, Gone
<1>7. Timers'
    BY <1>c
<1>8. Closing'
    BY <1>r, <1>k DEF IInv, CancelAll, clients, Closing, Gone
<1>9. Foreground'
    BY <1>q, <1>k DEF IInv, CancelAll, clients, Foreground, Waits, Gone
<1>10. Acknowledged'
    BY <1>r DEF IInv, CancelAll, clients, Acknowledged, Gone
<1>11. QuietTold'
    BY <1>q DEF IInv, CancelAll, clients, QuietTold, Gone
<1>12. SuppressedWhy'
    BY <1>k DEF IInv, CancelAll, clients, SuppressedWhy, Waits, Gone
<1>13. Watching'
    BY DEF IInv, CancelAll, clients, Watching, Gone
<1>14. Tracking'
    BY DEF IInv, CancelAll, clients, Tracking
<1>15. Held'
    BY <1>q, <1>k DEF IInv, CancelAll, clients, Held
<1>16. OneWatch'
    BY <1>q DEF IInv, CancelAll, clients, OneWatch, Gone
<1> QED
    BY <1>1, <1>2, <1>3, <1>4, <1>5, <1>6, <1>7, <1>8, <1>9, <1>10, <1>11, <1>12, <1>13, <1>14, <1>15, <1>16 DEF IInv

LEMMA FgAbortStep ==
    ASSUME IInv, NEW j \in Jobs, FgAbort(j)
    PROVE  IInv'
<1>q. Queue' /\ Busy' = Busy
    BY QueueRests DEF IInv, FgAbort, queue
<1>r. Registered' = Registered
    BY DEF FgAbort, Registered, record
<1>a. fg[j] = "waiting" /\ id[j] # 0 /\ id[j] \in Ids
    BY DEF FgAbort, IInv, Foreground, Waits, TypeOK
<1>b. {jobs[id[j]]} \ {NoJob} \in SUBSET Registered
    BY <1>a, JobsAssumption DEF IInv, Registry, Registered, TypeOK
<1>w. st[j] = "running" => {jobs[id[j]]} \ {NoJob} = {j}
    BY <1>a, JobsAssumption DEF IInv, Current, Registered
<1> DEFINE who == {jobs[id[j]]} \ {NoJob}
<1>c. /\ \A k \in Jobs : \/ k \in who /\ st[k] = "running" /\ st'[k] = "cancelling"
                         \/ (k \in who => st[k] # "running") /\ st'[k] = st[k]
      /\ st' \in [Jobs -> {"none", "running", "cancelling", "cancelled", "completed", "failed"}]
      /\ timers' \subseteq Ids /\ Timers'
    <2>1. CancelMarks(who) /\ UNCHANGED <<id, jobs>>
        BY DEF FgAbort
    <2> HIDE DEF who
    <2> QED
        BY <1>b, <2>1, CancelFacts DEF who
<1> HIDE DEF who
<1>k. /\ \A k \in Jobs : /\ st'[k] = "running" => st[k] = "running"
                         /\ st'[k] \in {"running", "cancelling"} => st[k] \in {"running", "cancelling"}
                         /\ st[k] \in {"running", "cancelling"} => st'[k] \in {"running", "cancelling"}
                         /\ st'[k] = "none" <=> st[k] = "none"
                         /\ st'[k] \in Ended <=> st[k] \in Ended
      /\ st'[j] # "running"
    BY <1>c, <1>w DEF Ended, who
<1>1. TypeOK'
    BY <1>c DEF IInv, FgAbort, TypeOK, queue, record
<1>2. Queue'
    BY <1>q DEF IInv, clients, Queue
<1>3. OnePlace'
    BY <1>q DEF IInv, FgAbort, clients, OnePlace
<1>4. Outcomes'
    BY <1>q, <1>k DEF IInv, FgAbort, Outcomes
<1>5. Registry'
    BY <1>k DEF IInv, FgAbort, clients, Registry
<1>6. Current'
    BY <1>q, <1>r, <1>k DEF IInv, FgAbort, clients, Current, Waits, Gone
<1>7. Timers'
    BY <1>c
<1>8. Closing'
    BY <1>r, <1>k DEF IInv, FgAbort, clients, Closing, Gone
<1>9. Foreground'
    BY <1>q, <1>k DEF IInv, FgAbort, clients, Foreground, Waits, Gone
<1>10. Acknowledged'
    BY <1>r DEF IInv, FgAbort, clients, Acknowledged, Gone
<1>11. QuietTold'
    BY <1>q DEF IInv, FgAbort, clients, QuietTold, Gone
<1>12. SuppressedWhy'
    BY <1>k DEF IInv, FgAbort, clients, SuppressedWhy, Waits, Gone
<1>13. Watching'
    BY DEF IInv, FgAbort, clients, Watching, Gone
<1>14. Tracking'
    BY DEF IInv, FgAbort, clients, Tracking
<1>15. Held'
    BY <1>q, <1>k DEF IInv, FgAbort, Held
<1>16. OneWatch'
    BY <1>q DEF IInv, FgAbort, clients, OneWatch, Gone
<1> QED
    BY <1>1, <1>2, <1>3, <1>4, <1>5, <1>6, <1>7, <1>8, <1>9, <1>10, <1>11, <1>12, <1>13, <1>14, <1>15, <1>16 DEF IInv

LEMMA JobSnapshotStep ==
    ASSUME IInv, NEW tracked \in SUBSET Jobs, JobSnapshot(tracked)
    PROVE  IInv'
<1> DEFINE wat == watched
<1>a. /\ \A j \in tracked : id[j] # 0 /\ fg[j] # "timedout"
      /\ tracked \subseteq Registered /\ BuildResult(tracked, st, wat) /\ wat \subseteq watched
    BY DEF JobSnapshot, OwnedBy, Registered, NoneTimedOut
<1> DEFINE done == {j \in tracked : st[j] # "running"}
<1>b. /\ suppressed' = suppressed \cup {id[j] : j \in done}
      /\ watched' = wat
      /\ told' = told \cup {j \in done : st[j] \in Ended}
      /\ Flow({}, {}, suppressed', wat)
    BY <1>a, BuildFacts
<1> HIDE DEF wat
<1>q. Queue' /\ Busy' \subseteq Busy
    BY <1>b DEF Flow
<1>d. disp.at = "no" => \A j \in Busy : j \in Busy' \/ j \in told'
    <2> SUFFICES ASSUME disp.at = "no", NEW j \in Busy, j \notin Busy'
                 PROVE  j \in told'
        OBVIOUS
    <2>1. ~Gone /\ j \in Jobs /\ Quiet(j, suppressed', wat) /\ wat \subseteq watched
        BY <1>a, <1>b, BusyIsJobs DEF Flow, Gone, IInv
    <2>2. id[j] \in suppressed' /\ (id[j] \in suppressed => j \in told)
        BY <2>1 DEF IInv, QuietTold, Quiet
    <2>3. st[j] \in Ended /\ j \in Registered
        BY <2>1 DEF IInv, Outcomes, Current
    <2>4. ASSUME NEW l \in done, id[j] = id[l]
          PROVE  j \in done
        BY <1>a, <2>1, <2>3, <2>4, SoleHolder
    <2> QED
        BY <1>b, <2>2, <2>3, <2>4 DEF Ended
<1>t. \A j \in done : /\ j \in Jobs /\ st[j] # "running" /\ id[j] \in Ids /\ fg[j] # "timedout"
                      /\ ~Gone => j \in Registered
    BY <1>a DEF IInv, TypeOK
<1>s. ~Gone => \A j \in Registered : id[j] \in suppressed' => id[j] \in suppressed \/ j \in done
    BY <1>a, <1>b, SoleHolder DEF done
<1> HIDE DEF done
<1>u. UNCHANGED <<st, id, jobs, timers, staged, shown, poll, fg, disp, watched>>
    BY <1>b DEF JobSnapshot, record, wat
<1>r. Registered' = Registered
    BY <1>u DEF Registered
<1>1. TypeOK'
    <2>1. suppressed' \subseteq Ids /\ watched' \subseteq Ids /\ told' \subseteq Jobs
        BY <1>b, <1>t, <1>u DEF IInv, TypeOK
    <2>2. /\ polls' \in 0..MaxPolls /\ failures' = failures
          /\ queued' = queued /\ drain' = drain
        BY SMTT(30), BoundsAssumption DEF IInv, TypeOK, JobSnapshot, BuildResult, record
    <2> QED
        BY <1>q, <1>u, <2>1, <2>2 DEF IInv, TypeOK, Queue, LoopState
<1>2. Queue'
    BY <1>q DEF IInv, Queue
<1>3. OnePlace'
    BY <1>q, <1>u DEF IInv, OnePlace
<1>4. Outcomes'
    BY <1>q, <1>u DEF IInv, Outcomes
<1>5. Registry'
    BY <1>u DEF IInv, Registry
<1>6. Current'
    BY <1>q, <1>r, <1>u DEF IInv, Current, Waits, Gone
<1>7. Timers'
    BY <1>u DEF IInv, Timers
<1>8. Closing'
    BY <1>r, <1>u DEF IInv, Closing, Gone
<1>9. Foreground'
    BY <1>q, <1>b, <1>t, <1>u DEF IInv, Foreground, Waits, Gone, Ended
<1>10. Acknowledged'
    BY <1>r, <1>b, <1>t, <1>u DEF IInv, Acknowledged, Gone, Ended, Registry, Closing, Foreground, QuietTold, SuppressedWhy, Watching, OneWatch
<1>11. QuietTold'
    BY <1>q, <1>b, <1>s, <1>u DEF IInv, QuietTold, Gone, Outcomes, Current
<1>12. SuppressedWhy'
    BY <1>b, <1>t, <1>s, <1>u DEF IInv, SuppressedWhy, Waits, Gone, Current
<1>13. Watching'
    BY <1>u DEF IInv, Watching, Gone
<1>14. Tracking'
    BY <1>u DEF IInv, Tracking
<1>15. Held'
    BY <1>b, <1>d, <1>u DEF IInv, Held
<1>16. OneWatch'
    BY <1>q, <1>u DEF IInv, OneWatch, Gone
<1> QED
    BY <1>1, <1>2, <1>3, <1>4, <1>5, <1>6, <1>7, <1>8, <1>9, <1>10, <1>11, <1>12, <1>13, <1>14, <1>15, <1>16 DEF IInv

LEMMA PollReturnStep ==
    ASSUME IInv, NEW p \in Polls, PollReturn(p)
    PROVE  IInv'
<1> DEFINE wat == watched \ poll[p].watching
           tracked == poll[p].tracked
<1>a. /\ tracked \in SUBSET Jobs /\ \A j \in tracked : id[j] # 0 /\ fg[j] # "timedout"
      /\ ~Gone => tracked \subseteq Registered
      /\ BuildResult(tracked, st, wat) /\ wat \subseteq watched
    BY DEF PollReturn, NoneTimedOut, IInv, Tracking, Current, TypeOK
<1> DEFINE done == {j \in tracked : st[j] # "running"}
<1>b. /\ suppressed' = suppressed \cup {id[j] : j \in done}
      /\ watched' = wat
      /\ told' = told \cup {j \in done : st[j] \in Ended}
      /\ Flow({}, {}, suppressed', wat)
    BY <1>a, BuildFacts
<1> HIDE DEF wat
<1>q. Queue' /\ Busy' \subseteq Busy
    BY <1>b DEF Flow
<1>d. disp.at = "no" => \A j \in Busy : j \in Busy' \/ j \in told'
    <2> SUFFICES ASSUME disp.at = "no", NEW j \in Busy, j \notin Busy'
                 PROVE  j \in told'
        OBVIOUS
    <2>1. ~Gone /\ j \in Jobs /\ Quiet(j, suppressed', wat) /\ wat \subseteq watched
        BY <1>a, <1>b, BusyIsJobs DEF Flow, Gone, IInv
    <2>2. id[j] \in suppressed' /\ (id[j] \in suppressed => j \in told)
        BY <2>1 DEF IInv, QuietTold, Quiet
    <2>3. st[j] \in Ended /\ j \in Registered
        BY <2>1 DEF IInv, Outcomes, Current
    <2>4. ASSUME NEW l \in done, id[j] = id[l]
          PROVE  j \in done
        BY <1>a, <2>1, <2>3, <2>4, SoleHolder
    <2> QED
        BY <1>b, <2>2, <2>3, <2>4 DEF Ended
<1>t. \A j \in done : /\ j \in Jobs /\ st[j] # "running" /\ id[j] \in Ids /\ fg[j] # "timedout"
                      /\ ~Gone => j \in Registered
    BY <1>a DEF IInv, TypeOK
<1>s. ~Gone => \A j \in Registered : id[j] \in suppressed' => id[j] \in suppressed \/ j \in done
    BY <1>a, <1>b, SoleHolder DEF done
<1> HIDE DEF done
<1>u. /\ UNCHANGED <<st, id, jobs, timers, staged, shown, fg, disp>>
      /\ poll' = [poll EXCEPT ![p] = [at |-> "idle", tracked |-> {}, watching |-> {}]]
    BY DEF PollReturn, record
<1>v. \A x \in Polls : /\ poll'[x].tracked \subseteq poll[x].tracked
                       /\ poll'[x].watching \subseteq poll[x].watching
                       /\ x # p => poll'[x] = poll[x]
                       /\ x = p => poll'[x].tracked = {} /\ poll'[x].watching = {}
    BY <1>u DEF IInv, TypeOK
<1>r. Registered' = Registered
    BY <1>u DEF Registered
<1>1. TypeOK'
    <2>1. poll' \in [Polls -> [at : {"idle", "waiting"}, tracked : SUBSET Jobs, watching : SUBSET Ids]]
        BY <1>u DEF IInv, TypeOK
    <2>2. suppressed' \subseteq Ids /\ watched' \subseteq Ids /\ told' \subseteq Jobs
        BY <1>a, <1>b, <1>t DEF IInv, TypeOK
    <2>3. UNCHANGED <<queued, failures, polls, drain>>
        BY DEF PollReturn, BuildResult, record
    <2> QED
        BY <1>q, <1>u, <2>1, <2>2, <2>3 DEF IInv, TypeOK, Queue, LoopState
<1>2. Queue'
    BY <1>q DEF IInv, Queue
<1>3. OnePlace'
    BY <1>q, <1>u DEF IInv, OnePlace
<1>4. Outcomes'
    BY <1>q, <1>u DEF IInv, Outcomes
<1>5. Registry'
    BY <1>u DEF IInv, Registry
<1>6. Current'
    BY <1>q, <1>r, <1>u DEF IInv, Current, Waits, Gone
<1>7. Timers'
    BY <1>u DEF IInv, Timers
<1>8. Closing'
    BY <1>r, <1>u DEF IInv, Closing, Gone
<1>9. Foreground'
    BY <1>q, <1>b, <1>t, <1>u DEF IInv, Foreground, Waits, Gone, Ended
<1>10. Acknowledged'
    BY <1>r, <1>b, <1>t, <1>u DEF IInv, Acknowledged, Gone, Ended, Registry, Timers, Closing, Foreground, QuietTold, SuppressedWhy, Watching
<1>11. QuietTold'
    <2> SUFFICES ASSUME NEW j \in Jobs, ~Gone, j \in Busy \/ staged[j] # 0
                 PROVE  id[j] \notin wat /\ (id[j] \in suppressed' => j \in told')
        BY <1>q, <1>b, <1>u DEF QuietTold, Gone
    <2>1. j \in Registered /\ st[j] \in Ended
        BY DEF IInv, Current, Outcomes
    <2>2. id[j] \notin watched /\ (id[j] \in suppressed => j \in told)
        BY DEF IInv, QuietTold
    <2>3. id[j] \in suppressed' => id[j] \in suppressed \/ j \in done
        BY <1>s, <2>1
    <2> QED
        BY <1>a, <1>b, <2>1, <2>2, <2>3
<1>12. SuppressedWhy'
    BY <1>b, <1>t, <1>s, <1>u DEF IInv, SuppressedWhy, Waits, Gone, Current
<1>13. Watching'
    BY <1>b, <1>u, <1>v DEF IInv, Watching, Gone, wat
<1>14. Tracking'
    BY <1>u DEF IInv, Tracking
<1>15. Held'
    <2>1. \A j \in Jobs : st[j] \in Ended /\ j \in tracked => j \in told'
        BY <1>b DEF done, Ended
    <2> QED
        BY <1>b, <1>d, <1>u, <1>v, <2>1 DEF IInv, Held
<1>16. OneWatch'
    BY <1>v DEF IInv, OneWatch
<1> QED
    BY <1>1, <1>2, <1>3, <1>4, <1>5, <1>6, <1>7, <1>8, <1>9, <1>10, <1>11, <1>12, <1>13, <1>14, <1>15, <1>16 DEF IInv

LEMMA JobCancelStep ==
    ASSUME IInv, NEW j \in Jobs, JobCancel(j)
    PROVE  IInv'
<1>a. j \in Registered /\ st[j] = "running" /\ ~Gone /\ id[j] \in Ids
    <2>1. j \in Registered /\ st[j] = "running"
        BY DEF JobCancel, Live
    <2> QED
        BY <2>1 DEF IInv, Closing, Gone, Registered, TypeOK
<1>c. /\ \A k \in Jobs : \/ k = j /\ st[k] = "running" /\ st'[k] = "cancelling"
                         \/ (k = j => st[k] # "running") /\ st'[k] = st[k]
      /\ st' \in [Jobs -> {"none", "running", "cancelling", "cancelled", "completed", "failed"}]
      /\ timers' \subseteq Ids /\ Timers'
    <2>1. {j} \in SUBSET Registered /\ CancelMarks({j}) /\ UNCHANGED <<id, jobs>>
        BY <1>a DEF JobCancel
    <2> QED
        BY <2>1, CancelFacts
<1>k. \A k \in Jobs : /\ st'[k] = "running" => st[k] = "running" /\ k # j
                      /\ st'[k] \in {"running", "cancelling"} => st[k] \in {"running", "cancelling"}
                      /\ st[k] \in {"running", "cancelling"} => st'[k] \in {"running", "cancelling"}
                      /\ st'[k] = "none" <=> st[k] = "none"
                      /\ st'[k] \in Ended <=> st[k] \in Ended
    BY <1>a, <1>c DEF Ended
<1>b. /\ suppressed' = suppressed \cup {id[j]} /\ watched' = watched /\ told' = told
      /\ Flow({}, {}, suppressed', watched)
    <2>1. /\ {j} \in SUBSET Jobs /\ \A k \in {j} : id[k] # 0
          /\ {j} \subseteq Registered /\ BuildResult({j}, st', watched)
        BY <1>a DEF JobCancel, Registered
    <2>2. LET done == {k \in {j} : st'[k] # "running"}
          IN  /\ suppressed' = suppressed \cup {id[k] : k \in done}
              /\ watched' = watched
              /\ told' = told \cup {k \in done : st'[k] \in Ended}
              /\ Flow({}, {}, suppressed', watched)
        BY <2>1, BuildFacts
    <2>3. st'[j] = "cancelling"
        BY <1>a, <1>c
    <2> QED
        BY <2>2, <2>3 DEF Ended
<1>q. Queue' /\ Busy' \subseteq Busy
    BY <1>b DEF Flow
<1>s. \A k \in Registered : id[k] \in suppressed' => id[k] \in suppressed \/ k = j
    BY <1>a, <1>b, SoleHolder
<1>d. disp.at = "no" => \A k \in Busy : k \in Busy' \/ k \in told'
    <2> SUFFICES ASSUME disp.at = "no", NEW k \in Busy, k \notin Busy'
                 PROVE  k \in told
        BY <1>b
    <2>1. k \in Jobs /\ Quiet(k, suppressed', watched)
        BY <1>b, BusyIsJobs DEF Flow, IInv
    <2>2. st[k] \in Ended /\ k \in Registered
        BY <1>a, <2>1 DEF IInv, Outcomes, Current
    <2> QED
        BY <1>a, <1>s, <2>1, <2>2 DEF IInv, QuietTold, Quiet, Ended
<1>u. UNCHANGED <<queued, id, jobs, staged, shown, poll, fg, drain, disp>>
    BY DEF JobCancel
<1>r. Registered' = Registered
    BY <1>u DEF Registered
<1>1. TypeOK'
    <2>1. suppressed' \subseteq Ids /\ watched' \subseteq Ids /\ told' \subseteq Jobs
        BY <1>a, <1>b DEF IInv, TypeOK
    <2>2. polls' \in 0..MaxPolls /\ failures' = failures
        BY SMTT(30), BoundsAssumption DEF IInv, TypeOK, JobCancel, BuildResult
    <2> QED
        BY <1>q, <1>c, <1>u, <2>1, <2>2 DEF IInv, TypeOK, Queue, LoopState
<1>2. Queue'
    BY <1>q DEF IInv, Queue
<1>3. OnePlace'
    BY <1>q, <1>u DEF IInv, OnePlace
<1>4. Outcomes'
    BY <1>q, <1>k, <1>u DEF IInv, Outcomes
<1>5. Registry'
    BY <1>k, <1>u DEF IInv, Registry
<1>6. Current'
    BY <1>q, <1>r, <1>a, <1>k, <1>u DEF IInv, Current, Waits
<1>7. Timers'
    BY <1>c
<1>8. Closing'
    BY <1>a, <1>u DEF IInv, Closing, Gone
<1>9. Foreground'
    BY <1>q, <1>a, <1>k, <1>b, <1>u DEF IInv, Foreground, Waits
<1>10. Acknowledged'
    BY <1>r, <1>a, <1>b, <1>u DEF IInv, Acknowledged
<1>11. QuietTold'
    BY <1>q, <1>a, <1>b, <1>s, <1>u DEF IInv, QuietTold, Ended, Outcomes, Current, Foreground, SuppressedWhy, Watching, Tracking
<1>12. SuppressedWhy'
    BY <1>a, <1>k, <1>b, <1>s, <1>u DEF IInv, SuppressedWhy, Waits, Current
<1>13. Watching'
    BY <1>a, <1>b, <1>u DEF IInv, Watching
<1>14. Tracking'
    BY <1>u DEF IInv, Tracking
<1>15. Held'
    BY <1>k, <1>b, <1>d, <1>u DEF IInv, Held
<1>16. OneWatch'
    BY <1>q, <1>a, <1>b, <1>u DEF IInv, OneWatch
<1> QED
    BY <1>1, <1>2, <1>3, <1>4, <1>5, <1>6, <1>7, <1>8, <1>9, <1>10, <1>11, <1>12, <1>13, <1>14, <1>15, <1>16 DEF IInv

LEMMA PollStartStep ==
    ASSUME IInv, NEW p \in Polls, NEW tracked \in SUBSET Jobs, PollStart(p, tracked)
    PROVE  IInv'
<1>q. Queue' /\ Busy' = Busy
    BY QueueRests DEF IInv, PollStart, queue
<1>r. Registered' = Registered
    BY DEF PollStart, Registered, record
<1> DEFINE running == {j \in tracked : st[j] = "running"}
<1>a. /\ watched' = watched \cup {id[j] : j \in running}
      /\ poll' = [poll EXCEPT ![p] = [at |-> "waiting", tracked |-> tracked,
                                      watching |-> {id[j] : j \in running}]]
      /\ UNCHANGED <<st, queued, id, jobs, timers, suppressed, failures, staged, shown, told, fg,
                     drain, disp>>
      /\ polls' = polls + 1 /\ polls < MaxPolls
      /\ running # {} /\ poll[p].at = "idle"
    BY DEF PollStart, Live, record, queue
<1>b. \A j \in running : /\ j \in Registered /\ id[j] \in Ids /\ st[j] = "running"
    BY DEF PollStart, OwnedBy, Registered, IInv, TypeOK
<1>c. tracked \subseteq Registered /\ \A j \in tracked : id[j] # 0
    BY DEF PollStart, OwnedBy, Registered
<1>d. ~Gone
    BY <1>a, <1>b DEF IInv, Closing, Gone
<1>e. poll[p].tracked = {} /\ poll[p].watching = {}
    BY <1>a DEF IInv, Tracking, TypeOK
<1>v. \A x \in Polls : /\ x # p => poll'[x] = poll[x]
                       /\ x = p => poll'[x].tracked = tracked /\ poll'[x].at = "waiting"
                                   /\ poll'[x].watching = {id[j] : j \in running}
    BY <1>a DEF IInv, TypeOK
<1>f. \A j \in Registered : id[j] \in {id[k] : k \in running} => st[j] = "running"
    BY <1>b, SoleHolder
<1> HIDE DEF running
<1>1. TypeOK'
    <2>1. poll' \in [Polls -> [at : {"idle", "waiting"}, tracked : SUBSET Jobs, watching : SUBSET Ids]]
        BY <1>a, <1>b DEF IInv, TypeOK
    <2>2. polls' \in 0..MaxPolls /\ watched' \subseteq Ids
        BY <1>a, <1>b, BoundsAssumption DEF IInv, TypeOK
    <2> QED
        BY <1>q, <1>a, <2>1, <2>2 DEF IInv, TypeOK, Queue, LoopState
<1>2. Queue'
    BY <1>q DEF IInv, Queue
<1>3. OnePlace'
    BY <1>q, <1>a DEF IInv, OnePlace
<1>4. Outcomes'
    BY <1>q, <1>a DEF IInv, Outcomes
<1>5. Registry'
    BY <1>a DEF IInv, Registry
<1>6. Current'
    BY <1>q, <1>r, <1>a, <1>c, <1>d DEF IInv, Current, Waits
<1>7. Timers'
    BY <1>a DEF IInv, Timers
<1>8. Closing'
    BY <1>r, <1>a DEF IInv, Closing, Gone
<1>9. Foreground'
    BY <1>q, <1>a, <1>d DEF IInv, Foreground, Waits
<1>10. Acknowledged'
    BY <1>r, <1>a, <1>d DEF IInv, Acknowledged
<1>11. QuietTold'
    <2> SUFFICES ASSUME NEW j \in Jobs, j \in Busy \/ staged[j] # 0
                 PROVE  id[j] \notin watched' /\ (id[j] \in suppressed => j \in told)
        BY <1>q, <1>a DEF QuietTold, Gone
    <2>1. j \in Registered /\ st[j] # "running"
        BY <1>d DEF IInv, Current, Outcomes, Ended
    <2> QED
        BY <1>a, <1>d, <1>f, <2>1 DEF IInv, QuietTold
<1>12. SuppressedWhy'
    BY <1>a, <1>d DEF IInv, SuppressedWhy, Waits
<1>13. Watching'
    BY <1>a, <1>d DEF IInv, Watching, TypeOK, Tracking
<1>14. Tracking'
    <2>1. \A x \in {id[j] : j \in running} : \E j \in tracked : id[j] = x
        BY DEF running
    <2> QED
        BY <1>a, <1>c, <1>v, <2>1 DEF IInv, Tracking
<1>15. Held'
    BY <1>q, <1>a DEF IInv, Held, Tracking
<1>16. OneWatch'
    <2> SUFFICES ASSUME \A x, y \in Polls : x = y,
                        NEW j \in tracked, id[j] \in {id[k] : k \in running}
                 PROVE  j \notin Busy /\ staged[j] = 0 /\ id[j] \in watched'
        BY <1>q, <1>a, <1>v DEF OneWatch, Gone
    <2>1. j \in Jobs /\ st[j] = "running"
        BY <1>c, <1>f
    <2> QED
        BY <1>a, <2>1 DEF IInv, Outcomes, Ended
<1> QED
    BY <1>1, <1>2, <1>3, <1>4, <1>5, <1>6, <1>7, <1>8, <1>9, <1>10, <1>11, <1>12, <1>13, <1>14, <1>15, <1>16 DEF IInv

LEMMA EvictStep ==
    ASSUME IInv, NEW i \in Ids, LongRetention, Evict(i)
    PROVE  IInv'
<1>q. Queue' /\ Busy' = Busy
    BY QueueRests DEF IInv, Evict, queue
<1>a. /\ i \in timers /\ timers' = timers \ {i}
      /\ jobs' = [jobs EXCEPT ![i] = NoJob]
      /\ suppressed' = suppressed \ {i} /\ watched' = watched \ {i}
      /\ UNCHANGED <<st, queued, id, failures, staged, shown, told, poll, polls, fg, drain, disp>>
    BY DEF Evict, record, queue, clients
<1>b. \A j \in Jobs : id[j] = i =>
         /\ st[j] # "cancelling" /\ j \notin Busy /\ staged[j] = 0 /\ ~Waits(j)
         /\ \A p \in Polls : j \notin poll[p].tracked
    BY DEF Evict, MayEvict, Busy, Entries, IsQueued, Waits
<1>r. Registered' = {j \in Registered : id[j] # i}
    BY <1>a, JobsAssumption DEF Registered, IInv, TypeOK
<1>c. \A j \in Registered : id[j] = i => st[j] # "running"
    BY <1>a DEF Registered, IInv, Timers
<1>e. jobs'[i] = NoJob /\ \A k \in Ids : k # i => jobs'[k] = jobs[k]
    BY <1>a DEF IInv, TypeOK
<1>g. \A j \in Jobs : id[j] = 0 => j \notin Registered
    BY DEF Registered
<1>1. TypeOK'
    BY <1>q, <1>a DEF IInv, TypeOK, LoopState, Queue
<1>2. Queue'
    BY <1>q DEF IInv, Queue
<1>3. OnePlace'
    BY <1>q, <1>a DEF IInv, OnePlace
<1>4. Outcomes'
    BY <1>q, <1>a DEF IInv, Outcomes
<1>5. Registry'
    BY <1>a DEF IInv, Registry
<1>6. Current'
    BY <1>q, <1>r, <1>a, <1>b, <1>c DEF IInv, Current, Waits, Gone
<1>7. Timers'
    BY <1>a DEF IInv, Timers
<1>8. Closing'
    BY <1>r, <1>a DEF IInv, Closing, Gone
<1>9. Foreground'
    BY <1>q, <1>a, <1>b DEF IInv, Foreground, Waits, Gone
<1>10. Acknowledged'
    BY <1>r, <1>a DEF IInv, Acknowledged, Gone
<1>11. QuietTold'
    BY <1>q, <1>a DEF IInv, QuietTold, Gone
<1>12. SuppressedWhy'
    BY <1>a DEF IInv, SuppressedWhy, Waits, Gone
<1>13. Watching'
    BY <1>a DEF IInv, Watching, Gone
<1>14. Tracking'
    BY <1>a DEF IInv, Tracking
<1>15. Held'
    BY <1>q, <1>a DEF IInv, Held
<1>16. OneWatch'
    BY <1>q, <1>a, <1>b DEF IInv, OneWatch, Gone, TypeOK
<1> QED
    BY <1>1, <1>2, <1>3, <1>4, <1>5, <1>6, <1>7, <1>8, <1>9, <1>10, <1>11, <1>12, <1>13, <1>14, <1>15, <1>16 DEF IInv

LEMMA DisposeEndStep ==
    ASSUME IInv, DisposeEnd
    PROVE  IInv'
<1>a. /\ disp.at = "waiting" /\ disp' = [disp EXCEPT !.at = "done"]
      /\ \A j \in disp.for : Settled(j)
      /\ timers' = {} /\ suppressed' = {} /\ watched' = {}
      /\ jobs' = [i \in Ids |-> NoJob] /\ deliveries' = <<>>
      /\ UNCHANGED <<st, queued, id, backoff, failures, inFlight, loop, staged, shown, told, poll,
                     polls, fg, drain>>
    BY DEF DisposeEnd, record
<1>b. Gone' /\ disp'.at = "done"
    BY <1>a DEF Gone, IInv, TypeOK
<1>q. Queue' /\ Busy' \subseteq Busy
    BY <1>a DEF IInv, Queue, Busy, Once, Entries
<1>c. \A j \in Jobs : st[j] \notin {"running", "cancelling"}
    <2> SUFFICES ASSUME NEW j \in Jobs, st[j] \in {"running", "cancelling"}
                 PROVE  FALSE
        OBVIOUS
    <2>1. j \in disp.for
        BY <1>a DEF IInv, Current, Closing
    <2> QED
        BY <1>a, <2>1 DEF Settled
<1>1. TypeOK'
    BY <1>q, <1>a DEF IInv, TypeOK, Queue
<1>2. Queue'
    BY <1>q DEF IInv, Queue
<1>3. OnePlace'
    BY <1>q, <1>a DEF IInv, OnePlace
<1>4. Outcomes'
    BY <1>q, <1>a DEF IInv, Outcomes
<1>5. Registry'
    BY <1>a DEF IInv, Registry
<1>6. Current'
    BY <1>a, <1>b, <1>c DEF IInv, Current
<1>7. Timers'
    BY <1>a DEF IInv, Timers
<1>8. Closing'
    BY <1>a DEF IInv, Closing
<1>9. Foreground'
    BY <1>q, <1>a, <1>b DEF IInv, Foreground, Waits
<1>10. Acknowledged'
    BY <1>a, <1>b DEF IInv, Acknowledged
<1>11. QuietTold'
    BY <1>a DEF IInv, QuietTold
<1>12. SuppressedWhy'
    BY <1>a DEF IInv, SuppressedWhy
<1>13. Watching'
    BY <1>a DEF IInv, Watching
<1>14. Tracking'
    BY <1>a DEF IInv, Tracking
<1>15. Held'
    BY <1>a DEF IInv, Held
<1>16. OneWatch'
    BY <1>q, <1>a, <1>b DEF IInv, OneWatch
<1> QED
    BY <1>1, <1>2, <1>3, <1>4, <1>5, <1>6, <1>7, <1>8, <1>9, <1>10, <1>11, <1>12, <1>13, <1>14, <1>15, <1>16 DEF IInv

LEMMA RegisterStep ==
    ASSUME IInv, NEW j \in Jobs, Register(j)
    PROVE  IInv'
<1> DEFINE i == ResolveJobId
<1>a. st[j] = "none" /\ id[j] = 0 /\ ~Gone /\ disp.at \in {"no", "closing"}
    BY DEF Register, IInv, Registry, Gone
<1>b. i \in Ids /\ jobs[i] = NoJob
    BY <1>a, ResolveJobIdFacts DEF IInv, TypeOK, Registry
<1>c. /\ st' = [st EXCEPT ![j] = "running"]
      /\ queued' = [queued EXCEPT ![j] = Kind[j] = "task"]
      /\ id' = [id EXCEPT ![j] = i]
      /\ jobs' = [jobs EXCEPT ![i] = j]
      /\ fg' = [fg EXCEPT ![j] = IF Kind[j] = "foreground" THEN "waiting" ELSE "none"]
      /\ suppressed' = IF Kind[j] = "foreground" THEN suppressed \cup {i} ELSE suppressed \ {i}
      /\ deliveries' = IF Kind[j] = "foreground" THEN Loud(deliveries, suppressed', watched)
                       ELSE deliveries
      /\ UNCHANGED <<timers, watched, backoff, failures, inFlight, loop, staged, shown, told,
                     poll, polls, drain, disp>>
    BY DEF Register
<1> HIDE DEF i
<1>d. \A k \in Registered : k \in Jobs /\ id[k] # i /\ k # j
    BY <1>a, <1>b, JobsAssumption DEF Registered
<1>e. \A k \in Jobs : k # j => /\ st'[k] = st[k] /\ id'[k] = id[k] /\ fg'[k] = fg[k]
    BY <1>c DEF IInv, TypeOK
<1>f. /\ st'[j] = "running" /\ id'[j] = i
      /\ fg'[j] = IF Kind[j] = "foreground" THEN "waiting" ELSE "none"
      /\ jobs'[i] = j /\ \A k \in Ids : k # i => jobs'[k] = jobs[k]
    BY <1>b, <1>c DEF IInv, TypeOK
<1>g. /\ j \notin Busy /\ staged[j] = 0 /\ shown[j] = 0 /\ j \notin told /\ ~Waits(j)
      /\ \A p \in Polls : j \notin poll[p].tracked
    BY <1>a DEF IInv, Outcomes, Ended, Acknowledged, Foreground, Tracking
<1>h. Registered' = Registered \cup {j}
    <2>1. \A k \in Jobs : k \in Registered' <=> k \in Registered \/ k = j
        <3> SUFFICES ASSUME NEW k \in Jobs, k # j
                     PROVE  k \in Registered' <=> k \in Registered
            BY <1>b, <1>f DEF Registered, Ids
        <3>1. id[k] = i => jobs'[id[k]] # k /\ k \notin Registered
            BY <1>d, <1>f
        <3>2. id[k] # i /\ id[k] # 0 => jobs'[id[k]] = jobs[id[k]]
            BY <1>f DEF IInv, TypeOK
        <3> QED
            BY <1>e, <3>1, <3>2 DEF Registered
    <2> QED
        BY <2>1 DEF Registered
<1>k. i \notin watched
    BY <1>a, <1>d DEF IInv, Watching, Tracking, Current, TypeOK
<1>l. \A k \in Registered : id[k] \in suppressed' <=> id[k] \in suppressed
    BY <1>c, <1>d
<1>q. Queue' /\ Busy' \subseteq Busy /\ \A k \in Busy : k \in Busy' \/ k \in told
    <2>1. CASE Kind[j] = "foreground"
        <3>1. Flow({}, {}, suppressed', watched)
            BY <1>c, <2>1, LoudFacts DEF IInv
        <3>2. ASSUME NEW k \in Busy, k \notin Busy'
              PROVE  k \in told
            <4>1. k \in Jobs /\ k \in Registered /\ Quiet(k, suppressed', watched)
                BY <1>a, <3>1, <3>2, BusyIsJobs DEF Flow, IInv, Current
            <4> QED
                BY <1>a, <1>l, <4>1 DEF IInv, QuietTold, Quiet
        <3> QED
            BY <3>1, <3>2 DEF Flow
    <2>2. CASE Kind[j] # "foreground"
        BY <1>c, <2>2, QueueRests DEF IInv
    <2> QED
        BY <2>1, <2>2
<1>m. \A k \in Jobs : (k \in Busy \/ staged[k] # 0 \/ Waits(k) \/ st[k] = "running"
                       \/ \E p \in Polls : k \in poll[p].tracked) => k \in Registered
    BY <1>a DEF IInv, Current
<1>1. TypeOK'
    BY <1>q, <1>b, <1>c DEF IInv, TypeOK, Queue
<1>2. Queue'
    BY <1>q DEF IInv, Queue
<1>3. OnePlace'
    BY <1>q, <1>c DEF IInv, OnePlace
<1>4. Outcomes'
    BY <1>q, <1>c, <1>g DEF IInv, Outcomes
<1>5. Registry'
    <2>1. \A k \in Jobs : id'[k] = 0 <=> st'[k] = "none"
        BY <1>b, <1>e, <1>f DEF IInv, Registry, Ids
    <2>2. ASSUME NEW k \in Ids, jobs'[k] # NoJob
          PROVE  id'[jobs'[k]] = k
        <3>1. CASE k = i
            BY <1>f, <3>1
        <3>2. CASE k # i
            <4>1. jobs'[k] = jobs[k] /\ jobs[k] \in Jobs
                BY <1>f, <2>2, <3>2 DEF IInv, TypeOK
            <4>2. id[jobs[k]] = k /\ k # 0
                BY <2>2, <4>1 DEF IInv, Registry, Ids
            <4> QED
                BY <1>a, <1>e, <4>1, <4>2
        <3> QED
            BY <3>1, <3>2
    <2> QED
        BY <2>1, <2>2 DEF Registry
<1>6. Current'
    BY <1>q, <1>a, <1>c, <1>h DEF IInv, Current, Waits
<1>7. Timers'
    <2> SUFFICES ASSUME NEW k \in timers
                 PROVE  jobs'[k] # NoJob /\ st'[jobs'[k]] # "running"
        BY <1>c DEF Timers
    <2>1. k \in Ids /\ jobs[k] \in Jobs /\ st[jobs[k]] # "running" /\ id[jobs[k]] = k
        BY DEF IInv, Timers, TypeOK, Registry
    <2>2. k # i /\ jobs[k] # j
        BY <1>a, <1>b, <2>1, JobsAssumption DEF IInv, Timers, Ids
    <2> QED
        BY <1>e, <1>f, <2>1, <2>2, JobsAssumption
<1>8. Closing'
    BY <1>a, <1>c DEF IInv, Closing, Gone
<1>9. Foreground'
    BY <1>q, <1>a, <1>c, <1>f, <1>g, <1>h, <1>m DEF IInv, Foreground, Waits, Ended, Registered
<1>10. Acknowledged'
    BY <1>a, <1>c, <1>d, <1>h DEF IInv, Acknowledged
<1>11. QuietTold'
    BY <1>q, <1>a, <1>c, <1>d, <1>m DEF IInv, QuietTold
<1>12. SuppressedWhy'
    BY <1>a, <1>c, <1>d, <1>f, <1>m DEF IInv, SuppressedWhy, Waits
<1>13. Watching'
    BY <1>a, <1>c DEF IInv, Watching
<1>14. Tracking'
    BY <1>a, <1>c DEF IInv, Tracking
<1>15. Held'
    BY <1>q, <1>a, <1>c DEF IInv, Held, Ended
<1>16. OneWatch'
    BY <1>q, <1>a, <1>c, <1>g DEF IInv, OneWatch
<1> QED
    BY <1>1, <1>2, <1>3, <1>4, <1>5, <1>6, <1>7, <1>8, <1>9, <1>10, <1>11, <1>12, <1>13, <1>14, <1>15, <1>16 DEF IInv

\* A cancelled run unwinds.
LEMMA SettleCancelledStep ==
    ASSUME IInv, NEW j \in Jobs, NEW o \in Ended, Settle(j, o), st[j] = "cancelling"
    PROVE  IInv'
<1>q. Queue' /\ Busy' = Busy
    BY QueueRests DEF IInv, Settle, Live
<1>c. /\ st' = [st EXCEPT ![j] = "cancelled"] /\ st'[j] = "cancelled" /\ fg[j] # "waiting"
      /\ \A k \in Jobs : k # j => st'[k] = st[k]
    BY DEF Settle, Live, IInv, TypeOK
<1>u. UNCHANGED <<queued, id, jobs, suppressed, watched, failures, staged, shown, told, poll, polls,
                  fg, drain, disp>> /\ timers' = timers \cup {id[j]}
    BY DEF Settle, clients
<1>r. Registered' = Registered
    BY <1>u DEF Registered
<1>a. j \in Registered /\ id[j] \in Ids /\ jobs[id[j]] = j /\ j # NoJob /\ ~Gone
    <2>1. j \in Registered
        BY DEF IInv, Current
    <2> QED
        BY <2>1, JobsAssumption DEF IInv, TypeOK, Registered, Closing, Gone
<1>t. Timers'
    BY <1>u, <1>a, <1>c DEF IInv, Timers, TypeOK, Ended
<1>1. TypeOK'
    BY <1>q, <1>u, <1>c, <1>a DEF IInv, TypeOK, LoopState, Queue
<1>2. Queue'
    BY <1>q DEF IInv, Queue
<1>3. OnePlace'
    BY <1>q, <1>u DEF IInv, OnePlace
<1>4. Outcomes'
    BY <1>q, <1>u, <1>c DEF IInv, Outcomes, Ended
<1>5. Registry'
    BY <1>u, <1>c DEF IInv, Registry
<1>6. Current'
    BY <1>q, <1>r, <1>u, <1>c, <1>a DEF IInv, Current, Waits
<1>7. Timers'
    BY <1>t
<1>8. Closing'
    BY <1>r, <1>u, <1>c DEF IInv, Closing, Gone
<1>9. Foreground'
    BY <1>q, <1>u, <1>c, <1>a DEF IInv, Foreground, Waits
<1>10. Acknowledged'
    BY <1>r, <1>u, <1>a DEF IInv, Acknowledged
<1>11. QuietTold'
    BY <1>q, <1>u, <1>a DEF IInv, QuietTold
<1>12. SuppressedWhy'
    BY <1>u, <1>c, <1>a DEF IInv, SuppressedWhy, Waits
<1>13. Watching'
    BY <1>u, <1>a DEF IInv, Watching
<1>14. Tracking'
    BY <1>u DEF IInv, Tracking
<1>15. Held'
    BY <1>q, <1>u, <1>c DEF IInv, Held, Ended
<1>16. OneWatch'
    BY <1>q, <1>u, <1>a DEF IInv, OneWatch
<1> QED
    BY <1>1, <1>2, <1>3, <1>4, <1>5, <1>6, <1>7, <1>8, <1>9, <1>10, <1>11, <1>12, <1>13, <1>14, <1>15, <1>16 DEF IInv

\* A run ends by itself.
LEMMA SettleEndsStep ==
    ASSUME IInv, NEW j \in Jobs, NEW o \in Ended, Settle(j, o), st[j] = "running"
    PROVE  IInv'
<1>n. j \notin Busy /\ staged[j] = 0 /\ shown[j] = 0 /\ fg[j] # "waiting"
    BY DEF IInv, Outcomes, Ended, Settle
<1>q. Flow(IF Quiet(j, suppressed, watched) THEN {} ELSE {j}, {}, suppressed, watched)
    BY <1>n, EnqueueFacts DEF Settle, IInv
<1>c. /\ st' = [st EXCEPT ![j] = o] /\ st'[j] = o
      /\ \A k \in Jobs : k # j => st'[k] = st[k]
    BY DEF Settle, Live, IInv, TypeOK
<1>u. UNCHANGED <<queued, id, jobs, suppressed, watched, failures, staged, shown, told, poll, polls,
                  fg, drain, disp>> /\ timers' = timers \cup {id[j]}
    BY DEF Settle, clients
<1>r. Registered' = Registered
    BY <1>u DEF Registered
<1>a. j \in Registered /\ id[j] \in Ids /\ jobs[id[j]] = j /\ j # NoJob /\ ~Gone
    <2>1. j \in Registered
        BY DEF IInv, Current
    <2> QED
        BY <2>1, JobsAssumption DEF IInv, TypeOK, Registered, Closing, Gone
<1>t. Timers'
    BY <1>u, <1>a, <1>c DEF IInv, Timers, TypeOK, Ended
<1>b. /\ Queue' /\ Busy' \subseteq Busy \cup {j}
      /\ Quiet(j, suppressed, watched) => j \notin Busy'
      /\ ~Quiet(j, suppressed, watched) => j \in Busy'
    BY <1>q, <1>n DEF Flow
<1>d. \A k \in Busy : k \in Busy' \/ k \in told
    BY <1>q, <1>a, DroppedIsTold DEF Flow
<1>e. Quiet(j, suppressed, watched) => \/ j \in told \/ fg[j] \in {"timedout", "ended"}
                                       \/ \E p \in Polls : j \in poll[p].tracked
    <2>1. CASE id[j] \in suppressed
        BY <1>n, <1>a, <2>1 DEF IInv, SuppressedWhy, Waits
    <2>2. CASE id[j] \in watched
        <3>1. PICK p \in Polls : id[j] \in poll[p].watching
            BY <1>a, <2>2 DEF IInv, Watching
        <3>2. PICK k \in poll[p].tracked : id[k] = id[j]
            BY <3>1 DEF IInv, Tracking
        <3>3. k \in Registered
            BY <1>a, <3>2 DEF IInv, Current, TypeOK
        <3> QED
            BY <1>a, <3>2, <3>3, SoleHolder
    <2> QED
        BY <2>1, <2>2 DEF Quiet
<1>f. Waits(j) => Quiet(j, suppressed, watched)
    BY <1>a DEF IInv, Foreground, Quiet
<1>1. TypeOK'
    BY <1>b, <1>u, <1>c, <1>a DEF IInv, TypeOK, LoopState, Queue, Ended
<1>2. Queue'
    BY <1>b DEF IInv, Queue
<1>3. OnePlace'
    BY <1>b, <1>u, <1>n DEF IInv, OnePlace
<1>4. Outcomes'
    BY <1>b, <1>u, <1>c DEF IInv, Outcomes
<1>5. Registry'
    BY <1>u, <1>c DEF IInv, Registry, Ended
<1>6. Current'
    BY <1>b, <1>r, <1>u, <1>c, <1>a DEF IInv, Current, Waits
<1>7. Timers'
    BY <1>t
<1>8. Closing'
    BY <1>u DEF IInv, Closing, Gone
<1>9. Foreground'
    BY <1>b, <1>f, <1>r, <1>u, <1>c, <1>a, <1>n DEF IInv, Foreground, Waits, Gone
<1>10. Acknowledged'
    BY <1>r, <1>u, <1>a DEF IInv, Acknowledged
<1>11. QuietTold'
    BY <1>b, <1>u, <1>a DEF IInv, QuietTold, Quiet
<1>12. SuppressedWhy'
    BY <1>u, <1>c, <1>a DEF IInv, SuppressedWhy, Waits
<1>13. Watching'
    BY <1>u, <1>a DEF IInv, Watching
<1>14. Tracking'
    BY <1>u DEF IInv, Tracking
<1>15. Held'
    BY <1>b, <1>d, <1>e, <1>u, <1>c DEF IInv, Held
<1>16. OneWatch'
    BY <1>b, <1>u, <1>a DEF IInv, OneWatch, Quiet
<1> QED
    BY <1>1, <1>2, <1>3, <1>4, <1>5, <1>6, <1>7, <1>8, <1>9, <1>10, <1>11, <1>12, <1>13, <1>14, <1>15, <1>16 DEF IInv

LEMMA FgResumeStep ==
    ASSUME IInv, NEW j \in Jobs, FgResume(j)
    PROVE  IInv'
<1>a. /\ fg[j] = "timedout" /\ fg' = [fg EXCEPT ![j] = "over"]
      /\ suppressed' = suppressed \ {id[j]}
      /\ UNCHANGED <<st, queued, id, jobs, timers, watched, failures, staged, shown, told, poll,
                     polls, drain, disp>>
    BY DEF FgResume, record
<1>b. /\ Waits(j) /\ id[j] # 0 /\ id[j] \in Ids /\ j \notin Busy /\ staged[j] = 0 /\ shown[j] = 0
      /\ j \notin told
      /\ ~Gone => id[j] \in suppressed /\ j \in Registered
    BY <1>a DEF Waits, IInv, Foreground, Current, TypeOK
<1>r. Registered' = Registered
    BY <1>a DEF Registered
<1>e. /\ fg'[j] = "over" /\ \A k \in Jobs : k # j => fg'[k] = fg[k]
    BY <1>a DEF IInv, TypeOK
<1>f. ~Gone => \A k \in Registered : id[k] = id[j] => k = j
    BY <1>b, SoleHolder
<1>q. /\ Queue' /\ Busy' \subseteq Busy \cup {j}
      /\ j \in Busy' => ~Gone /\ st[j] \in Ended /\ id[j] \notin watched
      /\ ~Gone => /\ st[j] \in Ended /\ id[j] \notin watched => j \in Busy'
                  /\ \A k \in Busy : k \in Busy' \/ k \in told
    <2> DEFINE now == jobs[id[j]]
               enqueues == /\ id[j] \in suppressed
                           /\ now # NoJob /\ st[now] \in {"completed", "failed"}
                           /\ \A d \in inFlight : id[d] # id[j]
                           /\ \A k \in 1..Len(deliveries) : id[deliveries[k]] # id[j]
    <2>1. IF enqueues THEN EnqueueDelivery(now, suppressed')
          ELSE UNCHANGED <<deliveries, backoff, inFlight, loop>>
        BY DEF FgResume
    <2>2. Gone => ~enqueues
        BY <1>b DEF IInv, Closing
    <2>3. ~Gone => now = j
        BY <1>b DEF Registered
    <2>4. ~Gone => /\ \A d \in inFlight : id[d] # id[j]
                   /\ \A k \in 1..Len(deliveries) : id[deliveries[k]] # id[j]
        <3>1. ~Gone => \A d \in Busy : id[d] # id[j]
            BY <1>b, <1>f, BusyIsJobs DEF IInv, Current
        <3> QED
            BY <3>1 DEF Busy, Entries
    <2>5. ~Gone => (enqueues <=> st[j] \in Ended)
        BY <1>b, <2>3, <2>4, JobsAssumption DEF Ended
    <2> HIDE DEF now, enqueues
    <2>6. CASE ~enqueues
        <3>1. Queue' /\ Busy' = Busy
            BY <2>1, <2>6, QueueRests DEF IInv
        <3> QED
            BY <1>b, <2>5, <2>6, <3>1
    <2>7. CASE enqueues
        <3>1. ~Gone /\ now = j /\ EnqueueDelivery(j, suppressed') /\ st[j] \in Ended
            BY <2>1, <2>2, <2>3, <2>5, <2>7
        <3>2. Flow(IF Quiet(j, suppressed', watched) THEN {} ELSE {j}, {}, suppressed', watched)
            BY <1>b, <3>1, EnqueueFacts DEF IInv
        <3>3. Quiet(j, suppressed', watched) <=> id[j] \in watched
            BY <1>a DEF Quiet
        <3>4. ASSUME NEW k \in Busy, k \notin Busy'
              PROVE  k \in told
            <4>1. Quiet(k, suppressed', watched)
                BY <3>2, <3>4 DEF Flow
            <4>2. Quiet(k, suppressed, watched)
                BY <1>a, <4>1 DEF Quiet
            <4> QED
                BY <3>1, <4>2, DroppedIsTold
        <3>5. Queue' /\ Busy' \subseteq Busy \cup {j}
            BY <3>2 DEF Flow
        <3>6. j \in Busy' <=> id[j] \notin watched
            BY <1>b, <3>2, <3>3 DEF Flow
        <3> QED
            BY <3>1, <3>4, <3>5, <3>6
    <2> QED
        BY <2>6, <2>7
<1>w. ~Gone /\ id[j] \in watched => \E p \in Polls : j \in poll[p].tracked
    <2> SUFFICES ASSUME ~Gone, id[j] \in watched
                 PROVE  \E p \in Polls : j \in poll[p].tracked
        OBVIOUS
    <2>1. PICK p \in Polls : id[j] \in poll[p].watching
        BY DEF IInv, Watching
    <2>2. PICK k \in poll[p].tracked : id[k] = id[j]
        BY <2>1 DEF IInv, Tracking
    <2>3. k \in Registered
        BY <2>2 DEF IInv, Current, TypeOK
    <2> QED
        BY <1>f, <2>2, <2>3
<1>1. TypeOK'
    BY <1>a, <1>q DEF IInv, TypeOK, LoopState, Queue
<1>2. Queue'
    BY <1>q DEF IInv, Queue
<1>3. OnePlace'
    BY <1>a, <1>b, <1>q DEF IInv, OnePlace
<1>4. Outcomes'
    BY <1>a, <1>q DEF IInv, Outcomes
<1>5. Registry'
    BY <1>a DEF IInv, Registry
<1>6. Current'
    BY <1>a, <1>r, <1>q DEF IInv, Current, Waits, Gone
<1>7. Timers'
    BY <1>a DEF IInv, Timers
<1>8. Closing'
    BY <1>a, <1>r DEF IInv, Closing, Gone
<1>9. Foreground'
    BY <1>a, <1>e, <1>f, <1>q DEF IInv, Foreground, Waits, Gone, Current
<1>10. Acknowledged'
    BY <1>a, <1>b, <1>r, <1>f DEF IInv, Acknowledged, Gone
<1>11. QuietTold'
    BY <1>a, <1>q DEF IInv, QuietTold, Gone
<1>12. SuppressedWhy'
    BY <1>a DEF IInv, SuppressedWhy, Waits, Gone
<1>13. Watching'
    BY <1>a DEF IInv, Watching, Gone
<1>14. Tracking'
    BY <1>a DEF IInv, Tracking
<1>15. Held'
    BY <1>a, <1>b, <1>e, <1>q, <1>w DEF IInv, Held, Gone
<1>16. OneWatch'
    BY <1>a, <1>q DEF IInv, OneWatch, Gone
<1> QED
    BY <1>1, <1>2, <1>3, <1>4, <1>5, <1>6, <1>7, <1>8, <1>9, <1>10, <1>11, <1>12, <1>13, <1>14, <1>15, <1>16 DEF IInv

LEMMA SettleStep ==
    ASSUME IInv, NEW j \in Jobs, NEW o \in Ended, Settle(j, o)
    PROVE  IInv'
<1>1. st[j] \in {"running", "cancelling"}
    BY DEF Settle, Live
<1> QED
    BY <1>1, SettleCancelledStep, SettleEndsStep

LEMMA RestStep ==
    ASSUME IInv, UNCHANGED vars
    PROVE  IInv'
<1>1. /\ UNCHANGED <<st, queued, id, jobs, timers, suppressed, watched, deliveries, backoff, failures>>
      /\ UNCHANGED <<inFlight, loop, staged, shown, told, poll, polls, fg, drain, disp>>
    BY DEF vars
<1>f. Flow({}, {}, suppressed, watched)
    BY <1>1, QueueRests DEF IInv, Flow
<1>t. TypeOK'
    BY <1>1 DEF IInv, TypeOK
<1> QED
    BY <1>1, <1>f, <1>t, FlowStep

\* Only the flush of the yield queue shows a result.
LEMMA ShownChanges ==
    ASSUME Next, ~FlushYieldQueue
    PROVE  UNCHANGED shown
<1> USE DEF record, clients
<1>1. ASSUME LoopWake \/ LoopEnd
      PROVE  UNCHANGED shown
    BY <1>1 DEF LoopWake, LoopEnd
<1>2. ASSUME NEW j \in Jobs, CallbackResolves(j) \/ CallbackRejects(j)
      PROVE  UNCHANGED shown
    BY <1>2 DEF CallbackResolves, CallbackRejects
<1>3. ASSUME NEW j \in Jobs, \/ Register(j) \/ MarkRunning(j) \/ JobCancel(j)
                             \/ \E o \in {"completed", "failed"} : Settle(j, o)
      PROVE  UNCHANGED shown
    BY <1>3 DEF Register, MarkRunning, JobCancel, Settle
<1>4. ASSUME NEW j \in Jobs, FgTimeout(j) \/ FgComplete(j) \/ FgReturn(j) \/ FgAbort(j) \/ FgResume(j)
      PROVE  UNCHANGED shown
    BY <1>4 DEF FgTimeout, FgComplete, FgReturn, FgAbort, FgResume
<1>5. ASSUME \/ \E j \in Jobs : DrainPick(j) \/ DrainAwait(j)
             \/ \E o \in DrainFor : DrainStart(o)
             \/ DrainNext \/ DrainReturn
      PROVE  UNCHANGED shown
    BY <1>5 DEF DrainPick, DrainAwait, DrainStart, DrainNext, DrainReturn
<1>6. ASSUME (\E i \in Ids : Evict(i)) \/ \E o \in Owners : CancelAll(o)
      PROVE  UNCHANGED shown
    BY <1>6 DEF Evict, CancelAll
<1>7. ASSUME \/ \E S \in SUBSET Jobs : JobSnapshot(S) \/ \E p \in Polls : PollStart(p, S)
             \/ \E p \in Polls : PollReturn(p)
      PROVE  UNCHANGED shown
    BY <1>7 DEF JobSnapshot, PollStart, PollReturn
<1>8. ASSUME BeginDispose \/ DisposeStart \/ DisposeEnd \/ Rest
      PROVE  UNCHANGED shown
    BY <1>8 DEF BeginDispose, DisposeStart, DisposeEnd, Rest, vars
<1> QED
    BY <1>1, <1>2, <1>3, <1>4, <1>5, <1>6, <1>7, <1>8 DEF Next

\* The manager starts empty.
LEMMA InitInv == Init => IInv
<1> SUFFICES ASSUME Init
             PROVE  IInv
    OBVIOUS
<1>1. Entries(<<>>) = {} /\ Once(<<>>) /\ <<>> \in Seq(Jobs)
    BY DEF Entries, Once
<1>2. \A j \in Jobs : id[j] = 0 /\ st[j] = "none" /\ staged[j] = 0 /\ shown[j] = 0 /\ fg[j] = "none"
    BY DEF Init
<1>3. deliveries = <<>> /\ backoff = {} /\ inFlight = {} /\ loop = [at |-> "off", job |-> NoJob]
    BY DEF Init
<1>4. Queue /\ Busy = {}
    BY <1>1, <1>3 DEF Queue, Busy, LoopState
<1>5. TypeOK
    BY <1>1, BoundsAssumption DEF Init, TypeOK
<1>6. OnePlace /\ Outcomes
    BY <1>2, <1>4 DEF OnePlace, Outcomes
<1>7. Registry
    BY <1>2 DEF Init, Registry
<1>8. \A p \in Polls : poll[p].tracked = {} /\ poll[p].watching = {}
    BY DEF Init
<1>9. Current /\ SuppressedWhy
    BY <1>2, <1>4, <1>8 DEF Current, SuppressedWhy, Waits
<1>10. Timers /\ Closing /\ Watching
    BY DEF Init, Timers, Closing, Watching, Gone
<1>11. Foreground
    BY <1>2 DEF Foreground, Waits
<1>12. Acknowledged
    BY DEF Init, Acknowledged
<1>13. QuietTold
    BY <1>2, <1>4 DEF QuietTold
<1>14. Tracking /\ OneWatch
    BY <1>8 DEF Tracking, OneWatch
<1>15. Held
    BY <1>2 DEF Held, Ended
<1> QED
    BY <1>4, <1>5, <1>6, <1>7, <1>9, <1>10, <1>11, <1>12, <1>13, <1>14, <1>15 DEF IInv

\* Every step keeps the inductive invariant.
LEMMA NextInv ==
    ASSUME LongRetention, IInv, [Next]_vars
    PROVE  IInv'
<1>1. CASE UNCHANGED vars
    BY <1>1, RestStep
<1>2. CASE LoopWake \/ LoopEnd \/ FlushYieldQueue
    BY <1>2, LoopWakeStep, LoopEndStep, FlushYieldQueueStep
<1>3. ASSUME NEW j \in Jobs,
             CallbackResolves(j) \/ CallbackRejects(j) \/ Register(j) \/ MarkRunning(j)
      PROVE  IInv'
    BY <1>3, CallbackResolvesStep, CallbackRejectsStep, RegisterStep, MarkRunningStep
<1>4. ASSUME NEW j \in Jobs, NEW o \in {"completed", "failed"}, Settle(j, o)
      PROVE  IInv'
    BY <1>4, SettleStep DEF Ended
<1>5. ASSUME NEW j \in Jobs,
             JobCancel(j) \/ FgTimeout(j) \/ FgComplete(j) \/ FgReturn(j) \/ FgAbort(j) \/ FgResume(j)
      PROVE  IInv'
    BY <1>5, JobCancelStep, FgTimeoutStep, FgCompleteStep, FgReturnStep, FgAbortStep, FgResumeStep
<1>6. ASSUME NEW j \in Jobs, DrainPick(j) \/ DrainAwait(j)
      PROVE  IInv'
    BY <1>6, DrainPickStep, DrainAwaitStep
<1>7. ASSUME NEW i \in Ids, Evict(i)
      PROVE  IInv'
    BY <1>7, EvictStep
<1>8. ASSUME NEW o \in Owners, CancelAll(o)
      PROVE  IInv'
    BY <1>8, CancelAllStep
<1>9. ASSUME NEW o \in DrainFor, DrainStart(o)
      PROVE  IInv'
    BY <1>9, DrainStartStep
<1>10. ASSUME NEW S \in SUBSET Jobs, JobSnapshot(S) \/ \E p \in Polls : PollStart(p, S)
       PROVE  IInv'
    BY <1>10, JobSnapshotStep, PollStartStep
<1>11. ASSUME NEW p \in Polls, PollReturn(p)
       PROVE  IInv'
    BY <1>11, PollReturnStep
<1>12. CASE DrainNext \/ DrainReturn
    BY <1>12, DrainNextStep, DrainReturnStep
<1>13. CASE BeginDispose \/ DisposeStart \/ DisposeEnd
    BY <1>13, BeginDisposeStep, DisposeStartStep, DisposeEndStep
<1>14. CASE Rest
    BY <1>14, RestStep DEF Rest
<1> QED
    BY <1>1, <1>2, <1>3, <1>4, <1>5, <1>6, <1>7, <1>8, <1>9, <1>10, <1>11, <1>12, <1>13, <1>14
       DEF Next

\* The inductive invariant holds throughout, as long as the retention window is
\* longer than what still needs an evicted record.
THEOREM Invariant ==
    ASSUME LongRetention
    PROVE  Spec => []IInv
<1>1. Init => IInv
    BY InitInv
<1>2. IInv /\ [Next]_vars => IInv'
    BY NextInv
<1> QED
    BY <1>1, <1>2, PTL DEF Spec

\* The types of the manager's state (job-manager.ts), for any number of records,
\* polls and rejections.
THEOREM TypeCorrect ==
    ASSUME LongRetention
    PROVE  Spec => []TypeOK
<1>1. IInv => TypeOK
    BY DEF IInv
<1> QED
    BY <1>1, Invariant, PTL

\* resumeDeliveries() promises a result "exactly once" (job-manager.ts:365-367):
\* of every record at most one follow-up is staged or shown.
THEOREM FollowUpOnceHolds ==
    ASSUME LongRetention
    PROVE  Spec => []FollowUpOnce
<1>1. IInv => FollowUpOnce
    BY DEF IInv, OnePlace, FollowUpOnce
<1> QED
    BY <1>1, Invariant, PTL

\* A cancelled run is not delivered (job-manager.ts:207-244).
THEOREM CancelledStaysQuietHolds ==
    ASSUME LongRetention
    PROVE  Spec => []CancelledStaysQuiet
<1>1. IInv => CancelledStaysQuiet
    <2> SUFFICES ASSUME IInv, NEW j \in Jobs, st[j] \in {"cancelling", "cancelled"}
                 PROVE  shown[j] = 0 /\ staged[j] = 0 /\ j \notin inFlight /\ ~IsQueued(j)
        BY DEF CancelledStaysQuiet
    <2>1. j \notin Busy /\ shown[j] = 0 /\ staged[j] = 0
        BY DEF IInv, Outcomes, Ended
    <2> QED
        BY <2>1 DEF Busy, Entries, IsQueued
<1> QED
    BY <1>1, Invariant, PTL

\* A result nobody reported is on its way, or tracked by someone who will
\* report it, whatever filtered, drained, retried, unwatched or resumed it.
THEOREM ResultHeldHolds ==
    ASSUME LongRetention
    PROVE  Spec => []ResultHeld
<1>1. IInv => ResultHeld
    <2> SUFFICES ASSUME IInv, NEW j \in Jobs, st[j] \in {"completed", "failed"}, shown[j] = 0,
                        j \notin told, disp.at = "no"
                 PROVE  \/ IsQueued(j) \/ j \in inFlight \/ staged[j] > 0
                        \/ \E p \in Polls : j \in poll[p].tracked
                        \/ fg[j] \in {"ended", "timedout"}
        BY DEF ResultHeld
    <2>1. \/ j \in Busy \/ staged[j] # 0
          \/ \E p \in Polls : j \in poll[p].tracked
          \/ fg[j] \in {"ended", "timedout"}
        BY DEF IInv, Held, Ended
    <2>2. staged[j] # 0 => staged[j] > 0
        BY DEF IInv, TypeOK
    <2>3. j \in Busy => IsQueued(j) \/ j \in inFlight
        BY DEF Busy, Entries, IsQueued
    <2> QED
        BY <2>1, <2>2, <2>3
<1> QED
    BY <1>1, Invariant, PTL

\* Watching keeps a record's delivery back (job-manager.ts:301-313) for a session
\* that has one poll under way at a time.
THEOREM WatchedNotDeliveredHolds ==
    ASSUME LongRetention, \A p, q \in Polls : p = q
    PROVE  Spec => []WatchedNotDelivered
<1>1. IInv => WatchedNotDelivered
    <2> SUFFICES ASSUME IInv, NEW p \in Polls, NEW j \in poll[p].tracked,
                        id[j] \in poll[p].watching
                 PROVE  ~IsQueued(j) /\ j \notin inFlight /\ staged[j] = 0
        BY DEF WatchedNotDelivered
    <2>1. j \notin Busy /\ staged[j] = 0
        BY DEF IInv, OneWatch
    <2> QED
        BY <2>1 DEF Busy, Entries, IsQueued
<1> QED
    BY <1>1, Invariant, PTL

\* What a tool result reported is not repeated by a follow-up, staged or in
\* flight as it may be (sdk.ts:1443-1449, yield-queue.ts), until dispose().
THEOREM AcknowledgedStaysQuietHolds ==
    ASSUME LongRetention
    PROVE  Spec => AcknowledgedStaysQuiet
<1>1. IInv /\ [Next]_vars => [disp.at # "done" => \A j \in told : shown'[j] = shown[j]]_vars
    <2> SUFFICES ASSUME IInv, Next, ~Gone, NEW j \in told
                 PROVE  shown'[j] = shown[j]
        BY DEF Gone
    <2>1. CASE FlushYieldQueue
        <3>1. j \in Jobs /\ shown[j] \in Nat
            BY DEF IInv, TypeOK
        <3>2. staged[j] # 0 => id[j] \in suppressed
            BY <3>1 DEF IInv, Acknowledged, Current
        <3> QED
            BY <2>1, <3>1, <3>2 DEF FlushYieldQueue, Quiet, IInv, TypeOK
    <2>2. CASE ~FlushYieldQueue
        BY <2>2, ShownChanges
    <2> QED
        BY <2>1, <2>2
<1> QED
    BY <1>1, Invariant, PTL DEF Spec, AcknowledgedStaysQuiet
=============================================================================
