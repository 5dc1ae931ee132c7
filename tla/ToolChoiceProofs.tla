-------------------------- MODULE ToolChoiceProofs --------------------------
(***************************************************************************)
(* Proofs about ToolChoiceQueue, for any bounds: what is in flight, what   *)
(* waits and what was served stay apart (Sound), though a directive is     *)
(* taken out of the middle of the queue, put back at its head, and its     *)
(* calls are dropped one by one. A reserved directive, Eager, has no       *)
(* identity: several of its kind may wait, and nothing is said of them.    *)
(***************************************************************************)
EXTENDS ToolChoiceQueue, WellFoundedInduction, SequenceTheorems, FiniteSetTheorems, TLAPS

\* A nonempty set of naturals has a least element.
LEMMA Least ==
    ASSUME NEW S, S \subseteq Nat, S # {}
    PROVE  \E n \in S : \A m \in S : n <= m
<1> DEFINE R == OpToRel(<, Nat)
<1>1. IsWellFoundedOn(R, Nat)
    BY NatLessThanWellFounded
<1>2. PICK n \in S : \A m \in S : ~ (<<m, n>> \in R)
    <2> HIDE DEF R
    <2> QED
        BY <1>1, WFMin, Zenon
<1>3. \A m \in S : n <= m
    <2> SUFFICES ASSUME NEW m \in S
                 PROVE  n <= m
        OBVIOUS
    <2>1. ~ (<<m, n>> \in R)
        BY <1>2
    <2>2. ~ (m < n)
        BY <2>1 DEF OpToRel
    <2> QED
        BY <2>2
<1> QED
    BY <1>3

\* kept, the recursion of Keep, is defined up to k.
Keeps(g, q, S, k) ==
    g = [n \in 0..k |-> IF n = 0 THEN <<>>
                        ELSE IF q[n] \in S THEN Append(g[n - 1], q[n]) ELSE g[n - 1]]

\* The recursion defines a function.
LEMMA KeepsExists ==
    ASSUME NEW q, NEW S
    PROVE  \A k \in Nat : \E g : Keeps(g, q, S, k)
<1> DEFINE Bad == {k \in Nat : ~ \E g : Keeps(g, q, S, k)}
<1> SUFFICES ASSUME Bad # {}
             PROVE  FALSE
    OBVIOUS
<1>1. PICK k \in Bad : \A m \in Bad : k <= m
    BY Least
<1>2. k # 0
    <2>1. Keeps([n \in 0..0 |-> <<>>], q, S, 0)
        BY DEF Keeps
    <2> QED
        BY <2>1
<1>3. PICK g : Keeps(g, q, S, k - 1)
    BY <1>1, <1>2
<1> DEFINE h == [n \in 0..k |-> IF n = k THEN IF q[k] \in S THEN Append(g[k - 1], q[k])
                                              ELSE g[k - 1]
                                ELSE g[n]]
<1>4. Keeps(h, q, S, k)
    <2>1. k \in Nat /\ k # 0 /\ k - 1 \in Nat
        BY <1>2
    <2>2. \A n \in 0..(k - 1) : n # k /\ n \in 0..k /\ (n # 0 => n - 1 \in 0..(k - 1))
        BY <2>1
    <2>3. \A n \in 0..k : n # k => n \in 0..(k - 1)
        BY <2>1
    <2>4. \A n \in 0..(k - 1) : h[n] = g[n]
        BY <2>2
    <2>5. \A n \in 0..(k - 1) :
             g[n] = IF n = 0 THEN <<>> ELSE IF q[n] \in S THEN Append(g[n - 1], q[n]) ELSE g[n - 1]
        BY <1>3 DEF Keeps
    <2>6. k \in 0..k /\ k - 1 \in 0..(k - 1)
        BY <2>1
    <2>7. h[k] = IF q[k] \in S THEN Append(h[k - 1], q[k]) ELSE h[k - 1]
        BY <2>4, <2>6
    <2>8. h = [n \in 0..k |-> h[n]]
        OBVIOUS
    <2> HIDE DEF h
    <2>9. \A n \in 0..k :
             h[n] = IF n = 0 THEN <<>> ELSE IF q[n] \in S THEN Append(h[n - 1], q[n]) ELSE h[n - 1]
        <3> SUFFICES ASSUME NEW n \in 0..k
                     PROVE  h[n] = IF n = 0 THEN <<>>
                                   ELSE IF q[n] \in S THEN Append(h[n - 1], q[n]) ELSE h[n - 1]
            OBVIOUS
        <3>1. CASE n = k
            BY <2>1, <2>7, <3>1
        <3>2. CASE n # k
            <4>1. n \in 0..(k - 1)
                BY <2>3, <3>2
            <4>2. h[n] = g[n] /\ (n # 0 => h[n - 1] = g[n - 1])
                BY <2>2, <2>4, <4>1
            <4> QED
                BY <2>5, <4>1, <4>2
        <3> QED
            BY <3>1, <3>2
    <2> QED
        BY <2>8, <2>9 DEF Keeps
<1> QED
    BY <1>4

\* h finds each entry of r among the first k of q, no two of them in one place.
From(h, r, q, k) ==
    /\ \A i \in 1..Len(r) : h[i] \in 1..k /\ r[i] = q[h[i]]
    /\ \A i, j \in 1..Len(r) : h[i] = h[j] => i = j

\* What array.filter has returned after n entries: those that are in S.
KeptUpTo(r, q, S, n) ==
    /\ r \in Seq(S) /\ \E h : From(h, r, q, n)
    /\ \A m \in 1..n : q[m] \in S => \E i \in 1..Len(r) : r[i] = q[m]

LEMMA KeepFacts ==
    ASSUME NEW T, NEW q \in Seq(T), NEW S
    PROVE  KeptUpTo(Keep(q, S), q, S, Len(q))
<1> DEFINE g == CHOOSE g : Keeps(g, q, S, Len(q))
<1>1. Len(q) \in Nat
    BY LenProperties
<1>2. Keeps(g, q, S, Len(q))
    BY <1>1, KeepsExists, Zenon
<1>3. Keep(q, S) = g[Len(q)]
    BY DEF Keep, Keeps
<1> HIDE DEF g
<1> DEFINE Bad == {n \in 0..Len(q) : ~ KeptUpTo(g[n], q, S, n)}
<1>4. Bad = {}
    <2> SUFFICES ASSUME Bad # {}
                 PROVE  FALSE
        OBVIOUS
    <2>1. PICK n \in Bad : \A m \in Bad : n <= m
        <3>1. Bad \subseteq Nat
            BY <1>1
        <3> QED
            BY <3>1, Least
    <2>2. n \in Nat /\ n <= Len(q)
        BY <1>1
    <2>3. n # 0
        <3>1. g[0] = <<>>
            BY <1>1, <1>2 DEF Keeps
        <3>2. KeptUpTo(<<>>, q, S, 0)
            BY DEF KeptUpTo, From
        <3> QED
            BY <3>1, <3>2
    <2>4. KeptUpTo(g[n - 1], q, S, n - 1)
        <3>1. n - 1 \in 0..Len(q) /\ ~ (n <= n - 1)
            BY <2>2, <2>3
        <3> QED
            BY <2>1, <3>1
    <2>5. g[n] = IF q[n] \in S THEN Append(g[n - 1], q[n]) ELSE g[n - 1]
        BY <1>2, <2>2, <2>3 DEF Keeps
    <2> HIDE DEF Bad
    <2>6. n \in 1..n /\ \A m \in 1..n : m = n \/ m \in 1..(n - 1)
        BY <1>1, <2>2, <2>3
    <2>7. \A m \in 1..(n - 1) : m \in 1..n /\ m # n
        BY <2>2, <2>3
    <2> DEFINE r == g[n - 1]
    <2>8. PICK h : From(h, r, q, n - 1)
        BY <2>4 DEF KeptUpTo
    <2>9. ASSUME q[n] \notin S
          PROVE  KeptUpTo(g[n], q, S, n)
        <3>1. From(h, r, q, n)
            BY <2>7, <2>8 DEF From
        <3> QED
            BY <2>4, <2>5, <2>6, <2>9, <3>1 DEF KeptUpTo
    <2>10. ASSUME q[n] \in S
           PROVE  KeptUpTo(g[n], q, S, n)
        <3>1. r \in Seq(S) /\ Len(r) \in Nat
            BY <2>4, LenProperties DEF KeptUpTo
        <3>2. /\ g[n] \in Seq(S) /\ Len(g[n]) = Len(r) + 1
              /\ \A i \in 1..Len(r) : g[n][i] = r[i]
              /\ g[n][Len(r) + 1] = q[n]
            BY <2>5, <2>10, <3>1, AppendProperties
        <3>3. /\ \A i \in 1..Len(g[n]) : i = Len(r) + 1 \/ i \in 1..Len(r)
              /\ Len(r) + 1 \in 1..Len(g[n])
              /\ \A i \in 1..Len(r) : i \in 1..Len(g[n]) /\ i # Len(r) + 1
            BY <3>1, <3>2
        <3> DEFINE k == [i \in 1..Len(g[n]) |-> IF i = Len(r) + 1 THEN n ELSE h[i]]
        <3>4. k[Len(r) + 1] = n /\ \A i \in 1..Len(r) : k[i] = h[i]
            BY <3>3
        <3> HIDE DEF k
        <3>5. \A i \in 1..Len(g[n]) : k[i] \in 1..n /\ g[n][i] = q[k[i]]
            <4> SUFFICES ASSUME NEW i \in 1..Len(g[n])
                         PROVE  k[i] \in 1..n /\ g[n][i] = q[k[i]]
                OBVIOUS
            <4>1. CASE i = Len(r) + 1
                BY <2>6, <3>2, <3>4, <4>1
            <4>2. CASE i \in 1..Len(r)
                BY <2>7, <2>8, <3>2, <3>4, <4>2 DEF From
            <4> QED
                BY <3>3, <4>1, <4>2
        <3>6. \A i, j \in 1..Len(g[n]) : k[i] = k[j] => i = j
            <4>1. \A i \in 1..Len(r) : k[i] # n
                BY <2>7, <2>8, <3>4 DEF From
            <4>2. \A i, j \in 1..Len(r) : k[i] = k[j] => i = j
                BY <2>8, <3>4 DEF From
            <4> QED
                BY <3>3, <3>4, <4>1, <4>2
        <3>7. \A m \in 1..n : q[m] \in S => \E i \in 1..Len(g[n]) : g[n][i] = q[m]
            <4> SUFFICES ASSUME NEW m \in 1..n, q[m] \in S
                         PROVE  \E i \in 1..Len(g[n]) : g[n][i] = q[m]
                OBVIOUS
            <4>1. CASE m = n
                BY <3>2, <3>3, <4>1
            <4>2. CASE m \in 1..(n - 1)
                <5>1. PICK i \in 1..Len(r) : r[i] = q[m]
                    BY <2>4, <4>2 DEF KeptUpTo
                <5> QED
                    BY <3>2, <3>3, <5>1
            <4> QED
                BY <2>6, <4>1, <4>2
        <3>8. From(k, g[n], q, n)
            BY <3>5, <3>6 DEF From
        <3> QED
            BY <3>2, <3>7, <3>8 DEF KeptUpTo
    <2> QED
        BY <2>1, <2>9, <2>10 DEF Bad
<1>5. Len(q) \in 0..Len(q)
    BY <1>1
<1> QED
    BY <1>3, <1>4, <1>5


-----------------------------------------------------------------------------
(* The inductive invariant. *)

\* Whether the queue q still waits to force the call c of the force f.
Waits(q, f, c) ==
    \E i \in DOMAIN q : q[i].id = f /\ \E a \in DOMAIN q[i].left : q[i].left[a] = c

\* No call of a force waits in two places.
Apart(q) ==
    \A i, j \in DOMAIN q : \A a \in DOMAIN q[i].left, b \in DOMAIN q[j].left :
        q[i].id = q[j].id /\ q[i].id # Eager /\ q[i].left[a] = q[j].left[b] => i = j /\ a = b

\* The types of a state q = [queue, inFlight, served].
Typed(q) ==
    q \in [queue : Seq(Directives), inFlight : SUBSET [dir : Directives, choice : Yields],
           served : [Forces -> Seq(Yields)]]

\* One choice at most is in flight.
Single(q) == \A y, z \in q.inFlight : y = z

\* What is in flight neither waits nor was served.
Flying(q) ==
    \A y \in q.inFlight : y.dir.id # Eager =>
        /\ ~Waits(q.queue, y.dir.id, y.choice)
        /\ \A n \in DOMAIN q.served[y.dir.id] : q.served[y.dir.id][n] # y.choice

\* What was served does not wait.
Gone(q) == \A f \in Forces : \A n \in DOMAIN q.served[f] : ~Waits(q.queue, f, q.served[f][n])

\* What was served was served once.
OnceServed(q) ==
    \A f \in Forces : \A n, k \in DOMAIN q.served[f] : q.served[f][n] = q.served[f][k] => n = k

\* A force the user has not made yet is nowhere.
Known(q, m) ==
    /\ \A i \in DOMAIN q.queue : q.queue[i].id <= m
    /\ \A y \in q.inFlight : y.dir.id <= m
    /\ \A f \in Forces : f > m => q.served[f] = <<>>

Sound(q, m) ==
    Typed(q) /\ Single(q) /\ Apart(q.queue) /\ Flying(q) /\ Gone(q) /\ OnceServed(q) /\ Known(q, m)

Rest ==
    /\ active \in BOOLEAN /\ run \in {"off", "eager", "between", "called", "over"}
    /\ previews \in Seq(Previews) /\ calls \in [Calls -> Previews \union {NoPreview}]
    /\ applied \in [Previews -> 0..2] /\ staged \subseteq Previews
    /\ count \in [forces : Nat, prompts : Nat, toggles : Nat]

IInv == Sound(Now, count.forces) /\ Rest /\ PreviewKept

-----------------------------------------------------------------------------
(* The waiting calls. *)

\* A sequence made of entries of q, none used twice, keeps what q keeps.
LEMMA FromFacts ==
    ASSUME NEW q \in Seq(Directives), NEW r \in Seq(Directives), NEW h, From(h, r, q, Len(q))
    PROVE  /\ Apart(q) => Apart(r)
           /\ \A f, c : Waits(r, f, c) => Waits(q, f, c)
           /\ \A i \in DOMAIN r : \E k \in DOMAIN q : r[i] = q[k]
<1>1. DOMAIN q = 1..Len(q) /\ DOMAIN r = 1..Len(r)
    BY LenProperties
<1>2. Apart(q) => Apart(r)
    <2> SUFFICES ASSUME Apart(q), NEW i \in DOMAIN r, NEW j \in DOMAIN r,
                        NEW a \in DOMAIN r[i].left, NEW b \in DOMAIN r[j].left,
                        r[i].id = r[j].id, r[i].id # Eager, r[i].left[a] = r[j].left[b]
                 PROVE  i = j /\ a = b
        BY DEF Apart
    <2>1. h[i] \in DOMAIN q /\ h[j] \in DOMAIN q /\ r[i] = q[h[i]] /\ r[j] = q[h[j]]
        BY <1>1 DEF From
    <2>2. h[i] = h[j] /\ a = b
        BY <2>1 DEF Apart
    <2> QED
        BY <1>1, <2>2 DEF From
<1>3. \A i \in DOMAIN r : h[i] \in DOMAIN q /\ r[i] = q[h[i]]
    BY <1>1 DEF From
<1> QED
    BY <1>2, <1>3 DEF Waits

\* Entries that are kept wait as they did.
LEMMA KeepDirectives ==
    ASSUME NEW q \in Seq(Directives), NEW S, S \subseteq Directives
    PROVE  /\ Keep(q, S) \in Seq(Directives)
           /\ \E h : From(h, Keep(q, S), q, Len(q))
<1> DEFINE r == Keep(q, S)
<1>1. KeptUpTo(r, q, S, Len(q))
    BY KeepFacts
<1> HIDE DEF r
<1>2. r \in Seq(S) /\ Len(r) \in Nat /\ r = [i \in 1..Len(r) |-> r[i]] /\ \A i \in 1..Len(r) : r[i] \in S
    BY <1>1, LenProperties, ElementOfSeq DEF KeptUpTo
<1>3. r \in Seq(Directives)
    BY <1>2
<1> QED
    BY <1>1, <1>3 DEF KeptUpTo, r

\* What follows the first m entries.
LEMMA RestFacts ==
    ASSUME NEW q \in Seq(Directives), NEW m \in 1..Len(q)
    PROVE  /\ SubSeq(q, m + 1, Len(q)) \in Seq(Directives)
           /\ \E h : From(h, SubSeq(q, m + 1, Len(q)), q, Len(q))
           /\ \A i \in DOMAIN SubSeq(q, m + 1, Len(q)) :
                  i + m \in DOMAIN q /\ i + m # m /\ SubSeq(q, m + 1, Len(q))[i] = q[i + m]
<1> DEFINE r == SubSeq(q, m + 1, Len(q))
<1>1. Len(q) \in Nat /\ m \in Nat /\ m <= Len(q) /\ DOMAIN q = 1..Len(q)
      /\ \A j \in 1..Len(q) : q[j] \in Directives
    BY LenProperties, ElementOfSeq
<1>2. /\ r \in Seq(Directives)
      /\ Len(r) = IF m + 1 <= Len(q) THEN Len(q) - (m + 1) + 1 ELSE 0
      /\ \A j \in 1..(Len(q) - (m + 1) + 1) : r[j] = q[(m + 1) + j - 1]
    <2>1. \A j \in (m + 1)..Len(q) : q[j] \in Directives
        BY <1>1
    <2> QED
        BY <1>1, <2>1, m + 1 \in Int, Len(q) \in Int, SubSeqProperties
<1> HIDE DEF r
<1>3. DOMAIN r = 1..Len(r) /\ Len(r) = Len(q) - m /\ Len(q) - (m + 1) + 1 = Len(q) - m
    <2>1. \A n, k \in Nat : k <= n => /\ n - (k + 1) + 1 = n - k
                                      /\ (IF k + 1 <= n THEN n - (k + 1) + 1 ELSE 0) = n - k
        OBVIOUS
    <2>2. DOMAIN r = 1..Len(r)
        BY <1>2, LenProperties
    <2>3. Len(r) = Len(q) - m /\ Len(q) - (m + 1) + 1 = Len(q) - m
        BY <1>1, <1>2, <2>1
    <2> QED
        BY <2>2, <2>3
<1>4. \A j \in 1..Len(r) : /\ j \in Nat /\ (m + 1) + j - 1 = j + m
                           /\ j + m \in 1..Len(q) /\ j + m # m
    BY <1>1, <1>3
<1>5. \A j \in 1..Len(r) : r[j] = q[j + m]
    BY <1>2, <1>3, <1>4
<1> DEFINE h == [j \in 1..Len(r) |-> j + m]
<1>6. \A i, j \in 1..Len(r) : i + m = j + m => i = j
    BY <1>1
<1>7. From(h, r, q, Len(q))
    BY <1>4, <1>5, <1>6 DEF From
<1> QED
    BY <1>1, <1>2, <1>3, <1>4, <1>5, <1>7 DEF r

\* A directive put at the head.
LEMMA PushFront ==
    ASSUME NEW q \in Seq(Directives), NEW d \in Directives
    PROVE  /\ <<d>> \o q \in Seq(Directives)
           /\ \A i \in DOMAIN (<<d>> \o q) : \/ i = 1 /\ (<<d>> \o q)[i] = d
                                            \/ /\ i # 1 /\ i - 1 \in DOMAIN q
                                               /\ (<<d>> \o q)[i] = q[i - 1]
<1>1. <<d>> \in Seq(Directives) /\ Len(<<d>>) = 1 /\ <<d>>[1] = d
    OBVIOUS
<1>2. /\ <<d>> \o q \in Seq(Directives) /\ Len(<<d>> \o q) = 1 + Len(q)
      /\ \A i \in 1..(1 + Len(q)) : (<<d>> \o q)[i] = IF i <= 1 THEN <<d>>[i] ELSE q[i - 1]
    BY <1>1, ConcatProperties
<1>3. Len(q) \in Nat /\ DOMAIN q = 1..Len(q) /\ DOMAIN (<<d>> \o q) = 1..(1 + Len(q))
    BY <1>2, LenProperties
<1>4. \A i \in 1..(1 + Len(q)) : i = 1 \/ (i # 1 /\ ~(i <= 1) /\ i - 1 \in 1..Len(q))
    BY <1>3
<1>5. 1 <= 1
    OBVIOUS
<1> QED
    BY <1>1, <1>2, <1>3, <1>4, <1>5

\* A directive put at the end.
LEMMA PushBack ==
    ASSUME NEW q \in Seq(Directives), NEW d \in Directives
    PROVE  /\ Append(q, d) \in Seq(Directives)
           /\ \A i \in DOMAIN Append(q, d) : \/ i = Len(q) + 1 /\ Append(q, d)[i] = d
                                             \/ i \in DOMAIN q /\ Append(q, d)[i] = q[i]
<1>1. /\ Append(q, d) \in Seq(Directives) /\ Len(Append(q, d)) = Len(q) + 1
      /\ \A i \in 1..Len(q) : Append(q, d)[i] = q[i]
      /\ Append(q, d)[Len(q) + 1] = d
    BY AppendProperties
<1>2. Len(q) \in Nat /\ DOMAIN q = 1..Len(q) /\ DOMAIN Append(q, d) = 1..(Len(q) + 1)
    BY <1>1, LenProperties
<1>3. \A i \in 1..(Len(q) + 1) : i = Len(q) + 1 \/ i \in 1..Len(q)
    BY <1>2
<1> QED
    BY <1>1, <1>2, <1>3

\* The calls of d wait nowhere else, and none of them twice.
Fresh(d, q) ==
    d.id # Eager =>
        /\ \A a \in DOMAIN d.left : ~Waits(q, d.id, d.left[a])
        /\ \A a, b \in DOMAIN d.left : d.left[a] = d.left[b] => a = b

LEMMA PushFrontApart ==
    ASSUME NEW q \in Seq(Directives), NEW d \in Directives, Apart(q), Fresh(d, q)
    PROVE  Apart(<<d>> \o q)
<1> DEFINE r == <<d>> \o q
<1>1. \A i \in DOMAIN r : (i = 1 /\ r[i] = d) \/ (i # 1 /\ i - 1 \in DOMAIN q /\ r[i] = q[i - 1])
    BY PushFront
<1> HIDE DEF r
<1> SUFFICES ASSUME NEW i \in DOMAIN r, NEW j \in DOMAIN r,
                    NEW a \in DOMAIN r[i].left, NEW b \in DOMAIN r[j].left,
                    r[i].id = r[j].id, r[i].id # Eager, r[i].left[a] = r[j].left[b]
             PROVE  i = j /\ a = b
    BY DEF Apart, r
<1>2. CASE i = 1 /\ j = 1
    BY <1>1, <1>2 DEF Fresh
<1>3. CASE i = 1 /\ j # 1
    BY <1>1, <1>3 DEF Fresh, Waits
<1>4. CASE i # 1 /\ j = 1
    BY <1>1, <1>4 DEF Fresh, Waits
<1>5. CASE i # 1 /\ j # 1
    <2>1. i - 1 = j - 1 /\ a = b
        BY <1>1, <1>5 DEF Apart
    <2>2. DOMAIN r = 1..Len(r) /\ Len(r) \in Nat
        <3>1. r \in Seq(Directives)
            BY PushFront DEF r
        <3> QED
            BY <3>1, LenProperties
    <2>3. i \in Nat /\ j \in Nat
        BY <2>2
    <2> QED
        BY <2>1, <2>3
<1> QED
    BY <1>2, <1>3, <1>4, <1>5

LEMMA PushBackApart ==
    ASSUME NEW q \in Seq(Directives), NEW d \in Directives, Apart(q), Fresh(d, q)
    PROVE  Apart(Append(q, d))
<1> DEFINE r == Append(q, d)
<1>1. \A i \in DOMAIN r : (i = Len(q) + 1 /\ r[i] = d) \/ (i \in DOMAIN q /\ r[i] = q[i])
    BY PushBack
<1> HIDE DEF r
<1> SUFFICES ASSUME NEW i \in DOMAIN r, NEW j \in DOMAIN r,
                    NEW a \in DOMAIN r[i].left, NEW b \in DOMAIN r[j].left,
                    r[i].id = r[j].id, r[i].id # Eager, r[i].left[a] = r[j].left[b]
             PROVE  i = j /\ a = b
    BY DEF Apart, r
<1>2. CASE i \in DOMAIN q /\ r[i] = q[i] /\ j \in DOMAIN q /\ r[j] = q[j]
    BY <1>2 DEF Apart
<1>3. CASE i \in DOMAIN q /\ r[i] = q[i] /\ j = Len(q) + 1 /\ r[j] = d
    BY <1>3 DEF Fresh, Waits
<1>4. CASE j \in DOMAIN q /\ r[j] = q[j] /\ i = Len(q) + 1 /\ r[i] = d
    BY <1>4 DEF Fresh, Waits
<1>5. CASE i = Len(q) + 1 /\ r[i] = d /\ j = Len(q) + 1 /\ r[j] = d
    BY <1>5 DEF Fresh
<1> QED
    BY <1>1, <1>2, <1>3, <1>4, <1>5

-----------------------------------------------------------------------------
(* The queue's operations keep it sound. *)

\* What a smaller queue has to show.
LEMMA NarrowFacts ==
    ASSUME NEW q, NEW m \in Nat, Sound(q, m), NEW s \in Seq(Directives), Apart(s),
           \A f, c : Waits(s, f, c) => Waits(q.queue, f, c),
           \A i \in DOMAIN s : s[i].id <= m
    PROVE  Sound([q EXCEPT !.queue = s], m)
<1> DEFINE r == [q EXCEPT !.queue = s]
<1>1. Typed(r) /\ r.queue = s /\ r.inFlight = q.inFlight /\ r.served = q.served
    BY DEF Sound, Typed
<1> HIDE DEF r
<1>2. Single(r)
    BY <1>1 DEF Sound, Single
<1>3. Flying(r)
    BY <1>1 DEF Sound, Flying
<1>4. Gone(r)
    BY <1>1 DEF Sound, Gone
<1>5. OnceServed(r)
    BY <1>1 DEF Sound, OnceServed
<1>6. Known(r, m)
    BY <1>1 DEF Sound, Known
<1>7. Sound(r, m)
    BY <1>1, <1>2, <1>3, <1>4, <1>5, <1>6 DEF Sound
<1> QED
    BY <1>7 DEF r

\* The head of a list of yields, and what follows it.
LEMMA YieldFacts ==
    ASSUME NEW s \in Seq(Yields), s # <<>>
    PROVE  /\ Head(s) \in Yields /\ Tail(s) \in Seq(Yields)
           /\ 1 \in DOMAIN s /\ Head(s) = s[1]
           /\ \A a \in DOMAIN Tail(s) : a + 1 \in DOMAIN s /\ a + 1 # 1 /\ Tail(s)[a] = s[a + 1]
           /\ \A a, b \in DOMAIN Tail(s) : a + 1 = b + 1 => a = b
<1>1. /\ Head(s) \in Yields /\ Tail(s) \in Seq(Yields) /\ Len(Tail(s)) = Len(s) - 1
      /\ \A a \in 1..Len(Tail(s)) : Tail(s)[a] = s[a + 1]
    BY HeadTailProperties
<1>2. /\ Len(s) \in Nat /\ Len(s) # 0 /\ DOMAIN s = 1..Len(s)
      /\ DOMAIN Tail(s) = 1..(Len(s) - 1)
    BY <1>1, LenProperties, EmptySeq
<1>3. 1 \in 1..Len(s)
    BY <1>2
<1>4. \A a \in 1..(Len(s) - 1) : a \in Nat /\ a + 1 \in 1..Len(s) /\ a + 1 # 1
    BY <1>2
<1>5. \A a, b \in 1..(Len(s) - 1) : a + 1 = b + 1 => a = b
    BY <1>2
<1>6. Head(s) = s[1]
    BY HeadTailProperties
<1> QED
    BY <1>1, <1>2, <1>3, <1>4, <1>5, <1>6

LEMMA NextToolChoiceFacts ==
    ASSUME NEW q, NEW m \in Nat, Sound(q, m)
    PROVE  Sound(NextToolChoice(q), m)
<1> DEFINE s    == q.queue
           live == {i \in DOMAIN s : s[i].left # <<>>}
           at   == CHOOSE i \in live : \A k \in live : i <= k
           head == s[at]
           left == Tail(head.left)
           d    == [head EXCEPT !.left = left]
           rest == SubSeq(s, at + 1, Len(s))
           s2   == IF left # <<>> \/ head.label = "user-force" THEN <<d>> \o rest ELSE rest
           y    == [dir |-> head, choice |-> Head(head.left)]
           r    == [q EXCEPT !.queue = s2, !.inFlight = {y}]
<1>1. s \in Seq(Directives) /\ DOMAIN s = 1..Len(s) /\ Len(s) \in Nat
    BY LenProperties DEF Sound, Typed
<1>2. CASE live = {}
    <2>1. NextToolChoice(q) = [q EXCEPT !.queue = <<>>]
        BY <1>2 DEF NextToolChoice
    <2> DEFINE e == <<>>
    <2>2. e \in Seq(Directives) /\ DOMAIN e = {}
        OBVIOUS
    <2> HIDE DEF e
    <2>3. Apart(e)
        BY <2>2 DEF Apart
    <2>4. \A f, c : ~Waits(e, f, c)
        BY <2>2 DEF Waits
    <2>5. \A i \in DOMAIN e : e[i].id <= m
        BY <2>2
    <2>6. Sound([q EXCEPT !.queue = e], m)
        BY <2>2, <2>3, <2>4, <2>5, NarrowFacts
    <2> QED
        BY <2>1, <2>6 DEF e
<1>3. CASE live # {}
    <2>1. NextToolChoice(q) = r
        BY <1>3 DEF NextToolChoice
    <2>2. at \in live
        <3>1. \E i \in live : \A k \in live : i <= k
            <4>1. live \subseteq Nat
                BY <1>1
            <4> QED
                BY <1>3, <4>1, Least
        <3> QED
            BY <3>1
    <2> HIDE DEF at
    <2>3. at \in DOMAIN s /\ at \in 1..Len(s) /\ head \in Directives /\ head.left \in Seq(Yields)
          /\ head.left # <<>>
        <3>1. at \in DOMAIN s /\ head.left # <<>>
            BY <2>2
        <3>2. at \in 1..Len(s)
            BY <1>1, <3>1
        <3>3. head \in Directives
            BY <1>1, <3>2, ElementOfSeq
        <3> QED
            BY <3>1, <3>2, <3>3 DEF Directives
    <2>4. /\ Head(head.left) \in Yields /\ left \in Seq(Yields)
          /\ 1 \in DOMAIN head.left /\ Head(head.left) = head.left[1]
          /\ \A a \in DOMAIN left :
                 a + 1 \in DOMAIN head.left /\ a + 1 # 1 /\ left[a] = head.left[a + 1]
          /\ \A a, b \in DOMAIN left : a + 1 = b + 1 => a = b
        BY <2>3, YieldFacts
    <2>5. d \in Directives /\ d.id = head.id /\ d.left = left
        BY <2>3, <2>4 DEF Directives
    <2>6. /\ rest \in Seq(Directives) /\ \E h : From(h, rest, s, Len(s))
          /\ \A i \in DOMAIN rest : i + at \in DOMAIN s /\ i + at # at /\ rest[i] = s[i + at]
        BY <1>1, <2>3, RestFacts
    <2>7. Apart(s)
        BY DEF Sound
    <2>8. /\ Apart(rest) /\ \A f, c : Waits(rest, f, c) => Waits(s, f, c)
          /\ \A i \in DOMAIN rest : \E k \in DOMAIN s : rest[i] = s[k]
        BY <1>1, <2>6, <2>7, FromFacts
    <2>9. ASSUME NEW a \in DOMAIN head.left, head.id # Eager
          PROVE  ~Waits(rest, head.id, head.left[a])
        <3> SUFFICES ASSUME NEW i \in DOMAIN rest, rest[i].id = head.id,
                            NEW b \in DOMAIN rest[i].left, rest[i].left[b] = head.left[a]
                     PROVE  FALSE
            BY DEF Waits
        <3>1. i + at \in DOMAIN s /\ i + at # at /\ rest[i] = s[i + at]
            BY <2>6
        <3> HIDE DEF rest
        <3>2. i + at = at
            BY <2>3, <2>7, <2>9, <3>1 DEF Apart
        <3> QED
            BY <3>1, <3>2
    <2>10. ASSUME head.id # Eager, NEW a \in DOMAIN head.left, NEW b \in DOMAIN head.left,
                  head.left[a] = head.left[b]
           PROVE  a = b
        BY <2>3, <2>7, <2>10 DEF Apart
    <2> HIDE DEF rest, head, left, d
    <2>11. Fresh(d, rest)
        BY <2>4, <2>5, <2>9, <2>10 DEF Fresh
    <2>12. /\ <<d>> \o rest \in Seq(Directives)
           /\ \A i \in DOMAIN (<<d>> \o rest) :
                  \/ i = 1 /\ (<<d>> \o rest)[i] = d
                  \/ i # 1 /\ i - 1 \in DOMAIN rest /\ (<<d>> \o rest)[i] = rest[i - 1]
        BY <2>5, <2>6, PushFront
    <2>13. Apart(<<d>> \o rest)
        BY <2>5, <2>6, <2>8, <2>11, PushFrontApart
    <2>14. \A i \in DOMAIN s2 : s2[i] = d \/ \E k \in DOMAIN rest : s2[i] = rest[k]
        BY <2>12
    <2>15. s2 \in Seq(Directives) /\ Apart(s2)
        BY <2>6, <2>8, <2>12, <2>13
    <2> HIDE DEF s2
    <2>16. ASSUME NEW f, NEW c, Waits(s2, f, c)
           PROVE  \/ f = head.id /\ \E a \in DOMAIN left : left[a] = c
                  \/ Waits(rest, f, c)
        BY <2>5, <2>14, <2>16 DEF Waits
    <2>17. ASSUME NEW f, NEW c, Waits(s2, f, c)
           PROVE  Waits(s, f, c)
        <3>1. CASE f = head.id /\ \E a \in DOMAIN left : left[a] = c
            <4>1. PICK a \in DOMAIN left : left[a] = c
                BY <3>1
            <4>2. a + 1 \in DOMAIN s[at].left /\ s[at].left[a + 1] = c
                BY <2>4, <4>1 DEF head
            <4>3. at \in DOMAIN s /\ s[at].id = f
                BY <2>3, <3>1 DEF head
            <4> QED
                BY <4>2, <4>3 DEF Waits
        <3>2. CASE Waits(rest, f, c)
            BY <2>8, <3>2
        <3> QED
            BY <2>16, <2>17, <3>1, <3>2
    <2>18. head.id # Eager => ~Waits(s2, head.id, Head(head.left))
        BY <2>4, <2>9, <2>10, <2>16
    <2>19. head.id # Eager => \A n \in DOMAIN q.served[head.id] :
               q.served[head.id][n] # Head(head.left)
        <3> SUFFICES ASSUME head.id # Eager, NEW n \in DOMAIN q.served[head.id],
                            q.served[head.id][n] = Head(head.left)
                     PROVE  FALSE
            OBVIOUS
        <3>1. Waits(s, head.id, Head(head.left))
            BY <2>3, <2>4 DEF Waits, head
        <3>2. head.id \in Forces
            BY <2>3 DEF Directives
        <3> QED
            BY <3>1, <3>2 DEF Sound, Gone
    <2>20. \A i \in DOMAIN s2 : s2[i].id <= m
        <3>1. \A k \in DOMAIN s : s[k].id <= m
            BY DEF Sound, Known
        <3>2. d.id <= m
            BY <2>3, <2>5, <3>1 DEF head
        <3> QED
            BY <2>8, <2>14, <3>1, <3>2
    <2>21. Sound([q EXCEPT !.queue = s2], m)
        BY <2>15, <2>17, <2>20, NarrowFacts
    <2>22. /\ Typed(r) /\ r.queue = s2 /\ r.inFlight = {y} /\ r.served = q.served
        <3>1. y \in [dir : Directives, choice : Yields]
            BY <2>3, <2>4
        <3>2. Typed(q)
            BY DEF Sound
        <3> HIDE DEF y
        <3> QED
            BY <2>15, <3>1, <3>2 DEF Typed
    <2>23. y.dir = head /\ y.choice = Head(head.left)
        OBVIOUS
    <2> HIDE DEF r, y
    <2>24. Single(r)
        BY <2>22 DEF Single
    <2>25. Flying(r)
        BY <2>18, <2>19, <2>22, <2>23 DEF Flying
    <2>26. Gone(r)
        BY <2>17, <2>22 DEF Gone, Sound
    <2>27. OnceServed(r)
        BY <2>22 DEF OnceServed, Sound
    <2>28. Known(r, m)
        <3>1. head.id <= m
            BY <2>3 DEF Sound, Known, head
        <3> QED
            BY <2>20, <2>22, <2>23, <3>1 DEF Known, Sound
    <2> QED
        BY <2>1, <2>15, <2>22, <2>24, <2>25, <2>26, <2>27, <2>28 DEF Sound
<1> QED
    BY <1>2, <1>3

LEMMA ResolveFacts ==
    ASSUME NEW q, NEW m \in Nat, Sound(q, m)
    PROVE  Sound(Resolve(q), m)
<1> DEFINE got(f) == IF \E y \in q.inFlight : y.dir.id = f
                     THEN <<(CHOOSE y \in q.inFlight : TRUE).choice>> ELSE <<>>
           sv     == [f \in Forces |-> q.served[f] \o got(f)]
           r      == Resolve(q)
<1>1. Typed(q) /\ q.inFlight \subseteq [dir : Directives, choice : Yields]
      /\ \A f \in Forces : q.served[f] \in Seq(Yields)
    BY DEF Sound, Typed
<1>2. r = [q EXCEPT !.inFlight = {}, !.served = sv]
    BY DEF Resolve
<1>3. ASSUME NEW f \in Forces
      PROVE  /\ sv[f] \in Seq(Yields)
             /\ \/ sv[f] = q.served[f]
                \/ \E y \in q.inFlight :
                       /\ y.dir.id = f /\ y.dir.id # Eager
                       /\ \A n \in DOMAIN sv[f] :
                              \/ n \in DOMAIN q.served[f] /\ sv[f][n] = q.served[f][n]
                              \/ n = Len(q.served[f]) + 1 /\ sv[f][n] = y.choice
    <2>1. sv[f] = q.served[f] \o got(f)
        OBVIOUS
    <2>2. CASE \E y \in q.inFlight : y.dir.id = f
        <3>1. PICK y \in q.inFlight : y.dir.id = f
            BY <2>2
        <3>2. (CHOOSE z \in q.inFlight : TRUE) = y
            BY <3>1 DEF Sound, Single
        <3>3. got(f) = <<y.choice>>
            BY <2>2, <3>2
        <3>4. y.choice \in Yields /\ f # Eager
            BY <1>1 DEF Forces, Eager
        <3>5. <<y.choice>> \in Seq(Yields) /\ Len(<<y.choice>>) = 1 /\ <<y.choice>>[1] = y.choice
            BY <3>4
        <3> DEFINE s == q.served[f]
        <3>6. s \in Seq(Yields)
            BY <1>1
        <3> HIDE DEF s
        <3>7. /\ s \o <<y.choice>> \in Seq(Yields) /\ Len(s \o <<y.choice>>) = Len(s) + 1
              /\ \A n \in 1..(Len(s) + 1) :
                     (s \o <<y.choice>>)[n] = IF n <= Len(s) THEN s[n] ELSE <<y.choice>>[n - Len(s)]
            BY <3>5, <3>6, ConcatProperties
        <3>8. Len(s) \in Nat /\ DOMAIN s = 1..Len(s)
              /\ DOMAIN (s \o <<y.choice>>) = 1..(Len(s) + 1)
            BY <3>6, <3>7, LenProperties
        <3>9. \A n \in 1..(Len(s) + 1) :
                  \/ n \in 1..Len(s) /\ n <= Len(s)
                  \/ n = Len(s) + 1 /\ ~(n <= Len(s)) /\ n - Len(s) = 1
            BY <3>8
        <3>10. \A n \in 1..(Len(s) + 1) :
                   \/ n \in 1..Len(s) /\ (s \o <<y.choice>>)[n] = s[n]
                   \/ n = Len(s) + 1 /\ (s \o <<y.choice>>)[n] = y.choice
            BY <3>5, <3>7, <3>9
        <3>11. sv[f] = s \o <<y.choice>>
            BY <2>1, <3>3 DEF s
        <3> HIDE DEF sv
        <3> QED
            BY SMTT(30), <3>1, <3>4, <3>7, <3>8, <3>10, <3>11 DEF s
    <2>3. CASE ~\E y \in q.inFlight : y.dir.id = f
        <3>1. got(f) = <<>>
            BY <2>3
        <3>2. q.served[f] \o <<>> = q.served[f]
            BY <1>1, ConcatEmptySeq
        <3> QED
            BY <1>1, <2>1, <3>1, <3>2
    <2> QED
        BY <2>2, <2>3
<1>4. sv \in [Forces -> Seq(Yields)]
    BY <1>3
<1> HIDE DEF sv
<1>5. Typed(r) /\ r.queue = q.queue /\ r.inFlight = {} /\ r.served = sv
    BY <1>1, <1>2, <1>4 DEF Typed
<1> HIDE DEF r
<1>6. Single(r) /\ Flying(r)
    BY <1>5 DEF Single, Flying
<1>7. Gone(r)
    <2> SUFFICES ASSUME NEW f \in Forces, NEW n \in DOMAIN sv[f]
                 PROVE  ~Waits(q.queue, f, sv[f][n])
        BY <1>5 DEF Gone
    <2> QED
        BY <1>3 DEF Sound, Gone, Flying
<1>8. OnceServed(r)
    <2> SUFFICES ASSUME NEW f \in Forces, NEW n \in DOMAIN sv[f], NEW k \in DOMAIN sv[f],
                        sv[f][n] = sv[f][k]
                 PROVE  n = k
        BY <1>5 DEF OnceServed
    <2>1. \A i, j \in DOMAIN q.served[f] : q.served[f][i] = q.served[f][j] => i = j
        BY DEF Sound, OnceServed
    <2>2. CASE sv[f] = q.served[f]
        BY <2>1, <2>2
    <2>3. CASE sv[f] # q.served[f]
        <3>1. PICK y \in q.inFlight :
                  /\ y.dir.id = f /\ y.dir.id # Eager
                  /\ \A i \in DOMAIN sv[f] :
                         \/ i \in DOMAIN q.served[f] /\ sv[f][i] = q.served[f][i]
                         \/ i = Len(q.served[f]) + 1 /\ sv[f][i] = y.choice
            BY <1>3, <2>3
        <3>2. \A i \in DOMAIN q.served[f] : q.served[f][i] # y.choice
            BY <3>1 DEF Sound, Flying
        <3> QED
            BY <2>1, <3>1, <3>2
    <2> QED
        BY <2>2, <2>3
<1>9. Known(r, m)
    <2>1. \A f \in Forces : f > m => sv[f] = <<>>
        <3> SUFFICES ASSUME NEW f \in Forces, f > m
                     PROVE  sv[f] = <<>>
            OBVIOUS
        <3>1. ~\E y \in q.inFlight : y.dir.id = f
            <4> SUFFICES ASSUME NEW y \in q.inFlight, y.dir.id = f
                         PROVE  FALSE
                OBVIOUS
            <4>1. f <= m /\ f \in Int
                BY DEF Sound, Known, Forces
            <4> QED
                BY <4>1
        <3> QED
            BY <1>3, <3>1 DEF Sound, Known
    <2> QED
        BY <1>5, <2>1 DEF Sound, Known
<1> QED
    BY <1>5, <1>6, <1>7, <1>8, <1>9 DEF Sound, r

LEMMA RejectFacts ==
    ASSUME NEW q, NEW m \in Nat, Sound(q, m)
    PROVE  Sound(Reject(q), m)
<1> DEFINE again == \E y \in q.inFlight : y.dir.id # Eager
           r     == Reject(q)
<1>1. q.queue \in Seq(Directives) /\ q.inFlight \subseteq [dir : Directives, choice : Yields]
    BY DEF Sound, Typed
<1>2. PICK s : /\ r = [q EXCEPT !.inFlight = {}, !.queue = s]
               /\ s \in Seq(Directives) /\ Apart(s)
               /\ \A i \in DOMAIN s : s[i].id <= m
               /\ \A f \in Forces : \A c : Waits(s, f, c) =>
                      Waits(q.queue, f, c) \/ \E y \in q.inFlight : y.dir.id = f /\ y.choice = c
    <2>1. CASE again
        <3>1. PICK y \in q.inFlight : y.dir.id # Eager
            BY <2>1
        <3>2. (CHOOSE z \in q.inFlight : TRUE) = y
            BY <3>1 DEF Sound, Single
        <3> DEFINE d == Directive(y.dir.id, "user-force-requeued", <<y.choice>>)
                   s == <<d>> \o q.queue
        <3>3. r = [q EXCEPT !.inFlight = {}, !.queue = s]
            BY <2>1, <3>2 DEF Reject
        <3>4. y.dir \in Directives /\ y.choice \in Yields
            BY <1>1
        <3>5. d \in Directives /\ d.id = y.dir.id /\ d.left = <<y.choice>>
            BY <3>4 DEF Directives, Directive
        <3>6. \A a \in DOMAIN d.left : a = 1 /\ d.left[a] = y.choice
            BY <3>5
        <3> HIDE DEF d
        <3>7. Fresh(d, q.queue)
            BY <3>1, <3>5, <3>6 DEF Fresh, Sound, Flying
        <3>8. s \in Seq(Directives) /\ Apart(s)
            BY <1>1, <3>5, <3>7, PushFront, PushFrontApart DEF Sound
        <3>9. \A i \in DOMAIN s : s[i] = d \/ \E k \in DOMAIN q.queue : s[i] = q.queue[k]
            BY <1>1, <3>5, PushFront
        <3> HIDE DEF s
        <3>10. \A i \in DOMAIN s : s[i].id <= m
            BY <3>1, <3>5, <3>9 DEF Sound, Known
        <3>11. \A f \in Forces : \A c : Waits(s, f, c) =>
                   Waits(q.queue, f, c) \/ (y.dir.id = f /\ y.choice = c)
            BY <3>5, <3>6, <3>9 DEF Waits
        <3> QED
            BY <3>1, <3>3, <3>8, <3>10, <3>11
    <2>2. CASE ~again
        <3>1. <<>> \o q.queue = q.queue
            BY <1>1, ConcatEmptySeq
        <3>2. r = [q EXCEPT !.inFlight = {}, !.queue = q.queue]
            BY <2>2, <3>1 DEF Reject
        <3> QED
            BY <1>1, <3>2 DEF Sound, Known
    <2> QED
        BY <2>1, <2>2
<1>3. Typed(r) /\ r.queue = s /\ r.inFlight = {} /\ r.served = q.served
    BY <1>2 DEF Sound, Typed
<1> HIDE DEF r
<1>4. Single(r) /\ Flying(r)
    BY <1>3 DEF Single, Flying
<1>5. Gone(r)
    <2> SUFFICES ASSUME NEW f \in Forces, NEW n \in DOMAIN q.served[f],
                        Waits(s, f, q.served[f][n])
                 PROVE  FALSE
        BY <1>3 DEF Gone
    <2>1. ~Waits(q.queue, f, q.served[f][n])
        BY DEF Sound, Gone
    <2>2. PICK y \in q.inFlight : y.dir.id = f /\ y.choice = q.served[f][n]
        BY <1>2, <2>1
    <2>3. y.dir.id # Eager
        BY <2>2 DEF Forces, Eager
    <2> QED
        BY <2>2, <2>3 DEF Sound, Flying
<1>6. OnceServed(r)
    BY <1>3 DEF OnceServed, Sound
<1>7. Known(r, m)
    BY <1>2, <1>3 DEF Known, Sound
<1> QED
    BY <1>2, <1>3, <1>4, <1>5, <1>6, <1>7 DEF Sound, r

LEMMA RemoveByLabelFacts ==
    ASSUME NEW q, NEW m \in Nat, Sound(q, m), NEW label
    PROVE  Sound(RemoveByLabel(q, label), m)
<1> DEFINE r    == IF \E y \in q.inFlight : y.dir.label = label THEN Reject(q) ELSE q
           S    == {d \in Directives : d.label # label}
           s    == Keep(r.queue, S)
<1>1. Sound(r, m)
    BY RejectFacts
<1>2. RemoveByLabel(q, label) = [r EXCEPT !.queue = s]
    BY DEF RemoveByLabel
<1> HIDE DEF r
<1>3. r.queue \in Seq(Directives)
    BY <1>1 DEF Sound, Typed
<1>4. s \in Seq(Directives) /\ \E h : From(h, s, r.queue, Len(r.queue))
    BY <1>3, KeepDirectives
<1> HIDE DEF s
<1>5. /\ Apart(s) /\ \A f, c : Waits(s, f, c) => Waits(r.queue, f, c)
      /\ \A i \in DOMAIN s : \E k \in DOMAIN r.queue : s[i] = r.queue[k]
    BY <1>1, <1>3, <1>4, FromFacts DEF Sound
<1>6. \A i \in DOMAIN s : s[i].id <= m
    BY <1>1, <1>5 DEF Sound, Known
<1> QED
    BY <1>1, <1>2, <1>4, <1>5, <1>6, NarrowFacts

-----------------------------------------------------------------------------
(* The previews. *)

\* What Keep leaves of a list of previews.
LEMMA KeepPreviews ==
    ASSUME NEW s \in Seq(Previews), NEW S, S \subseteq Previews
    PROVE  /\ Keep(s, S) \in Seq(Previews)
           /\ \A p \in S : Contains(s, p) => Contains(Keep(s, S), p)
<1> DEFINE r == Keep(s, S)
<1>1. KeptUpTo(r, s, S, Len(s))
    BY KeepFacts
<1> HIDE DEF r
<1>2. r \in Seq(S) /\ r \in Seq(Previews)
    <2>1. r \in Seq(S) /\ Len(r) \in Nat /\ r = [i \in 1..Len(r) |-> r[i]]
          /\ \A i \in 1..Len(r) : r[i] \in S
        BY <1>1, LenProperties, ElementOfSeq DEF KeptUpTo
    <2> QED
        BY <2>1
<1>3. \A p \in S : Contains(s, p) => Contains(r, p)
    BY <1>1 DEF KeptUpTo, Contains
<1> QED
    BY <1>2, <1>3 DEF r

\* A preview that is registered is there, and the others stay.
LEMMA RegisteredFacts ==
    ASSUME NEW s \in Seq(Previews), NEW p \in Previews
    PROVE  /\ Registered(p, s) \in Seq(Previews)
           /\ Contains(Registered(p, s), p)
           /\ \A o \in Previews : Contains(s, o) => Contains(Registered(p, s), o)
<1> DEFINE k == Keep(s, Previews \ {p})
<1>1. k \in Seq(Previews) /\ \A o \in Previews \ {p} : Contains(s, o) => Contains(k, o)
    BY KeepPreviews
<1> HIDE DEF k
<1>2. /\ Append(k, p) \in Seq(Previews) /\ Len(Append(k, p)) = Len(k) + 1
      /\ \A i \in 1..Len(k) : Append(k, p)[i] = k[i]
      /\ Append(k, p)[Len(k) + 1] = p
    BY <1>1, AppendProperties
<1>3. /\ Len(k) + 1 \in 1..(Len(k) + 1) /\ \A i \in 1..Len(k) : i \in 1..(Len(k) + 1)
    <2>1. Len(k) \in Nat
        BY <1>1, LenProperties
    <2> QED
        BY <2>1
<1>4. Contains(Append(k, p), p) /\ \A o : Contains(k, o) => Contains(Append(k, p), o)
    BY <1>2, <1>3 DEF Contains
<1> QED
    BY <1>1, <1>2, <1>4 DEF Registered, k

-----------------------------------------------------------------------------
(* The steps. *)

\* An action that gives the queue another sound state.
LEMMA BecomesSound ==
    ASSUME NEW q, NEW m, Sound(q, m), Becomes(q)
    PROVE  Sound(Now, m)'
<1>1. Now' = [queue |-> q.queue, inFlight |-> q.inFlight, served |-> q.served]
    BY DEF Becomes, Now
<1>2. q = [queue |-> q.queue, inFlight |-> q.inFlight, served |-> q.served]
    BY DEF Sound, Typed
<1>3. Now' = q
    BY <1>1, <1>2
<1>4. Sound(Now', m)
    BY <1>3
<1> QED
    BY <1>4

\* A new directive waits behind the others. Its calls wait nowhere else.
LEMMA PushFacts ==
    ASSUME NEW q, NEW m \in Nat, Sound(q, m), NEW n \in Nat, m <= n,
           NEW d \in Directives, d.id <= n, Fresh(d, q.queue),
           d.id # Eager => d.id > m
    PROVE  Sound([q EXCEPT !.queue = Append(q.queue, d)], n)
<1> DEFINE s == Append(q.queue, d)
           r == [q EXCEPT !.queue = s]
<1>1. q.queue \in Seq(Directives) /\ q.inFlight \subseteq [dir : Directives, choice : Yields]
    BY DEF Sound, Typed
<1>2. /\ s \in Seq(Directives) /\ Apart(s)
      /\ \A i \in DOMAIN s : s[i] = d \/ \E k \in DOMAIN q.queue : s[i] = q.queue[k]
    BY <1>1, PushBack, PushBackApart DEF Sound
<1> HIDE DEF s
<1>3. Typed(r) /\ r.queue = s /\ r.inFlight = q.inFlight /\ r.served = q.served
    BY <1>2 DEF Sound, Typed
<1> HIDE DEF r
<1>4. \A f, c : Waits(s, f, c) => f = d.id \/ Waits(q.queue, f, c)
    BY <1>2 DEF Waits
<1>5. \A i \in Forces \union {Eager} : i <= m => i <= n /\ ~(i > m)
    BY DEF Forces, Eager
<1>6. Single(r)
    BY <1>3 DEF Sound, Single
<1>7. Flying(r)
    <2> SUFFICES ASSUME NEW y \in q.inFlight, y.dir.id # Eager
                 PROVE  /\ ~Waits(s, y.dir.id, y.choice)
                        /\ \A k \in DOMAIN q.served[y.dir.id] : q.served[y.dir.id][k] # y.choice
        BY <1>3 DEF Flying
    <2>1. y.dir.id \in Forces \union {Eager} /\ y.dir.id <= m
        BY <1>1 DEF Directives, Sound, Known
    <2>2. y.dir.id # d.id
        BY <1>5, <2>1
    <2> QED
        BY <1>4, <2>2 DEF Sound, Flying
<1>8. Gone(r)
    <2> SUFFICES ASSUME NEW f \in Forces, NEW k \in DOMAIN q.served[f],
                        Waits(s, f, q.served[f][k])
                 PROVE  FALSE
        BY <1>3 DEF Gone
    <2>1. f = d.id
        BY <1>4 DEF Sound, Gone
    <2>2. f > m
        BY <2>1 DEF Forces, Eager
    <2>3. q.served[f] = <<>>
        BY <2>2 DEF Sound, Known
    <2> QED
        BY <2>3
<1>9. OnceServed(r)
    BY <1>3 DEF Sound, OnceServed
<1>10. Known(r, n)
    <2>1. \A k \in DOMAIN q.queue : q.queue[k].id <= n
        <3> SUFFICES ASSUME NEW k \in DOMAIN q.queue
                     PROVE  q.queue[k].id <= n
            OBVIOUS
        <3>1. q.queue[k] \in Directives
            BY <1>1, LenProperties, ElementOfSeq
        <3>2. q.queue[k].id \in Forces \union {Eager} /\ q.queue[k].id <= m
            BY <3>1 DEF Directives, Sound, Known
        <3> QED
            BY <1>5, <3>2
    <2>2. \A y \in q.inFlight : y.dir.id <= n
        BY <1>1, <1>5 DEF Directives, Sound, Known
    <2>3. \A f \in Forces : f > n => q.served[f] = <<>>
        BY DEF Sound, Known, Forces
    <2> QED
        BY <1>2, <1>3, <2>1, <2>2, <2>3 DEF Known
<1> QED
    BY <1>2, <1>3, <1>6, <1>7, <1>8, <1>9, <1>10 DEF Sound, r, s

LEMMA SoundStep ==
    ASSUME IInv, [Next]_vars
    PROVE  Sound(Now, count.forces)'
<1> DEFINE m == count.forces
<1> USE DEF IInv, Rest
<1>1. m \in Nat /\ Sound(Now, m) /\ count \in [forces : Nat, prompts : Nat, toggles : Nat]
    OBVIOUS
<1> HIDE DEF m
<1>2. ASSUME UNCHANGED <<queue, inFlight, served>>, count'.forces = m
      PROVE  Sound(Now, count.forces)'
    <2>1. Now' = Now
        BY <1>2 DEF Now
    <2> QED
        BY <1>1, <1>2, <2>1
<1>3. ASSUME NEW q, Sound(q, m), Becomes(q), count'.forces = m
      PROVE  Sound(Now, count.forces)'
    BY <1>3, BecomesSound
<1>4. CASE SetForcedToolChoice
    <2> DEFINE f == m + 1
               d == Directive(f, "user-force", <<"forced", "none">>)
               q == [Now EXCEPT !.queue = Append(queue, d)]
    <2>1. f \in Forces /\ f > m /\ f \in Nat /\ f # Eager /\ m <= f
        BY <1>1, <1>4, BoundAssumption DEF SetForcedToolChoice, Forces, Eager, m
    <2>2. d \in Directives /\ d.id = f /\ d.left = <<"forced", "none">>
        BY <2>1 DEF Directives, Directive, Yields
    <2>3. Fresh(d, queue)
        <3>1. \A c : ~Waits(queue, f, c)
            BY <1>1, <2>1 DEF Waits, Sound, Known, Now
        <3>2. \A a, b \in DOMAIN d.left : d.left[a] = d.left[b] => a = b
            BY <2>2
        <3> QED
            BY <2>2, <3>1, <3>2 DEF Fresh
    <2>4. Now.queue = queue
        BY DEF Now
    <2> HIDE DEF f, d
    <2>5. Sound(q, f)
        BY SMTT(30), <1>1, <2>1, <2>2, <2>3, <2>4, PushFacts
    <2>6. Becomes(q) /\ count'.forces = f
        BY <1>1, <1>4 DEF SetForcedToolChoice, Becomes, Now, f, d, m
    <2> QED
        BY <2>5, <2>6, BecomesSound
<1>5. CASE PushEager
    <2> DEFINE d == Directive(Eager, "eager-todo", <<"eager">>)
               q == [Now EXCEPT !.queue = Append(queue, d)]
    <2>1. d \in Directives /\ d.id = Eager /\ d.id <= m
        BY <1>1 DEF Directives, Directive, Yields, Eager
    <2>2. Fresh(d, queue)
        BY <2>1 DEF Fresh
    <2>3. Now.queue = queue /\ m <= m
        BY <1>1 DEF Now
    <2> HIDE DEF d
    <2>4. Sound(q, m)
        BY <1>1, <2>1, <2>2, <2>3, PushFacts
    <2>5. Becomes(q) /\ count'.forces = m
        BY <1>5 DEF PushEager, Becomes, Now, d, m
    <2> QED
        BY <1>3, <2>4, <2>5
<1>6. CASE NextHardToolChoice
    <2>1. Sound(NextToolChoice(Now), m)
        BY <1>1, NextToolChoiceFacts
    <2>2. Sound(Reject(NextToolChoice(Now)), m)
        BY <1>1, <2>1, RejectFacts
    <2>3. count'.forces = m
        BY <1>6 DEF NextHardToolChoice, m
    <2>4. \/ Becomes(Reject(NextToolChoice(Now)))
          \/ Becomes(NextToolChoice(Now))
        BY <1>6 DEF NextHardToolChoice
    <2> QED
        BY <1>3, <2>1, <2>2, <2>3, <2>4
<1>7. CASE TurnEnd
    <2>1. Sound(Resolve(Now), m) /\ Sound(Reject(Now), m)
        BY <1>1, ResolveFacts, RejectFacts
    <2>2. count'.forces = m /\ (Becomes(Resolve(Now)) \/ Becomes(Reject(Now)))
        BY <1>7 DEF TurnEnd, m
    <2> QED
        BY <1>3, <2>1, <2>2
<1>8. CASE RunFails
    <2>1. Sound(Reject(Now), m)
        BY <1>1, RejectFacts
    <2>2. count'.forces = m /\ (Becomes(Reject(Now)) \/ Becomes(Now))
        BY <1>8 DEF RunFails, m
    <2> QED
        BY <1>1, <1>3, <2>1, <2>2
<1>9. CASE PromptReturns
    <2>1. Sound(RemoveByLabel(Now, "eager-todo"), m)
        BY <1>1, RemoveByLabelFacts
    <2>2. count'.forces = m /\ Becomes(RemoveByLabel(Now, "eager-todo"))
        BY <1>9 DEF PromptReturns, m
    <2> QED
        BY <1>3, <2>1, <2>2
<1>10. CASE ToggleTool
    BY <1>1, <1>2, <1>10 DEF ToggleTool, m
<1>11. CASE Prompt
    BY <1>1, <1>2, <1>11 DEF Prompt, m
<1>12. CASE \E p \in Previews : Stage(p)
    BY <1>2, <1>12 DEF Stage, m
<1>13. CASE \E c \in Calls : ResolveCalled(c) \/ ResolveReturns(c)
    BY <1>2, <1>13 DEF ResolveCalled, ResolveReturns, m
<1>14. CASE UNCHANGED vars
    BY <1>2, <1>14 DEF vars, m
<1> QED
    BY <1>4, <1>5, <1>6, <1>7, <1>8, <1>9, <1>10, <1>11, <1>12, <1>13, <1>14 DEF Next

LEMMA RestStep ==
    ASSUME IInv, [Next]_vars
    PROVE  Rest'
<1> USE DEF IInv, Rest
<1>1. CASE SetForcedToolChoice
    BY SMTT(30), <1>1 DEF SetForcedToolChoice
<1>2. CASE ToggleTool
    BY <1>2 DEF ToggleTool
<1>3. CASE Prompt
    BY <1>3 DEF Prompt
<1>4. CASE PushEager \/ NextHardToolChoice \/ TurnEnd \/ RunFails \/ PromptReturns
    BY <1>4 DEF PushEager, NextHardToolChoice, TurnEnd, RunFails, PromptReturns
<1>5. ASSUME NEW p \in Previews, Stage(p)
      PROVE  Rest'
    <2>1. previews' \in Seq(Previews)
        BY <1>5, RegisteredFacts DEF Stage
    <2> QED
        BY <1>5, <2>1 DEF Stage
<1>6. ASSUME NEW c \in Calls, ResolveCalled(c)
      PROVE  Rest'
    <2>1. Last(previews) \in Previews
        <3>1. Len(previews) \in Nat /\ Len(previews) # 0
            BY <1>6, LenProperties, EmptySeq DEF ResolveCalled
        <3>2. Len(previews) \in 1..Len(previews)
            BY <3>1
        <3> QED
            BY <3>2, ElementOfSeq DEF Last
    <2> QED
        BY <1>6, <2>1 DEF ResolveCalled
<1>7. ASSUME NEW c \in Calls, ResolveReturns(c)
      PROVE  Rest'
    <2>1. calls[c] \in Previews
        BY <1>7 DEF ResolveReturns
    <2>2. /\ Registered(calls[c], previews) \in Seq(Previews)
          /\ Without(calls[c], previews) \in Seq(Previews)
          /\ <<>> \in Seq(Previews)
        <3>1. <<>> \in Seq(Previews)
            OBVIOUS
        <3>2. Registered(calls[c], previews) \in Seq(Previews)
            BY <2>1, RegisteredFacts
        <3>3. Without(calls[c], previews) \in Seq(Previews)
            BY KeepPreviews DEF Without
        <3> QED
            BY <3>1, <3>2, <3>3
    <2>4. previews' \in Seq(Previews)
        BY <1>7, <2>2 DEF ResolveReturns
    <2>3. applied' \in [Previews -> 0..2]
        BY <1>7 DEF ResolveReturns
    <2> QED
        BY <1>7, <2>4, <2>3 DEF ResolveReturns
<1>8. CASE UNCHANGED vars
    BY <1>8 DEF vars
<1> QED
    BY <1>1, <1>2, <1>3, <1>4, <1>5, <1>6, <1>7, <1>8 DEF Next

LEMMA PreviewStep ==
    ASSUME IInv, [Next]_vars
    PROVE  PreviewKept'
<1> USE DEF IInv, Rest
<1>1. ASSUME UNCHANGED <<previews, applied, staged>>
      PROVE  PreviewKept'
    BY <1>1 DEF PreviewKept
<1>2. ASSUME NEW p \in Previews, Stage(p)
      PROVE  PreviewKept'
    <2>1. Contains(previews', p) /\ \A o \in Previews : Contains(previews, o) => Contains(previews', o)
        BY <1>2, RegisteredFacts DEF Stage
    <2> QED
        BY <1>2, <2>1 DEF Stage, PreviewKept
<1>3. ASSUME NEW c \in Calls, ResolveReturns(c)
      PROVE  PreviewKept'
    <2>1. calls[c] \in Previews
        BY <1>3 DEF ResolveReturns
    <2>2. CASE ~(/\ previews' \in {previews, Registered(calls[c], previews)}
                 /\ applied' = applied)
        <3>1. /\ previews' = IF previews = <<>> THEN <<>> ELSE Without(calls[c], previews)
              /\ applied' = [applied EXCEPT ![calls[c]] = IF @ < 2 THEN @ + 1 ELSE @]
            BY <1>3, <2>2 DEF ResolveReturns
        <3>2. applied'[calls[c]] # 0
            BY <2>1, <3>1
        <3>3. \A o \in Previews \ {calls[c]} :
                  applied'[o] = applied[o] /\ (Contains(previews, o) => Contains(previews', o))
            BY <2>1, <3>1, KeepPreviews DEF Without
        <3>4. staged' = staged
            BY <1>3 DEF ResolveReturns
        <3> QED
            BY <3>2, <3>3, <3>4 DEF PreviewKept
    <2>3. CASE previews' = Registered(calls[c], previews) /\ applied' = applied
        <3>1. \A o \in Previews : Contains(previews, o) => Contains(previews', o)
            BY <2>1, <2>3, RegisteredFacts
        <3>2. staged' = staged
            BY <1>3 DEF ResolveReturns
        <3> QED
            BY <2>3, <3>1, <3>2 DEF PreviewKept
    <2>4. CASE previews' = previews /\ applied' = applied
        BY <1>1, <1>3, <2>4 DEF ResolveReturns
    <2> QED
        BY <2>2, <2>3, <2>4
<1>4. CASE \E c \in Calls : ResolveCalled(c)
    BY <1>1, <1>4 DEF ResolveCalled
<1>5. CASE SetForcedToolChoice \/ ToggleTool \/ Prompt \/ PushEager
    BY <1>1, <1>5 DEF SetForcedToolChoice, ToggleTool, Prompt, PushEager
<1>6. CASE NextHardToolChoice \/ TurnEnd \/ RunFails \/ PromptReturns
    BY <1>1, <1>6 DEF NextHardToolChoice, TurnEnd, RunFails, PromptReturns
<1>7. CASE UNCHANGED vars
    BY <1>1, <1>7 DEF vars
<1> QED
    BY <1>2, <1>3, <1>4, <1>5, <1>6, <1>7 DEF Next

LEMMA InitInv == Init => IInv
<1> SUFFICES ASSUME Init
             PROVE  IInv
    OBVIOUS
<1>1. /\ Now.queue = <<>> /\ Now.inFlight = {} /\ Now.served = [f \in Forces |-> <<>>]
      /\ count.forces = 0 /\ Now = [queue |-> <<>>, inFlight |-> {}, served |-> [f \in Forces |-> <<>>]]
    BY DEF Init, Now
<1>2. <<>> \in Seq(Directives) /\ <<>> \in Seq(Yields) /\ DOMAIN <<>> = {}
    OBVIOUS
<1>3. Typed(Now)
    BY <1>1, <1>2 DEF Typed
<1>4. Single(Now) /\ Flying(Now) /\ Apart(Now.queue)
    BY <1>1 DEF Single, Flying, Apart
<1>5. Gone(Now) /\ OnceServed(Now)
    BY <1>1 DEF Gone, OnceServed
<1>6. Known(Now, count.forces)
    BY <1>1 DEF Known
<1>7. Rest /\ PreviewKept
    BY DEF Init, Rest, PreviewKept
<1> QED
    BY <1>3, <1>4, <1>5, <1>6, <1>7 DEF IInv, Sound

LEMMA AtMostOne ==
    ASSUME NEW S, \A x, y \in S : x = y
    PROVE  Cardinality(S) <= 1
<1>1. CASE S = {}
    BY <1>1, FS_EmptySet
<1>2. CASE S # {}
    <2>1. PICK x \in S : S = {x}
        BY <1>2
    <2>2. Cardinality({x}) = 1
        BY FS_Singleton
    <2> QED
        BY <2>1, <2>2
<1> QED
    BY <1>1, <1>2

\* Every state of a run satisfies IInv.
THEOREM Invariant == Spec => []IInv
<1>1. IInv /\ [Next]_vars => IInv'
    BY SoundStep, RestStep, PreviewStep DEF IInv
<1> QED
    BY <1>1, InitInv, PTL DEF Spec

\* The queue, what is in flight, the previews and the calls have the types
\* the code gives them, and #inFlight holds one choice at most.
THEOREM TypeCorrect == Spec => []TypeOK
<1>1. IInv => TypeOK
    <2> SUFFICES ASSUME IInv
                 PROVE  TypeOK
        OBVIOUS
    <2>1. Typed(Now) /\ Single(Now)
        BY DEF IInv, Sound
    <2>2. queue \in Seq(Directives) /\ inFlight \subseteq [dir : Directives, choice : Yields]
          /\ served \in [Forces -> Seq(Yields)] /\ \A y, z \in inFlight : y = z
        BY <2>1 DEF Typed, Single, Now
    <2>3. Cardinality(inFlight) <= 1
        BY <2>2, AtMostOne
    <2> QED
        BY <2>2, <2>3 DEF IInv, Rest, TypeOK
<1> QED
    BY <1>1, Invariant, PTL

\* Each of the two calls a user's force asks for is resolved at most once,
\* whatever was rejected, requeued, dropped or left in flight between.
THEOREM ServedOnceHolds == Spec => []ServedOnce
<1>1. IInv => ServedOnce
    <2> SUFFICES ASSUME IInv, NEW f \in Forces, NEW c \in Yields
                 PROVE  Times(f, c) <= 1
        BY DEF ServedOnce
    <2> DEFINE T == {i \in DOMAIN served[f] : served[f][i] = c}
    <2>1. \A i, j \in T : i = j
        BY DEF IInv, Sound, OnceServed, Now
    <2>2. Cardinality(T) <= 1
        BY <2>1, AtMostOne
    <2> QED
        BY <2>2 DEF Times
<1> QED
    BY <1>1, Invariant, PTL

\* A staged preview that no call has applied or discarded is still pending,
\* whichever calls returned or threw, and in whatever order.
THEOREM PreviewKeptHolds == Spec => []PreviewKept
<1>1. IInv => PreviewKept
    BY DEF IInv
<1> QED
    BY <1>1, Invariant, PTL

=============================================================================
