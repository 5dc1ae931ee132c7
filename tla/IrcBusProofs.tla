---------------------------- MODULE IrcBusProofs ----------------------------
(***************************************************************************)
(* Proofs about IrcBus, for any set of messages, senders and tool calls and *)
(* any capacity of the mailbox: the bus implements PeerChannel.            *)
(***************************************************************************)
EXTENDS IrcBus, SequenceTheorems, TLAPS

\* The inductive invariant. That a sender is told once (ReceiptFits) rests on
\* who still awaits an answer being exact: a waiter that was answered must not
\* be parked any more (AnsweredOnce), and a message in the mailbox must be one
\* whose hand-over failed (MailExact).
IInv == TypeOK /\ MailExact /\ AnsweredOnce /\ ReceiptFits

\* Without(q, i) is q without its entry i, in order.
LEMMA WithoutFacts ==
    ASSUME NEW S, NEW q \in Seq(S), NEW i \in 1..Len(q)
    PROVE  /\ Without(q, i) \in Seq(S)
           /\ Len(Without(q, i)) = Len(q) - 1
           /\ \A j \in 1..(Len(q) - 1) :
                  Without(q, i)[j] = IF j < i THEN q[j] ELSE q[j + 1]
  <1> DEFINE a == SubSeq(q, 1, i - 1)
             b == SubSeq(q, i + 1, Len(q))
  <1>1. Len(q) \in Nat /\ i \in Nat /\ i >= 1 /\ i <= Len(q)
    BY LenProperties
  <1>2. /\ a \in Seq(S) /\ Len(a) = i - 1
        /\ \A j \in 1..(i - 1) : a[j] = q[j]
    <2>1. \A j \in 1..(i - 1) : q[j] \in S
      BY <1>1
    <2>2. /\ a \in Seq(S)
          /\ Len(a) = IF 1 <= i - 1 THEN (i - 1) - 1 + 1 ELSE 0
          /\ \A j \in 1..((i - 1) - 1 + 1) : a[j] = q[1 + j - 1]
      BY <1>1, <2>1, 1 \in Int, i - 1 \in Int, SubSeqProperties
    <2>3. \A j \in 1..(i - 1) : 1 + j - 1 = j
      BY <1>1
    <2> QED
      BY <1>1, <2>2, <2>3
  <1>3. /\ b \in Seq(S) /\ Len(b) = Len(q) - i
        /\ \A j \in 1..(Len(q) - i) : b[j] = q[i + j]
    <2>1. \A j \in (i + 1)..Len(q) : q[j] \in S
      BY <1>1
    <2>2. /\ b \in Seq(S)
          /\ Len(b) = IF i + 1 <= Len(q) THEN Len(q) - (i + 1) + 1 ELSE 0
          /\ \A j \in 1..(Len(q) - (i + 1) + 1) : b[j] = q[(i + 1) + j - 1]
      BY <1>1, <2>1, i + 1 \in Int, Len(q) \in Int, SubSeqProperties
    <2>3. \A j \in 1..(Len(q) - i) : (i + 1) + j - 1 = i + j
      BY <1>1
    <2> QED
      BY <1>1, <2>2, <2>3
  <1> HIDE DEF a, b
  <1>4. /\ a \o b \in Seq(S) /\ Len(a \o b) = Len(q) - 1
        /\ \A j \in 1..(Len(q) - 1) :
               (a \o b)[j] = IF j < i THEN a[j] ELSE b[j - (i - 1)]
    <2>1. /\ a \o b \in Seq(S)
          /\ Len(a \o b) = Len(a) + Len(b)
          /\ \A j \in 1..(Len(a) + Len(b)) :
                 (a \o b)[j] = IF j <= Len(a) THEN a[j] ELSE b[j - Len(a)]
      BY <1>2, <1>3, ConcatProperties
    <2>2. Len(a) + Len(b) = Len(q) - 1
      BY <1>1, <1>2, <1>3
    <2>3. \A j \in 1..(Len(q) - 1) : j < i <=> j <= Len(a)
      BY <1>1, <1>2
    <2> QED
      BY <1>2, <2>1, <2>2, <2>3
  <1>5. \A j \in 1..(Len(q) - 1) : ~(j < i) =>
            j - (i - 1) \in 1..(Len(q) - i) /\ i + (j - (i - 1)) = j + 1
    BY <1>1
  <1>6. \A j \in 1..(Len(q) - 1) : j < i => j \in 1..(i - 1)
    BY <1>1
  <1>7. \A j \in 1..(Len(q) - 1) :
            (a \o b)[j] = IF j < i THEN q[j] ELSE q[j + 1]
    BY <1>2, <1>3, <1>4, <1>5, <1>6
  <1> QED
    BY <1>4, <1>7 DEF Without, a, b

\* What leaves a sequence without repetition is no longer in it, all else is.
LEMMA WithoutOnce ==
    ASSUME NEW S, NEW q \in Seq(S), NEW i \in 1..Len(q),
           \A j, k \in 1..Len(q) : q[j] = q[k] => j = k
    PROVE  /\ Without(q, i) \in Seq(S) /\ Len(Without(q, i)) = Len(q) - 1
           /\ \A j, k \in 1..Len(Without(q, i)) :
                  Without(q, i)[j] = Without(q, i)[k] => j = k
           /\ \A x : (\E j \in 1..Len(Without(q, i)) : Without(q, i)[j] = x)
                     <=> x # q[i] /\ \E j \in 1..Len(q) : q[j] = x
  <1> DEFINE r == Without(q, i)
             at(j) == IF j < i THEN j ELSE j + 1
  <1>1. Len(q) \in Nat /\ i \in Nat /\ i >= 1 /\ i <= Len(q)
    BY LenProperties
  <1>2. r \in Seq(S) /\ Len(r) = Len(q) - 1
        /\ \A j \in 1..(Len(q) - 1) : r[j] = q[at(j)]
    BY WithoutFacts
  <1> HIDE DEF r
  <1>3. \A j \in 1..Len(r) : at(j) \in 1..Len(q) /\ at(j) # i
    BY <1>1, <1>2
  <1>4. \A j, k \in 1..Len(r) : at(j) = at(k) => j = k
    BY <1>1, <1>2
  <1>5. \A j, k \in 1..Len(r) : r[j] = r[k] => j = k
    BY <1>2, <1>3, <1>4
  <1>6. ASSUME NEW x, NEW j \in 1..Len(r), r[j] = x
        PROVE  x # q[i] /\ \E k \in 1..Len(q) : q[k] = x
    BY <1>2, <1>3, <1>6
  <1>7. ASSUME NEW x, x # q[i], NEW k \in 1..Len(q), q[k] = x
        PROVE  \E j \in 1..Len(r) : r[j] = x
    <2>1. CASE k < i
      <3>1. k \in 1..Len(r) /\ at(k) = k
        BY <1>1, <1>2, <2>1
      <3> QED
        BY <1>2, <1>7, <3>1
    <2>2. CASE ~(k < i)
      <3>1. k # i
        BY <1>7
      <3>2. k - 1 \in 1..Len(r) /\ at(k - 1) = k
        BY <1>1, <1>2, <2>2, <3>1
      <3> QED
        BY <1>2, <1>7, <3>2
    <2> QED
      BY <2>1, <2>2
  <1> QED
    BY <1>2, <1>5, <1>6, <1>7 DEF r

\* The calls are none of the other places.
LEMMA CallsApart ==
    \A w \in Calls : w \notin {"unsent", "reviving", "resumed", "thrown", "mailbox",
                               "context", "result", "refused", "dropped", "ignored"}
  BY CallAssumption

LEMMA InitIInv == Init => IInv
  <1> SUFFICES ASSUME Init PROVE IInv
    OBVIOUS
  <1>1. Len(<<>>) = 0 /\ \A S : <<>> \in Seq(S)
    OBVIOUS
  <1>2. TypeOK
    BY <1>1, CapAssumption DEF Init, TypeOK
  <1>3. MailExact /\ ReceiptFits
    BY DEF Init, MailExact, ReceiptFits
  <1>4. AnsweredOnce
    BY CallsApart DEF Init, AnsweredOnce
  <1> QED
    BY <1>2, <1>3, <1>4 DEF IInv

-----------------------------------------------------------------------------
(* Each action preserves the invariant. *)

Peers == {"live", "disposing", "parked", "gone"}
Elsewhere == {"unsent", "reviving", "resumed", "thrown", "context", "result",
              "refused", "dropped", "ignored"}
Pending == {"unsent", "reviving", "resumed", "thrown"}

\* A message that is neither in the mailbox nor with a call moves to a place
\* that is neither, and its receipt follows.
LEMMA MoveIInv ==
    ASSUME IInv, NEW m \in Msgs, NEW p \in Elsewhere, NEW r \in {"none", "delivered", "failed"},
           place[m] \in Elsewhere, p \in Pending <=> r = "none",
           place' = [place EXCEPT ![m] = p], receipt' = [receipt EXCEPT ![m] = r],
           peer' \in Peers, UNCHANGED <<mail, waiters, call>>
    PROVE  IInv'
  <1> USE DEF IInv
  <1>1. TypeOK'
    BY DEF TypeOK, Elsewhere, Peers
  <1>2. \A n \in Msgs : place'[n] = IF n = m THEN p ELSE place[n]
    BY DEF TypeOK
  <1>3. \A n \in Msgs : receipt'[n] = IF n = m THEN r ELSE receipt[n]
    BY DEF TypeOK
  <1>4. MailExact'
    BY <1>2 DEF MailExact, Elsewhere
  <1>5. p \notin Calls
    BY CallsApart DEF Elsewhere
  <1>6. AnsweredOnce'
    BY <1>2, <1>5 DEF AnsweredOnce
  <1>7. ReceiptFits'
    BY <1>2, <1>3 DEF ReceiptFits, Pending
  <1> QED
    BY <1>1, <1>4, <1>6, <1>7

LEMMA FailIInv ==
    ASSUME IInv, NEW m \in Msgs, place[m] \in Pending, Fail(m)
    PROVE  IInv'
  <1>1. place[m] \in Elsewhere /\ "refused" \in Elsewhere /\ "refused" \notin Pending
    BY DEF Pending, Elsewhere
  <1>2. peer' \in Peers
    BY DEF IInv, TypeOK, Fail, Peers
  <1> QED
    BY <1>1, <1>2, MoveIInv DEF Fail, Receipt

\* A waiter that is answered leaves the queue with the message in hand.
LEMMA GiveToWaiterIInv ==
    ASSUME IInv, NEW m \in Msgs, place[m] \in Pending, GiveToWaiter(m)
    PROVE  IInv'
  <1> USE DEF IInv
  <1>1. PICK i \in 1..Len(waiters) :
            /\ place' = [place EXCEPT ![m] = waiters[i]]
            /\ call' = [call EXCEPT ![waiters[i]] = "got"]
            /\ waiters' = Without(waiters, i)
            /\ receipt' = [receipt EXCEPT ![m] = "delivered"]
            /\ UNCHANGED <<peer, mail>>
    BY DEF GiveToWaiter, Oldest, Matching, Receipt
  <1> DEFINE w == waiters[i]
  <1>2. waiters \in Seq(Calls) /\ w \in Calls /\ call[w] = "waiting"
    BY DEF TypeOK, AnsweredOnce
  <1>3. /\ waiters' \in Seq(Calls)
        /\ \A j, k \in 1..Len(waiters') : waiters'[j] = waiters'[k] => j = k
        /\ \A x : (\E j \in 1..Len(waiters') : waiters'[j] = x)
                  <=> x # w /\ \E j \in 1..Len(waiters) : waiters[j] = x
    <2>1. \A j, k \in 1..Len(waiters) : waiters[j] = waiters[k] => j = k
      BY DEF AnsweredOnce
    <2>2. /\ Without(waiters, i) \in Seq(Calls)
          /\ \A j, k \in 1..Len(Without(waiters, i)) :
                 Without(waiters, i)[j] = Without(waiters, i)[k] => j = k
          /\ \A x : (\E j \in 1..Len(Without(waiters, i)) : Without(waiters, i)[j] = x)
                    <=> x # waiters[i] /\ \E j \in 1..Len(waiters) : waiters[j] = x
      BY <1>2, <2>1, WithoutOnce, ZenonT(60)
    <2> QED
      BY <1>1, <2>2
  <1> HIDE DEF w
  <1>4. \A n \in Msgs : place'[n] = IF n = m THEN w ELSE place[n]
    BY <1>1 DEF TypeOK, w
  <1>5. \A x \in Calls : call'[x] = IF x = w THEN "got" ELSE call[x]
    BY <1>1 DEF TypeOK, w
  <1>6. \A n \in Msgs : receipt'[n] = IF n = m THEN "delivered" ELSE receipt[n]
    BY <1>1 DEF TypeOK
  <1>7. w \notin Pending /\ w # "mailbox" /\ place[m] # "mailbox" /\ place[m] \notin Calls
    BY <1>2, CallsApart DEF Pending
  <1>8. \A n \in Msgs : place[n] # w
    BY <1>2 DEF AnsweredOnce
  <1>9. TypeOK'
    BY <1>1, <1>2, <1>3 DEF TypeOK, w
  <1>10. MailExact'
    BY <1>1, <1>4, <1>7 DEF MailExact
  <1>11. AnsweredOnce'
    <2>1. \A x \in Calls : call'[x] = "waiting" <=> \E j \in 1..Len(waiters') : waiters'[j] = x
      BY <1>2, <1>3, <1>5, ZenonT(60) DEF AnsweredOnce
    <2>2. ASSUME NEW n \in Msgs, NEW k \in Msgs, place'[n] \in Calls
          PROVE  call'[place'[n]] = "got" /\ (place'[k] = place'[n] => k = n)
      BY <1>4, <1>5, <1>7, <1>8, <2>2, <1>2 DEF AnsweredOnce
    <2> QED
      BY <1>3, <2>1, <2>2 DEF AnsweredOnce
  <1>12. ReceiptFits'
    BY <1>4, <1>6, <1>7 DEF ReceiptFits, Pending
  <1> QED
    BY <1>9, <1>10, <1>11, <1>12

LEMMA GiveToSessionIInv ==
    ASSUME IInv, NEW m \in Msgs, place[m] \in Pending, GiveToSession(m)
    PROVE  IInv'
  <1>1. place[m] \in Elsewhere
    BY DEF Pending, Elsewhere
  <1>2. peer' \in Peers
    BY DEF IInv, TypeOK, GiveToSession, Peers
  <1>3. CASE place' = [place EXCEPT ![m] = "context"] /\ Receipt(m, "delivered")
    <2>1. "context" \in Elsewhere /\ "context" \notin Pending
      BY DEF Elsewhere, Pending
    <2> QED
      BY <1>1, <1>2, <1>3, <2>1, MoveIInv DEF GiveToSession, Receipt
  <1>4. CASE place' = [place EXCEPT ![m] = "thrown"] /\ UNCHANGED receipt
    <2>1. "thrown" \in Elsewhere /\ "thrown" \in Pending
      BY DEF Elsewhere, Pending
    <2>2. receipt[m] = "none" /\ receipt' = [receipt EXCEPT ![m] = "none"]
      BY <1>4 DEF IInv, TypeOK, ReceiptFits, Pending
    <2> QED
      BY <1>1, <1>2, <1>4, <2>1, <2>2, MoveIInv DEF GiveToSession
  <1> QED
    BY <1>3, <1>4 DEF GiveToSession

LEMMA HandOverIInv ==
    ASSUME IInv, NEW m \in Msgs, place[m] \in Pending, HandOver(m)
    PROVE  IInv'
  BY FailIInv, GiveToWaiterIInv, GiveToSessionIInv DEF HandOver

LEMMA SendIInv ==
    ASSUME IInv, NEW m \in Msgs, Send(m)
    PROVE  IInv'
  <1>1. place[m] \in Pending /\ place[m] \in Elsewhere
    BY DEF Send, Pending, Elsewhere
  <1>2. CASE /\ place' = [place EXCEPT ![m] = "reviving"]
             /\ UNCHANGED <<peer, receipt, mail, waiters, call>>
    <2>1. "reviving" \in Elsewhere /\ "reviving" \in Pending
      BY DEF Elsewhere, Pending
    <2>2. receipt' = [receipt EXCEPT ![m] = "none"] /\ peer' \in Peers
      BY <1>1, <1>2 DEF IInv, TypeOK, ReceiptFits, Pending, Peers
    <2> QED
      BY <1>1, <1>2, <2>1, <2>2, MoveIInv
  <1> QED
    BY <1>1, <1>2, FailIInv, HandOverIInv DEF Send

\* The mailbox takes a message at its end, and drops its oldest if it is full.
LEMMA BufferIInv ==
    ASSUME IInv, NEW m \in Msgs, Buffer(m)
    PROVE  IInv'
  <1> USE DEF IInv
  <1> DEFINE full == Len(mail) >= Cap
             kept == IF full THEN Tail(mail) ELSE mail
             d    == IF full THEN 1 ELSE 0
  <1>1. mail \in Seq(Msgs) /\ Len(mail) \in Nat /\ Cap \in Nat /\ Cap >= 1 /\ Len(mail) <= Cap
    BY CapAssumption, LenProperties DEF TypeOK
  <1>2. full => mail # <<>> /\ Head(mail) = mail[1] /\ 1 \in 1..Len(mail)
    BY <1>1
  <1>3. /\ kept \in Seq(Msgs) /\ Len(kept) = Len(mail) - d
        /\ \A j \in 1..Len(kept) : kept[j] = mail[j + d]
    <2>1. CASE full
      BY <1>1, <1>2, <2>1, HeadTailProperties
    <2>2. CASE ~full
      BY <1>1, <2>2
    <2> QED
      BY <2>1, <2>2
  <1>4. d \in {0, 1} /\ Len(kept) \in Nat /\ Len(kept) + 1 <= Cap
    BY <1>1, <1>3
  <1>5. mail' = Append(kept, m) /\ place[m] = "thrown" /\ UNCHANGED <<peer, waiters, call>>
        /\ receipt' = [receipt EXCEPT ![m] = "failed"]
    BY DEF Buffer, Receipt
  <1>6. \A n \in Msgs : place'[n] = IF n = m THEN "mailbox"
                                    ELSE IF full /\ n = mail[1] THEN "dropped" ELSE place[n]
    BY <1>2 DEF Buffer
  <1>7. place' = [n \in Msgs |-> IF n = m THEN "mailbox"
                                 ELSE IF full /\ n = Head(mail) THEN "dropped" ELSE place[n]]
    BY DEF Buffer
  <1> HIDE DEF kept, full, d
  <1>8. /\ mail' \in Seq(Msgs) /\ Len(mail') = Len(kept) + 1
        /\ \A j \in 1..Len(kept) : mail'[j] = kept[j]
        /\ mail'[Len(kept) + 1] = m
    BY <1>3, <1>5, AppendProperties
  <1>9. \A j \in 1..Len(mail) : mail[j] # m
    BY <1>5 DEF MailExact
  <1>10. \A j \in 1..Len(kept) : j + d \in 1..Len(mail) /\ mail'[j] = mail[j + d]
    <2>1. \A j \in 1..Len(kept) : j + d \in 1..Len(mail)
      BY <1>1, <1>3, <1>4
    <2> QED
      BY <1>3, <1>8, <2>1
  <1>11. TypeOK'
    BY <1>1, <1>4, <1>5, <1>7, <1>8 DEF TypeOK
  <1>12. MailExact'
    <2>1. ASSUME NEW j \in 1..Len(mail'), NEW k \in 1..Len(mail'), mail'[j] = mail'[k]
          PROVE  j = k
      <3>1. j \in 1..Len(kept) \/ j = Len(kept) + 1
        BY <1>4, <1>8
      <3>2. k \in 1..Len(kept) \/ k = Len(kept) + 1
        BY <1>4, <1>8
      <3>3. CASE j \in 1..Len(kept) /\ k \in 1..Len(kept)
        <4>1. j + d = k + d
          BY <1>10, <2>1, <3>3 DEF MailExact
        <4> QED
          BY <1>4, <4>1, <3>3
      <3> QED
        BY <1>8, <1>9, <1>10, <2>1, <3>1, <3>2, <3>3
    <2>2. ASSUME NEW n \in Msgs, NEW j \in 1..Len(mail'), mail'[j] = n
          PROVE  place'[n] = "mailbox"
      <3>1. CASE j = Len(kept) + 1
        BY <1>6, <1>8, <2>2, <3>1
      <3>2. CASE j \in 1..Len(kept)
        <4>1. mail[j + d] = n /\ j + d \in 1..Len(mail)
          BY <1>10, <2>2, <3>2
        <4>2. place[n] = "mailbox"
          BY <4>1 DEF MailExact
        <4>3. full => n # mail[1]
          <5>1. full => d = 1 /\ j + d # 1
            BY <3>2 DEF d
          <5> QED
            BY <1>2, <4>1, <5>1 DEF MailExact
        <4> QED
          BY <1>6, <4>2, <4>3
      <3> QED
        BY <1>4, <1>8, <3>1, <3>2
    <2>3. ASSUME NEW n \in Msgs, place'[n] = "mailbox"
          PROVE  \E j \in 1..Len(mail') : mail'[j] = n
      <3>1. CASE n = m
        BY <1>4, <1>8, <3>1
      <3>2. CASE n # m
        <4>1. place[n] = "mailbox" /\ ~(full /\ n = mail[1])
          BY <1>6, <2>3, <3>2
        <4>2. PICK k \in 1..Len(mail) : mail[k] = n
          BY <4>1 DEF MailExact
        <4>3. k - d \in 1..Len(kept) /\ (k - d) + d = k
          <5>1. full => k # 1
            BY <4>1, <4>2
          <5> QED
            BY <1>1, <1>3, <5>1 DEF d
        <4>4. mail'[k - d] = n /\ k - d \in 1..Len(mail')
          BY <1>4, <1>8, <1>10, <4>2, <4>3
        <4> QED
          BY <4>4
      <3> QED
        BY <3>1, <3>2
    <2> QED
      BY <2>1, <2>2, <2>3 DEF MailExact
  <1>13. AnsweredOnce'
    <2>1. \A n \in Msgs : place'[n] \in Calls => place'[n] = place[n]
      BY <1>6, CallsApart
    <2> QED
      BY <1>5, <2>1 DEF AnsweredOnce
  <1>14. ReceiptFits'
    <2>1. \A n \in Msgs : receipt'[n] = IF n = m THEN "failed" ELSE receipt[n]
      BY <1>5 DEF TypeOK
    <2>2. full => place[mail[1]] = "mailbox"
      BY <1>1, <1>2 DEF MailExact
    <2> QED
      BY <1>2, <1>6, <2>1, <2>2 DEF ReceiptFits
  <1> QED
    BY <1>11, <1>12, <1>13, <1>14

\* A wait satisfied by mail takes its message out of the mailbox.
LEMMA WaitTakesIInv ==
    ASSUME IInv, NEW w \in Calls, WaitTakes(w)
    PROVE  IInv'
  <1> USE DEF IInv
  <1>1. PICK i \in 1..Len(mail) :
            mail' = Without(mail, i) /\ place' = [place EXCEPT ![mail[i]] = "result"]
    BY DEF WaitTakes, Oldest, Buffered
  <1> DEFINE m == mail[i]
  <1>2. /\ call[w] = "idle" /\ call' = [call EXCEPT ![w] = "over"]
        /\ UNCHANGED <<peer, receipt, waiters>>
    BY DEF WaitTakes
  <1>3. mail \in Seq(Msgs) /\ m \in Msgs /\ place[m] = "mailbox"
    BY DEF TypeOK, MailExact
  <1>4. /\ mail' \in Seq(Msgs) /\ Len(mail') = Len(mail) - 1
        /\ \A j, k \in 1..Len(mail') : mail'[j] = mail'[k] => j = k
        /\ \A x : (\E j \in 1..Len(mail') : mail'[j] = x)
                  <=> x # m /\ \E j \in 1..Len(mail) : mail[j] = x
    <2>1. \A j, k \in 1..Len(mail) : mail[j] = mail[k] => j = k
      BY DEF MailExact
    <2>2. /\ Without(mail, i) \in Seq(Msgs) /\ Len(Without(mail, i)) = Len(mail) - 1
          /\ \A j, k \in 1..Len(Without(mail, i)) :
                 Without(mail, i)[j] = Without(mail, i)[k] => j = k
          /\ \A x : (\E j \in 1..Len(Without(mail, i)) : Without(mail, i)[j] = x)
                    <=> x # mail[i] /\ \E j \in 1..Len(mail) : mail[j] = x
      BY <1>3, <2>1, WithoutOnce, ZenonT(60)
    <2> QED
      BY <1>1, <2>2
  <1>5. Len(mail) \in Nat /\ Cap \in Nat /\ Len(mail') <= Cap
    BY <1>3, <1>4, CapAssumption, LenProperties DEF TypeOK
  <1> HIDE DEF m
  <1>6. \A n \in Msgs : place'[n] = IF n = m THEN "result" ELSE place[n]
    BY <1>1 DEF TypeOK, m
  <1>7. \A x \in Calls : call'[x] = IF x = w THEN "over" ELSE call[x]
    BY <1>2 DEF TypeOK
  <1>8. TypeOK'
    BY <1>1, <1>2, <1>4, <1>5 DEF TypeOK, m
  <1>9. MailExact'
    BY <1>3, <1>4, <1>6 DEF MailExact
  <1>10. AnsweredOnce'
    <2>1. \A n \in Msgs : place'[n] \in Calls => place'[n] = place[n] /\ place[n] # w
      BY <1>2, <1>6, CallsApart DEF AnsweredOnce
    <2> QED
      BY <1>2, <1>7, <2>1 DEF AnsweredOnce
  <1>11. ReceiptFits'
    BY <1>2, <1>3, <1>6 DEF ReceiptFits
  <1> QED
    BY <1>8, <1>9, <1>10, <1>11

\* What changes calls and waiters and no message's place.
LEMMA WaitParksIInv ==
    ASSUME IInv, NEW w \in Calls, WaitParks(w)
    PROVE  IInv'
  <1> USE DEF IInv
  <1>1. /\ call[w] = "idle" /\ waiters' = Append(waiters, w)
        /\ call' = [call EXCEPT ![w] = "waiting"]
        /\ UNCHANGED <<peer, place, receipt, mail>>
    BY DEF WaitParks
  <1>2. waiters \in Seq(Calls) /\ Len(waiters) \in Nat
    BY LenProperties DEF TypeOK
  <1>3. /\ waiters' \in Seq(Calls) /\ Len(waiters') = Len(waiters) + 1
        /\ \A j \in 1..Len(waiters) : waiters'[j] = waiters[j]
        /\ waiters'[Len(waiters) + 1] = w
    BY <1>1, <1>2, AppendProperties
  <1>4. \A x \in Calls : call'[x] = IF x = w THEN "waiting" ELSE call[x]
    BY <1>1 DEF TypeOK
  <1>5. \A j \in 1..Len(waiters) : waiters[j] # w
    BY <1>1 DEF AnsweredOnce
  <1>6. TypeOK'
    BY <1>1, <1>3 DEF TypeOK
  <1>7. AnsweredOnce'
    <2>1. \A j \in 1..Len(waiters') : j \in 1..Len(waiters) \/ j = Len(waiters) + 1
      BY <1>2, <1>3
    <2>2. \A j, k \in 1..Len(waiters') : waiters'[j] = waiters'[k] => j = k
      BY <1>3, <1>5, <2>1 DEF AnsweredOnce
    <2>3. \A j \in 1..Len(waiters) : j \in 1..Len(waiters')
      BY <1>2, <1>3
    <2>4. Len(waiters) + 1 \in 1..Len(waiters')
      BY <1>2, <1>3
    <2>5. \A x \in Calls : call'[x] = "waiting" <=> \E j \in 1..Len(waiters') : waiters'[j] = x
      BY <1>3, <1>4, <2>1, <2>3, <2>4 DEF AnsweredOnce
    <2>6. \A n \in Msgs : place[n] \in Calls => place[n] # w
      BY <1>1 DEF AnsweredOnce
    <2> QED
      BY <1>1, <1>4, <2>2, <2>5, <2>6 DEF AnsweredOnce
  <1> QED
    BY <1>1, <1>6, <1>7 DEF MailExact, ReceiptFits

LEMMA WaitEndsIInv ==
    ASSUME IInv, NEW w \in Calls, WaitEnds(w)
    PROVE  IInv'
  <1> USE DEF IInv
  <1>1. PICK i \in 1..Len(waiters) : waiters[i] = w /\ waiters' = Without(waiters, i)
    BY DEF WaitEnds
  <1>2. /\ call[w] = "waiting" /\ call' = [call EXCEPT ![w] = "over"]
        /\ UNCHANGED <<peer, place, receipt, mail>>
    BY DEF WaitEnds
  <1>3. /\ waiters' \in Seq(Calls)
        /\ \A j, k \in 1..Len(waiters') : waiters'[j] = waiters'[k] => j = k
        /\ \A x : (\E j \in 1..Len(waiters') : waiters'[j] = x)
                  <=> x # w /\ \E j \in 1..Len(waiters) : waiters[j] = x
    <2>1. waiters \in Seq(Calls) /\ \A j, k \in 1..Len(waiters) : waiters[j] = waiters[k] => j = k
      BY DEF AnsweredOnce, TypeOK
    <2>2. /\ Without(waiters, i) \in Seq(Calls)
          /\ \A j, k \in 1..Len(Without(waiters, i)) :
                 Without(waiters, i)[j] = Without(waiters, i)[k] => j = k
          /\ \A x : (\E j \in 1..Len(Without(waiters, i)) : Without(waiters, i)[j] = x)
                    <=> x # waiters[i] /\ \E j \in 1..Len(waiters) : waiters[j] = x
      BY <2>1, WithoutOnce, ZenonT(60)
    <2> QED
      BY <1>1, <2>2
  <1>4. \A x \in Calls : call'[x] = IF x = w THEN "over" ELSE call[x]
    BY <1>2 DEF TypeOK
  <1>5. TypeOK'
    BY <1>2, <1>3 DEF TypeOK
  <1>6. AnsweredOnce'
    <2>1. \A n \in Msgs : place[n] \in Calls => place[n] # w
      BY <1>2 DEF AnsweredOnce
    <2>2. \A x \in Calls : call'[x] = "waiting" <=> \E j \in 1..Len(waiters') : waiters'[j] = x
      <3> SUFFICES ASSUME NEW x \in Calls
                   PROVE  call'[x] = "waiting" <=> \E j \in 1..Len(waiters') : waiters'[j] = x
        OBVIOUS
      <3>1. (\E j \in 1..Len(waiters') : waiters'[j] = x)
            <=> x # w /\ \E j \in 1..Len(waiters) : waiters[j] = x
        BY <1>3
      <3>2. call[x] = "waiting" <=> \E j \in 1..Len(waiters) : waiters[j] = x
        BY DEF AnsweredOnce
      <3> QED
        BY <1>4, <3>1, <3>2
    <2>3. \A m, n \in Msgs : place'[m] \in Calls =>
              call'[place'[m]] = "got" /\ (place'[n] = place'[m] => n = m)
      BY <1>2, <1>4, <2>1 DEF AnsweredOnce
    <2> QED
      BY <1>3, <2>2, <2>3 DEF AnsweredOnce
  <1> QED
    BY <1>2, <1>5, <1>6 DEF MailExact, ReceiptFits

\* The call that returns is the only one with its message.
LEMMA CallReturnsIInv ==
    ASSUME IInv, NEW w \in Calls, CallReturns(w)
    PROVE  IInv'
  <1> USE DEF IInv
  <1>1. PICK how \in {"result", "ignored"} :
            place' = [m \in Msgs |-> IF place[m] = w THEN how ELSE place[m]]
    BY DEF CallReturns
  <1>2. /\ call[w] = "got" /\ call' = [call EXCEPT ![w] = "over"]
        /\ UNCHANGED <<peer, receipt, mail, waiters>>
    BY DEF CallReturns
  <1>3. \A n \in Msgs : place'[n] = IF place[n] = w THEN how ELSE place[n]
    BY <1>1
  <1>4. \A x \in Calls : call'[x] = IF x = w THEN "over" ELSE call[x]
    BY <1>2 DEF TypeOK
  <1>5. w \notin Pending /\ w # "mailbox" /\ how \notin Pending /\ how # "mailbox" /\ how \notin Calls
    BY CallsApart DEF Pending
  <1>6. TypeOK'
    BY <1>1, <1>2 DEF TypeOK
  <1>7. MailExact'
    BY <1>2, <1>3, <1>5 DEF MailExact
  <1>8. AnsweredOnce'
    <2>1. \A n \in Msgs : place'[n] \in Calls => place'[n] = place[n] /\ place[n] # w
      BY <1>3, <1>5
    <2> QED
      BY <1>2, <1>4, <2>1 DEF AnsweredOnce
  <1>9. ReceiptFits'
    BY <1>2, <1>3, <1>5 DEF ReceiptFits, Pending
  <1> QED
    BY <1>6, <1>7, <1>8, <1>9

LEMMA InboxIInv == ASSUME IInv, Inbox PROVE IInv'
  <1> USE DEF IInv
  <1>1. /\ place' = [m \in Msgs |-> IF place[m] = "mailbox" THEN "result" ELSE place[m]]
        /\ mail' = <<>> /\ UNCHANGED <<peer, receipt, waiters, call>>
    BY DEF Inbox
  <1>2. \A n \in Msgs : place'[n] = IF place[n] = "mailbox" THEN "result" ELSE place[n]
    BY <1>1
  <1>3. TypeOK'
    BY <1>1, CapAssumption DEF TypeOK
  <1>4. MailExact'
    BY <1>1, <1>2 DEF MailExact
  <1>5. AnsweredOnce'
    <2>1. \A n \in Msgs : place'[n] \in Calls => place'[n] = place[n]
      BY <1>2, CallsApart
    <2> QED
      BY <1>1, <2>1 DEF AnsweredOnce
  <1>6. ReceiptFits'
    BY <1>1, <1>2 DEF ReceiptFits
  <1> QED
    BY <1>3, <1>4, <1>5, <1>6

LEMMA LifeIInv ==
    ASSUME IInv, DisposeBegins \/ DisposeEnds \/ Released \/ Revive
    PROVE  IInv'
  <1> USE DEF IInv
  <1>1. UNCHANGED <<receipt, mail, waiters, call>> /\ peer' \in Peers
    BY DEF DisposeBegins, DisposeEnds, Released, Revive, Life, Peers
  <1>2. \A n \in Msgs : \/ place'[n] = place[n]
                        \/ place[n] = "reviving" /\ place'[n] = "resumed"
    BY DEF DisposeBegins, DisposeEnds, Released, Revive, Reviving, TypeOK
  <1>3. place' \in [Msgs -> Elsewhere \cup {"mailbox"} \cup Calls]
    BY DEF DisposeBegins, DisposeEnds, Released, Revive, Reviving, TypeOK, Elsewhere
  <1>4. TypeOK'
    BY <1>1, <1>3 DEF TypeOK, Elsewhere, Peers
  <1>5. AnsweredOnce'
    <2>1. \A n \in Msgs : place'[n] \in Calls => place'[n] = place[n]
      BY <1>2, CallsApart
    <2> QED
      BY <1>1, <2>1 DEF AnsweredOnce
  <1>6. MailExact' /\ ReceiptFits'
    BY <1>1, <1>2 DEF MailExact, ReceiptFits
  <1> QED
    BY <1>4, <1>5, <1>6

LEMMA StepIInv == IInv /\ [Next]_vars => IInv'
  <1> SUFFICES ASSUME IInv, [Next]_vars PROVE IInv'
    OBVIOUS
  <1>1. ASSUME NEW m \in Msgs, ResumeSend(m) PROVE IInv'
    BY <1>1, HandOverIInv DEF ResumeSend, Pending
  <1>2. ASSUME NEW m \in Msgs, ReviveFails(m) PROVE IInv'
    BY <1>2, FailIInv DEF ReviveFails, Pending
  <1>3. CASE UNCHANGED vars
    BY <1>3 DEF vars, IInv, TypeOK, MailExact, AnsweredOnce, ReceiptFits
  <1> QED
    BY <1>1, <1>2, <1>3, SendIInv, BufferIInv, WaitTakesIInv, WaitParksIInv, WaitEndsIInv,
       CallReturnsIInv, InboxIInv, LifeIInv DEF Next

\* In every reachable state the mailbox, the parked waiters and the receipts
\* are exact.
THEOREM Invariance == Spec => []IInv
  BY InitIInv, StepIInv, PTL DEF Spec

\* The state of the bus is of its type.
THEOREM TypeCorrect == Spec => []TypeOK
  BY Invariance, PTL DEF IInv

\* A message is in the mailbox once if it is kept for later, and not at all if
\* it was handed over.
THEOREM MailIsExact == Spec => []MailExact
  BY Invariance, PTL DEF IInv

\* A parked waiter is answered once and by one message.
THEOREM WaiterAnsweredOnce == Spec => []AnsweredOnce
  BY Invariance, PTL DEF IInv

-----------------------------------------------------------------------------
(* The bus implements PeerChannel. *)

State == [m \in Msgs |-> Abstract(place[m])]

\* What the abstraction makes of each place.
LEMMA AbstractFacts ==
    /\ \A w \in Calls : Abstract(w) = "held"
    /\ Abstract("unsent") = "unsent"
    /\ \A p \in {"reviving", "resumed", "thrown"} : Abstract(p) = "underWay"
    /\ Abstract("mailbox") = "kept"
    /\ \A p \in {"context", "result"} : Abstract(p) = "seen"
    /\ \A p \in {"refused", "dropped", "ignored"} : Abstract(p) = "gone"
  <1>1. \A w \in Calls : Abstract(w) = "held"
    BY CallsApart DEF Abstract
  <1> QED
    BY <1>1 DEF Abstract

LEMMA InitMaps == Init => Channel!Init
  BY AbstractFacts DEF Init, Channel!Init

\* A message whose hand-over is pending is delivered.
LEMMA DeliverMaps ==
    ASSUME IInv, NEW m \in Msgs, NEW p, place[m] \in Pending,
           p \in {"context"} \cup Calls,
           place' = [place EXCEPT ![m] = p], Receipt(m, "delivered")
    PROVE  Channel!Next
  <1>1. receipt[m] = "none" /\ place \in [Msgs -> Elsewhere \cup {"mailbox"} \cup Calls]
    BY DEF IInv, ReceiptFits, TypeOK, Pending, Elsewhere
  <1>2. Abstract(place[m]) \in {"unsent", "underWay"}
    BY AbstractFacts DEF Pending
  <1>3. Abstract(p) \in {"held", "seen"}
    BY AbstractFacts
  <1>4. \A n \in Msgs : place'[n] = IF n = m THEN p ELSE place[n]
    BY <1>1
  <1>5. [n \in Msgs |-> Abstract(place'[n])]
          = [n \in Msgs |-> IF n \in {m} THEN Abstract(p) ELSE State[n]]
    BY <1>4 DEF State
  <1>6. Channel!Deliver(m, Abstract(p))
    BY <1>1, <1>2, <1>5 DEF Channel!Deliver, Channel!Now, State, Receipt
  <1> QED
    BY <1>3, <1>6 DEF Channel!Next

LEMMA FailMaps ==
    ASSUME IInv, NEW m \in Msgs, place[m] \in Pending, Fail(m)
    PROVE  Channel!Next
  <1>1. receipt[m] = "none" /\ place \in [Msgs -> Elsewhere \cup {"mailbox"} \cup Calls]
    BY DEF IInv, ReceiptFits, TypeOK, Pending, Elsewhere
  <1>2. Abstract(place[m]) \in {"unsent", "underWay"}
    BY AbstractFacts DEF Pending
  <1>3. \A n \in Msgs : place'[n] = IF n = m THEN "refused" ELSE place[n]
    BY <1>1 DEF Fail
  <1>4. [n \in Msgs |-> Abstract(place'[n])]
          = [n \in Msgs |-> IF n \in {m} THEN "gone" ELSE State[n]]
    BY <1>3, AbstractFacts DEF State
  <1>5. Channel!Refuse(m)
    BY <1>1, <1>2, <1>4 DEF Channel!Refuse, Channel!Now, State, Receipt, Fail
  <1> QED
    BY <1>5 DEF Channel!Next

\* Nothing the channel speaks of has changed.
LEMMA StutterMaps ==
    ASSUME receipt' = receipt, \A n \in Msgs : Abstract(place'[n]) = Abstract(place[n])
    PROVE  UNCHANGED Channel!vars
  <1>1. [n \in Msgs |-> Abstract(place'[n])] = [n \in Msgs |-> Abstract(place[n])]
    OBVIOUS
  <1> QED
    BY <1>1 DEF Channel!vars

LEMMA HandOverMaps ==
    ASSUME IInv, NEW m \in Msgs, place[m] \in Pending \ {"unsent"}, HandOver(m)
    PROVE  [Channel!Next]_(Channel!vars)
  <1>1. CASE GiveToWaiter(m)
    <2>1. PICK i \in 1..Len(waiters) :
              place' = [place EXCEPT ![m] = waiters[i]] /\ Receipt(m, "delivered")
      BY <1>1 DEF GiveToWaiter, Oldest, Matching
    <2>2. waiters[i] \in Calls
      BY DEF IInv, TypeOK
    <2> QED
      BY <2>1, <2>2, DeliverMaps
  <1>2. CASE place' = [place EXCEPT ![m] = "context"] /\ Receipt(m, "delivered")
    BY <1>2, DeliverMaps
  <1>3. CASE place' = [place EXCEPT ![m] = "thrown"] /\ UNCHANGED receipt
    <2>1. \A n \in Msgs : place'[n] = IF n = m THEN "thrown" ELSE place[n]
      BY <1>3 DEF IInv, TypeOK
    <2>2. Abstract(place[m]) = "underWay" /\ Abstract("thrown") = "underWay"
      BY AbstractFacts DEF Pending
    <2> QED
      BY <1>3, <2>1, <2>2, StutterMaps
  <1>4. CASE Fail(m)
    BY <1>4, FailMaps
  <1> QED
    BY <1>1, <1>2, <1>3, <1>4 DEF HandOver, GiveToSession

\* A send either settles at once or is under way from now on.
LEMMA SendMaps ==
    ASSUME IInv, NEW m \in Msgs, Send(m)
    PROVE  Channel!Next
  <1>1. place[m] = "unsent" /\ place[m] \in Pending
    BY DEF Send, Pending
  <1>2. ASSUME NEW p \in {"reviving", "thrown"}, place' = [place EXCEPT ![m] = p],
               UNCHANGED receipt
        PROVE  Channel!Next
    <2>1. \A n \in Msgs : place'[n] = IF n = m THEN p ELSE place[n]
      BY <1>2 DEF IInv, TypeOK
    <2>2. [n \in Msgs |-> Abstract(place'[n])]
            = [n \in Msgs |-> IF n \in {m} THEN "underWay" ELSE State[n]]
      BY <2>1, AbstractFacts DEF State
    <2>3. Channel!Send(m)
      BY <1>1, <1>2, <2>2, AbstractFacts DEF Channel!Send, Channel!Now, State
    <2> QED
      BY <2>3 DEF Channel!Next
  <1>3. CASE GiveToWaiter(m)
    <2>1. PICK i \in 1..Len(waiters) :
              place' = [place EXCEPT ![m] = waiters[i]] /\ Receipt(m, "delivered")
      BY <1>3 DEF GiveToWaiter, Oldest, Matching
    <2>2. waiters[i] \in Calls
      BY DEF IInv, TypeOK
    <2> QED
      BY <1>1, <2>1, <2>2, DeliverMaps
  <1>4. CASE place' = [place EXCEPT ![m] = "context"] /\ Receipt(m, "delivered")
    BY <1>1, <1>4, DeliverMaps
  <1>5. CASE Fail(m)
    BY <1>1, <1>5, FailMaps
  <1> QED
    BY <1>2, <1>3, <1>4, <1>5 DEF Send, HandOver, GiveToSession

\* What the catch block buffers is kept; at most the head of the mailbox goes.
LEMMA BufferMaps ==
    ASSUME IInv, NEW m \in Msgs, Buffer(m)
    PROVE  Channel!Next
  <1> DEFINE full == Len(mail) >= Cap
             out  == IF full THEN {Head(mail)} ELSE {}
  <1>1. /\ place[m] = "thrown"
        /\ place' = [n \in Msgs |-> IF n = m THEN "mailbox"
                                    ELSE IF full /\ n = Head(mail) THEN "dropped"
                                    ELSE place[n]]
        /\ Receipt(m, "failed")
    BY DEF Buffer
  <1>2. mail \in Seq(Msgs) /\ Len(mail) \in Nat /\ Cap \in Nat /\ Cap >= 1
    BY CapAssumption, LenProperties DEF IInv, TypeOK
  <1>3. full => Head(mail) = mail[1] /\ 1 \in 1..Len(mail) /\ mail[1] \in Msgs
    BY <1>2
  <1>4. \A o \in out : o \in Msgs /\ Abstract(place[o]) = "kept"
    BY <1>3, AbstractFacts DEF IInv, MailExact
  <1>5. \A o, p \in out : o = p
    OBVIOUS
  <1>6. \A n \in Msgs : place'[n] = IF n = m THEN "mailbox"
                                    ELSE IF n \in out THEN "dropped" ELSE place[n]
    BY <1>1
  <1>7. receipt[m] = "none" /\ Abstract(place[m]) = "underWay"
    BY <1>1, AbstractFacts DEF IInv, ReceiptFits
  <1> HIDE DEF out, full
  <1>8. [n \in Msgs |-> Abstract(place'[n])]
          = [n \in Msgs |-> IF n = m THEN "kept"
                            ELSE IF n \in out THEN "gone" ELSE State[n]]
    BY <1>6, AbstractFacts DEF State
  <1>9. out \in SUBSET Msgs
    BY <1>4
  <1>10. Channel!Keep(m, out)
    BY <1>1, <1>4, <1>5, <1>7, <1>8, <1>9 DEF Channel!Keep, State, Receipt
  <1> QED
    BY <1>9, <1>10 DEF Channel!Next

\* Mail that is taken out of the mailbox is seen.
LEMMA SeeMaps ==
    ASSUME NEW S \in SUBSET Msgs, \A n \in S : place[n] = "mailbox",
           \A n \in Msgs : place'[n] = IF n \in S THEN "result" ELSE place[n],
           UNCHANGED receipt
    PROVE  Channel!Next
  <1>1. [n \in Msgs |-> Abstract(place'[n])]
          = [n \in Msgs |-> IF n \in S THEN "seen" ELSE State[n]]
    BY AbstractFacts DEF State
  <1>2. Channel!See(S)
    BY <1>1, AbstractFacts DEF Channel!See, Channel!Now, State
  <1> QED
    BY <1>2 DEF Channel!Next

LEMMA WaitTakesMaps ==
    ASSUME IInv, NEW w \in Calls, WaitTakes(w)
    PROVE  Channel!Next
  <1>1. PICK i \in 1..Len(mail) : place' = [place EXCEPT ![mail[i]] = "result"]
    BY DEF WaitTakes, Oldest, Buffered
  <1>2. mail[i] \in Msgs /\ place[mail[i]] = "mailbox"
    BY DEF IInv, TypeOK, MailExact
  <1>3. \A n \in Msgs : place'[n] = IF n \in {mail[i]} THEN "result" ELSE place[n]
    BY <1>1 DEF IInv, TypeOK
  <1>4. UNCHANGED receipt
    BY DEF WaitTakes
  <1>5. {mail[i]} \in SUBSET Msgs /\ \A n \in {mail[i]} : place[n] = "mailbox"
    BY <1>2
  <1> QED
    BY <1>3, <1>4, <1>5, SeeMaps

LEMMA InboxMaps == ASSUME IInv, Inbox PROVE Channel!Next
  <1> DEFINE S == {m \in Msgs : place[m] = "mailbox"}
  <1>1. \A n \in Msgs : place'[n] = IF n \in S THEN "result" ELSE place[n]
    BY DEF Inbox
  <1>2. S \in SUBSET Msgs /\ (\A n \in S : place[n] = "mailbox") /\ UNCHANGED receipt
    BY DEF Inbox
  <1> QED
    BY <1>1, <1>2, SeeMaps

\* The call returns with one message, or with none.
LEMMA CallReturnsMaps ==
    ASSUME IInv, NEW w \in Calls, CallReturns(w)
    PROVE  [Channel!Next]_(Channel!vars)
  <1>1. PICK how \in {"result", "ignored"} :
            place' = [n \in Msgs |-> IF place[n] = w THEN how ELSE place[n]]
    BY DEF CallReturns
  <1>2. UNCHANGED receipt
    BY DEF CallReturns
  <1>3. CASE \E m \in Msgs : place[m] = w
    <2>1. PICK m \in Msgs : place[m] = w
      BY <1>3
    <2>2. \A n \in Msgs : place[n] = w <=> n = m
      BY <2>1 DEF IInv, AnsweredOnce
    <2>3. Abstract(how) \in {"seen", "gone"} /\ Abstract(place[m]) = "held"
      BY <2>1, AbstractFacts
    <2>4. [n \in Msgs |-> Abstract(place'[n])]
            = [n \in Msgs |-> IF n \in {m} THEN Abstract(how) ELSE State[n]]
      BY <1>1, <2>2 DEF State
    <2>5. Channel!Return(m, Abstract(how))
      BY <1>2, <2>3, <2>4 DEF Channel!Return, Channel!Now, State
    <2> QED
      BY <2>3, <2>5 DEF Channel!Next
  <1>4. CASE ~ \E m \in Msgs : place[m] = w
    BY <1>1, <1>2, <1>4, StutterMaps
  <1> QED
    BY <1>3, <1>4

\* A revival that ends leaves its senders under way.
LEMMA LifeMaps ==
    ASSUME IInv, DisposeBegins \/ DisposeEnds \/ Released \/ Revive
    PROVE  UNCHANGED Channel!vars
  <1>1. \A n \in Msgs : \/ place'[n] = place[n]
                        \/ place[n] = "reviving" /\ place'[n] = "resumed"
    BY DEF DisposeBegins, DisposeEnds, Released, Revive, Reviving, IInv, TypeOK
  <1>2. receipt' = receipt
    BY DEF DisposeBegins, DisposeEnds, Released, Revive, Life
  <1> QED
    BY <1>1, <1>2, AbstractFacts, StutterMaps

\* Every step of the bus is a step of the channel, or none.
LEMMA StepMaps == IInv /\ [Next]_vars => [Channel!Next]_(Channel!vars)
  <1> SUFFICES ASSUME IInv, [Next]_vars PROVE [Channel!Next]_(Channel!vars)
    OBVIOUS
  <1>1. ASSUME NEW m \in Msgs, ResumeSend(m) PROVE [Channel!Next]_(Channel!vars)
    BY <1>1, HandOverMaps DEF ResumeSend, Pending
  <1>2. ASSUME NEW m \in Msgs, ReviveFails(m) PROVE [Channel!Next]_(Channel!vars)
    BY <1>2, FailMaps DEF ReviveFails, Pending
  <1>3. ASSUME UNCHANGED <<place, receipt>> PROVE [Channel!Next]_(Channel!vars)
    BY <1>3, StutterMaps
  <1>4. ASSUME NEW w \in Calls, WaitParks(w) \/ WaitEnds(w)
        PROVE  [Channel!Next]_(Channel!vars)
    BY <1>3, <1>4 DEF WaitParks, WaitEnds
  <1>5. CASE UNCHANGED vars
    BY <1>3, <1>5 DEF vars
  <1> QED
    BY <1>1, <1>2, <1>4, <1>5, SendMaps, BufferMaps, WaitTakesMaps, CallReturnsMaps,
       InboxMaps, LifeMaps DEF Next

\* The bus keeps the channel's promise: a message is seen at most once, its
\* receipt is given once, and what was reported as delivered is never kept in
\* the mailbox as well.
THEOREM BusImplementsChannel == Spec => ImplementsChannel
  BY InitMaps, StepMaps, Invariance, PTL DEF Spec, ImplementsChannel, Channel!Spec
=============================================================================
