------------------------------- MODULE IrcBus -------------------------------
(***************************************************************************)
(* The IRC bus (irc/bus.ts) as seen by one recipient: its mailbox, the     *)
(* waiters its irc tool calls have parked (tools/irc.ts), and the sends    *)
(* addressed to it, while the recipient is put to sleep, revived and       *)
(* killed. Mailboxes and waiters of different agents do not interact.      *)
(***************************************************************************)
EXTENDS Naturals, Sequences

CONSTANTS Msgs, From,   \* messages to the recipient, and their senders
          Calls, Wants, \* irc tool calls of the recipient, and whom each waits
                        \* for: a sender, or Anyone
          Awaits,       \* the calls that are sends with await:true
          Anyone,
          Cap           \* MAILBOX_CAP

ASSUME CallAssumption == Calls \cap {"unsent", "reviving", "resumed", "thrown", "mailbox",
                                     "context", "result", "refused", "dropped", "ignored"} = {}
ASSUME CapAssumption == Cap \in Nat \ {0}

VARIABLES peer,         \* the recipient: live, disposing, parked or gone
          place,        \* where each message is; a call that was handed it is a place
          receipt,      \* what its sender was told
          mail,         \* #mailboxes, oldest first
          waiters,      \* #waiters, oldest first
          call          \* progress of each tool call
vars == <<peer, place, receipt, mail, waiters, call>>

Init ==
    /\ peer \in {"live", "parked"}
    /\ place = [m \in Msgs |-> "unsent"]
    /\ receipt = [m \in Msgs |-> "none"]
    /\ mail = <<>> /\ waiters = <<>>
    /\ call = [w \in Calls |-> "idle"]

Accepts(w, m) == Wants[w] \in {Anyone, From[m]}
Without(q, i) == SubSeq(q, 1, i - 1) \o SubSeq(q, i + 1, Len(q))
Receipt(m, outcome) == receipt' = [receipt EXCEPT ![m] = outcome]

-----------------------------------------------------------------------------
(* send() *)

\* takeMatchingWaiter: the oldest waiter whose filter accepts the sender.
Matching(m) == {i \in 1..Len(waiters) : Accepts(waiters[i], m)}
Oldest(I) == {i \in I : \A j \in I : i <= j}

GiveToWaiter(m) ==
    \E i \in Oldest(Matching(m)) :
        /\ place' = [place EXCEPT ![m] = waiters[i]]
        /\ call' = [call EXCEPT ![waiters[i]] = "got"]
        /\ waiters' = Without(waiters, i)
        /\ Receipt(m, "delivered")
        /\ UNCHANGED <<peer, mail>>

Fail(m) == /\ place' = [place EXCEPT ![m] = "refused"]
           /\ Receipt(m, "failed")
           /\ UNCHANGED <<peer, mail, waiters, call>>

\* deliverIrcMessage puts it into the session's context, or throws when the
\* session is disposed of: the catch block comes a turn of the event loop later.
GiveToSession(m) ==
    /\ Matching(m) = {}
    /\ \/ /\ peer = "live"
          /\ place' = [place EXCEPT ![m] = "context"]
          /\ Receipt(m, "delivered")
       \/ /\ peer = "disposing"
          /\ place' = [place EXCEPT ![m] = "thrown"]
          /\ UNCHANGED receipt
    /\ UNCHANGED <<peer, mail, waiters, call>>

HandOver(m) ==
    \/ GiveToWaiter(m)
    \/ GiveToSession(m)
    \/ Matching(m) = {} /\ peer \in {"parked", "gone"} /\ Fail(m)

\* Up to the first await: an unknown recipient is refused, a parked one revived.
Send(m) ==
    /\ place[m] = "unsent"
    /\ \/ peer = "gone" /\ Fail(m)
       \/ /\ peer = "parked"
          /\ place' = [place EXCEPT ![m] = "reviving"]
          /\ UNCHANGED <<peer, receipt, mail, waiters, call>>
       \/ peer \in {"live", "disposing"} /\ HandOver(m)

\* The continuation after ensureLive looks everything up again.
ResumeSend(m) == place[m] = "resumed" /\ HandOver(m)

BufferOver(m) ==                        \* mutant: shifts one message too late
    LET full == Len(mail) > Cap
    IN  /\ place[m] = "thrown"
        /\ mail' = Append(IF full THEN Tail(mail) ELSE mail, m)
        /\ place' = [n \in Msgs |-> IF n = m THEN "mailbox"
                                    ELSE IF full /\ n = Head(mail) THEN "dropped"
                                    ELSE place[n]]
        /\ Receipt(m, "failed")
        /\ UNCHANGED <<peer, waiters, call>>

BufferAsInjected(m) ==                  \* mutant: the catch block reports a delivery
    /\ place[m] = "thrown" /\ Len(mail) < Cap
    /\ mail' = Append(mail, m)
    /\ place' = [place EXCEPT ![m] = "mailbox"]
    /\ Receipt(m, "delivered")
    /\ UNCHANGED <<peer, waiters, call>>

\* The hand-over threw: enqueue, which shifts the oldest out of a full mailbox.
Buffer(m) ==
    LET full == Len(mail) >= Cap
    IN  /\ place[m] = "thrown"
        /\ mail' = Append(IF full THEN Tail(mail) ELSE mail, m)
        /\ place' = [n \in Msgs |-> IF n = m THEN "mailbox"
                                    ELSE IF full /\ n = Head(mail) THEN "dropped"
                                    ELSE place[n]]
        /\ Receipt(m, "failed")
        /\ UNCHANGED <<peer, waiters, call>>

-----------------------------------------------------------------------------
(* wait() and inbox(), called by the recipient's irc tool. *)

Buffered(w) == {i \in 1..Len(mail) : Accepts(w, mail[i])}

\* Pending mail satisfies a wait at once; a send with await:true wants only
\* what comes from now on.
WaitTakes(w) ==
    /\ call[w] = "idle" /\ peer = "live" /\ w \notin Awaits
    /\ \E i \in Oldest(Buffered(w)) :
           /\ mail' = Without(mail, i)
           /\ place' = [place EXCEPT ![mail[i]] = "result"]
    /\ call' = [call EXCEPT ![w] = "over"]
    /\ UNCHANGED <<peer, receipt, waiters>>

WaitParks(w) ==
    /\ call[w] = "idle" /\ peer = "live"
    /\ w \in Awaits \/ Buffered(w) = {}
    /\ waiters' = Append(waiters, w)
    /\ call' = [call EXCEPT ![w] = "waiting"]
    /\ UNCHANGED <<peer, place, receipt, mail>>

WaitEndsParked(w) ==                    \* mutant: the cleanup leaves the waiter
    /\ call[w] = "waiting"
    /\ call' = [call EXCEPT ![w] = "over"]
    /\ UNCHANGED <<peer, place, receipt, mail, waiters>>

\* Timeout, abort, or the failure of the awaited send itself.
WaitEnds(w) ==
    /\ call[w] = "waiting"
    /\ \E i \in 1..Len(waiters) : waiters[i] = w /\ waiters' = Without(waiters, i)
    /\ call' = [call EXCEPT ![w] = "over"]
    /\ UNCHANGED <<peer, place, receipt, mail>>

\* The call returns with the message it was handed. A send with await:true that
\* failed meanwhile reports its failure and looks at no reply.
CallReturns(w) ==
    /\ call[w] = "got"
    /\ call' = [call EXCEPT ![w] = "over"]
    /\ \E how \in {"result"} \cup (IF w \in Awaits THEN {"ignored"} ELSE {}) :
           place' = [m \in Msgs |-> IF place[m] = w THEN how ELSE place[m]]
    /\ UNCHANGED <<peer, receipt, mail, waiters>>

InboxPeeks ==                           \* mutant: drains, and keeps the mail
    /\ peer = "live" /\ mail # <<>>
    /\ place' = [m \in Msgs |-> IF place[m] = "mailbox" THEN "result" ELSE place[m]]
    /\ UNCHANGED <<peer, receipt, mail, waiters, call>>

\* inbox() without peek drains; with peek nothing changes.
Inbox ==
    /\ peer = "live" /\ mail # <<>>
    /\ mail' = <<>>
    /\ place' = [m \in Msgs |-> IF place[m] = "mailbox" THEN "result" ELSE place[m]]
    /\ UNCHANGED <<peer, receipt, waiters, call>>

-----------------------------------------------------------------------------
(* The recipient's life, as the bus sees it: AgentLifecycle has the details. *)

Reviving == {m \in Msgs : place[m] = "reviving"}
Life == UNCHANGED <<receipt, mail, waiters, call>>

DisposeBegins == peer = "live" /\ peer' = "disposing" /\ UNCHANGED place /\ Life
DisposeEnds == peer = "disposing" /\ peer' \in {"parked", "gone"} /\ UNCHANGED place /\ Life

\* A parked agent is released. Who awaits its revival gets an error.
Released ==
    /\ peer = "parked" /\ peer' = "gone"
    /\ UNCHANGED place /\ Life

ReviveOne ==                            \* mutant: answers one of the senders that share it
    /\ peer = "parked" /\ peer' = "live"
    /\ place' = IF Reviving = {} THEN place
                ELSE [place EXCEPT ![CHOOSE m \in Reviving : TRUE] = "resumed"]
    /\ Life

\* ensureLive: one revival, shared by all who await it.
Revive ==
    /\ peer = "parked" /\ peer' = "live"
    /\ place' = [m \in Msgs |-> IF m \in Reviving THEN "resumed" ELSE place[m]]
    /\ Life

ReviveFails(m) == place[m] = "reviving" /\ peer \in {"parked", "gone"} /\ Fail(m)

-----------------------------------------------------------------------------
Next ==
    \/ \E m \in Msgs : Send(m) \/ ResumeSend(m) \/ Buffer(m) \/ ReviveFails(m)
    \/ \E w \in Calls : WaitTakes(w) \/ WaitParks(w) \/ WaitEnds(w) \/ CallReturns(w)
    \/ Inbox
    \/ DisposeBegins \/ DisposeEnds \/ Released \/ Revive

Spec == Init /\ [][Next]_vars

\* Continuations run, and ensureLive answers or throws.
Fairness ==
    /\ \A m \in Msgs : WF_vars(ResumeSend(m)) /\ WF_vars(Buffer(m)) /\ WF_vars(ReviveFails(m))
    /\ \A w \in Calls : WF_vars(CallReturns(w))

FairSpec == Spec /\ Fairness

-----------------------------------------------------------------------------
(* Properties. *)

\* The type invariant of the bus.
TypeOK ==
    /\ peer \in {"live", "disposing", "parked", "gone"}
    /\ place \in [Msgs -> {"unsent", "reviving", "resumed", "thrown", "mailbox", "context",
                           "result", "refused", "dropped", "ignored"} \cup Calls]
    /\ receipt \in [Msgs -> {"none", "delivered", "failed"}]
    /\ mail \in Seq(Msgs) /\ Len(mail) <= Cap
    /\ waiters \in Seq(Calls)
    /\ call \in [Calls -> {"idle", "waiting", "got", "over"}]

\* The mailbox holds each undelivered message once, and nothing that was handed
\* over or reported as delivered.
MailExact ==
    /\ \A i, j \in 1..Len(mail) : mail[i] = mail[j] => i = j
    /\ \A m \in Msgs : place[m] = "mailbox" <=> \E i \in 1..Len(mail) : mail[i] = m

\* A waiter is answered once and by one message: whoever timed out, aborted or
\* was answered is no longer parked, and a call that was handed a message is one
\* that will still return it.
AnsweredOnce ==
    /\ \A i, j \in 1..Len(waiters) : waiters[i] = waiters[j] => i = j
    /\ \A w \in Calls : call[w] = "waiting" <=> \E i \in 1..Len(waiters) : waiters[i] = w
    /\ \A m, n \in Msgs : place[m] \in Calls =>
           /\ call[place[m]] = "got"
           /\ place[n] = place[m] => n = m

\* Every send ends in a receipt, also one that had to wait for a revival.
SendSettles ==
    \A m \in Msgs : place[m] \in {"reviving", "resumed", "thrown"} ~> receipt[m] # "none"

\* A receipt is given when the hand-over ends, and not before.
ReceiptFits ==
    \A m \in Msgs : place[m] \in {"unsent", "reviving", "resumed", "thrown"}
                      <=> receipt[m] = "none"

\* What a sender and the recipient can tell of where a message is.
Abstract(p) ==
    CASE p = "unsent" -> "unsent"
      [] p \in {"reviving", "resumed", "thrown"} -> "underWay"
      [] p = "mailbox" -> "kept"
      [] p \in {"context", "result"} -> "seen"
      [] p \in {"refused", "dropped", "ignored"} -> "gone"
      [] OTHER -> "held"

Channel == INSTANCE PeerChannel WITH state <- [m \in Msgs |-> Abstract(place[m])]

\* What the bus promises: at most once, receipts that stand, nothing delivered
\* that lingers in the mailbox.
ImplementsChannel == Channel!Spec
=============================================================================
