---------------------------- MODULE PeerChannel ----------------------------
(***************************************************************************)
(* What the IRC bus promises about the messages sent to one agent, leaving *)
(* aside how it hands them over: a message is seen at most once; its       *)
(* receipt is given once; one whose receipt says delivered is never kept   *)
(* for later; one that is kept may still be seen, or pushed out by newer   *)
(* ones. A message handed to a blocked tool call is seen when that returns,*)
(* and forgotten when the call fails for a reason of its own.              *)
(***************************************************************************)
EXTENDS FiniteSets

CONSTANT Msgs

VARIABLES state,        \* of each message
          receipt       \* what its sender was told
vars == <<state, receipt>>

Init == /\ state = [m \in Msgs |-> "unsent"]
        /\ receipt = [m \in Msgs |-> "none"]

Now(S, what) == [m \in Msgs |-> IF m \in S THEN what ELSE state[m]]

Send(m) == /\ state[m] = "unsent"
           /\ state' = Now({m}, "underWay")
           /\ UNCHANGED receipt

\* The receipt says how the hand-over went; from then on it stands.
Deliver(m, how) == /\ state[m] \in {"unsent", "underWay"} /\ receipt[m] = "none"
                   /\ state' = Now({m}, how)
                   /\ receipt' = [receipt EXCEPT ![m] = "delivered"]

Refuse(m) == /\ state[m] \in {"unsent", "underWay"} /\ receipt[m] = "none"
             /\ state' = Now({m}, "gone")
             /\ receipt' = [receipt EXCEPT ![m] = "failed"]

\* Kept, although the receipt says failed; a full mailbox forgets another one.
Keep(m, out) == /\ state[m] = "underWay" /\ receipt[m] = "none"
                /\ \A o \in out : state[o] = "kept"
                /\ \A o, p \in out : o = p
                /\ state' = [n \in Msgs |-> IF n = m THEN "kept"
                                            ELSE IF n \in out THEN "gone" ELSE state[n]]
                /\ receipt' = [receipt EXCEPT ![m] = "failed"]

See(S) == /\ \A m \in S : state[m] = "kept"
          /\ state' = Now(S, "seen")
          /\ UNCHANGED receipt

Return(m, how) == /\ state[m] = "held"
                  /\ state' = Now({m}, how)
                  /\ UNCHANGED receipt

Next == \/ \E m \in Msgs : \/ Send(m) \/ Refuse(m)
                           \/ \E how \in {"held", "seen"} : Deliver(m, how)
                           \/ \E out \in SUBSET Msgs : Keep(m, out)
                           \/ \E how \in {"seen", "gone"} : Return(m, how)
        \/ \E S \in SUBSET Msgs : See(S)

Spec == Init /\ [][Next]_vars
=============================================================================
