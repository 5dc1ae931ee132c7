------------------------------ MODULE MCIrcBus ------------------------------
EXTENDS IrcBus, TLC

CONSTANTS m1, m2, m3, alice, bob, w1, w2, w3

Senders == m1 :> alice @@ m2 :> bob @@ m3 :> alice

\* A wait for anybody, a wait for bob, a send to alice that awaits the answer.
Filters == w1 :> Anyone @@ w2 :> bob @@ w3 :> alice
=============================================================================
