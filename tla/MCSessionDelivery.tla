------------------------- MODULE MCSessionDelivery -------------------------
EXTENDS SessionDelivery, TLC

CONSTANTS steer, followUp, irc, result, deferred

OneOfEach == (steer :> "steer" @@ followUp :> "followUp" @@ irc :> "irc"
              @@ result :> "result" @@ deferred :> "deferred")

OnlyThese == [m \in Msgs |-> OneOfEach[m]]
=============================================================================
