SPECIFICATION Spec
CONSTANTS
  steer = steer  followUp = followUp  irc = irc  result = result  deferred = deferred
  Msgs = {steer, followUp, irc, result, deferred}
  Kind <- OnlyThese
  Tasks = {t1, t2, t3, t4, t5}
  NoTask = NoTask
  \* any two messages, or any third one beside a follow-up and a peer's message
  Mixes = {{steer, followUp, irc}, {followUp, irc, result}, {followUp, irc, deferred},
           {steer, result}, {steer, deferred}, {result, deferred}}
  MaxPrompts = 1
  MaxAborts = 1
CHECK_DEADLOCK FALSE
INVARIANTS TypeOK NothingStranded PeerNeverLost
PROPERTY WakeSparesFollowUps
