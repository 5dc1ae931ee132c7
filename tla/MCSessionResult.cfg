SPECIFICATION FairSpec
CONSTANTS
  steer = steer  followUp = followUp  irc = irc  result = result  deferred = deferred
  Msgs = {result}
  Kind <- OnlyThese
  Tasks = {t1, t2, t3}
  NoTask = NoTask
  Mixes = {{result}}
  MaxPrompts = 1
  MaxAborts = 0
CHECK_DEADLOCK FALSE
PROPERTY ResultDelivered
