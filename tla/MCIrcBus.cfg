SPECIFICATION FairSpec
CONSTANTS
  m1 = m1  m2 = m2  m3 = m3  alice = alice  bob = bob  w1 = w1  w2 = w2  w3 = w3
  Msgs = {m1, m2, m3}
  From <- Senders
  Calls = {w1, w2, w3}
  Wants <- Filters
  Awaits = {w3}
  Anyone = Anyone
  Cap = 1
CHECK_DEADLOCK FALSE
INVARIANTS TypeOK MailExact AnsweredOnce
PROPERTIES SendSettles ImplementsChannel
