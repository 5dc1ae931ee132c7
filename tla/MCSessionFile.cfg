SPECIFICATION Spec
CONSTANTS
    t1 = t1  t2 = t2  t3 = t3
    Tasks = {t1, t2, t3}
    Assistants <- SecondIsAssistant
    MaxEntries = 4
    MaxRev = 2
SYMMETRY Symmetry
INVARIANTS TypeOK InOrder OnlyOverlapLoses EditsLand
PROPERTY NeverMixed
