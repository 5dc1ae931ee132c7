SPECIFICATION Spec
CONSTANTS
    t1 = t1  t2 = t2  t3 = t3
    Tasks = {t1, t2}
    Assistants <- SecondIsAssistant
    MaxEntries = 4
    MaxRev = 1
SYMMETRY Symmetry
INVARIANT DurableOnReturn
