SPECIFICATION Spec
CONSTANTS
    Threads = {t1, t2}
    Receivers = {r1, r2}
    MaxSpans = 2
    MaxScopes = 2
    MaxThrows = 1
    Nil = Nil
INVARIANTS DeliveredExactly StackDiscipline
SYMMETRY Symmetry
CHECK_DEADLOCK FALSE
