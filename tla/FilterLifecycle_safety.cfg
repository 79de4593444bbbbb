SPECIFICATION Spec
CONSTANT MaxSize = 2
INVARIANTS
    UsedAlive
    DecodesForOutput
    SilentForAReason
PROPERTY LossIsRepaired
