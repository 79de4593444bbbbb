SPECIFICATION Spec
CONSTANTS
    MaxSize = 3
    Samples = {s1, s2}
    None = None
    Retries = 2
INVARIANTS
    TypeOK
    FilledAsAgreed
    SamplesInOneHand
    CommittedWhileActive
PROPERTIES
    DeliveryEnds
