SPECIFICATION Spec
CONSTANTS
    Handles = {h1, h2, h3}
    NoHandle = NoHandle
INVARIANTS
    TypeOK
    NoRequestLost
    OnDemandHonoured
    RefusalIsCurrent
    LoopCoherent
PROPERTIES
    EveryCallAnswered
    KeepsServing
    Observed
