SPECIFICATION Spec
CONSTANTS
    None = None
    Bodies = {"b1", "b2"}
    Responses = {"r1", "r2"}
    MaxKeys = 2
    MaxAttempts = 2
INVARIANTS
    TypeOK
    AcceptedIsAuthentic
    StoredStaysVerifiable
    IntactIsAccepted
