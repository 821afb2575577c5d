SPECIFICATION Spec
CONSTANTS
    a = a
    b = b
    u = u
    Apps = {a, b}
    Responses <- SmallResponses
    RetryAfter <- SmallRetryAfter
    MaxFailures = 1
    MaxFaults = 0
PROPERTIES
    EventReplyKeepsInterval
