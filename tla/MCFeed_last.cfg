SPECIFICATION Spec
CONSTANTS
    Client = {c1}
    c1 = c1
    QueueSize = 1
    HubChannelSize = 2
    MaxEvents = 1
    MaxRequests = 2
    MaxRedisErrors = 0
    MaxRestarts = 0
INVARIANT LastRequestDecides
CHECK_DEADLOCK FALSE
