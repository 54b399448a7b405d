SPECIFICATION Spec
CONSTANTS
    Client = {c1}
    c1 = c1
    QueueSize = 2
    HubChannelSize = 2
    MaxEvents = 3
    MaxRequests = 1
    MaxRedisErrors = 0
    MaxRestarts = 0
INVARIANT FirstIsBook
CHECK_DEADLOCK FALSE
