SPECIFICATION FairSpec
CONSTANTS
    Client = {c1}
    c1 = c1
    QueueSize = 1
    HubChannelSize = 2
    MaxEvents = 3
    MaxRequests = 3
    MaxRedisErrors = 0
    MaxRestarts = 0
PROPERTY EveryEventArrives
CHECK_DEADLOCK FALSE
