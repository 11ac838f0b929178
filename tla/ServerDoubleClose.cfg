SPECIFICATION Spec
CONSTANTS
    MaxWorkers = 3
    MaxClients = 3
    MinThreads = 1
    MaxThreads = 2
    MaxQueue = 1
    MaxFd = 2
    MaxKeepAlive = 2
INVARIANT
    OwnDescriptor
