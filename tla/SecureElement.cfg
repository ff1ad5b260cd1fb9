SPECIFICATION SESpec
CONSTANTS
    MaxCmd = 2
    MaxAns = 2
    FrameRetries = 3
    TimeoutRetries = 3
    NackRetries = 2
    MaxFaults = 5
    MaxChain = 2
PROPERTIES KeepsPromise EveryAnswered
