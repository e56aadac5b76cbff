SPECIFICATION Spec
CONSTANTS
    A = A
    B = B
    h1 = h1
    h2 = h2
    None = None
    Pods = {A}
    Heads = {h1}
    Bases = {1}
    Charts = {1, 2}
    Truth <- MCRendered
    Faults = {"flaky"}
    MaxFaults = 1
    MaxPushes = 0
    MaxAborts = 0
    MaxCrashes = 0
    MaxHandovers = 0
    MaxDelay = 2
PROPERTIES
    TransientIsRetried
