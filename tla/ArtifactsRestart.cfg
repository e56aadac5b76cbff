SPECIFICATION Spec
CHECK_DEADLOCK FALSE
CONSTANTS
    A = A
    B = B
    w1 = w1
    w2 = w2
    None = None
    Pods = {A}
    Web = {}
    MaxCommit = 2
    MaxSaves = 2
    MaxLosses = 1
    MaxUpsets = 1
PROPERTIES
    RetryUploadsTheNewest
