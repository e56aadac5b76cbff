SPECIFICATION SharedSpec
CHECK_DEADLOCK FALSE
CONSTANTS
    Envs = {"a", "b"}
    Customers = {"k", "l"}
    Suffixes = {"s", "t"}
    MaxMerges = 3
    MaxUnread = 1
INVARIANTS
    UnprovenIsGated
