SPECIFICATION Spec
CONSTANTS
    q1 = q1
    q2 = q2
    c1 = c1
    c2 = c2
    None = None
    Prs = {q1}
    Commits = {c1, c2}
    Tips = {1}
    MaxStreak = 2
    MaxMoves = 3
INVARIANTS
    StreakIsBounded
