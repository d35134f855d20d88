SPECIFICATION Spec
CONSTANTS
    Names = {carol}
    Passwords = {p1, p2}
    Workers = {w1, w2}
    MaxId = 2
    Faults = {"get", "write", "answer", "location", "slow"}
    None = None
SYMMETRY Symmetry
INVARIANTS TypeOK PasswordWasGiven AsAskedLast DeletedWasGone AnswerWasTrue
