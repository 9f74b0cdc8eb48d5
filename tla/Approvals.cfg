\* Four calls: a request, an operator, and two of any kind.
SPECIFICATION Spec
CONSTANTS
    None = None
    ask1 = ask1
    op1 = op1
    any1 = any1
    any2 = any2
    b1 = b1
    b2 = b2
    Calls = {ask1, op1, any1, any2}
    Bodies = {b1, b2}
    Inputs <- Script
SYMMETRY Others
INVARIANTS
    SettledIfNothingDied
    AnnouncementsTrue
    LateCallsRefused
PROPERTY
    KeepsGrants
