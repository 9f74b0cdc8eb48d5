\* Two workers, two calls, midnight and an operator who raises a cap.
SPECIFICATION Spec
CONSTANTS
    None = None
    u1 = u1
    u2 = u2
    a1 = a1
    a2 = a2
    tool1 = tool1
    r1 = r1
    r2 = r2
    k1 = k1
    t1 = t1
    Reqs = {q1, q2}
    Users = {u1, u2}
    Agents = {a1, a2}
    Tools = {tool1}
    Receipts = {r1, r2}
    Keys = {k1}
    Tokens = {}
    Bodies <- AllBodies
    Inputs <- RetryInputs
    HitlBodies = {}
    IntentRefused = {}
    ScopeRefused = {}
    McpPermitted <- ToolBodies
    AnomalyVerdicts = {"none"}
    FeeOf <- UnitFee
    ReceiptFee <- BothRight
    ToolTxCap <- ToolTx
    ToolDailyCap <- ToolCap
    VelocityLimit = 3
    Thresholds = {50, 100}
    InitBudget <- Narrow
    AdminEdits <- Edits
    MaxInFlight = 2
    MaxDay = 1
SYMMETRY CallsAndReceipts
INVARIANTS
    TypeOK
    StoredAuthorizationIsComplete
    RecordedSpendWithinCap
    NoPaymentOnRetry
