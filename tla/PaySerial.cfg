\* One worker, three calls, and midnight.
SPECIFICATION Spec
CONSTANTS
    None = None
    u1 = u1
    u2 = u2
    a1 = a1
    a2 = a2
    tool1 = tool1
    r1 = r1
    r2 = r2
    k1 = k1
    t1 = t1
    Reqs = {q1, q2, q3}
    Users = {u1}
    Agents = {a1}
    Tools = {tool1}
    Receipts = {r1, r2}
    Keys = {}
    Tokens = {}
    Bodies <- FundedBodies
    Inputs <- SerialInputs
    HitlBodies = {}
    IntentRefused = {}
    ScopeRefused = {}
    McpPermitted <- ToolBodies
    AnomalyVerdicts = {"none", "hitl", "deny"}
    FeeOf <- UnitFee
    ReceiptFee <- BothRight
    ToolTxCap <- ToolTx
    ToolDailyCap <- ToolCap
    VelocityLimit = 3
    Thresholds = {100}
    InitBudget <- Tight
    AdminEdits = {}
    MaxInFlight = 1
    MaxDay = 1
SYMMETRY Calls
INVARIANTS
    DailyCapHeld
