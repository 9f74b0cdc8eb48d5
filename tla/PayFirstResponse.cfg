\* Two calls under one key overlap.
SPECIFICATION Spec
CONSTANTS
    None = None
    u1 = u1
    u2 = u2
    a1 = a1
    a2 = a2
    tool1 = tool1
    r1 = r1
    r2 = r2
    k1 = k1
    t1 = t1
    Reqs = {q1, q2}
    Users = {u1, u2}
    Agents = {a1, a2}
    Tools = {tool1}
    Receipts = {r1}
    Keys = {k1}
    Tokens = {}
    Bodies <- AllBodies
    Inputs <- EditedInputs
    HitlBodies = {}
    IntentRefused = {}
    ScopeRefused <- OutOfScope
    McpPermitted <- ToolBodies
    AnomalyVerdicts = {"none"}
    FeeOf <- UnitFee
    ReceiptFee <- OneReceipt
    ToolTxCap <- ToolTx
    ToolDailyCap <- ToolCap
    VelocityLimit = 3
    Thresholds = {50, 100}
    InitBudget <- Open
    AdminEdits = {}
    MaxInFlight = 2
    MaxDay = 0
PROPERTY
    FirstResponseKept
