\* Two workers, three calls through one tool on one receipt, an operator who approves and revokes.
SPECIFICATION Spec
CONSTANTS
    None = None
    u1 = u1
    u2 = u2
    a1 = a1
    a2 = a2
    tool1 = tool1
    r1 = r1
    r2 = r2
    k1 = k1
    t1 = t1
    Reqs = {q1, q2, q3}
    Users = {u1, u2}
    Agents = {a1, a2}
    Tools = {tool1}
    Receipts = {r1}
    Keys = {}
    Tokens = {t1}
    Bodies <- AllBodies
    Inputs <- ConcurrentInputs
    HitlBodies <- NeedApproval
    IntentRefused = {}
    ScopeRefused <- OutOfScope
    McpPermitted <- ToolBodies
    AnomalyVerdicts = {"none"}
    FeeOf <- UnitFee
    ReceiptFee <- OneReceipt
    ToolTxCap <- ToolTx
    ToolDailyCap <- ToolCapOfTwo
    VelocityLimit = 1
    Thresholds = {}
    InitBudget <- Open
    AdminEdits = {}
    MaxInFlight = 2
    MaxDay = 0
SYMMETRY Calls
INVARIANTS
    ApprovalBacksPayment
    RevocationHolds
    ConsumedReceiptStaysConsumed
    VelocityOvershootBounded
    ToolOvershootBounded
    ReceiptOveruseBounded
