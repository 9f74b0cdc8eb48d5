\* Two attempts; an edit of an endpoint and a restart at any time.
SPECIFICATION MCSpec
CONSTANTS
    None = None
    bud = bud
    app = app
    mcp = mcp
    ano = ano
    siem = siem
    admin = admin
    pay = pay
    Thread = thread
    Alerts = {bud, app, mcp, ano, siem}
    Admins = {admin}
    Payments = {pay}
    NumEndpoints = 2
    Source <- SourceOf
    Topic <- TopicOf
    Topics <- AllTopics
    AlertOf <- AlertOfPay
    ExportOf <- ExportOfPay
    Scenes <- Small
    Processes = {p1, p2, p3}
    Changes = {c1, c2, c3, c4}
INVARIANTS
    TypeOK
    AttemptsBounded
    StatusHasAttempt
    FullRound
    ChainVerifies
PROPERTIES
    AckUndoneOnlyByOlderCycle
    NoAlertForgotten
CHECK_DEADLOCK FALSE
