------------------------------ MODULE Registry ------------------------------
(***************************************************************************)
(* The registry of MCP servers and tools of Safe4 (app/mcp/api.py) and the *)
(* payments that consult it (app/mcp/payment_policy.py).  Registering a    *)
(* tool again compares its description with the first one, may quarantine  *)
(* the tool, lowers the trust of its server and queues alerts, in store    *)
(* calls of their own; reviews, edits of trust and permissions, other      *)
(* registrations and payments come in between.                             *)
(***************************************************************************)
EXTENDS Integers, FiniteSets

CONSTANTS
    Tools,
    Servers,
    ServerOf,       \* [Tools -> Servers]: a tool's id begins with its server's
    Descriptions,
    Found,          \* [Descriptions -> SUBSET {"critical", "high"}]: patterns found
    Handlers,       \* calls that take several store calls, each made once
    EditBound,      \* how often rows are edited by calls of one store call
    NoRow

Trust == {"trusted", "verified", "unknown", "blocked"}
Quarantine == {"clear", "review", "quarantined", "blocked"}
Flags == {"critical", "high", "description_changed"}
ToolRow == [description : Descriptions, first : Descriptions, changed : BOOLEAN,
            flags : SUBSET Flags, status : Quarantine]
Grant == {"granted", "held", "withdrawn"}

ASSUME RegistryTyped == /\ ServerOf \in [Tools -> Servers]
                        /\ Found \in [Descriptions -> SUBSET {"critical", "high"}]
                        /\ EditBound \in Nat
                        /\ NoRow \notin Trust \cup Grant \cup Tools \cup ToolRow

VARIABLES
    server,   \* mcp_servers: the trust level of a server, or NoRow
    tool,     \* mcp_tools: a ToolRow, or NoRow
    grant,    \* mcp_tool_permissions, for the one user and action payments are of
    queued,   \* mcp_alert_outbox: the event keys
    call,     \* locals of register_mcp_tool, review_mcp_tool, enforce_mcp_payment_policy
    edited,   \* edits so far
    since     \* history: what has held all the time since a call began or last read

regVars == <<server, tool, grant, queued, call, edited, since>>
regRows == <<server, tool, grant, queued>>

Idle == [step |-> "idle", tool |-> NoRow, description |-> NoRow, status |-> "clear",
         prior |-> FALSE, row |-> NoRow, trust |-> NoRow, big |-> FALSE]

\* What stands in the way of a payment, given the three rows it needs.
BarsOf(row, trust, g) ==
    (IF row = NoRow \/ row.status # "clear" THEN {"tool"} ELSE {})
    \cup (IF trust \in {NoRow, "blocked"} THEN {"server"} ELSE {})
    \cup (IF trust = "unknown" THEN {"unknown"} ELSE {})
    \cup (IF g \in {NoRow, "withdrawn"} THEN {"grant"} ELSE {})

\* The history follows every step: a bar that is lifted is struck off, and
\* "lowered" when an administrator raises the trust.
Raised(s) == server[s] \notin {"trusted", "verified"} /\ server'[s] \in {"trusted", "verified"}
Watched(h, t) ==
    LET now == BarsOf(tool'[t], server'[ServerOf[t]], grant'[t])
        kept == IF call'[h].step \in {"row", "reread"} THEN now \cup {"lowered"}
                ELSE since[h] \cap (now \cup {"lowered"})
    IN kept \ (IF Raised(ServerOf[t]) THEN {"lowered"} ELSE {})
Watch == since' = [h \in Handlers |->
    IF call'[h].tool = NoRow THEN {} ELSE Watched(h, call'[h].tool)]

Step(h, from, to) == call[h].step = from /\ call' = [call EXCEPT ![h].step = to]
Next1(h, from, fields) == call[h].step = from /\ call' = [call EXCEPT ![h] = fields]

----------------------------------------------------------------------------
(* Calls of one store call.                                                *)

Edit == edited < EditBound /\ edited' = edited + 1

\* upsert_mcp_server: a server registered again is unknown again.
RegisterServer(s) ==
    /\ Edit
    /\ server' = [server EXCEPT ![s] = "unknown"]
    /\ UNCHANGED <<tool, grant, queued, call>>

\* update_mcp_server_trust; 404 when there is no row.
SetTrust(s) ==
    /\ Edit
    /\ server[s] # NoRow
    /\ \E level \in Trust : server' = [server EXCEPT ![s] = level]
    /\ UNCHANGED <<tool, grant, queued, call>>

\* upsert_mcp_tool_permission, after the tool was found (a tool is never deleted);
\* "held" is requires_hitl.
Permit(t) ==
    /\ Edit
    /\ tool[t] # NoRow
    /\ \E g \in {"granted", "held"} : grant' = [grant EXCEPT ![t] = g]
    /\ UNCHANGED <<server, tool, queued, call>>

\* deactivate_mcp_tool_permission.
Withdraw(t) ==
    /\ Edit
    /\ grant[t] # NoRow
    /\ grant' = [grant EXCEPT ![t] = "withdrawn"]
    /\ UNCHANGED <<server, tool, queued, call>>

----------------------------------------------------------------------------
(* register_mcp_tool.                                                      *)

\* scan_mcp_description.
Scan(d) == IF "critical" \in Found[d] THEN "quarantined"
           ELSE IF "high" \in Found[d] THEN "review" ELSE "clear"

\* get_mcp_server found the server.
StartRegister(h, t) ==
    /\ server[ServerOf[t]] # NoRow
    /\ \E d \in Descriptions :
         Next1(h, "idle", [Idle EXCEPT !.step = "prior", !.tool = t, !.description = d])
    /\ UNCHANGED regRows

\* get_mcp_tool, for whether there was one.
ReadPrior(h) ==
    /\ Next1(h, "prior", [call[h] EXCEPT !.step = "upsert", !.prior = tool[call[h].tool] # NoRow])
    /\ UNCHANGED regRows

\* Mutant: the flags found earlier and the status of a drifted tool are forgotten.
RegisteredFresh(old, d) ==
    [description |-> d, first |-> IF old = NoRow THEN d ELSE old.first,
     changed |-> old # NoRow /\ old.first # d,
     flags |-> Found[d], status |-> "clear"]

\* The row upsert_mcp_tool writes over the one it reads under the same lock.
Registered(old, d) ==
    LET first == IF old = NoRow THEN d ELSE old.first
        changed == first # d
        merged == Found[d] \cup (IF old = NoRow THEN {} ELSE old.flags)
        quiet == changed /\ merged = {} /\ Scan(d) = "clear"
    IN [description |-> d, first |-> first, changed |-> changed,
        flags |-> IF quiet THEN {"description_changed"} ELSE merged,
        status |-> IF quiet THEN "review"
                   ELSE IF changed /\ "critical" \in merged THEN "quarantined"
                   ELSE IF changed /\ old.status \in {"quarantined", "blocked"} THEN old.status
                   ELSE Scan(d)]

UpsertTool(h) ==
    /\ Step(h, "upsert", "reread")
    /\ LET t == call[h].tool IN
       tool' = [tool EXCEPT ![t] = Registered(tool[t], call[h].description)]
    /\ UNCHANGED <<server, grant, queued>>

\* upsert_mcp_tool ends with a read of its own; another call may have come first.
Reread(h) ==
    /\ LET row == tool[call[h].tool] IN
       Next1(h, "reread", [call[h] EXCEPT !.row = row,
           !.step = IF call[h].prior /\ row.changed THEN "trust" ELSE "quarantine"])
    /\ UNCHANGED regRows

\* _maybe_downgrade_server_for_tool_change reads the trust ...
ReadTrust(h) ==
    /\ LET level == server[ServerOf[call[h].tool]] IN
       Next1(h, "trust", [call[h] EXCEPT !.trust = level,
           !.step = IF level \in {"trusted", "verified"} THEN "downgrade" ELSE "drift"])
    /\ UNCHANGED regRows

\* Mutant: only the highest trust is lowered.
DowngradeVerified(h) ==
    /\ Step(h, "downgrade", "drift")
    /\ server' = [server EXCEPT ![ServerOf[call[h].tool]] = "verified"]
    /\ UNCHANGED <<tool, grant, queued>>

\* ... and lowers it, to unknown, whatever it is by now.
Downgrade(h) ==
    /\ Step(h, "downgrade", "drift")
    /\ server' = [server EXCEPT ![ServerOf[call[h].tool]] = "unknown"]
    /\ UNCHANGED <<tool, grant, queued>>

Key(kind, t, row) == <<kind, t, row.description, row.status>>

\* enqueue_mcp_alert, with the description in its key.
AlertDrift(h) ==
    /\ Step(h, "drift", "quarantine")
    /\ queued' = queued \cup {<<"changed", call[h].tool, call[h].row.description>>}
    /\ UNCHANGED <<server, tool, grant>>

\* Mutant: only quarantined tools are announced.
AlertQuarantined(h) ==
    /\ Step(h, "quarantine", "done")
    /\ LET row == call[h].row IN
       queued' = IF row.status = "quarantined"
                 THEN queued \cup {Key("quarantine", call[h].tool, row)} ELSE queued
    /\ UNCHANGED <<server, tool, grant>>

\* The alert of a tool that is not clear, and the answer.
AlertQuarantine(h) ==
    /\ Step(h, "quarantine", "done")
    /\ LET row == call[h].row IN
       queued' = IF row.status # "clear"
                 THEN queued \cup {Key("quarantine", call[h].tool, row)} ELSE queued
    /\ UNCHANGED <<server, tool, grant>>

----------------------------------------------------------------------------
(* review_mcp_tool.                                                        *)

\* get_mcp_tool: the flags are kept unless the tool is cleared.
StartReview(h, t) ==
    /\ tool[t] # NoRow
    /\ \E s \in Quarantine \ {"review"} :
         Next1(h, "idle", [Idle EXCEPT !.step = "review", !.tool = t, !.status = s, !.row = tool[t]])
    /\ UNCHANGED regRows

\* update_mcp_tool_quarantine: the status for whatever description is there by now.
WriteReview(h) ==
    /\ Step(h, "review", "done")
    /\ tool' = [tool EXCEPT ![call[h].tool].status = call[h].status,
           ![call[h].tool].flags = IF call[h].status = "clear" THEN {} ELSE call[h].row.flags]
    /\ UNCHANGED <<server, grant, queued>>

----------------------------------------------------------------------------
(* enforce_mcp_payment_policy: three rows, each read once.                 *)

\* The call has begun; big is an amount above the threshold of unknown servers.
StartPay(h, t) ==
    /\ \E big \in BOOLEAN :
         Next1(h, "idle", [Idle EXCEPT !.step = "row", !.tool = t, !.big = big])
    /\ UNCHANGED regRows

\* Mutant: a tool that awaits review pays.
PayableUnlessQuarantined(row) == row # NoRow /\ row.status \notin {"quarantined", "blocked"}

Payable(row) == row # NoRow /\ row.status = "clear"

ReadTool(h) ==
    /\ Step(h, "row", IF Payable(tool[call[h].tool]) THEN "server" ELSE "refused")
    /\ UNCHANGED regRows

ReadServer(h) ==
    /\ LET level == server[ServerOf[call[h].tool]] IN
       Next1(h, "server", [call[h] EXCEPT !.trust = level,
           !.step = IF level \in {NoRow, "blocked"} THEN "refused" ELSE "grant"])
    /\ UNCHANGED regRows

\* The permission, and then the two reasons to hold the payment that come from here.
ReadGrant(h) ==
    /\ LET g == grant[call[h].tool] IN
       Step(h, "grant", IF g \in {NoRow, "withdrawn"} THEN "refused"
                        ELSE IF g = "held" \/ (call[h].trust = "unknown" /\ call[h].big)
                             THEN "held" ELSE "passed")
    /\ UNCHANGED regRows

----------------------------------------------------------------------------
\* The process dies in the middle of a handler.
Die(h) ==
    /\ call[h].step \notin {"idle", "done", "died", "refused", "held", "passed"}
    /\ call' = [call EXCEPT ![h].step = "died"]
    /\ UNCHANGED regRows

RegInit ==
    /\ server = [s \in Servers |-> NoRow]
    /\ tool = [t \in Tools |-> NoRow]
    /\ grant = [t \in Tools |-> NoRow]
    /\ queued = {} /\ edited = 0
    /\ call = [h \in Handlers |-> Idle]
    /\ since = [h \in Handlers |-> {}]

Registers(h) == \/ \E t \in Tools : StartRegister(h, t)
                \/ ReadPrior(h) \/ UpsertTool(h) \/ Reread(h) \/ ReadTrust(h)
                \/ Downgrade(h) \/ AlertDrift(h) \/ AlertQuarantine(h)
Reviews(h) == WriteReview(h) \/ \E t \in Tools : StartReview(h, t)
Pays(h) == ReadTool(h) \/ ReadServer(h) \/ ReadGrant(h) \/ \E t \in Tools : StartPay(h, t)

RegNext ==
    /\ \/ \E s \in Servers : RegisterServer(s) \/ SetTrust(s)
       \/ \E t \in Tools : Permit(t) \/ Withdraw(t)
       \/ UNCHANGED edited /\ \E h \in Handlers : Registers(h) \/ Reviews(h) \/ Pays(h) \/ Die(h)
    /\ Watch

RegSpec == RegInit /\ [][RegNext]_regVars

----------------------------------------------------------------------------
(* What the registry promises.                                             *)

Steps == {"idle", "prior", "upsert", "reread", "trust", "downgrade", "drift", "quarantine",
          "review", "row", "server", "grant", "refused", "held", "passed", "done", "died"}
CallType == [step : Steps, tool : Tools \cup {NoRow}, description : Descriptions \cup {NoRow},
             status : Quarantine, prior : BOOLEAN, row : ToolRow \cup {NoRow},
             trust : Trust \cup {NoRow}, big : BOOLEAN]

\* The rows and the locals of the handlers; a tool has a server with a row, and a
\* permission a tool.
RegTypeOK ==
    /\ server \in [Servers -> Trust \cup {NoRow}]
    /\ tool \in [Tools -> ToolRow \cup {NoRow}]
    /\ grant \in [Tools -> Grant \cup {NoRow}]
    /\ call \in [Handlers -> CallType]
    /\ edited \in 0..EditBound
    /\ \A t \in Tools : /\ tool[t] # NoRow => server[ServerOf[t]] # NoRow
                        /\ grant[t] # NoRow => tool[t] # NoRow

\* A payment whose tool was not clear, whose server was blocked or whose permission
\* was missing from before the policy read the tool until it decided does not pass,
\* and a big one through a server that was unknown all that time passes only when
\* a human approves.
BarredPaysNothing ==
    \A h \in Handlers :
       /\ call[h].step \in {"passed", "held"} => since[h] \cap {"tool", "server", "grant"} = {}
       /\ call[h].step = "passed" /\ call[h].big => "unknown" \notin since[h]

Vouched(t) == server[ServerOf[t]] \in {"trusted", "verified"}

\* From the moment a changed description is announced, its server is trusted or
\* verified only if an administrator has made it so since the change was stored.
DriftLowersTrust ==
    \A h \in Handlers : LET c == call[h] IN
       c.step \in {"drift", "quarantine", "done"} /\ c.prior /\ c.row.changed /\ Vouched(c.tool)
          => "lowered" \notin since[h]

Registering(t) == \E h \in Handlers :
    call[h].tool = t /\ call[h].step \in {"reread", "trust", "downgrade", "drift", "quarantine", "died"}
Reviewed(t) == \E h \in Handlers : call[h].tool = t /\ call[h].status # "clear"

\* Once no registration of a tool is on its way and none has died, a tool that
\* registrations put in quarantine has an alert for just that description and status.
QuarantineAnnounced ==
    \A t \in Tools :
       tool[t] # NoRow /\ tool[t].status # "clear" /\ ~Registering(t) /\ ~Reviewed(t)
          => Key("quarantine", t, tool[t]) \in queued

\* A tool comes out of quarantine only through a review that says so or with a
\* description in which nothing is found, and a review is never undone by a
\* description with critical patterns.
OnlyReviewClears ==
    [][\A t \in Tools : tool[t] # NoRow /\ tool'[t] # tool[t] =>
         /\ tool[t].status # "clear" /\ tool'[t].status = "clear"
              => \/ Found[tool'[t].description] = {}
                 \/ \E h \in Handlers : call[h].step = "review" /\ call[h].status = "clear"
         /\ tool[t].status = "blocked" /\ "critical" \in Found[tool'[t].description]
              => tool'[t].status \in {"quarantined", "blocked"}
                 \/ \E h \in Handlers : call[h].step = "review"]_regVars

\* "Tool description changed ...; review required." (the reason a drifted tool's
\* server is lowered): a tool that awaits review for a changed description is not
\* cleared by registering that description again.
DriftAwaitsReview ==
    [][\A t \in Tools :
         tool[t] # NoRow /\ tool[t].status = "review" /\ tool'[t].status = "clear"
           /\ tool'[t].changed
             => \E h \in Handlers : call[h].step = "review" /\ call[h].tool = t]_regVars
=============================================================================
