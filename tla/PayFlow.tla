------------------------------ MODULE PayFlow ------------------------------
(***************************************************************************)
(* The POST /pay pipeline of Safe4 (app/main.py, authorize_payment) run by *)
(* several worker threads against one FirewallStore.                       *)
(*                                                                         *)
(* The handlers are synchronous, so FastAPI runs them in a thread pool and *)
(* their store calls interleave.  Each store call takes the store's lock,  *)
(* reads or writes, commits and releases it: it is one action here.  No    *)
(* lock or transaction spans two store calls, so between any two of them   *)
(* other requests, the operator and the clock may act and the handler may  *)
(* die.  stage[p] is the store call request p makes next.                  *)
(*                                                                         *)
(* Money is a natural number of micro-units.  A request body is a record;  *)
(* build_request_hash hashes its canonical JSON, so the body stands for    *)
(* its own hash.  A response carries the request_id of the call that built *)
(* it, which is its field "by".                                            *)
(*                                                                         *)
(* A definition marked "Mutant" is a plausible bug in the definition that  *)
(* follows it; nothing uses it, and with it in place a property fails.     *)
(***************************************************************************)
EXTENDS Integers, FiniteSets

CONSTANTS
    Reqs,             \* the calls to /pay of a behaviour, each made once
    Users, Agents,    \* the two kinds of budget holder
    Tools,            \* registered MCP tools
    Receipts,         \* signed fee receipts that were issued
    Keys,             \* Idempotency-Key values
    Tokens,           \* spend tokens that approvals may issue
    Bodies,           \* request bodies: [agent, user, amount, tool, maxCost]
    Inputs,           \* what callers send: [body, key, receipt, token]
    HitlBodies,       \* bodies for which an active HITL rule or permission asks approval
    IntentRefused,    \* bodies evaluate_intent refuses (a function of the text)
    ScopeRefused,     \* bodies whose scope_of_autonomy does not list their tool
    McpPermitted,     \* bodies whose tool, server, permission and action checks pass
    AnomalyVerdicts,  \* what anomaly scoring may answer: "none", "hitl", "deny"
    FeeOf,            \* [Bodies -> Nat]: compute_firewall_fee of the amount
    ReceiptFee,       \* [Receipts -> Nat]: the amount_due the receipt was paid for
    ToolTxCap,        \* [Tools -> Nat]: its transaction cap, or MAX_AMOUNT
    ToolDailyCap,     \* [Tools -> Nat]: its daily cap
    VelocityLimit,    \* authorizations per agent and user in the velocity window
    Thresholds,       \* budget alert thresholds, in percent of the daily cap
    InitBudget,       \* [Users \cup Agents -> row or None] at the start
    AdminEdits,       \* <<account, row>>: the budgets an operator may write
    MaxInFlight,      \* worker threads: handlers that run at the same time
    MaxDay,           \* bound on the calendar
    None              \* SQL NULL, a missing row, a missing header

Account == Users \cup Agents
Row == [cap : Nat, txCap : Nat, spent : Nat, day : 0..MaxDay]
BodyType == [agent : Agents, user : Users, amount : Nat \ {0},
             tool : Tools \cup {None}, maxCost : Nat \cup {None}]
InputType == [body : Bodies, key : Keys \cup {None},
              receipt : Receipts \cup {None}, token : Tokens \cup {None}]

ASSUME ReqsFinite == IsFiniteSet(Reqs)
ASSUME BodiesTyped == Bodies \subseteq BodyType
ASSUME InputsTyped == Inputs \subseteq InputType
ASSUME FeesTyped == /\ FeeOf \in [Bodies -> Nat]
                    /\ ReceiptFee \in [Receipts -> Nat]
ASSUME LimitsTyped == /\ VelocityLimit \in Nat \ {0}
                      /\ MaxInFlight \in Nat \ {0}
                      /\ MaxDay \in Nat
                      /\ Thresholds \subseteq 1..100
                      /\ ToolTxCap \in [Tools -> Nat] /\ ToolDailyCap \in [Tools -> Nat]
ASSUME HoldersDistinct == Users \cap Agents = {}
ASSUME BudgetsTyped == /\ InitBudget \in [Account -> Row \cup {None}]
                       /\ AdminEdits \subseteq Account \X [cap : Nat, txCap : Nat, spent : Nat]
Codes == {200, 202, 402, 403, 409, 429, 500}
Response == [code : Codes, by : Reqs, form : {"object", "text"}]
IdemRow == [body : Bodies, resp : Response]
TokenRow == [body : Bodies, used : BOOLEAN, revoked : BOOLEAN, expired : BOOLEAN]
\* None is none of the values it is a substitute for.
ASSUME NoneIsFresh == /\ None \notin Receipts \cup Keys \cup Tokens \cup Tools
                      /\ None \notin Row \cup Inputs \cup Response
                      /\ None \notin IdemRow \cup TokenRow
                      /\ None \notin Nat

Working == {"verify", "mcp", "hitl", "consume", "agent", "velocity", "user",
            "book_user", "reread_user", "book_agent", "reread_agent", "event",
            "usage", "alert_user", "alert_agent", "mark", "log", "save",
            "deny_log", "deny_mark", "deny_save"}
Stages == Working \cup {"idle", "done"}

VARIABLES
    \* locals of the handlers
    stage,       \* the store call each request makes next
    req,         \* what its caller sent
    denial,      \* status code of the refusal being written
    agentRow,    \* the agent budget it read, its projected total as spent
    userRow,     \* the same for the user budget
    resp,        \* what it answered
    \* the tables of the store
    budget,      \* budgets and agent_budgets
    receipt,     \* receipts
    token,       \* spend_tokens
    approvals,   \* pending rows of approval_requests, counted by body
    recent,      \* transaction_events inside the velocity window
    toolSpent,   \* sums of mcp_tool_usage_events since midnight UTC
    alerts,      \* event keys in budget_alert_outbox
    log,         \* transaction_logs: who was authorized, who was denied
    idem,        \* idempotency_records
    today,       \* the date
    \* history: not in the code, read only by the properties
    seen,        \* requests already answered when this one arrived
    booked,      \* amounts booked on each account since midnight
    charged,     \* requests that booked their amount on their user
    spentBy      \* requests whose consumption of a token succeeded

locals == <<stage, req, denial, agentRow, userRow, resp>>
store == <<budget, receipt, token, approvals, recent, toolSpent, alerts, log, idem, today>>
history == <<seen, booked, charged, spentBy>>
vars == <<locals, store, history>>

----------------------------------------------------------------------------
(* Reading the state.                                                      *)

Body(p) == req[p].body
Amount(p) == Body(p).amount
Pair(p) == <<Body(p).agent, Body(p).user>>
ToolUse(p) == <<Body(p).tool, Body(p).user>>
InFlight == {p \in Reqs : stage[p] \in Working}
Answered == {p \in Reqs : stage[p] = "done"}

\* Mutant: the row is dated one day ahead.
RolledAhead(x) ==
    IF budget[x] = None \/ budget[x].day = today
    THEN budget[x]
    ELSE [budget[x] EXCEPT !.spent = 0, !.day = today + 1]

\* get_budget and get_agent_budget: the stored row, its spend reset when the
\* date has changed since it was written.
Rolled(x) ==
    IF budget[x] = None \/ budget[x].day = today
    THEN budget[x]
    ELSE [budget[x] EXCEPT !.spent = 0, !.day = today]

\* get_idempotency: the record of a key, if the caller sent one.
Lookup(k) == IF k = None THEN None ELSE idem[k]

\* Mutant: used_at is not looked at.
ReceiptAcceptedAgain(p) ==
    LET r == req[p].receipt IN
    r # None /\ ~receipt[r].expired /\ ReceiptFee[r] = FeeOf[Body(p)]

\* The signed-receipt verifier accepts; every other verdict answers 402.
ReceiptAccepted(p) ==
    LET r == req[p].receipt IN
    /\ r # None
    /\ ~receipt[r].used
    /\ ~receipt[r].expired
    /\ ReceiptFee[r] = FeeOf[Body(p)]

\* validate_and_consume_spend_token up to the consumption: the token exists, is
\* live and was issued for this very request.
TokenUsable(p) ==
    LET t == req[p].token IN
    /\ token[t] # None
    /\ ~token[t].revoked /\ ~token[t].used /\ ~token[t].expired
    /\ token[t].body = Body(p)

\* Mutants: the UPDATE has no condition, or does not exclude revoked tokens.
LiveAlways(t) == TRUE
LiveIfUnused(t) == ~token[t].used

\* The condition of the UPDATE in consume_spend_token.  It does not look at the
\* expiry, which was checked when the token was read.
Live(t) == ~token[t].used /\ ~token[t].revoked

\* Mutant: what the tool has spent today is not counted.
ToolWithinCapAlone(p) == Amount(p) <= ToolDailyCap[Body(p).tool]

\* The daily cap of the tool's permission.
ToolWithinCap(p) == toolSpent[ToolUse(p)] + Amount(p) <= ToolDailyCap[Body(p).tool]

\* Mutant: the limit itself is let through.
TooFastByOne(p) == recent[Pair(p)] > VelocityLimit

\* count_recent_transaction_events has reached the limit.
TooFast(p) == recent[Pair(p)] >= VelocityLimit

----------------------------------------------------------------------------
(* How a step ends: with another store call, or with an answer.            *)

Goto(p, s) == stage' = [stage EXCEPT ![p] = s]
Continue(p, s) == Goto(p, s) /\ UNCHANGED <<denial, resp>>

\* deny_payment with append_log_reason and mark_receipt_id: the refusal is
\* logged and consumes the receipt.
Deny(p, code) ==
    /\ Goto(p, "deny_log")
    /\ denial' = [denial EXCEPT ![p] = code]
    /\ UNCHANGED resp

\* deny_payment without them, and payment_required_response.
Refuse(p, code) ==
    /\ Goto(p, "deny_save")
    /\ denial' = [denial EXCEPT ![p] = code]
    /\ UNCHANGED resp

\* A JSONResponse returned as it is: no log row, no idempotency record.
Return(p, code) ==
    /\ Goto(p, "done")
    /\ resp' = [resp EXCEPT ![p] = [code |-> code, by |-> p, form |-> "object"]]
    /\ UNCHANGED denial

----------------------------------------------------------------------------
(* The handler, one action per store call.                                 *)

\* A call arrives on a free worker and looks its idempotency key up: a record of
\* another body is a conflict, a record of this body is replayed.
Receive(p) ==
    /\ stage[p] = "idle"
    /\ Cardinality(InFlight) < MaxInFlight
    /\ \E in \in Inputs :
         /\ req' = [req EXCEPT ![p] = in]
         /\ LET found == Lookup(in.key) IN
            \/ found = None /\ Continue(p, "verify")
            \/ found # None /\ found.body # in.body /\ Return(p, 409)
            \/ /\ found # None /\ found.body = in.body
               /\ Goto(p, "done")
               /\ resp' = [resp EXCEPT ![p] = found.resp]
               /\ UNCHANGED denial
    /\ seen' = [seen EXCEPT ![p] = Answered]
    /\ UNCHANGED <<agentRow, userRow, store, booked, charged, spentBy>>

\* validate_payment_receipt, then the stateless scope_of_autonomy tool check.
Verify(p) ==
    /\ stage[p] = "verify"
    /\ \/ ~ReceiptAccepted(p) /\ Refuse(p, 402)
       \/ ReceiptAccepted(p) /\ Body(p) \in ScopeRefused /\ Refuse(p, 403)
       \/ /\ ReceiptAccepted(p) /\ Body(p) \notin ScopeRefused
          /\ Continue(p, IF Body(p).tool = None THEN "agent" ELSE "mcp")
    /\ UNCHANGED <<req, agentRow, userRow, store, history>>

\* enforce_mcp_payment_policy before its approval check: what the operator
\* configured for the tool, then the tool's spend so far today.
McpPolicy(p) ==
    /\ stage[p] = "mcp"
    /\ LET ok == /\ Body(p) \in McpPermitted /\ Amount(p) <= ToolTxCap[Body(p).tool]
                 /\ ToolWithinCap(p)
       IN
       \/ ok /\ Continue(p, "hitl")
       \/ ~ok /\ Return(p, 403)
    /\ UNCHANGED <<req, agentRow, userRow, store, history>>

AfterHitl(p) == IF Body(p).tool = None THEN "book_user" ELSE "agent"

\* enforce_direct_hitl_policy and enforce_mcp_hitl_policy: an anomaly may deny; a
\* rule or an anomaly may ask for approval, which a call without a token opens
\* and a call with a usable token goes on to consume.
Hitl(p) ==
    /\ stage[p] = "hitl"
    /\ \E verdict \in AnomalyVerdicts :
         LET needed == Body(p) \in HitlBodies \/ verdict = "hitl" IN
         \/ verdict = "deny" /\ Deny(p, 403) /\ UNCHANGED approvals
         \/ /\ verdict # "deny" /\ ~needed
            /\ Continue(p, AfterHitl(p)) /\ UNCHANGED approvals
         \/ /\ verdict # "deny" /\ needed /\ req[p].token = None
            /\ Return(p, 202)
            /\ approvals' = [approvals EXCEPT ![Body(p)] = @ + 1]
         \/ /\ verdict # "deny" /\ needed /\ req[p].token # None
            /\ IF TokenUsable(p) THEN Continue(p, "consume") ELSE Return(p, 403)
            /\ UNCHANGED approvals
    /\ UNCHANGED <<req, agentRow, userRow, budget, receipt, token, recent,
                   toolSpent, alerts, log, idem, today, history>>

\* consume_spend_token: one conditional UPDATE.
Consume(p) ==
    /\ stage[p] = "consume"
    /\ LET t == req[p].token IN
       \/ /\ Live(t)
          /\ token' = [token EXCEPT ![t].used = TRUE]
          /\ spentBy' = [spentBy EXCEPT ![t] = @ \cup {p}]
          /\ Continue(p, AfterHitl(p))
       \/ ~Live(t) /\ Return(p, 403) /\ UNCHANGED <<token, spentBy>>
    /\ UNCHANGED <<req, agentRow, userRow, budget, receipt, approvals, recent,
                   toolSpent, alerts, log, idem, today, seen, booked, charged>>

\* get_agent_budget (which rolls the day over) and the two caps of the agent.
ReadAgent(p) ==
    /\ stage[p] = "agent"
    /\ LET a == Body(p).agent
           row == Rolled(a)
           total == row.spent + Amount(p)
       IN /\ budget' = [budget EXCEPT ![a] = row]
          /\ \/ row = None /\ Refuse(p, 403) /\ UNCHANGED agentRow
             \/ /\ row # None /\ (Amount(p) > row.txCap \/ total > row.cap)
                /\ Deny(p, 403) /\ UNCHANGED agentRow
             \/ /\ row # None /\ Amount(p) <= row.txCap /\ total <= row.cap
                /\ Continue(p, "velocity")
                /\ agentRow' = [agentRow EXCEPT ![p] = [row EXCEPT !.spent = total]]
    /\ UNCHANGED <<req, userRow, receipt, token, approvals, recent, toolSpent,
                   alerts, log, idem, today, history>>

\* The velocity limit, on a count that requests in flight are about to raise.
Velocity(p) ==
    /\ stage[p] = "velocity"
    /\ \/ TooFast(p) /\ Deny(p, 429)
       \/ ~TooFast(p) /\ Continue(p, "user")
    /\ UNCHANGED <<req, agentRow, userRow, store, history>>

\* get_budget, the scope's max_cost, the two caps of the user, evaluate_intent.
ReadUser(p) ==
    /\ stage[p] = "user"
    /\ LET u == Body(p).user
           row == Rolled(u)
           total == row.spent + Amount(p)
           inScope == Body(p).maxCost # None => total <= Body(p).maxCost
           within == /\ Amount(p) <= row.txCap
                     /\ total <= row.cap
                     /\ Body(p) \notin IntentRefused
       IN /\ budget' = [budget EXCEPT ![u] = row]
          /\ \/ row = None /\ Deny(p, 403) /\ UNCHANGED userRow
             \/ row # None /\ ~inScope /\ Refuse(p, 403) /\ UNCHANGED userRow
             \/ row # None /\ inScope /\ ~within /\ Deny(p, 403) /\ UNCHANGED userRow
             \/ /\ row # None /\ inScope /\ within
                /\ Continue(p, IF Body(p).tool = None THEN "hitl" ELSE "book_user")
                /\ userRow' = [userRow EXCEPT ![p] = [row EXCEPT !.spent = total]]
    /\ UNCHANGED <<req, agentRow, receipt, token, approvals, recent, toolSpent,
                   alerts, log, idem, today, history>>

----------------------------------------------------------------------------
(* finalize_authorized_payment.                                            *)

\* Mutants: the amount is added to whatever the row holds; the row keeps its date.
BookIncrement(x, total, amount) ==
    /\ budget' = [budget EXCEPT ![x] = [@ EXCEPT !.spent = @ + amount, !.day = today]]
    /\ booked' = [booked EXCEPT ![x] = @ + amount]
BookUndated(x, total, amount) ==
    /\ budget' = [budget EXCEPT ![x] = [@ EXCEPT !.spent = total]]
    /\ booked' = [booked EXCEPT ![x] = @ + amount]

\* The spend of an account becomes the total projected when it was read, and is
\* dated today: an absolute write, whatever the row holds by now.
Book(x, total, amount) ==
    /\ budget' = [budget EXCEPT ![x] = [@ EXCEPT !.spent = total, !.day = today]]
    /\ booked' = [booked EXCEPT ![x] = @ + amount]

\* get_budget again, which rolls the row over if midnight has passed.
ReadBack(x) == budget' = [budget EXCEPT ![x] = Rolled(x)]

\* update_spent_today, which commits and then reads the row back, and the same
\* for update_agent_spent_today.
BookUser(p) ==
    /\ stage[p] = "book_user"
    /\ Book(Body(p).user, userRow[p].spent, Amount(p))
    /\ charged' = charged \cup {p}
    /\ Continue(p, "reread_user")
    /\ UNCHANGED <<req, agentRow, userRow, receipt, token, approvals, recent,
                   toolSpent, alerts, log, idem, today, seen, spentBy>>

RereadUser(p) ==
    /\ stage[p] = "reread_user"
    /\ ReadBack(Body(p).user)
    /\ userRow' = [userRow EXCEPT ![p] = Rolled(Body(p).user)]
    /\ Continue(p, "book_agent")
    /\ UNCHANGED <<req, agentRow, receipt, token, approvals, recent, toolSpent,
                   alerts, log, idem, today, history>>

BookAgent(p) ==
    /\ stage[p] = "book_agent"
    /\ Book(Body(p).agent, agentRow[p].spent, Amount(p))
    /\ Continue(p, "reread_agent")
    /\ UNCHANGED <<req, agentRow, userRow, receipt, token, approvals, recent,
                   toolSpent, alerts, log, idem, today, seen, charged, spentBy>>

RereadAgent(p) ==
    /\ stage[p] = "reread_agent"
    /\ ReadBack(Body(p).agent)
    /\ agentRow' = [agentRow EXCEPT ![p] = Rolled(Body(p).agent)]
    /\ Continue(p, "event")
    /\ UNCHANGED <<req, userRow, receipt, token, approvals, recent, toolSpent,
                   alerts, log, idem, today, history>>

\* record_transaction_event.
RecordEvent(p) ==
    /\ stage[p] = "event"
    /\ recent' = [recent EXCEPT ![Pair(p)] = @ + 1]
    /\ Continue(p, IF Body(p).tool = None THEN "alert_user" ELSE "usage")
    /\ UNCHANGED <<req, agentRow, userRow, budget, receipt, token, approvals,
                   toolSpent, alerts, log, idem, today, history>>

\* record_mcp_tool_usage.
RecordUsage(p) ==
    /\ stage[p] = "usage"
    /\ toolSpent' = [toolSpent EXCEPT ![ToolUse(p)] = @ + Amount(p)]
    /\ Continue(p, "alert_user")
    /\ UNCHANGED <<req, agentRow, userRow, budget, receipt, token, approvals,
                   recent, alerts, log, idem, today, history>>

\* enqueue_budget_alerts: one outbox row per account, date and threshold reached.
Reached(row) == {th \in Thresholds : row.cap > 0 /\ row.spent * 100 >= th * row.cap}

\* Mutant: one alert per account and date, whatever the threshold.
EnqueueOnce(x, row) ==
    alerts' = IF \E th \in Thresholds : <<x, today, th>> \in alerts
              THEN alerts ELSE alerts \cup ({x} \X {today} \X Reached(row))

Enqueue(x, row) == alerts' = alerts \cup ({x} \X {today} \X Reached(row))

AlertUser(p) ==
    /\ stage[p] = "alert_user"
    /\ Enqueue(Body(p).user, userRow[p])
    /\ Continue(p, "alert_agent")
    /\ UNCHANGED <<req, agentRow, userRow, budget, receipt, token, approvals,
                   recent, toolSpent, log, idem, today, history>>

AlertAgent(p) ==
    /\ stage[p] = "alert_agent"
    /\ Enqueue(Body(p).agent, agentRow[p])
    /\ Continue(p, "mark")
    /\ UNCHANGED <<req, agentRow, userRow, budget, receipt, token, approvals,
                   recent, toolSpent, log, idem, today, history>>

\* mark_receipt_used: an UPDATE without a condition on used_at.
MarkUsed(p) == receipt' = [receipt EXCEPT ![req[p].receipt].used = TRUE]

\* Mutant: the receipt stays usable after the payment.
MarkReceiptSkipped(p) ==
    /\ stage[p] = "mark"
    /\ Continue(p, "log")
    /\ UNCHANGED <<req, agentRow, userRow, store, history>>

MarkReceipt(p) ==
    /\ stage[p] = "mark"
    /\ MarkUsed(p)
    /\ Continue(p, "log")
    /\ UNCHANGED <<req, agentRow, userRow, budget, token, approvals, recent,
                   toolSpent, alerts, log, idem, today, history>>

\* append_log AUTHORIZED and the append-only evidence rows after it (audit
\* entries, identity profile, anomaly record), which nothing here reads back.
LogAuthorized(p) ==
    /\ stage[p] = "log"
    /\ log' = log \cup {<<p, "AUTHORIZED">>}
    /\ Continue(p, "save")
    /\ UNCHANGED <<req, agentRow, userRow, budget, receipt, token, approvals,
                   recent, toolSpent, alerts, idem, today, history>>

----------------------------------------------------------------------------
(* save_idempotency is an upsert: the last writer of a key wins.  The 200  *)
(* body is stored as an object; deny_payment stores response.body.decode(),*)
(* so the record holds the JSON text of the body.                          *)

\* Mutant: only refusals are recorded.
RecordRefusal(p, code, form) ==
    LET k == req[p].key
        row == [body |-> Body(p),
                resp |-> [code |-> code, by |-> p, form |-> form]]
    IN idem' = IF k = None \/ code = 200 THEN idem ELSE [idem EXCEPT ![k] = row]

Record(p, code, form) ==
    LET k == req[p].key
        row == [body |-> Body(p),
                resp |-> [code |-> code, by |-> p, form |-> form]]
    IN idem' = IF k = None THEN idem ELSE [idem EXCEPT ![k] = row]

SaveAuthorized(p) ==
    /\ stage[p] = "save"
    /\ Record(p, 200, "object")
    /\ Return(p, 200)
    /\ UNCHANGED <<req, agentRow, userRow, budget, receipt, token, approvals,
                   recent, toolSpent, alerts, log, today, history>>

DenyLog(p) ==
    /\ stage[p] = "deny_log"
    /\ log' = log \cup {<<p, "DENIED">>}
    /\ Continue(p, "deny_mark")
    /\ UNCHANGED <<req, agentRow, userRow, budget, receipt, token, approvals,
                   recent, toolSpent, alerts, idem, today, history>>

DenyMark(p) ==
    /\ stage[p] = "deny_mark"
    /\ MarkUsed(p)
    /\ Continue(p, "deny_save")
    /\ UNCHANGED <<req, agentRow, userRow, budget, token, approvals, recent,
                   toolSpent, alerts, log, idem, today, history>>

DenySave(p) ==
    /\ stage[p] = "deny_save"
    /\ Record(p, denial[p], "text")
    /\ Return(p, denial[p])
    /\ UNCHANGED <<req, agentRow, userRow, budget, receipt, token, approvals,
                   recent, toolSpent, alerts, log, today, history>>

\* A store call raises (database down, lock timeout) or the process dies: the
\* handler stops where it is and the caller sees a 500 or a broken connection.
Fail(p) ==
    /\ stage[p] \in Working
    /\ Return(p, 500)
    /\ UNCHANGED <<req, agentRow, userRow, store, history>>

----------------------------------------------------------------------------
(* The operator and the clock.                                             *)

\* decide_approval: approving a pending request issues a token for its body.  The
\* decision and the token are two commits; nothing here reads what is between.
Approve(b, t) ==
    /\ approvals[b] > 0
    /\ token[t] = None
    /\ approvals' = [approvals EXCEPT ![b] = @ - 1]
    /\ token' = [token EXCEPT ![t] = [body |-> b, used |-> FALSE,
                                      revoked |-> FALSE, expired |-> FALSE]]
    /\ UNCHANGED <<locals, budget, receipt, recent, toolSpent, alerts, log, idem,
                   today, history>>

\* The operator denies a pending request, it expires, or the process dies after the
\* decision was stored and before the token was.
Withdraw(b) ==
    /\ approvals[b] > 0
    /\ approvals' = [approvals EXCEPT ![b] = @ - 1]
    /\ UNCHANGED <<locals, budget, receipt, token, recent, toolSpent, alerts, log,
                   idem, today, history>>

\* revoke_spend_token: a conditional UPDATE like the consumption.
Revoke(t) ==
    /\ token[t] # None
    /\ ~token[t].used /\ ~token[t].revoked
    /\ token' = [token EXCEPT ![t].revoked = TRUE]
    /\ UNCHANGED <<locals, budget, receipt, approvals, recent, toolSpent, alerts,
                   log, idem, today, history>>

\* The expiry times of a token and of a receipt pass.
TokenExpires(t) ==
    /\ token[t] # None /\ ~token[t].expired
    /\ token' = [token EXCEPT ![t].expired = TRUE]
    /\ UNCHANGED <<locals, budget, receipt, approvals, recent, toolSpent, alerts,
                   log, idem, today, history>>

ReceiptExpires(r) ==
    /\ ~receipt[r].expired
    /\ receipt' = [receipt EXCEPT ![r].expired = TRUE]
    /\ UNCHANGED <<locals, budget, token, approvals, recent, toolSpent, alerts,
                   log, idem, today, history>>

\* The oldest event of a pair leaves the velocity window.
EventAges(pair) ==
    /\ recent[pair] > 0
    /\ recent' = [recent EXCEPT ![pair] = @ - 1]
    /\ UNCHANGED <<locals, budget, receipt, token, approvals, toolSpent, alerts,
                   log, idem, today, history>>

\* upsert_budget and upsert_agent_budget: the operator sets caps and spend, which
\* is a new start for what is booked against them.
UpsertBudget(x, new) ==
    LET row == [cap |-> new.cap, txCap |-> new.txCap, spent |-> new.spent, day |-> today] IN
    /\ budget[x] # row
    /\ budget' = [budget EXCEPT ![x] = row]
    /\ booked' = [booked EXCEPT ![x] = 0]
    /\ UNCHANGED <<locals, receipt, token, approvals, recent, toolSpent, alerts,
                   log, idem, today, seen, charged, spentBy>>

\* Midnight where the server is (date.today()): a budget rolls over when it is
\* next read.
NewDay ==
    /\ today < MaxDay
    /\ today' = today + 1
    /\ booked' = [x \in Account |-> 0]
    /\ UNCHANGED <<locals, budget, receipt, token, approvals, recent, toolSpent,
                   alerts, log, idem, seen, charged, spentBy>>

\* Midnight in UTC, by which get_mcp_tool_spent_today counts a tool's usage.
NewUtcDay ==
    /\ \E tu \in Tools \X Users : toolSpent[tu] > 0
    /\ toolSpent' = [tu \in Tools \X Users |-> 0]
    /\ UNCHANGED <<locals, budget, receipt, token, approvals, recent, alerts, log,
                   idem, today, history>>

----------------------------------------------------------------------------
Init ==
    /\ stage = [p \in Reqs |-> "idle"]
    /\ req = [p \in Reqs |-> None]
    /\ denial = [p \in Reqs |-> 500]
    /\ agentRow = [p \in Reqs |-> None]
    /\ userRow = [p \in Reqs |-> None]
    /\ resp = [p \in Reqs |-> None]
    /\ budget = InitBudget
    /\ receipt = [r \in Receipts |-> [used |-> FALSE, expired |-> FALSE]]
    /\ token = [t \in Tokens |-> None]
    /\ approvals = [b \in Bodies |-> 0]
    /\ recent = [pair \in Agents \X Users |-> 0]
    /\ toolSpent = [tu \in Tools \X Users |-> 0]
    /\ alerts = {}
    /\ log = {}
    /\ idem = [k \in Keys |-> None]
    /\ today = 0
    /\ seen = [p \in Reqs |-> {}]
    /\ booked = [x \in Account |-> 0]
    /\ charged = {}
    /\ spentBy = [t \in Tokens |-> {}]

Check(p) == \/ Receive(p) \/ Verify(p) \/ McpPolicy(p) \/ Hitl(p) \/ Consume(p)
            \/ ReadAgent(p) \/ Velocity(p) \/ ReadUser(p)

Finalize(p) == \/ BookUser(p) \/ RereadUser(p) \/ BookAgent(p) \/ RereadAgent(p)
               \/ RecordEvent(p) \/ RecordUsage(p) \/ AlertUser(p)
               \/ AlertAgent(p) \/ MarkReceipt(p)
               \/ LogAuthorized(p) \/ SaveAuthorized(p)

Denial(p) == DenyLog(p) \/ DenyMark(p) \/ DenySave(p)

Handler(p) == Check(p) \/ Finalize(p) \/ Denial(p) \/ Fail(p)

Environment ==
    \/ \E b \in Bodies, t \in Tokens : Approve(b, t)
    \/ \E b \in Bodies : Withdraw(b)
    \/ \E t \in Tokens : Revoke(t) \/ TokenExpires(t)
    \/ \E r \in Receipts : ReceiptExpires(r)
    \/ \E pair \in Agents \X Users : EventAges(pair)
    \/ \E edit \in AdminEdits : UpsertBudget(edit[1], edit[2])
    \/ NewDay
    \/ NewUtcDay

\* Every call has been answered; the behaviour may end here and nowhere else.
Quiesced == Answered = Reqs /\ UNCHANGED vars

Next == (\E p \in Reqs : Handler(p)) \/ Environment \/ Quiesced

Spec == Init /\ [][Next]_vars

----------------------------------------------------------------------------
(* Properties.                                                             *)

LocalsTyped ==
    /\ stage \in [Reqs -> Stages]
    /\ req \in [Reqs -> Inputs \cup {None}]
    /\ denial \in [Reqs -> Codes]
    /\ agentRow \in [Reqs -> Row \cup {None}]
    /\ userRow \in [Reqs -> Row \cup {None}]
    /\ resp \in [Reqs -> Response \cup {None}]

StoreTyped ==
    /\ budget \in [Account -> Row \cup {None}]
    /\ receipt \in [Receipts -> [used : BOOLEAN, expired : BOOLEAN]]
    /\ token \in [Tokens -> TokenRow \cup {None}]
    /\ approvals \in [Bodies -> Nat]
    /\ recent \in [Agents \X Users -> Nat]
    /\ toolSpent \in [Tools \X Users -> Nat]
    /\ alerts \subseteq Account \X (0..MaxDay) \X Thresholds
    /\ log \subseteq Reqs \X {"AUTHORIZED", "DENIED"}
    /\ idem \in [Keys -> IdemRow \cup {None}]
    /\ today \in 0..MaxDay

HistoryTyped ==
    /\ seen \in [Reqs -> SUBSET Reqs]
    /\ booked \in [Account -> Nat]
    /\ charged \subseteq Reqs
    /\ spentBy \in [Tokens -> SUBSET Reqs]

TypeOK == LocalsTyped /\ StoreTyped /\ HistoryTyped

\* p was authorized by its own pass through the pipeline and told so.
AuthorizedItself(p) == resp[p] # None /\ resp[p].code = 200 /\ resp[p].by = p

\* p consumed its receipt and went on to answer: authorized, or denied for a
\* reason that consumes the receipt.
ConsumedReceipt(p) ==
    \/ <<p, "AUTHORIZED">> \in log
    \/ <<p, "DENIED">> \in log /\ stage[p] = "done" /\ resp[p].code # 500

\* A payment that a rule holds for human approval is booked only by a request
\* that consumed a token issued for exactly this body, and no token backs two of
\* them, whatever the requests racing for it (hitl_policy.py:668-704,
\* storage.py:5131-5142).
ApprovalBacksPayment ==
    \A p \in charged : Body(p) \in HitlBodies =>
        \E t \in Tokens : spentBy[t] = {p} /\ token[t].body = Body(p)

\* Revocation and consumption exclude each other: once the operator has been
\* told a token is revoked no payment uses it, and a used token is not reported
\* revoked (storage.py:5131-5155).
RevocationHolds == \A t \in Tokens :
    token[t] # None /\ token[t].revoked => spentBy[t] = {} /\ ~token[t].used

\* A retry under the same key that arrives after an authorization was answered
\* never pays again (payment_entry_checks.py:114-138 with
\* payment_finalize.py:306-307).
NoPaymentOnRetry ==
    \A p, q \in Reqs :
        /\ p # q /\ AuthorizedItself(p) /\ p \in seen[q]
        /\ req[q].key = req[p].key /\ req[p].key # None
        => q \notin charged

\* A receipt that an answered request consumed, by being authorized or by being
\* denied on a budget, velocity, intent or anomaly check, pays for no request
\* that arrives later (storage.py:2706-2714, x402.py:182-190).
ConsumedReceiptStaysConsumed ==
    \A p, q \in Reqs :
        /\ p # q /\ ConsumedReceipt(p) /\ p \in seen[q]
        /\ req[q].receipt = req[p].receipt
        => q \notin charged

\* The velocity check reads a count that other requests are about to raise, so
\* the limit can be overshot, but only by the other requests in flight
\* (main.py:2272-2299).
VelocityOvershootBounded ==
    \A pair \in Agents \X Users : recent[pair] <= VelocityLimit + MaxInFlight - 1

\* A stored 200 is only ever replayed for a payment all of whose effects have
\* been committed: booked, logged, receipt consumed, alerts queued for every
\* threshold its totals reached (payment_finalize.py:113-307).
StoredAuthorizationIsComplete ==
    \A k \in Keys : idem[k] # None /\ idem[k].resp.code = 200 =>
        LET p == idem[k].resp.by IN
        /\ p \in charged
        /\ <<p, "AUTHORIZED">> \in log
        /\ receipt[req[p].receipt].used
        /\ \A th \in Reached(userRow[p]) :
               \E d \in 0..MaxDay : <<Body(p).user, d, th>> \in alerts
        /\ \A th \in Reached(agentRow[p]) :
               \E d \in 0..MaxDay : <<Body(p).agent, d, th>> \in alerts

\* With one worker and no operator edit the recorded spend of an account covers
\* every amount booked on it today and never exceeds its cap, through midnight
\* and through handlers that die half way (storage.py:1194-1223, 1286-1299;
\* main.py:2244-2270, 2379-2404).
DailyCapHeld ==
    \A x \in Account : budget[x] # None =>
        booked[x] <= Rolled(x).spent /\ Rolled(x).spent <= budget[x].cap

\* With any number of workers the recorded spend of an account stays within its
\* cap as long as the operator never lowers the cap: the finalizer writes the
\* total that was compared with the cap, not an increment.  (What is really
\* booked may exceed it, which is why DailyCapHeld needs one worker.)
RecordedSpendWithinCap ==
    \A x \in Account : budget[x] # None => budget[x].spent <= budget[x].cap

\* The cap of a tool is compared with a total that other payments are about to raise:
\* a day's usage can exceed it, but by no more than one transaction cap for each
\* further worker; with one worker it holds (mcp/payment_policy.py:253-297,
\* payment_finalize.py:113-118).
ToolOvershootBounded ==
    \A tu \in Tools \X Users :
        toolSpent[tu] <= ToolDailyCap[tu[1]] + (MaxInFlight - 1) * ToolTxCap[tu[1]]

\* Whoever finds a receipt unused is in flight before the first of them marks it: it
\* authorizes at most one payment for each worker, also when handlers die between
\* booking and marking; with one worker it authorizes one (storage.py:2706,
\* payment_finalize.py:151-155).
ReceiptOveruseBounded ==
    \A r \in Receipts :
        Cardinality({p \in Reqs : <<p, "AUTHORIZED">> \in log /\ req[p].receipt = r}) <= MaxInFlight

\* "Persist the first completed response for an idempotency key."
\* (storage.py:5257): a key that has a record keeps it.
FirstResponseKept ==
    [][\A k \in Keys : idem[k] # None => idem'[k] = idem[k]]_vars

\* "Mark a receipt as consumed so it cannot authorize unrelated requests again."
\* (storage.py:2707): two authorized requests with different bodies never share a
\* receipt.
ReceiptAuthorizesOneBody ==
    \A p, q \in Reqs :
        /\ <<p, "AUTHORIZED">> \in log /\ <<q, "AUTHORIZED">> \in log
        /\ req[p].receipt = req[q].receipt
        => Body(p) = Body(q)

\* "Replaying the same key with the same request body returns the identical
\* cached response instead of re-authorizing." (docs/x402/CONTRACT.md:139-141):
\* a request that finds a finished twin's record answers what the twin answered.
ReplayIsIdentical ==
    \A p, q \in Answered :
        /\ p \in seen[q] /\ req[p].key = req[q].key /\ req[p].key # None
        /\ Body(p) = Body(q) /\ resp[q].by = p
        => resp[q] = resp[p]

=============================================================================
