------------------------------ MODULE MCControl ------------------------------
(***************************************************************************)
(* Four parts of the firewall that share no row with one another, side by  *)
(* side: a behaviour belongs to one of them, and the others stand still.   *)
(***************************************************************************)
EXTENDS Registry, AuditTrace, OAuth, Anomalies

CONSTANTS plain, other, high, critical, s1, t1

VARIABLE part

----------------------------------------------------------------------------
MCServerOf == [t \in Tools |-> s1]
MCFound == [d \in Descriptions |->
              IF d = high THEN {"high"} ELSE IF d = critical THEN {"critical"} ELSE {}]

\* The registry is empty, or has a trusted server with a tool that a user may use.
Registered1 ==
    /\ server = [s \in Servers |-> "trusted"]
    /\ tool = [t \in Tools |-> [description |-> plain, first |-> plain, changed |-> FALSE,
                                flags |-> {}, status |-> "clear"]]
    /\ grant = [t \in Tools |-> "granted"]
    /\ queued = {} /\ edited = 0
    /\ call = [h \in Handlers |-> Idle]
    /\ since = [h \in Handlers |-> {}]

\* Handlers differ in nothing but their number: they begin in its order.
InOrder == \A h, k \in Handlers : h < k /\ call[h].step = "idle" => call[k].step = "idle"

----------------------------------------------------------------------------
SameBody == [r \in Runs |-> "body"]
RunsInOrder == \A r, q \in Runs : r < q /\ step[r] = "called" => step[q] = "called"

----------------------------------------------------------------------------
\* Averages of 20: a tool that pays far below, a payment far above to a new vendor, and
\* one in a new currency for which there is a rule.
MCDetail == [p \in Payers |->
   CASE p = 1 -> [amount |-> 5, currency |-> "usd", vendor |-> "shop", user |-> "u",
                  tool |-> TRUE, reasons |-> {}]
     [] p = 2 -> [amount |-> 45, currency |-> "usd", vendor |-> "new", user |-> "u",
                  tool |-> FALSE, reasons |-> {}]
     [] p = 3 -> [amount |-> 10, currency |-> "eur", vendor |-> "shop", user |-> "w",
                  tool |-> FALSE, reasons |-> {"rule"}]]
PastOf(n) == [c \in Currencies |-> IF c = "usd" THEN [count |-> n, total |-> 20 * n]
                                              ELSE [count |-> 0, total |-> 0]]
\* One payment short of a baseline, and with one.
MCPast == {PastOf(2), PastOf(3)}
MCPastLog == {<<"shop", "u">>}

----------------------------------------------------------------------------
MCInit ==
    /\ part \in {"registry", "trace", "oauth", "anomalies"}
    /\ RegInit \/ (part = "registry" /\ Registered1)
    /\ TraceInit /\ OAuthInit /\ AnomInit
    /\ part = "anomalies" \/ scene = [posture |-> "disabled", past |-> PastOf(2)]

MCNext ==
    /\ \/ part = "registry" /\ RegNext /\ UNCHANGED <<traceVars, oauthVars, anomVars>>
       \/ part = "trace" /\ TraceNext /\ UNCHANGED <<regVars, oauthVars, anomVars>>
       \/ part = "oauth" /\ OAuthNext /\ UNCHANGED <<regVars, traceVars, anomVars>>
       \/ part = "anomalies" /\ AnomNext /\ UNCHANGED <<regVars, traceVars, oauthVars>>
    /\ InOrder' /\ RunsInOrder'
    /\ UNCHANGED part

MCSpec == MCInit /\ [][MCNext]_<<regVars, traceVars, oauthVars, anomVars, part>>

\* Every variable of the four parts has its type.
TypeOK == RegTypeOK /\ TraceTypeOK /\ OAuthTypeOK /\ AnomTypeOK
=============================================================================
