------------------------------ MODULE Anomalies ------------------------------
(***************************************************************************)
(* Scoring a payment against the history of its agent                      *)
(* (app/ops/anomalies.py), at the gate that may deny or hold it            *)
(* (app/hitl_policy.py) and again when it is finalized                     *)
(* (app/payment_finalize.py).  Each scoring reads profiles, vendors and    *)
(* pairs in three store calls; payments of the same agent overlap.         *)
(* One agent in one posture is modelled, with one profile per currency.    *)
(***************************************************************************)
EXTENDS Integers, FiniteSets, Sequences, Functions

CONSTANTS
    Payers,        \* payments of the agent
    Detail,        \* [Payers -> [amount, currency, vendor, user, tool, reasons]]: whether
                   \* an MCP tool pays, and what else than its score calls for a human
    Currencies,
    Past,          \* profiles the agent may have at first: [Currencies -> [count, total]]
    PastLog,       \* pairs <<vendor, user>> of payments already in the log
    Postures,      \* postures the agent may be in
    HoldAt, DenyAt, AlertAt \* thresholds: a severity or "disabled"

Severities == <<"informational", "low", "medium", "high">>
\* anomaly_severity_rank.
Rank(s) == CHOOSE i \in 0..4 : IF i = 0 THEN s = "disabled" ELSE Severities[i] = s
\* anomaly_severity_meets_threshold.
Meets(s, threshold) == threshold # "disabled" /\ Rank(s) >= Rank(threshold)

ASSUME ThresholdsTyped == {HoldAt, DenyAt, AlertAt} \subseteq {"disabled"} \cup {Severities[i] : i \in 1..4}
ASSUME AnomTyped ==
    /\ IsFiniteSet(Payers) /\ IsFiniteSet(Currencies) /\ IsFiniteSet(PastLog)
    /\ \A p \in Payers : Detail[p].amount \in Nat /\ Detail[p].currency \in Currencies
    /\ Past \subseteq [Currencies -> [count : Nat, total : Nat]]

VARIABLES
    profile,    \* infrastructure_identity_profiles of the agent: [Currencies -> [count, total]]
    log,        \* transaction_logs with result AUTHORIZED: the payers
    scene,      \* the posture of this behaviour, and the profile at first
    stage,      \* the store call each payment makes next
    seen,       \* what the current scoring of a payment has read
    severity,   \* its last severity
    alerted,    \* payments with an anomaly and an alert in the store
    approved,   \* payments a human has let pass: they have a spend token
    overlaps    \* history: another payment changed the log or the profile since the
                \* gate began to read them

anomVars == <<profile, log, scene, stage, seen, severity, alerted, approved, overlaps>>

\* No score denies or holds, and no profile is kept, when the policy of identities is off.
Asks == scene.posture # "disabled"

\* _compute_infrastructure_identity_anomaly_context scores only for a threshold.
Scores == Asks /\ {HoldAt, DenyAt} # {"disabled"}

MinEvents == 3   \* INFRASTRUCTURE_IDENTITY_ANOMALY_CONTEXT_MIN_EVENTS
Blank == [count |-> 0, total |-> 0, events |-> 0, vendor |-> 0, pair |-> 0]

Go(p, from, to) == stage[p] = from /\ stage' = [stage EXCEPT ![p] = to]

----------------------------------------------------------------------------
(* compute_infrastructure_identity_anomaly.                                *)

Extra(s) ==
    IF s.events < MinEvents THEN 0
    ELSE (IF s.count = 0 THEN 3 ELSE 0) + (IF s.vendor = 0 THEN 2 ELSE 0) + (IF s.pair = 0 THEN 2 ELSE 0)

AmountReady(s) == s.count >= MinEvents

Distance(x, y) == IF x >= y THEN x - y ELSE y - x

\* score >= quarters / 4, with score = |amount - total / count| / (total / count),
\* if there is an average, plus three quarters or a half for each first time.
ScoreAtLeast(s, amount, quarters) ==
    LET far == IF AmountReady(s) /\ s.total > 0
               THEN 4 * Distance(amount * s.count, s.total) ELSE 0
        unit == IF AmountReady(s) /\ s.total > 0 THEN s.total ELSE 1
    IN far + Extra(s) * unit >= quarters * unit

SeverityOf(s, amount, pos) ==
    LET scored == IF ScoreAtLeast(s, amount, 8) THEN "high"
                 ELSE IF ScoreAtLeast(s, amount, 4) THEN "medium"
                 ELSE IF AmountReady(s) \/ ScoreAtLeast(s, amount, 1) THEN "low"
                 ELSE "informational"
    IN IF pos \in {"oauth_only", "untrusted_workload"} /\ scored = "low" THEN "medium" ELSE scored

----------------------------------------------------------------------------
(* build_infrastructure_identity_anomaly_inputs, three store calls.        *)

\* list_infrastructure_identity_profiles: all currencies of the agent and posture.
ReadProfiles(p, from, to) ==
    /\ Go(p, from, to)
    /\ LET mine == profile[Detail[p].currency] IN
       seen' = [seen EXCEPT ![p] = [Blank EXCEPT !.count = mine.count, !.total = mine.total,
                  !.events = SumFunctionOnSet([c \in Currencies |-> profile[c].count], Currencies)]]
    /\ UNCHANGED <<profile, log, scene, severity, alerted, approved>>

\* count_user_vendor_authorized_transactions.
CountVendor(p, from, to) ==
    /\ Go(p, from, to)
    /\ seen' = [seen EXCEPT ![p].vendor =
         Cardinality({q \in log : <<Detail[q].vendor, Detail[q].user>> = <<Detail[p].vendor, Detail[p].user>>})
         + Cardinality({e \in PastLog : e = <<Detail[p].vendor, Detail[p].user>>})]
    /\ UNCHANGED <<profile, log, scene, severity, alerted, approved>>

\* count_agent_user_authorized_transactions.
CountPair(p, from, to) ==
    /\ Go(p, from, to)
    /\ seen' = [seen EXCEPT ![p].pair =
         Cardinality({q \in log : Detail[q].user = Detail[p].user})
         + Cardinality({e \in PastLog : e[2] = Detail[p].user})]
    /\ UNCHANGED <<profile, log, scene, severity, alerted, approved>>

----------------------------------------------------------------------------
(* The gate: enforce_direct_hitl_policy, enforce_mcp_hitl_policy.          *)

GateUnscored(p) ==
    /\ ~Scores /\ Go(p, "called", "gate")
    /\ UNCHANGED <<profile, log, scene, seen, severity, alerted, approved, overlaps>>

GateProfiles(p) == Scores /\ ReadProfiles(p, "called", "gate_vendor") /\ overlaps' = overlaps \ {p}
GateVendor(p) == CountVendor(p, "gate_vendor", "gate_pair") /\ UNCHANGED overlaps
GatePair(p) == CountPair(p, "gate_pair", "gate") /\ UNCHANGED overlaps

\* Whether the score at the gate meets a threshold.
Anomalous(p, threshold) == Scores /\ Meets(SeverityOf(seen[p], Detail[p].amount, scene.posture), threshold)

Scored(p) ==
    /\ severity' = IF Scores THEN [severity EXCEPT ![p] = SeverityOf(seen[p], Detail[p].amount, scene.posture)]
                             ELSE severity
    /\ UNCHANGED <<profile, log, scene, seen, alerted, approved, overlaps>>

\* The deny threshold asks everyone, the hold threshold those without a spend token.
\* Mutant: a spend token answers both.
GateTokenFirst(p, reasons) ==
    /\ IF p \in approved THEN Go(p, "gate", "final_profiles")
       ELSE IF Anomalous(p, DenyAt) THEN Go(p, "gate", "denied")
       ELSE Go(p, "gate", IF reasons # {} \/ Anomalous(p, HoldAt) THEN "held" ELSE "final_profiles")
    /\ Scored(p)

\* Denied, held for a human who may let it pass, or let through.
Gate(p, reasons) ==
    /\ IF Anomalous(p, DenyAt) THEN Go(p, "gate", "denied")
       ELSE IF (reasons # {} \/ Anomalous(p, HoldAt)) /\ p \notin approved THEN Go(p, "gate", "held")
       ELSE Go(p, "gate", "final_profiles")
    /\ Scored(p)

\* The amount this identity may pay alone, _infrastructure_identity_trigger, is a part
\* of the policy of identities.
Reasons(p) == IF Asks THEN Detail[p].reasons ELSE Detail[p].reasons \ {"identity"}

\* enforce_direct_hitl_policy returns at once for a tool; enforce_mcp_hitl_policy has two
\* reasons more: the permission of the tool and an unknown server.
GateDirect(p) == ~Detail[p].tool /\ Gate(p, Reasons(p) \cap {"identity", "rule"})
GateMcp(p) == Detail[p].tool /\ Gate(p, Reasons(p))

\* A human approves, and the payment is called again with its spend token.
Resume(p) ==
    /\ Go(p, "held", "called")
    /\ approved' = approved \cup {p}
    /\ UNCHANGED <<profile, log, scene, seen, severity, alerted, overlaps>>

\* _deny_for_infrastructure_identity_anomaly records and alerts, whatever the
\* threshold of alerts is.
DenyRecorded(p) ==
    /\ Go(p, "denied", "over")
    /\ alerted' = alerted \cup {p}
    /\ UNCHANGED <<profile, log, scene, seen, severity, overlaps, approved>>

----------------------------------------------------------------------------
(* finalize_authorized_payment.                                            *)

FinalProfiles(p) == ReadProfiles(p, "final_profiles", "final_vendor") /\ UNCHANGED overlaps
FinalVendor(p) == CountVendor(p, "final_vendor", "final_pair") /\ UNCHANGED overlaps
FinalPair(p) == CountPair(p, "final_pair", "score") /\ UNCHANGED overlaps

Score(p) ==
    /\ Go(p, "score", "log")
    /\ severity' = [severity EXCEPT ![p] = SeverityOf(seen[p], Detail[p].amount, scene.posture)]
    /\ UNCHANGED <<profile, log, scene, seen, alerted, overlaps, approved>>

Disturbs(p) == overlaps' = overlaps \cup (Payers \ {p})

\* append_log(..., "AUTHORIZED").
LogPayment(p) ==
    /\ Go(p, "log", "capture")
    /\ log' = log \cup {p}
    /\ Disturbs(p)
    /\ UNCHANGED <<profile, scene, seen, severity, alerted, approved>>

\* Mutant: the total is computed from the profile the scoring has read.
CaptureFromScoring(p) ==
    /\ Go(p, "capture", "record")
    /\ LET c == Detail[p].currency IN
       profile' = [profile EXCEPT ![c].count = seen[p].count + 1,
                                  ![c].total = seen[p].total + Detail[p].amount]
    /\ Disturbs(p)
    /\ UNCHANGED <<log, scene, seen, severity, alerted, approved>>

\* capture_infrastructure_identity_profile: count and total grow in one statement.
Capture(p) ==
    /\ Go(p, "capture", "record")
    /\ LET c == Detail[p].currency IN
       profile' = IF ~Asks THEN profile
                  ELSE [profile EXCEPT ![c].count = @ + 1, ![c].total = @ + Detail[p].amount]
    /\ Disturbs(p)
    /\ UNCHANGED <<log, scene, seen, severity, alerted, approved>>

\* record_infrastructure_identity_anomaly, and the alert above the threshold.
RecordAnomaly(p) ==
    /\ Go(p, "record", "over")
    /\ alerted' = IF Meets(severity[p], AlertAt) THEN alerted \cup {p} ELSE alerted
    /\ UNCHANGED <<profile, log, scene, seen, severity, overlaps, approved>>

AnomInit ==
    /\ scene \in [posture : Postures, past : Past]
    /\ profile = scene.past
    /\ log = {} /\ alerted = {} /\ approved = {} /\ overlaps = {}
    /\ stage = [p \in Payers |-> "called"]
    /\ seen = [p \in Payers |-> Blank]
    /\ severity = [p \in Payers |-> "informational"]

AnomNext == \E p \in Payers :
    \/ GateProfiles(p) \/ GateVendor(p) \/ GatePair(p) \/ GateUnscored(p)
    \/ GateDirect(p) \/ GateMcp(p) \/ Resume(p) \/ DenyRecorded(p)
    \/ FinalProfiles(p) \/ FinalVendor(p) \/ FinalPair(p) \/ Score(p)
    \/ LogPayment(p) \/ Capture(p) \/ RecordAnomaly(p)

AnomSpec == AnomInit /\ [][AnomNext]_anomVars

----------------------------------------------------------------------------
(* What the scoring promises.                                              *)

Stages == {"called", "gate_vendor", "gate_pair", "gate", "held", "denied", "final_profiles",
           "final_vendor", "final_pair", "score", "log", "capture", "record", "over"}

AnomTypeOK ==
    /\ profile \in [Currencies -> [count : Nat, total : Nat]]
    /\ stage \in [Payers -> Stages]
    /\ seen \in [Payers -> [count : Nat, total : Nat, events : Nat, vendor : Nat, pair : Nat]]
    /\ severity \in [Payers -> {Severities[i] : i \in 1..4}]
    /\ \A p \in Payers : p \in log => stage[p] \in {"capture", "record", "over"}

\* While the policy of identities is on, a payment that is authorized at or above
\* the severity that denies was scored twice with different histories: another
\* payment of the agent was finalized in between.  One at or above the severity
\* that holds has a human's approval, or the same excuse.
ThresholdsHeld ==
    Asks => \A p \in log \ overlaps :
       /\ ~Meets(severity[p], DenyAt)
       /\ Meets(severity[p], HoldAt) => p \in approved

Captured(c) == {p \in log : stage[p] \in {"record", "over"} /\ Detail[p].currency = c}

\* However payments overlap, the profile is the one at first and every payment that
\* was captured since, so the average a later payment is measured by is right.
ProfileCountsPayments ==
    \A c \in Currencies : Asks =>
       /\ profile[c].count = scene.past[c].count + Cardinality(Captured(c))
       /\ profile[c].total = scene.past[c].total
                             + SumFunctionOnSet([p \in Payers |-> Detail[p].amount], Captured(c))
=============================================================================
