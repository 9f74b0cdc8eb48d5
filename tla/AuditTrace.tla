----------------------------- MODULE AuditTrace -----------------------------
(***************************************************************************)
(* The trace of a payment, as an auditor asks for it (app/api/audit.py).   *)
(* Most rows of the audit log know only the hash of the body they are      *)
(* about; only the verdict and the anomaly rows know the transaction.  The *)
(* trace is put together from both, and calls with one body (retries, a    *)
(* held payment and its repetition) interleave their rows in one log.      *)
(***************************************************************************)
EXTENDS Integers, Sequences, FiniteSets

CONSTANTS
    Runs,      \* calls of POST /pay; one that reaches a verdict is its transaction
    BodyOf,    \* [Runs -> Bodies]: the body, as its hash
    Bodies,
    Decision,  \* the hash of the rows of POST /approvals/{id}/decide
    NoId

ASSUME RunsTyped == BodyOf \in [Runs -> Bodies] /\ NoId \notin Runs /\ Decision \notin Bodies

VARIABLES
    rows,    \* audit_entries, in the order of their sequence numbers
    step     \* how far a call has come

traceVars == <<rows, step>>

\* What a row tells about itself; by is history, the call that wrote it.
Row(r, kind, body, tx, approval) ==
    [kind |-> kind, body |-> body, tx |-> tx, approval |-> approval, by |-> r]

Append1(r, kind, tx, approval) == rows' = Append(rows, Row(r, kind, BodyOf[r], tx, approval))
Move(r, from, to) == step[r] = from /\ step' = [step EXCEPT ![r] = to]

\* A check of the pipeline (receipt, mandate, identity, tool) has its own row.
Check(r) == Move(r, "called", "checked") /\ Append1(r, "check", NoId, NoId)

\* payment_required_response: a row, but no verdict.
AskFee(r) == Move(r, "checked", "over") /\ Append1(r, "fee", NoId, NoId)

\* deny_payment without a transaction, as all denials but one.
DenyPlain(r) == Move(r, "checked", "over") /\ Append1(r, "verdict", NoId, NoId)

\* The payment is held; the approval is named after the call that opened it.
RequestApproval(r) == Move(r, "checked", "held") /\ Append1(r, "request", NoId, r)

\* decide_approval has a body, and so a hash, of its own.
Decide(r) ==
    /\ Move(r, "held", "decided")
    /\ rows' = Append(rows, Row(r, "decision", Decision, NoId, r))

\* _deny_for_infrastructure_identity_anomaly: evaluation, score and verdict.
Evaluate(r) == Move(r, "checked", "evaluated") /\ Append1(r, "check", r, NoId)
ScoreDenied(r) == Move(r, "evaluated", "scored") /\ Append1(r, "score", r, NoId)
DenyAnomaly(r) == Move(r, "scored", "over") /\ Append1(r, "verdict", r, NoId)

\* finalize_authorized_payment: the verdict, and then the score.
Authorize(r) == Move(r, "checked", "paid") /\ Append1(r, "verdict", r, NoId)
ScorePaid(r) == Move(r, "paid", "over") /\ Append1(r, "score", r, NoId)

TraceInit == rows = <<>> /\ step = [r \in Runs |-> "called"]

TraceNext == \E r \in Runs :
    \/ Check(r) \/ AskFee(r) \/ DenyPlain(r) \/ RequestApproval(r) \/ Decide(r)
    \/ Evaluate(r) \/ ScoreDenied(r) \/ DenyAnomaly(r) \/ Authorize(r) \/ ScorePaid(r)

TraceSpec == TraceInit /\ [][TraceNext]_traceVars

----------------------------------------------------------------------------
(* Putting a trace together; a trace is a set of sequence numbers.         *)

\* filter_audit_entries(transaction_id=...) and (request_hash=...).
OfTransaction(t) == {i \in DOMAIN rows : rows[i].tx = t}
OfBody(b) == {i \in DOMAIN rows : rows[i].body = b}

\* get_approval_trace_entries.
OfApproval(a) == {i \in DOMAIN rows : rows[i].approval = a}

\* _is_terminal_payment_entry: authorized or denied.
Terminal(i) == rows[i].kind = "verdict"

LeastOf(S) == CHOOSE i \in S : \A j \in S : i <= j

\* The row the trace ends at: the verdict, as long as there is none the first row.
End(t) == LET verdicts == {i \in OfTransaction(t) : Terminal(i)} IN
          LeastOf(IF verdicts # {} THEN verdicts ELSE OfTransaction(t))

\* Mutant: the verdict itself is taken for the previous one.
WindowShifted(b, end) == {i \in OfBody(b) : i <= end /\ \A j \in OfBody(b) :
                            Terminal(j) /\ j <= end => i > j}

\* _windowed_request_trace_entries: after the last verdict on this body before
\* the end, up to the end.
Window(b, end) == {i \in OfBody(b) : i <= end /\ \A j \in OfBody(b) :
                      Terminal(j) /\ j < end => i > j}

\* _trace_request_hashes, _extract_trace_ids.
BodiesIn(S) == {rows[i].body : i \in S}
ApprovalsIn(S) == {rows[i].approval : i \in S} \ {NoId}

\* build_transaction_trace.
TraceOf(t) ==
    LET own == OfTransaction(t)
        related == own \cup UNION {Window(b, End(t)) : b \in BodiesIn(own)}
    IN related \cup UNION {OfApproval(a) : a \in ApprovalsIn(related)}

----------------------------------------------------------------------------
RowType == [kind : {"check", "fee", "verdict", "request", "decision", "score"},
            body : Bodies \cup {Decision}, tx : Runs \cup {NoId},
            approval : Runs \cup {NoId}, by : Runs]

\* The rows, each after the row of the step before.
TraceTypeOK ==
    /\ rows \in Seq(RowType)
    /\ step \in [Runs -> {"called", "checked", "held", "decided", "evaluated", "scored", "paid", "over"}]

WrittenBy(r) == {i \in DOMAIN rows : rows[i].by = r}
VerdictOf(r) == {i \in WrittenBy(r) : Terminal(i)}
Traced == {r \in Runs : \E i \in VerdictOf(r) : rows[i].tx = r}

\* No call with the same body was judged after row i and before row j.
NoneJudgedBetween(i, j) ==
    \A k \in (i + 1)..(j - 1) : rows[k].body = rows[j].body => ~Terminal(k)

\* The trace of a judged payment holds one verdict, its own; every row its call
\* wrote, and the whole story of an approval of its body, unless another call with
\* that body was judged after them; and of a call that was judged before this
\* one wrote anything, no more than the late row with its anomaly score.
TraceOfOnePayment ==
    \A r \in Traced : LET T == TraceOf(r)
                          end == End(r) IN
       /\ {i \in T : Terminal(i)} = {end} /\ rows[end].by = r
       /\ \A i \in WrittenBy(r) : (\A j \in VerdictOf(r) : NoneJudgedBetween(i, j)) => i \in T
       /\ \A s \in Runs : \A i \in WrittenBy(s) :
            rows[i].kind = "request" /\ rows[i].body = BodyOf[r] /\ i < end
              /\ NoneJudgedBetween(i, end) => OfApproval(s) \subseteq T
       /\ \A s \in Runs \ {r} : \A i \in T \cap WrittenBy(s) :
            (\E v \in VerdictOf(s) : \A j \in WrittenBy(r) : v < j) => rows[i].kind = "score"
=============================================================================
