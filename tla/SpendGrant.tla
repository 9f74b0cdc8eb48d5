----------------------------- MODULE SpendGrant -----------------------------
(***************************************************************************)
(* What human approval promises (docs/ARCHITECTURE.md: "autonomy and       *)
(* approval scope"): every approval is asked for, granted or voided once,  *)
(* and a grant pays for one call and no other.                             *)
(***************************************************************************)
EXTENDS FiniteSets

CONSTANTS
    Ids,     \* identities of approvals
    Payers   \* calls that may pay

VARIABLES
    grant,   \* what has become of each approval
    payer    \* the calls it has paid for

vars == <<grant, payer>>

Init ==
    /\ grant = [a \in Ids |-> "none"]
    /\ payer = [a \in Ids |-> {}]

\* Some approvals go from one state to another.
Move(S, from, to) ==
    /\ \A a \in S : grant[a] = from
    /\ grant' = [a \in Ids |-> IF a \in S THEN to ELSE grant[a]]

Ask(a) == Move({a}, "none", "open") /\ UNCHANGED payer

Permit(a) == Move({a}, "open", "granted") /\ UNCHANGED payer

\* A denial, or an expiry sweep, which ends several at once.
Lapse(S) == Move(S, "open", "void") /\ UNCHANGED payer

\* A revocation.
Withdraw(a) == Move({a}, "granted", "void") /\ UNCHANGED payer

Spend(a, p) ==
    /\ Move({a}, "granted", "spent")
    /\ payer' = [payer EXCEPT ![a] = @ \cup {p}]

Next ==
    \/ \E a \in Ids : Ask(a) \/ Permit(a) \/ Withdraw(a)
    \/ \E S \in SUBSET Ids : Lapse(S)
    \/ \E a \in Ids, p \in Payers : Spend(a, p)

Spec == Init /\ [][Next]_vars
=============================================================================
