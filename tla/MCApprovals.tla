---------------------------- MODULE MCApprovals ----------------------------
(***************************************************************************)
(* Small instance of Approvals: a request, an operator who decides it, and *)
(* two calls of any kind, a second request, a payment with the token, a    *)
(* second decision, a sweep.                                               *)
(***************************************************************************)
EXTENDS Approvals, TLC

CONSTANTS ask1, op1, any1, any2, b1, b2

AskFor(b) == [kind |-> "ask", body |-> b]
PayWith(b, t) == [kind |-> "pay", body |-> b, token |-> t]
Ruling(a, v) == [kind |-> "decide", approval |-> a, verdict |-> v]
Sweep == [kind |-> "sweep"]

Operator == {Ruling(ask1, "approved"), Ruling(ask1, "denied"), Sweep}
Anything == Operator \cup {AskFor(b2), PayWith(b1, op1), PayWith(b2, op1)}

Script == [c \in Calls |->
    CASE c = ask1 -> {AskFor(b1)}
      [] c = op1 -> Operator
      [] OTHER -> Anything]
Others == Permutations({any1, any2})
=============================================================================
