----------------------------- MODULE MCPayFlow -----------------------------
(***************************************************************************)
(* Small instances of PayFlow: the concurrent pipeline, the pipeline with  *)
(* one worker, and the instances that exhibit the documented claims the    *)
(* code does not keep.                                                     *)
(***************************************************************************)
EXTENDS PayFlow, TLC

CONSTANTS u1, u2, a1, a2, tool1, r1, r2, k1, t1

\* Direct and MCP payments of one agent and user.
Direct  == [agent |-> a1, user |-> u1, amount |-> 1, tool |-> None, maxCost |-> None]
Large   == [Direct EXCEPT !.amount = 2]
Scoped  == [Direct EXCEPT !.maxCost = 1]
ViaTool == [Direct EXCEPT !.tool = tool1]
\* No budget for the agent, none for the user, a tool outside the scope.
Unfunded == [Direct EXCEPT !.agent = a2]
Unowned  == [Direct EXCEPT !.user = u2]
OffScope == [Direct EXCEPT !.amount = 3, !.tool = tool1]
\* A payment through the tool that no rule holds, at the tool's transaction cap.
ToolLarge == [ViaTool EXCEPT !.amount = 2]
AllBodies == {Direct, Large, Scoped, ViaTool, ToolLarge, Unfunded, Unowned, OffScope}
FundedBodies == {Direct, Large, Scoped, ViaTool}
OutOfScope == {OffScope}

Send(b, k, r, t) == [body |-> b, key |-> k, receipt |-> r, token |-> t]

\* Every fee is 1; r1 was paid for that fee, r2 for another one.
UnitFee == [b \in Bodies |-> 1]
OneRight == (r1 :> 1 @@ r2 :> 2)
OneReceipt == (r1 :> 1)
BothRight == (r1 :> 1 @@ r2 :> 1)
ToolCap == (tool1 :> 1)
ToolCapOfTwo == (tool1 :> 2)
ToolTx == (tool1 :> 2)

Budget(cap, txCap) == [cap |-> cap, txCap |-> txCap, spent |-> 0, day |-> 0]
Open == (u1 :> Budget(6, 2) @@ a1 :> Budget(6, 2) @@ u2 :> None @@ a2 :> None)
Tight == (u1 :> Budget(3, 2) @@ a1 :> Budget(2, 1))
Narrow == (u1 :> Budget(1, 1) @@ a1 :> Budget(3, 2) @@ u2 :> None @@ a2 :> None)
\* The operator raises the user's cap.
Edits == {<<u1, [cap |-> 2, txCap |-> 1, spent |-> 0]>>}

Calls == Permutations(Reqs)
CallsAndReceipts == Permutations(Reqs) \cup Permutations(Receipts)
ToolBodies == {ViaTool, ToolLarge}
NeedApproval == {ViaTool}

\* Concurrent: payments through one tool on one receipt, one of which needs approval
\* and is sent with and without its token, and a call outside the tool's scope.
ConcurrentInputs ==
    {Send(ToolLarge, None, r1, None), Send(ViaTool, None, r1, None),
     Send(ViaTool, None, r1, t1), Send(OffScope, None, r1, None)}

SerialInputs ==
    {Send(Scoped, None, r1, None), Send(ViaTool, None, r2, None)}

\* Two different direct payments on one receipt, one of them under a key.
EditedInputs == {Send(Direct, k1, r1, None), Send(Large, None, r1, None)}

\* A payment and its retry under the same key with another receipt, and calls with no budget.
RetryInputs == {Send(b, k1, r, None) : b \in {Direct, Unfunded, Unowned}, r \in Receipts}
=============================================================================
