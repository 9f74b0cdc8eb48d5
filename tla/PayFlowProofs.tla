--------------------------- MODULE PayFlowProofs ----------------------------
(***************************************************************************)
(* Type correctness of PayFlow, for every value of its constants.          *)
(*                                                                         *)
(* TypeOK alone is not inductive: a booking step writes the total that an  *)
(* earlier step read, so it is typed only because a request that has come  *)
(* that far has read it.  Progress says what each stage knows.             *)
(***************************************************************************)
EXTENDS PayFlow, TLAPS

\* Stages a request enters only once its receipt has been accepted.
Accepted == Working \ {"verify", "deny_save"}

Finalizing == {"book_user", "reread_user", "book_agent", "reread_agent", "event",
               "usage", "alert_user", "alert_agent", "mark", "log", "save"}

\* A direct payment meets the approval check after its budgets, a tool payment
\* before them.
Approving(p) == stage[p] \in {"hitl", "consume"}
AgentChecked(p) ==
    \/ stage[p] \in {"velocity", "user"} \cup Finalizing
    \/ Approving(p) /\ Body(p).tool = None
UserChecked(p) ==
    \/ stage[p] \in Finalizing
    \/ Approving(p) /\ Body(p).tool = None

Sent == \A p \in Reqs : stage[p] # "idle" => req[p] \in Inputs
Paid == \A p \in Reqs : stage[p] \in Accepted => req[p].receipt # None
Tooled == \A p \in Reqs : stage[p] \in {"mcp", "usage"} => Body(p).tool # None
Funded == \A p \in Reqs :
    /\ AgentChecked(p) => agentRow[p] # None /\ budget[Body(p).agent] # None
    /\ UserChecked(p) => userRow[p] # None /\ budget[Body(p).user] # None
Presented == \A p \in Reqs :
    stage[p] = "consume" => req[p].token \in Tokens /\ token[req[p].token] # None

Progress == Sent /\ Paid /\ Tooled /\ Funded /\ Presented

TypeInv == TypeOK /\ Progress

----------------------------------------------------------------------------
(* What the definitions of the model return.                               *)

\* The parts of a request that has been sent.
LEMMA InputParts ==
    ASSUME NEW p \in Reqs, req[p] \in Inputs
    PROVE  /\ Body(p) \in Bodies
           /\ Body(p).agent \in Agents /\ Body(p).agent \in Account
           /\ Body(p).user \in Users /\ Body(p).user \in Account
           /\ Amount(p) \in Nat
           /\ Body(p).tool \in Tools \cup {None}
           /\ Pair(p) \in Agents \X Users
           /\ req[p].key \in Keys \cup {None}
           /\ req[p].receipt \in Receipts \cup {None}
           /\ req[p].token \in Tokens \cup {None}
<1>1. req[p] \in InputType
  BY InputsTyped
<1>2. /\ Body(p) \in Bodies
      /\ req[p].key \in Keys \cup {None}
      /\ req[p].receipt \in Receipts \cup {None}
      /\ req[p].token \in Tokens \cup {None}
  BY <1>1 DEF InputType, Body
<1>3. Body(p) \in BodyType
  BY <1>2, BodiesTyped
<1> QED
  BY <1>2, <1>3 DEF BodyType, Amount, Pair, Account

\* Rolling a budget over keeps it a row, and keeps a missing one missing.
LEMMA RolledRow ==
    ASSUME StoreTyped, NEW x \in Account
    PROVE  /\ Rolled(x) \in Row \cup {None}
           /\ Rolled(x) = None <=> budget[x] = None
<1>1. CASE budget[x] = None
  BY <1>1 DEF Rolled
<1>2. CASE budget[x] # None
  <2>1. budget[x] \in Row
    BY <1>2 DEF StoreTyped
  <2>2. [budget[x] EXCEPT !.spent = 0, !.day = today] \in Row
    BY <2>1 DEF StoreTyped, Row
  <2>3. None \notin Row
    BY NoneIsFresh
  <2> QED
    BY <1>2, <2>1, <2>2, <2>3 DEF Rolled
<1> QED
  BY <1>1, <1>2

\* A handler that goes on to stage s, having what s builds on, keeps Progress: no
\* row, budget or token disappears under the others.
LEMMA ProgressKept ==
    ASSUME Progress, stage \in [Reqs -> Stages], NEW p \in Reqs, NEW s \in Stages,
           stage[p] # "idle", stage' = [stage EXCEPT ![p] = s], req' = req,
           \A q \in Reqs : agentRow[q] # None => agentRow'[q] # None,
           \A q \in Reqs : userRow[q] # None => userRow'[q] # None,
           \A x \in Account : budget[x] # None => budget'[x] # None,
           \A t \in Tokens : token[t] # None => token'[t] # None,
           s \in Accepted => req[p].receipt # None,
           s \in {"mcp", "usage"} => Body(p).tool # None,
           s = "consume" => req[p].token \in Tokens /\ token'[req[p].token] # None,
           AgentChecked(p)' => agentRow'[p] # None /\ budget'[Body(p).agent] # None,
           UserChecked(p)' => userRow'[p] # None /\ budget'[Body(p).user] # None
    PROVE  Progress'
<1>1. /\ stage'[p] = s
      /\ \A q \in Reqs \ {p} : stage'[q] = stage[q]
      /\ \A q \in Reqs : Body(q)' = Body(q)
  BY DEF Body
<1>2. Sent' /\ Paid' /\ Tooled' /\ Presented'
  BY <1>1 DEF Progress, Sent, Paid, Tooled, Presented
<1>3. ASSUME NEW q \in Reqs \ {p}
      PROVE  /\ AgentChecked(q)' => AgentChecked(q) /\ stage[q] # "idle"
             /\ UserChecked(q)' => UserChecked(q) /\ stage[q] # "idle"
  BY <1>1 DEF AgentChecked, UserChecked, Approving, Finalizing
<1>4. \A q \in Reqs : stage[q] # "idle" => Body(q).agent \in Account /\ Body(q).user \in Account
  BY InputParts DEF Progress, Sent
<1>5. Funded'
  BY <1>1, <1>3, <1>4 DEF Progress, Funded
<1> QED
  BY <1>2, <1>5 DEF Progress

----------------------------------------------------------------------------
LEMMA InitTyped == Init => TypeInv
<1> SUFFICES ASSUME Init PROVE TypeInv
  OBVIOUS
<1>1. LocalsTyped
  BY DEF Init, LocalsTyped, Stages, Codes
<1>2. StoreTyped
  BY BudgetsTyped, LimitsTyped DEF Init, StoreTyped
<1>3. HistoryTyped
  BY DEF Init, HistoryTyped
<1>4. Progress
  BY DEF Init, Progress, Sent, Paid, Tooled, Funded, Presented, Accepted, Working,
         AgentChecked, UserChecked, Approving, Finalizing
<1> QED
  BY <1>1, <1>2, <1>3, <1>4 DEF TypeInv, TypeOK

LEMMA ReceiveTyped ==
    ASSUME TypeInv, NEW p \in Reqs, Receive(p) PROVE TypeInv'
<1>1. PICK in \in Inputs : req' = [req EXCEPT ![p] = in]
  BY DEF Receive
<1>2. LocalsTyped'
  <2>1. /\ stage' \in [Reqs -> Stages]
        /\ req' \in [Reqs -> Inputs \cup {None}]
        /\ denial' \in [Reqs -> Codes]
        /\ agentRow' \in [Reqs -> Row \cup {None}]
        /\ userRow' \in [Reqs -> Row \cup {None}]
    BY DEF Receive, TypeInv, TypeOK, LocalsTyped, Continue, Return, Goto, Stages, Working
  <2>2. PICK found \in IdemRow \cup {None} :
           \/ UNCHANGED resp
           \/ resp' = [resp EXCEPT ![p] = [code |-> 409, by |-> p, form |-> "object"]]
           \/ found # None /\ resp' = [resp EXCEPT ![p] = found.resp]
    <3>1. ASSUME NEW k \in Keys \cup {None} PROVE Lookup(k) \in IdemRow \cup {None}
      BY DEF Lookup, TypeInv, TypeOK, StoreTyped
    <3>2. \A i \in Inputs : i.key \in Keys \cup {None}
      BY InputsTyped DEF InputType
    <3> QED
      BY <3>1, <3>2 DEF Receive, Continue, Return
  <2>3. resp' \in [Reqs -> Response \cup {None}]
    BY <2>2 DEF TypeInv, TypeOK, LocalsTyped, Response, Codes, IdemRow
  <2> QED
    BY <2>1, <2>3 DEF LocalsTyped
<1>3. StoreTyped'
  BY DEF Receive, TypeInv, TypeOK, StoreTyped, store
<1>4. HistoryTyped'
  BY DEF Receive, TypeInv, TypeOK, HistoryTyped, Answered
<1>5. Progress'
  BY <1>1 DEF Receive, Progress, Sent, Paid, Tooled, Funded, Presented, Accepted, Working,
         AgentChecked, UserChecked, Approving, Finalizing, TypeInv, TypeOK, LocalsTyped, Goto, Continue, Return, store, Body
<1> QED
  BY <1>2, <1>3, <1>4, <1>5 DEF TypeInv, TypeOK

LEMMA VerifyTyped ==
    ASSUME TypeInv, NEW p \in Reqs, Verify(p) PROVE TypeInv'
<1>1. LocalsTyped'
  BY DEF Verify, TypeInv, TypeOK, LocalsTyped, Goto, Stages, Working,
         Codes, Response, Continue, Refuse
<1>2. StoreTyped'
  BY DEF Verify, TypeInv, TypeOK, StoreTyped, store
<1>3. HistoryTyped'
  BY DEF Verify, TypeInv, TypeOK, HistoryTyped, history
<1>4. Progress'
  <2>1. /\ Progress /\ stage \in [Reqs -> Stages] /\ stage[p] = "verify"
        /\ UNCHANGED <<req, agentRow, userRow, budget, token>>
    BY DEF Verify, TypeInv, TypeOK, LocalsTyped, store
  <2>2. PICK s \in {"deny_save", "mcp", "agent"} :
              /\ stage' = [stage EXCEPT ![p] = s]
              /\ s \in {"mcp", "agent"} => req[p].receipt # None
              /\ s = "mcp" => Body(p).tool # None
    BY DEF Verify, ReceiptAccepted, Goto, Continue, Refuse
  <2>3. ~AgentChecked(p)' /\ ~UserChecked(p)' /\ s \in Stages
    BY <2>1, <2>2 DEF AgentChecked, UserChecked, Approving, Finalizing, Stages, Working
  <2> QED
    BY <2>1, <2>2, <2>3, ProgressKept DEF Accepted
<1> QED
  BY <1>1, <1>2, <1>3, <1>4 DEF TypeInv, TypeOK

LEMMA McpPolicyTyped ==
    ASSUME TypeInv, NEW p \in Reqs, McpPolicy(p) PROVE TypeInv'
<1>1. LocalsTyped'
  BY DEF McpPolicy, TypeInv, TypeOK, LocalsTyped, Goto, Stages,
         Working, Codes, Response, Continue, Return
<1>2. StoreTyped'
  BY DEF McpPolicy, TypeInv, TypeOK, StoreTyped, store
<1>3. HistoryTyped'
  BY DEF McpPolicy, TypeInv, TypeOK, HistoryTyped, history
<1>4. Progress'
  BY DEF McpPolicy, TypeInv, TypeOK, Progress, Sent, Paid, Tooled,
         Funded, Presented, Accepted, Working, AgentChecked, UserChecked,
         Approving, Finalizing, LocalsTyped, Goto, Body, Continue, Return,
         store
<1> QED
  BY <1>1, <1>2, <1>3, <1>4 DEF TypeInv, TypeOK

LEMMA HitlTyped ==
    ASSUME TypeInv, NEW p \in Reqs, Hitl(p) PROVE TypeInv'
<1>a. /\ req[p] \in Inputs
      /\ Body(p).agent \in Account /\ Body(p).user \in Account
      /\ req[p].token \in Tokens \cup {None}
  BY InputParts DEF Hitl, TypeInv, Progress, Sent
<1>1. LocalsTyped'
  BY DEF Hitl, TypeInv, TypeOK, LocalsTyped, Goto, Stages, Working,
         Codes, Response, Continue, Return, Deny, AfterHitl
<1>2. StoreTyped'
  BY <1>a DEF Hitl, TypeInv, TypeOK, StoreTyped, Body
<1>3. HistoryTyped'
  BY DEF Hitl, TypeInv, TypeOK, HistoryTyped, history
<1>4. Progress'
  <2>1. /\ Progress /\ stage \in [Reqs -> Stages] /\ stage[p] = "hitl"
        /\ UNCHANGED <<req, agentRow, userRow, budget, token>>
    BY DEF Hitl, TypeInv, TypeOK, LocalsTyped
  <2>2. PICK s \in {"deny_log", "agent", "book_user", "consume", "done"} :
              /\ stage' = [stage EXCEPT ![p] = s]
              /\ s = "agent" => Body(p).tool # None
              /\ s = "book_user" => Body(p).tool = None
              /\ s = "consume" => token[req[p].token] # None /\ req[p].token # None
    BY DEF Hitl, AfterHitl, TokenUsable, Goto, Continue, Return, Deny
  <2>3. s \in Stages /\ req[p].receipt # None
    BY <2>1, <2>2 DEF Progress, Paid, Accepted, Stages, Working
  <2>4. /\ AgentChecked(p)' => AgentChecked(p)
        /\ UserChecked(p)' => UserChecked(p)
    BY <2>1, <2>2 DEF AgentChecked, UserChecked, Approving, Finalizing, Body
  <2>5. /\ AgentChecked(p)' => agentRow'[p] # None /\ budget'[Body(p).agent] # None
        /\ UserChecked(p)' => userRow'[p] # None /\ budget'[Body(p).user] # None
    BY <2>1, <2>4 DEF Progress, Funded
  <2> QED
    BY <1>a, <2>1, <2>2, <2>3, <2>5, ProgressKept DEF Accepted
<1> QED
  BY <1>1, <1>2, <1>3, <1>4 DEF TypeInv, TypeOK

LEMMA ConsumeTyped ==
    ASSUME TypeInv, NEW p \in Reqs, Consume(p) PROVE TypeInv'
<1>a. req[p].token \in Tokens /\ token[req[p].token] \in TokenRow
  BY DEF Consume, TypeInv, TypeOK, StoreTyped, Progress, Presented
<1>b. [token[req[p].token] EXCEPT !.used = TRUE] \in TokenRow
  BY <1>a DEF TokenRow
<1>1. LocalsTyped'
  BY <1>a DEF Consume, TypeInv, TypeOK, LocalsTyped, Goto, Stages,
         Working, Codes, Response, Continue, Return, AfterHitl
<1>2. StoreTyped'
  BY <1>a, <1>b DEF Consume, TypeInv, TypeOK, StoreTyped
<1>3. HistoryTyped'
  BY <1>a DEF Consume, TypeInv, TypeOK, HistoryTyped
<1>4. Progress'
  <2>1. Sent' /\ Paid' /\ Tooled' /\ Funded'
    BY DEF Consume, TypeInv, TypeOK, Progress, Sent, Paid, Tooled, Funded, Accepted,
         Working, AgentChecked, UserChecked, Approving, Finalizing, LocalsTyped, Goto,
         Body, Continue, Return, AfterHitl
  <2>2. \A t \in Tokens : token[t] # None => token'[t] # None
    <3>1. None \notin TokenRow
      BY NoneIsFresh
    <3> QED
      BY <1>a, <1>b, <3>1 DEF Consume, TypeInv, TypeOK, StoreTyped
  <2>3. Presented'
    BY <2>2 DEF Consume, TypeInv, TypeOK, Progress, Presented, LocalsTyped, Goto,
         Continue, Return, AfterHitl
  <2> QED
    BY <2>1, <2>3 DEF Progress
<1> QED
  BY <1>1, <1>2, <1>3, <1>4 DEF TypeInv, TypeOK

LEMMA ReadAgentTyped ==
    ASSUME TypeInv, NEW p \in Reqs, ReadAgent(p) PROVE TypeInv'
<1>a. /\ req[p] \in Inputs
      /\ Body(p).agent \in Account /\ Body(p).user \in Account
      /\ Amount(p) \in Nat
  BY InputParts DEF ReadAgent, TypeInv, Progress, Sent
<1>b. /\ Rolled(Body(p).agent) \in Row \cup {None}
      /\ Rolled(Body(p).agent) = None <=> budget[Body(p).agent] = None
  BY <1>a, RolledRow DEF TypeInv, TypeOK
<1>c. Rolled(Body(p).agent) # None =>
         [Rolled(Body(p).agent) EXCEPT !.spent = @ + Amount(p)] \in Row
  BY <1>a, <1>b DEF Row
<1>d. None \notin Row
  BY NoneIsFresh
<1>1. LocalsTyped'
  BY <1>a, <1>b, <1>c DEF ReadAgent, TypeInv, TypeOK, LocalsTyped,
         Goto, Stages, Working, Codes, Response, Continue, Deny, Refuse, Row
<1>2. StoreTyped'
  BY <1>a, <1>b DEF ReadAgent, TypeInv, TypeOK, StoreTyped
<1>3. HistoryTyped'
  BY DEF ReadAgent, TypeInv, TypeOK, HistoryTyped, history
<1>4. Progress'
  <2>1. /\ Progress /\ stage \in [Reqs -> Stages] /\ stage[p] = "agent"
        /\ agentRow \in [Reqs -> Row \cup {None}] /\ budget \in [Account -> Row \cup {None}]
        /\ UNCHANGED <<req, userRow, token>>
    BY DEF ReadAgent, TypeInv, TypeOK, LocalsTyped, StoreTyped
  <2>2. PICK s \in {"deny_save", "deny_log", "velocity"} :
              /\ stage' = [stage EXCEPT ![p] = s]
              /\ \/ s = "velocity" /\ Rolled(Body(p).agent) # None
                    /\ agentRow' = [agentRow EXCEPT
                         ![p] = [Rolled(Body(p).agent) EXCEPT !.spent = @ + Amount(p)]]
                 \/ s \in {"deny_save", "deny_log"} /\ agentRow' = agentRow
    BY DEF ReadAgent, Goto, Continue, Deny, Refuse
  <2>3. \A x \in Account : budget[x] # None => budget'[x] # None
    BY <1>a, <1>b, <2>1 DEF ReadAgent
  <2>4. \A q \in Reqs : agentRow[q] # None => agentRow'[q] # None
    BY <1>c, <1>d, <2>1, <2>2
  <2>5. s = "velocity" => agentRow'[p] # None /\ budget'[Body(p).agent] # None
    <3>1. budget' = [budget EXCEPT ![Body(p).agent] = Rolled(Body(p).agent)]
      BY DEF ReadAgent
    <3> QED
      BY <1>a, <1>c, <1>d, <2>1, <2>2, <3>1
  <2>6. /\ s \in Stages /\ req[p].receipt # None
        /\ AgentChecked(p)' => s = "velocity"
        /\ ~UserChecked(p)'
    BY <2>1, <2>2 DEF Progress, Paid, Accepted, Stages, Working, AgentChecked, UserChecked,
       Approving, Finalizing
  <2> QED
    BY <1>a, <2>1, <2>2, <2>3, <2>4, <2>5, <2>6, ProgressKept DEF Accepted
<1> QED
  BY <1>1, <1>2, <1>3, <1>4 DEF TypeInv, TypeOK

LEMMA VelocityTyped ==
    ASSUME TypeInv, NEW p \in Reqs, Velocity(p) PROVE TypeInv'
<1>1. LocalsTyped'
  BY DEF Velocity, TypeInv, TypeOK, LocalsTyped, Goto, Stages, Working,
         Codes, Response, Continue, Deny
<1>2. StoreTyped'
  BY DEF Velocity, TypeInv, TypeOK, StoreTyped, store
<1>3. HistoryTyped'
  BY DEF Velocity, TypeInv, TypeOK, HistoryTyped, history
<1>4. Progress'
  BY DEF Velocity, TypeInv, TypeOK, Progress, Sent, Paid, Tooled,
         Funded, Presented, Accepted, Working, AgentChecked, UserChecked,
         Approving, Finalizing, LocalsTyped, Goto, Body, Continue, Deny, store
<1> QED
  BY <1>1, <1>2, <1>3, <1>4 DEF TypeInv, TypeOK

LEMMA ReadUserTyped ==
    ASSUME TypeInv, NEW p \in Reqs, ReadUser(p) PROVE TypeInv'
<1>a. /\ req[p] \in Inputs
      /\ Body(p).agent \in Account /\ Body(p).user \in Account
      /\ Amount(p) \in Nat
  BY InputParts DEF ReadUser, TypeInv, Progress, Sent
<1>b. /\ Rolled(Body(p).user) \in Row \cup {None}
      /\ Rolled(Body(p).user) = None <=> budget[Body(p).user] = None
  BY <1>a, RolledRow DEF TypeInv, TypeOK
<1>c. Rolled(Body(p).user) # None =>
         [Rolled(Body(p).user) EXCEPT !.spent = @ + Amount(p)] \in Row
  BY <1>a, <1>b DEF Row
<1>d. None \notin Row
  BY NoneIsFresh
<1>1. LocalsTyped'
  BY <1>a, <1>b, <1>c DEF ReadUser, TypeInv, TypeOK, LocalsTyped, Goto,
         Stages, Working, Codes, Response, Continue, Deny, Refuse, Row
<1>2. StoreTyped'
  BY <1>a, <1>b DEF ReadUser, TypeInv, TypeOK, StoreTyped
<1>3. HistoryTyped'
  BY DEF ReadUser, TypeInv, TypeOK, HistoryTyped, history
<1>4. Progress'
  <2>1. /\ Progress /\ stage \in [Reqs -> Stages] /\ stage[p] = "user"
        /\ userRow \in [Reqs -> Row \cup {None}] /\ budget \in [Account -> Row \cup {None}]
        /\ UNCHANGED <<req, agentRow, token>>
    BY DEF ReadUser, TypeInv, TypeOK, LocalsTyped, StoreTyped
  <2>2. PICK s \in {"deny_save", "deny_log", "hitl", "book_user"} :
              /\ stage' = [stage EXCEPT ![p] = s]
              /\ \/ s \in {"hitl", "book_user"} /\ Rolled(Body(p).user) # None
                    /\ userRow' = [userRow EXCEPT
                         ![p] = [Rolled(Body(p).user) EXCEPT !.spent = @ + Amount(p)]]
                 \/ s \in {"deny_save", "deny_log"} /\ userRow' = userRow
    BY DEF ReadUser, Goto, Continue, Deny, Refuse
  <2>3. \A x \in Account : budget[x] # None => budget'[x] # None
    BY <1>a, <1>b, <2>1 DEF ReadUser
  <2>4. \A q \in Reqs : userRow[q] # None => userRow'[q] # None
    BY <1>c, <1>d, <2>1, <2>2
  <2>5. s \in {"hitl", "book_user"} => userRow'[p] # None /\ budget'[Body(p).user] # None
    <3>1. budget' = [budget EXCEPT ![Body(p).user] = Rolled(Body(p).user)]
      BY DEF ReadUser
    <3> QED
      BY <1>a, <1>c, <1>d, <2>1, <2>2, <3>1
  <2>6. /\ s \in Stages /\ req[p].receipt # None /\ AgentChecked(p)
        /\ AgentChecked(p)' => s \in {"hitl", "book_user"}
        /\ UserChecked(p)' => s \in {"hitl", "book_user"}
    BY <2>1, <2>2 DEF Progress, Paid, Accepted, Stages, Working, AgentChecked, UserChecked,
       Approving, Finalizing
  <2>7. agentRow'[p] # None /\ budget'[Body(p).agent] # None
    BY <1>a, <2>1, <2>3, <2>6 DEF Progress, Funded
  <2> QED
    BY <1>a, <2>1, <2>2, <2>3, <2>4, <2>5, <2>6, <2>7, ProgressKept DEF Accepted
<1> QED
  BY <1>1, <1>2, <1>3, <1>4 DEF TypeInv, TypeOK

LEMMA BookUserTyped ==
    ASSUME TypeInv, NEW p \in Reqs, BookUser(p) PROVE TypeInv'
<1>a. /\ req[p] \in Inputs
      /\ Body(p).agent \in Account /\ Body(p).user \in Account
      /\ Amount(p) \in Nat
  BY InputParts DEF BookUser, TypeInv, Progress, Sent
<1>b. /\ budget[Body(p).user] \in Row
      /\ userRow[p] \in Row
  BY <1>a DEF BookUser, TypeInv, TypeOK, LocalsTyped, StoreTyped, Progress, Funded,
         AgentChecked, UserChecked, Finalizing
<1>c. [budget[Body(p).user] EXCEPT !.spent = userRow[p].spent, !.day = today] \in Row
  BY <1>b DEF Row, TypeInv, TypeOK, StoreTyped
<1>d. None \notin Row
  BY NoneIsFresh
<1>1. LocalsTyped'
  BY DEF BookUser, TypeInv, TypeOK, LocalsTyped, Goto, Stages, Working,
         Codes, Response, Continue
<1>2. StoreTyped'
  BY <1>a, <1>c DEF BookUser, TypeInv, TypeOK, StoreTyped, Book
<1>3. HistoryTyped'
  BY <1>a DEF BookUser, TypeInv, TypeOK, HistoryTyped, Book
<1>4. Progress'
  BY <1>a, <1>c, <1>d DEF BookUser, TypeInv, TypeOK, Progress, Sent,
         Paid, Tooled, Funded, Presented, Accepted, Working, AgentChecked,
         UserChecked, Approving, Finalizing, LocalsTyped, Goto, Body,
         Continue, StoreTyped, Book
<1> QED
  BY <1>1, <1>2, <1>3, <1>4 DEF TypeInv, TypeOK

LEMMA RereadUserTyped ==
    ASSUME TypeInv, NEW p \in Reqs, RereadUser(p) PROVE TypeInv'
<1>a. /\ req[p] \in Inputs
      /\ Body(p).agent \in Account /\ Body(p).user \in Account
      /\ Amount(p) \in Nat
  BY InputParts DEF RereadUser, TypeInv, Progress, Sent
<1>b. /\ Rolled(Body(p).user) \in Row \cup {None}
      /\ Rolled(Body(p).user) = None <=> budget[Body(p).user] = None
  BY <1>a, RolledRow DEF TypeInv, TypeOK
<1>1. LocalsTyped'
  BY <1>a, <1>b DEF RereadUser, TypeInv, TypeOK, LocalsTyped, Goto,
         Stages, Working, Codes, Response, Continue
<1>2. StoreTyped'
  BY <1>a, <1>b DEF RereadUser, TypeInv, TypeOK, StoreTyped, ReadBack
<1>3. HistoryTyped'
  BY DEF RereadUser, TypeInv, TypeOK, HistoryTyped, history
<1>4. Progress'
  BY <1>a, <1>b DEF RereadUser, TypeInv, TypeOK, Progress, Sent, Paid,
         Tooled, Funded, Presented, Accepted, Working, AgentChecked,
         UserChecked, Approving, Finalizing, LocalsTyped, Goto, Body,
         Continue, StoreTyped, ReadBack
<1> QED
  BY <1>1, <1>2, <1>3, <1>4 DEF TypeInv, TypeOK

LEMMA BookAgentTyped ==
    ASSUME TypeInv, NEW p \in Reqs, BookAgent(p) PROVE TypeInv'
<1>a. /\ req[p] \in Inputs
      /\ Body(p).agent \in Account /\ Body(p).user \in Account
      /\ Amount(p) \in Nat
  BY InputParts DEF BookAgent, TypeInv, Progress, Sent
<1>b. /\ budget[Body(p).agent] \in Row
      /\ agentRow[p] \in Row
  BY <1>a DEF BookAgent, TypeInv, TypeOK, LocalsTyped, StoreTyped, Progress, Funded,
         AgentChecked, UserChecked, Finalizing
<1>c. [budget[Body(p).agent] EXCEPT !.spent = agentRow[p].spent, !.day = today] \in Row
  BY <1>b DEF Row, TypeInv, TypeOK, StoreTyped
<1>d. None \notin Row
  BY NoneIsFresh
<1>1. LocalsTyped'
  BY DEF BookAgent, TypeInv, TypeOK, LocalsTyped, Goto, Stages,
         Working, Codes, Response, Continue
<1>2. StoreTyped'
  BY <1>a, <1>c DEF BookAgent, TypeInv, TypeOK, StoreTyped, Book
<1>3. HistoryTyped'
  BY <1>a DEF BookAgent, TypeInv, TypeOK, HistoryTyped, Book
<1>4. Progress'
  BY <1>a, <1>c, <1>d DEF BookAgent, TypeInv, TypeOK, Progress, Sent,
         Paid, Tooled, Funded, Presented, Accepted, Working, AgentChecked,
         UserChecked, Approving, Finalizing, LocalsTyped, Goto, Body,
         Continue, StoreTyped, Book
<1> QED
  BY <1>1, <1>2, <1>3, <1>4 DEF TypeInv, TypeOK

LEMMA RereadAgentTyped ==
    ASSUME TypeInv, NEW p \in Reqs, RereadAgent(p) PROVE TypeInv'
<1>a. /\ req[p] \in Inputs
      /\ Body(p).agent \in Account /\ Body(p).user \in Account
      /\ Amount(p) \in Nat
  BY InputParts DEF RereadAgent, TypeInv, Progress, Sent
<1>b. /\ Rolled(Body(p).agent) \in Row \cup {None}
      /\ Rolled(Body(p).agent) = None <=> budget[Body(p).agent] = None
  BY <1>a, RolledRow DEF TypeInv, TypeOK
<1>1. LocalsTyped'
  BY <1>a, <1>b DEF RereadAgent, TypeInv, TypeOK, LocalsTyped, Goto,
         Stages, Working, Codes, Response, Continue
<1>2. StoreTyped'
  BY <1>a, <1>b DEF RereadAgent, TypeInv, TypeOK, StoreTyped, ReadBack
<1>3. HistoryTyped'
  BY DEF RereadAgent, TypeInv, TypeOK, HistoryTyped, history
<1>4. Progress'
  BY <1>a, <1>b DEF RereadAgent, TypeInv, TypeOK, Progress, Sent, Paid,
         Tooled, Funded, Presented, Accepted, Working, AgentChecked,
         UserChecked, Approving, Finalizing, LocalsTyped, Goto, Body,
         Continue, StoreTyped, ReadBack
<1> QED
  BY <1>1, <1>2, <1>3, <1>4 DEF TypeInv, TypeOK

LEMMA RecordEventTyped ==
    ASSUME TypeInv, NEW p \in Reqs, RecordEvent(p) PROVE TypeInv'
<1>a. req[p] \in Inputs
  BY DEF RecordEvent, TypeInv, Progress, Sent
<1>b. Pair(p) \in Agents \X Users
  BY <1>a, InputParts
<1>1. LocalsTyped'
  BY DEF RecordEvent, TypeInv, TypeOK, LocalsTyped, Goto, Stages,
         Working, Codes, Response, Continue
<1>2. StoreTyped'
  BY <1>b DEF RecordEvent, TypeInv, TypeOK, StoreTyped
<1>3. HistoryTyped'
  BY DEF RecordEvent, TypeInv, TypeOK, HistoryTyped, history
<1>4. Progress'
  BY <1>a DEF RecordEvent, TypeInv, TypeOK, Progress, Sent, Paid,
         Tooled, Funded, Presented, Accepted, Working, AgentChecked,
         UserChecked, Approving, Finalizing, LocalsTyped, Goto, Body, Continue
<1> QED
  BY <1>1, <1>2, <1>3, <1>4 DEF TypeInv, TypeOK

LEMMA RecordUsageTyped ==
    ASSUME TypeInv, NEW p \in Reqs, RecordUsage(p) PROVE TypeInv'
<1>a. req[p] \in Inputs
  BY DEF RecordUsage, TypeInv, Progress, Sent
<1>b. ToolUse(p) \in Tools \X Users /\ Amount(p) \in Nat
  BY <1>a, InputParts DEF RecordUsage, ToolUse, TypeInv, Progress, Tooled
<1>1. LocalsTyped'
  BY DEF RecordUsage, TypeInv, TypeOK, LocalsTyped, Goto, Stages,
         Working, Codes, Response, Continue
<1>2. StoreTyped'
  BY <1>b DEF RecordUsage, TypeInv, TypeOK, StoreTyped
<1>3. HistoryTyped'
  BY DEF RecordUsage, TypeInv, TypeOK, HistoryTyped, history
<1>4. Progress'
  BY <1>a DEF RecordUsage, TypeInv, TypeOK, Progress, Sent, Paid,
         Tooled, Funded, Presented, Accepted, Working, AgentChecked,
         UserChecked, Approving, Finalizing, LocalsTyped, Goto, Body, Continue
<1> QED
  BY <1>1, <1>2, <1>3, <1>4 DEF TypeInv, TypeOK

LEMMA AlertUserTyped ==
    ASSUME TypeInv, NEW p \in Reqs, AlertUser(p) PROVE TypeInv'
<1>a. /\ req[p] \in Inputs
      /\ Body(p).agent \in Account /\ Body(p).user \in Account
      /\ Amount(p) \in Nat
  BY InputParts DEF AlertUser, TypeInv, Progress, Sent
<1>1. LocalsTyped'
  BY DEF AlertUser, TypeInv, TypeOK, LocalsTyped, Goto, Stages,
         Working, Codes, Response, Continue
<1>2. StoreTyped'
  BY <1>a DEF AlertUser, TypeInv, TypeOK, StoreTyped, Enqueue, Reached
<1>3. HistoryTyped'
  BY DEF AlertUser, TypeInv, TypeOK, HistoryTyped, history
<1>4. Progress'
  BY <1>a DEF AlertUser, TypeInv, TypeOK, Progress, Sent, Paid, Tooled,
         Funded, Presented, Accepted, Working, AgentChecked, UserChecked,
         Approving, Finalizing, LocalsTyped, Goto, Body, Continue
<1> QED
  BY <1>1, <1>2, <1>3, <1>4 DEF TypeInv, TypeOK

LEMMA AlertAgentTyped ==
    ASSUME TypeInv, NEW p \in Reqs, AlertAgent(p) PROVE TypeInv'
<1>a. /\ req[p] \in Inputs
      /\ Body(p).agent \in Account /\ Body(p).user \in Account
      /\ Amount(p) \in Nat
  BY InputParts DEF AlertAgent, TypeInv, Progress, Sent
<1>1. LocalsTyped'
  BY DEF AlertAgent, TypeInv, TypeOK, LocalsTyped, Goto, Stages,
         Working, Codes, Response, Continue
<1>2. StoreTyped'
  BY <1>a DEF AlertAgent, TypeInv, TypeOK, StoreTyped, Enqueue, Reached
<1>3. HistoryTyped'
  BY DEF AlertAgent, TypeInv, TypeOK, HistoryTyped, history
<1>4. Progress'
  BY <1>a DEF AlertAgent, TypeInv, TypeOK, Progress, Sent, Paid,
         Tooled, Funded, Presented, Accepted, Working, AgentChecked,
         UserChecked, Approving, Finalizing, LocalsTyped, Goto, Body, Continue
<1> QED
  BY <1>1, <1>2, <1>3, <1>4 DEF TypeInv, TypeOK

LEMMA MarkReceiptTyped ==
    ASSUME TypeInv, NEW p \in Reqs, MarkReceipt(p) PROVE TypeInv'
<1>a. req[p].receipt \in Receipts
  BY InputParts DEF MarkReceipt, TypeInv, Progress, Sent, Paid, Accepted, Working
<1>1. LocalsTyped'
  BY DEF MarkReceipt, TypeInv, TypeOK, LocalsTyped, Goto, Stages,
         Working, Codes, Response, Continue
<1>2. StoreTyped'
  BY <1>a DEF MarkReceipt, TypeInv, TypeOK, StoreTyped, MarkUsed
<1>3. HistoryTyped'
  BY DEF MarkReceipt, TypeInv, TypeOK, HistoryTyped, history
<1>4. Progress'
  BY DEF MarkReceipt, TypeInv, TypeOK, Progress, Sent, Paid, Tooled,
         Funded, Presented, Accepted, Working, AgentChecked, UserChecked,
         Approving, Finalizing, LocalsTyped, Goto, Body, Continue
<1> QED
  BY <1>1, <1>2, <1>3, <1>4 DEF TypeInv, TypeOK

LEMMA LogAuthorizedTyped ==
    ASSUME TypeInv, NEW p \in Reqs, LogAuthorized(p) PROVE TypeInv'
<1>1. LocalsTyped'
  BY DEF LogAuthorized, TypeInv, TypeOK, LocalsTyped, Goto, Stages,
         Working, Codes, Response, Continue
<1>2. StoreTyped'
  BY DEF LogAuthorized, TypeInv, TypeOK, StoreTyped
<1>3. HistoryTyped'
  BY DEF LogAuthorized, TypeInv, TypeOK, HistoryTyped, history
<1>4. Progress'
  BY DEF LogAuthorized, TypeInv, TypeOK, Progress, Sent, Paid, Tooled,
         Funded, Presented, Accepted, Working, AgentChecked, UserChecked,
         Approving, Finalizing, LocalsTyped, Goto, Body, Continue
<1> QED
  BY <1>1, <1>2, <1>3, <1>4 DEF TypeInv, TypeOK

LEMMA SaveAuthorizedTyped ==
    ASSUME TypeInv, NEW p \in Reqs, SaveAuthorized(p) PROVE TypeInv'
<1>a. /\ Body(p) \in Bodies
      /\ req[p].key \in Keys \cup {None}
  BY InputParts DEF SaveAuthorized, TypeInv, Progress, Sent
<1>1. LocalsTyped'
  BY DEF SaveAuthorized, TypeInv, TypeOK, LocalsTyped, Goto, Stages,
         Working, Codes, Response, Return
<1>2. StoreTyped'
  BY <1>a DEF SaveAuthorized, TypeInv, TypeOK, StoreTyped, Record,
         IdemRow, Response, Codes
<1>3. HistoryTyped'
  BY DEF SaveAuthorized, TypeInv, TypeOK, HistoryTyped, history
<1>4. Progress'
  BY DEF SaveAuthorized, TypeInv, TypeOK, Progress, Sent, Paid, Tooled,
         Funded, Presented, Accepted, Working, AgentChecked, UserChecked,
         Approving, Finalizing, LocalsTyped, Goto, Body, Return
<1> QED
  BY <1>1, <1>2, <1>3, <1>4 DEF TypeInv, TypeOK

LEMMA DenyLogTyped ==
    ASSUME TypeInv, NEW p \in Reqs, DenyLog(p) PROVE TypeInv'
<1>1. LocalsTyped'
  BY DEF DenyLog, TypeInv, TypeOK, LocalsTyped, Goto, Stages, Working,
         Codes, Response, Continue
<1>2. StoreTyped'
  BY DEF DenyLog, TypeInv, TypeOK, StoreTyped
<1>3. HistoryTyped'
  BY DEF DenyLog, TypeInv, TypeOK, HistoryTyped, history
<1>4. Progress'
  BY DEF DenyLog, TypeInv, TypeOK, Progress, Sent, Paid, Tooled,
         Funded, Presented, Accepted, Working, AgentChecked, UserChecked,
         Approving, Finalizing, LocalsTyped, Goto, Body, Continue
<1> QED
  BY <1>1, <1>2, <1>3, <1>4 DEF TypeInv, TypeOK

LEMMA DenyMarkTyped ==
    ASSUME TypeInv, NEW p \in Reqs, DenyMark(p) PROVE TypeInv'
<1>a. req[p].receipt \in Receipts
  BY InputParts DEF DenyMark, TypeInv, Progress, Sent, Paid, Accepted, Working
<1>1. LocalsTyped'
  BY DEF DenyMark, TypeInv, TypeOK, LocalsTyped, Goto, Stages, Working,
         Codes, Response, Continue
<1>2. StoreTyped'
  BY <1>a DEF DenyMark, TypeInv, TypeOK, StoreTyped, MarkUsed
<1>3. HistoryTyped'
  BY DEF DenyMark, TypeInv, TypeOK, HistoryTyped, history
<1>4. Progress'
  BY DEF DenyMark, TypeInv, TypeOK, Progress, Sent, Paid, Tooled,
         Funded, Presented, Accepted, Working, AgentChecked, UserChecked,
         Approving, Finalizing, LocalsTyped, Goto, Body, Continue
<1> QED
  BY <1>1, <1>2, <1>3, <1>4 DEF TypeInv, TypeOK

LEMMA DenySaveTyped ==
    ASSUME TypeInv, NEW p \in Reqs, DenySave(p) PROVE TypeInv'
<1>a. /\ Body(p) \in Bodies
      /\ req[p].key \in Keys \cup {None}
  BY InputParts DEF DenySave, TypeInv, Progress, Sent
<1>1. LocalsTyped'
  BY DEF DenySave, TypeInv, TypeOK, LocalsTyped, Goto, Stages, Working,
         Codes, Response, Return
<1>2. StoreTyped'
  BY <1>a DEF DenySave, TypeInv, TypeOK, StoreTyped, LocalsTyped,
         Record, IdemRow, Response
<1>3. HistoryTyped'
  BY DEF DenySave, TypeInv, TypeOK, HistoryTyped, history
<1>4. Progress'
  BY DEF DenySave, TypeInv, TypeOK, Progress, Sent, Paid, Tooled,
         Funded, Presented, Accepted, Working, AgentChecked, UserChecked,
         Approving, Finalizing, LocalsTyped, Goto, Body, Return
<1> QED
  BY <1>1, <1>2, <1>3, <1>4 DEF TypeInv, TypeOK

LEMMA FailTyped ==
    ASSUME TypeInv, NEW p \in Reqs, Fail(p) PROVE TypeInv'
<1>1. LocalsTyped'
  BY DEF Fail, TypeInv, TypeOK, LocalsTyped, Goto, Stages, Working,
         Codes, Response, Return
<1>2. StoreTyped'
  BY DEF Fail, TypeInv, TypeOK, StoreTyped, store
<1>3. HistoryTyped'
  BY DEF Fail, TypeInv, TypeOK, HistoryTyped, history
<1>4. Progress'
  BY DEF Fail, TypeInv, TypeOK, Progress, Sent, Paid, Tooled, Funded,
         Presented, Accepted, Working, AgentChecked, UserChecked, Approving,
         Finalizing, LocalsTyped, Goto, Body, Return, store
<1> QED
  BY <1>1, <1>2, <1>3, <1>4 DEF TypeInv, TypeOK

LEMMA ApproveTyped ==
    ASSUME TypeInv, NEW b \in Bodies, NEW t \in Tokens,
           Approve(b, t) PROVE TypeInv'
<1>a. [body |-> b, used |-> FALSE, revoked |-> FALSE, expired |-> FALSE] # None
  <2>1. [body |-> b, used |-> FALSE, revoked |-> FALSE, expired |-> FALSE] \in TokenRow
    BY DEF TokenRow
  <2> QED
    BY <2>1, NoneIsFresh
<1>1. LocalsTyped'
  BY DEF Approve, TypeInv, TypeOK, LocalsTyped, locals
<1>2. StoreTyped'
  BY DEF Approve, TypeInv, TypeOK, StoreTyped, TokenRow
<1>3. HistoryTyped'
  BY DEF Approve, TypeInv, TypeOK, HistoryTyped, history
<1>4. Progress'
  BY <1>a DEF Approve, TypeInv, TypeOK, Progress, Sent, Paid, Tooled,
         Funded, Presented, Accepted, Working, AgentChecked, UserChecked,
         Approving, Finalizing, locals, Body, StoreTyped, TokenRow
<1> QED
  BY <1>1, <1>2, <1>3, <1>4 DEF TypeInv, TypeOK

LEMMA WithdrawTyped ==
    ASSUME TypeInv, NEW b \in Bodies, Withdraw(b) PROVE TypeInv'
<1>1. LocalsTyped'
  BY DEF Withdraw, TypeInv, TypeOK, LocalsTyped, locals
<1>2. StoreTyped'
  BY DEF Withdraw, TypeInv, TypeOK, StoreTyped
<1>3. HistoryTyped'
  BY DEF Withdraw, TypeInv, TypeOK, HistoryTyped, history
<1>4. Progress'
  BY DEF Withdraw, TypeInv, TypeOK, Progress, Sent, Paid, Tooled,
         Funded, Presented, Accepted, Working, AgentChecked, UserChecked,
         Approving, Finalizing, locals, Body
<1> QED
  BY <1>1, <1>2, <1>3, <1>4 DEF TypeInv, TypeOK

LEMMA RevokeTyped ==
    ASSUME TypeInv, NEW t \in Tokens, Revoke(t) PROVE TypeInv'
<1>a. [token[t] EXCEPT !.revoked = TRUE] \in TokenRow
  BY DEF Revoke, TypeInv, TypeOK, StoreTyped, TokenRow
<1>b. None \notin TokenRow
  BY NoneIsFresh
<1>1. LocalsTyped'
  BY DEF Revoke, TypeInv, TypeOK, LocalsTyped, locals
<1>2. StoreTyped'
  BY <1>a DEF Revoke, TypeInv, TypeOK, StoreTyped
<1>3. HistoryTyped'
  BY DEF Revoke, TypeInv, TypeOK, HistoryTyped, history
<1>4. Progress'
  BY <1>a, <1>b DEF Revoke, TypeInv, TypeOK, Progress, Sent, Paid,
         Tooled, Funded, Presented, Accepted, Working, AgentChecked,
         UserChecked, Approving, Finalizing, locals, Body, StoreTyped
<1> QED
  BY <1>1, <1>2, <1>3, <1>4 DEF TypeInv, TypeOK

LEMMA TokenExpiresTyped ==
    ASSUME TypeInv, NEW t \in Tokens, TokenExpires(t) PROVE TypeInv'
<1>a. [token[t] EXCEPT !.expired = TRUE] \in TokenRow
  BY DEF TokenExpires, TypeInv, TypeOK, StoreTyped, TokenRow
<1>b. None \notin TokenRow
  BY NoneIsFresh
<1>1. LocalsTyped'
  BY DEF TokenExpires, TypeInv, TypeOK, LocalsTyped, locals
<1>2. StoreTyped'
  BY <1>a DEF TokenExpires, TypeInv, TypeOK, StoreTyped
<1>3. HistoryTyped'
  BY DEF TokenExpires, TypeInv, TypeOK, HistoryTyped, history
<1>4. Progress'
  BY <1>a, <1>b DEF TokenExpires, TypeInv, TypeOK, Progress, Sent,
         Paid, Tooled, Funded, Presented, Accepted, Working, AgentChecked,
         UserChecked, Approving, Finalizing, locals, Body, StoreTyped
<1> QED
  BY <1>1, <1>2, <1>3, <1>4 DEF TypeInv, TypeOK

LEMMA ReceiptExpiresTyped ==
    ASSUME TypeInv, NEW r \in Receipts, ReceiptExpires(r) PROVE TypeInv'
<1>1. LocalsTyped'
  BY DEF ReceiptExpires, TypeInv, TypeOK, LocalsTyped, locals
<1>2. StoreTyped'
  BY DEF ReceiptExpires, TypeInv, TypeOK, StoreTyped
<1>3. HistoryTyped'
  BY DEF ReceiptExpires, TypeInv, TypeOK, HistoryTyped, history
<1>4. Progress'
  BY DEF ReceiptExpires, TypeInv, TypeOK, Progress, Sent, Paid, Tooled,
         Funded, Presented, Accepted, Working, AgentChecked, UserChecked,
         Approving, Finalizing, locals, Body
<1> QED
  BY <1>1, <1>2, <1>3, <1>4 DEF TypeInv, TypeOK

LEMMA EventAgesTyped ==
    ASSUME TypeInv, NEW pair \in Agents \X Users,
           EventAges(pair) PROVE TypeInv'
<1>1. LocalsTyped'
  BY DEF EventAges, TypeInv, TypeOK, LocalsTyped, locals
<1>2. StoreTyped'
  BY DEF EventAges, TypeInv, TypeOK, StoreTyped
<1>3. HistoryTyped'
  BY DEF EventAges, TypeInv, TypeOK, HistoryTyped, history
<1>4. Progress'
  BY DEF EventAges, TypeInv, TypeOK, Progress, Sent, Paid, Tooled,
         Funded, Presented, Accepted, Working, AgentChecked, UserChecked,
         Approving, Finalizing, locals, Body
<1> QED
  BY <1>1, <1>2, <1>3, <1>4 DEF TypeInv, TypeOK

LEMMA UpsertBudgetTyped ==
    ASSUME TypeInv, NEW x \in Account,
           NEW new \in [cap : Nat, txCap : Nat, spent : Nat],
           UpsertBudget(x, new) PROVE TypeInv'
<1>a. [cap |-> new.cap, txCap |-> new.txCap, spent |-> new.spent, day |-> today] \in Row
  BY DEF TypeInv, TypeOK, StoreTyped, Row
<1>b. None \notin Row
  BY NoneIsFresh
<1>1. LocalsTyped'
  BY DEF UpsertBudget, TypeInv, TypeOK, LocalsTyped, locals
<1>2. StoreTyped'
  BY <1>a DEF UpsertBudget, TypeInv, TypeOK, StoreTyped
<1>3. HistoryTyped'
  BY DEF UpsertBudget, TypeInv, TypeOK, HistoryTyped
<1>4. Progress'
  BY <1>a, <1>b DEF UpsertBudget, TypeInv, TypeOK, Progress, Sent,
         Paid, Tooled, Funded, Presented, Accepted, Working, AgentChecked,
         UserChecked, Approving, Finalizing, locals, Body, StoreTyped
<1> QED
  BY <1>1, <1>2, <1>3, <1>4 DEF TypeInv, TypeOK

LEMMA NewDayTyped ==
    ASSUME TypeInv, NewDay PROVE TypeInv'
<1>1. LocalsTyped'
  BY DEF NewDay, TypeInv, TypeOK, LocalsTyped, locals
<1>2. StoreTyped'
  BY LimitsTyped DEF NewDay, TypeInv, TypeOK, StoreTyped
<1>3. HistoryTyped'
  BY DEF NewDay, TypeInv, TypeOK, HistoryTyped
<1>4. Progress'
  BY DEF NewDay, TypeInv, TypeOK, Progress, Sent, Paid, Tooled, Funded,
         Presented, Accepted, Working, AgentChecked, UserChecked, Approving,
         Finalizing, locals, Body
<1> QED
  BY <1>1, <1>2, <1>3, <1>4 DEF TypeInv, TypeOK

LEMMA NewUtcDayTyped ==
    ASSUME TypeInv, NewUtcDay PROVE TypeInv'
<1>1. LocalsTyped'
  BY DEF NewUtcDay, TypeInv, TypeOK, LocalsTyped, locals
<1>2. StoreTyped'
  BY DEF NewUtcDay, TypeInv, TypeOK, StoreTyped
<1>3. HistoryTyped'
  BY DEF NewUtcDay, TypeInv, TypeOK, HistoryTyped, history
<1>4. Progress'
  BY DEF NewUtcDay, TypeInv, TypeOK, Progress, Sent, Paid, Tooled,
         Funded, Presented, Accepted, Working, AgentChecked, UserChecked,
         Approving, Finalizing, locals, Body
<1> QED
  BY <1>1, <1>2, <1>3, <1>4 DEF TypeInv, TypeOK

\* Every step of the handlers, of the operator and of the clock keeps TypeInv.
LEMMA StepTyped == TypeInv /\ [Next]_vars => TypeInv'
<1> SUFFICES ASSUME TypeInv, [Next]_vars PROVE TypeInv'
  OBVIOUS
<1>1. ASSUME NEW p \in Reqs, Check(p) PROVE TypeInv'
  BY <1>1, ReceiveTyped, VerifyTyped, McpPolicyTyped, HitlTyped, ConsumeTyped,
     ReadAgentTyped, VelocityTyped, ReadUserTyped DEF Check
<1>2. ASSUME NEW p \in Reqs, Finalize(p) PROVE TypeInv'
  BY <1>2, BookUserTyped, RereadUserTyped, BookAgentTyped, RereadAgentTyped,
     RecordEventTyped, RecordUsageTyped, AlertUserTyped, AlertAgentTyped,
     MarkReceiptTyped, LogAuthorizedTyped, SaveAuthorizedTyped DEF Finalize
<1>3. ASSUME NEW p \in Reqs, Denial(p) PROVE TypeInv'
  BY <1>3, DenyLogTyped, DenyMarkTyped, DenySaveTyped DEF Denial
<1>4. ASSUME NEW p \in Reqs, Fail(p) PROVE TypeInv'
  BY <1>4, FailTyped
<1>5. ASSUME Environment PROVE TypeInv'
  <2>1. ASSUME NEW edit \in AdminEdits, UpsertBudget(edit[1], edit[2]) PROVE TypeInv'
    BY <2>1, UpsertBudgetTyped, BudgetsTyped
  <2> QED
    BY <1>5, <2>1, ApproveTyped, WithdrawTyped, RevokeTyped, TokenExpiresTyped,
       ReceiptExpiresTyped, EventAgesTyped, NewDayTyped, NewUtcDayTyped DEF Environment
<1>6. CASE UNCHANGED vars
  BY <1>6 DEF vars, locals, store, history, TypeInv, TypeOK, LocalsTyped, StoreTyped,
         HistoryTyped, Progress, Sent, Paid, Tooled, Funded, Presented, Accepted,
         AgentChecked, UserChecked, Approving, Body
<1> QED
  BY <1>1, <1>2, <1>3, <1>4, <1>5, <1>6 DEF Next, Handler, Quiesced

\* The locals of the handlers, the tables and the history stay typed, and every
\* request has read the rows and presented the receipt its stage relies on: no
\* handler writes a total it never read or marks a receipt it never had.
THEOREM TypeInvariant == Spec => []TypeInv
<1>1. Init => TypeInv
  BY InitTyped
<1>2. TypeInv /\ [Next]_vars => TypeInv'
  BY StepTyped
<1> QED
  BY <1>1, <1>2, PTL DEF Spec

\* TypeOK, the type invariant the runs check, for every value of the constants.
THEOREM TypeCorrect == Spec => []TypeOK
<1>1. TypeInv => TypeOK
  BY DEF TypeInv
<1> QED
  BY <1>1, TypeInvariant, PTL

----------------------------------------------------------------------------
(***************************************************************************)
(* Spend tokens in PayFlow, for every value of its constants: revocation   *)
(* and consumption exclude each other, and every held payment that is      *)
(* booked consumed a token of its own.                                     *)
(*                                                                         *)
(* Neither is inductive.  A booking happens many store calls after the     *)
(* consumption, so the invariant remembers, for every stage a request can  *)
(* reach only behind the approval check, that its token was consumed; and  *)
(* a request about to consume holds a token that was read earlier, whose   *)
(* body cannot have changed since because tokens are never reissued.       *)
(***************************************************************************)

Booked == (Finalizing \ {"book_user"}) \cup {"done"}

\* A tool payment meets its approval check before its budgets.
PastApproval(p) ==
    \/ stage[p] \in Finalizing
    \/ stage[p] \in {"agent", "velocity", "user"} /\ Body(p).tool # None

Backed(p) == \E t \in Tokens : p \in spentBy[t] /\ token[t].body = Body(p)

SpentIsUsed == \A t \in Tokens : spentBy[t] # {} => token[t] # None /\ token[t].used
NotBoth == \A t \in Tokens : token[t] # None => ~(token[t].used /\ token[t].revoked)
SpentOnce == \A t \in Tokens : \A p, q \in spentBy[t] : p = q
Matching == \A p \in Reqs : stage[p] = "consume" => token[req[p].token].body = Body(p)
ChargedLate == \A p \in charged : stage[p] \in Booked
HeldIsBacked == \A p \in Reqs :
    (p \in charged \/ PastApproval(p)) /\ Body(p) \in HitlBodies => Backed(p)

TokenInv == /\ SpentIsUsed /\ NotBoth /\ SpentOnce
            /\ Matching /\ ChargedLate /\ HeldIsBacked

SafeInv == TypeInv /\ TokenInv

----------------------------------------------------------------------------
\* A step that leaves tokens, requests and bookings alone, and takes no request to
\* consumption or behind the approval check that did not earn it.
LEMMA QuietStep ==
    ASSUME TokenInv, UNCHANGED <<token, spentBy, req, charged>>,
           \A q \in Reqs : stage'[q] = "consume" =>
               stage[q] = "consume" \/ token[req[q].token].body = Body(q),
           \A q \in charged : stage'[q] \in Booked,
           \A q \in Reqs : PastApproval(q)' => PastApproval(q) \/ Body(q) \notin HitlBodies
    PROVE  TokenInv'
<1>1. SpentIsUsed' /\ NotBoth' /\ SpentOnce' /\ ChargedLate'
  BY DEF TokenInv, SpentIsUsed, NotBoth, SpentOnce, ChargedLate
<1>2. Matching'
  BY DEF TokenInv, Matching, Body
<1>3. HeldIsBacked'
  BY DEF TokenInv, HeldIsBacked, Backed, Body
<1> QED
  BY <1>1, <1>2, <1>3 DEF TokenInv

\* The steps of a handler that touch neither tokens nor what it will answer for.
LEMMA CheckQuiet ==
    ASSUME SafeInv, NEW p \in Reqs,
           Verify(p) \/ McpPolicy(p) \/ Hitl(p) \/ ReadAgent(p) \/ Velocity(p) \/ ReadUser(p)
    PROVE  TokenInv'
<1>1. stage \in [Reqs -> Stages] /\ charged \subseteq Reqs
  BY DEF SafeInv, TypeInv, TypeOK, LocalsTyped, HistoryTyped
<1>2. UNCHANGED <<token, spentBy, req, charged>>
  BY DEF Verify, McpPolicy, Hitl, ReadAgent, Velocity, ReadUser, store, history
<1>3. p \notin charged
  BY DEF SafeInv, TokenInv, ChargedLate, Booked, Finalizing, Verify, McpPolicy, Hitl,
         ReadAgent, Velocity, ReadUser
<1>4. CASE Verify(p)
  <2>1. /\ \A q \in Reqs \ {p} : stage'[q] = stage[q]
        /\ stage'[p] \in {"deny_save", "mcp", "agent"}
        /\ stage'[p] = "agent" => Body(p).tool = None
    BY <1>1, <1>4 DEF Verify, Continue, Refuse, Goto
  <2> QED
    BY <1>1, <1>2, <1>3, <2>1, QuietStep
       DEF SafeInv, PastApproval, Finalizing, Body, TokenInv, ChargedLate
<1>5. CASE McpPolicy(p)
  <2>1. /\ \A q \in Reqs \ {p} : stage'[q] = stage[q]
        /\ stage'[p] \in {"hitl", "done"}
    BY <1>1, <1>5 DEF McpPolicy, Continue, Return, Goto
  <2> QED
    BY <1>1, <1>2, <1>3, <2>1, QuietStep
       DEF SafeInv, PastApproval, Finalizing, Body, TokenInv, ChargedLate
<1>6. CASE Hitl(p)
  <2>1. /\ \A q \in Reqs \ {p} : stage'[q] = stage[q]
        /\ \/ stage'[p] \in {"deny_log", "done"}
           \/ stage'[p] \in {"agent", "book_user"} /\ Body(p) \notin HitlBodies
           \/ stage'[p] = "consume" /\ token[req[p].token].body = Body(p)
    BY <1>1, <1>6 DEF Hitl, Continue, Return, Deny, Goto, AfterHitl, TokenUsable
  <2> QED
    BY <1>1, <1>2, <1>3, <2>1, QuietStep
       DEF SafeInv, PastApproval, Finalizing, Body, TokenInv, ChargedLate
<1>7. CASE ReadAgent(p)
  <2>1. /\ \A q \in Reqs \ {p} : stage'[q] = stage[q]
        /\ stage[p] = "agent" /\ stage'[p] \in {"deny_log", "deny_save", "velocity"}
    BY <1>1, <1>7 DEF ReadAgent, Continue, Refuse, Deny, Goto
  <2> QED
    BY <1>1, <1>2, <1>3, <2>1, QuietStep
       DEF SafeInv, PastApproval, Finalizing, Body, TokenInv, ChargedLate
<1>8. CASE Velocity(p)
  <2>1. /\ \A q \in Reqs \ {p} : stage'[q] = stage[q]
        /\ stage[p] = "velocity" /\ stage'[p] \in {"deny_log", "user"}
    BY <1>1, <1>8 DEF Velocity, Continue, Deny, Goto
  <2> QED
    BY <1>1, <1>2, <1>3, <2>1, QuietStep
       DEF SafeInv, PastApproval, Finalizing, Body, TokenInv, ChargedLate
<1>9. CASE ReadUser(p)
  <2>1. /\ \A q \in Reqs \ {p} : stage'[q] = stage[q]
        /\ stage[p] = "user"
        /\ stage'[p] \in {"deny_log", "deny_save", "hitl", "book_user"}
        /\ stage'[p] = "book_user" => Body(p).tool # None
    BY <1>1, <1>9 DEF ReadUser, Continue, Deny, Refuse, Goto
  <2> QED
    BY <1>1, <1>2, <1>3, <2>1, QuietStep
       DEF SafeInv, PastApproval, Finalizing, Body, TokenInv, ChargedLate
<1> QED
  BY <1>4, <1>5, <1>6, <1>7, <1>8, <1>9

\* From the first booking to the answer.
LEMMA FinalizeQuiet ==
    ASSUME SafeInv, NEW p \in Reqs, Finalize(p), ~BookUser(p) PROVE TokenInv'
<1>1. stage \in [Reqs -> Stages] /\ charged \subseteq Reqs
  BY DEF SafeInv, TypeInv, TypeOK, LocalsTyped, HistoryTyped
<1>2. UNCHANGED <<token, spentBy, req, charged>>
  BY DEF Finalize, RereadUser, BookAgent, RereadAgent, RecordEvent, RecordUsage, AlertUser,
         AlertAgent, MarkReceipt, LogAuthorized, SaveAuthorized, history
<1>3. /\ \A q \in Reqs \ {p} : stage'[q] = stage[q]
      /\ stage[p] \in Finalizing /\ stage'[p] \in Booked
  BY <1>1 DEF Finalize, RereadUser, BookAgent, RereadAgent, RecordEvent, RecordUsage,
         AlertUser, AlertAgent, MarkReceipt, LogAuthorized, SaveAuthorized, Continue,
         Return, Goto, Finalizing, Booked
<1>4. \A q \in Reqs : stage'[q] = "consume" => stage[q] = "consume"
  BY <1>3 DEF Booked, Finalizing
<1>5. \A q \in Reqs : PastApproval(q)' => PastApproval(q)
  BY <1>2, <1>3 DEF PastApproval, Body
<1> QED
  BY <1>1, <1>2, <1>3, <1>4, <1>5, QuietStep DEF SafeInv, TokenInv, ChargedLate

\* A refusal, or a handler that dies.
LEMMA EndQuiet ==
    ASSUME SafeInv, NEW p \in Reqs, Denial(p) \/ Fail(p) PROVE TokenInv'
<1>1. stage \in [Reqs -> Stages] /\ charged \subseteq Reqs
  BY DEF SafeInv, TypeInv, TypeOK, LocalsTyped, HistoryTyped
<1>2. UNCHANGED <<token, spentBy, req, charged>>
  BY DEF Denial, DenyLog, DenyMark, DenySave, Fail, store, history
<1>3. /\ \A q \in Reqs \ {p} : stage'[q] = stage[q]
      /\ \/ stage'[p] = "done"
         \/ stage[p] \in {"deny_log", "deny_mark"} /\ stage'[p] \in {"deny_mark", "deny_save"}
  BY <1>1 DEF Denial, DenyLog, DenyMark, DenySave, Fail, Continue, Return, Goto
<1>4. \A q \in charged : stage'[q] \in Booked
  BY <1>1, <1>3 DEF SafeInv, TokenInv, ChargedLate, Booked, Finalizing
<1>5. \A q \in Reqs : PastApproval(q)' => PastApproval(q)
  BY <1>2, <1>3 DEF PastApproval, Body, Finalizing
<1> QED
  BY <1>2, <1>3, <1>4, <1>5, QuietStep DEF SafeInv

\* A call arrives: it was idle, so nothing is known of it yet.
LEMMA ReceiveToken == ASSUME SafeInv, NEW p \in Reqs, Receive(p) PROVE TokenInv'
<1>1. stage \in [Reqs -> Stages] /\ charged \subseteq Reqs /\ req \in [Reqs -> Inputs \cup {None}]
  BY DEF SafeInv, TypeInv, TypeOK, LocalsTyped, HistoryTyped
<1>2. UNCHANGED <<token, spentBy, charged>>
  BY DEF Receive, store
<1>3. /\ \A q \in Reqs \ {p} : stage'[q] = stage[q] /\ req'[q] = req[q]
      /\ stage'[p] \in {"verify", "done"}
  BY <1>1 DEF Receive, Continue, Return, Goto
<1>4. p \notin charged
  BY DEF Receive, SafeInv, TokenInv, ChargedLate, Booked, Finalizing
<1>5. SpentIsUsed' /\ NotBoth' /\ SpentOnce'
  BY <1>2 DEF SafeInv, TokenInv, SpentIsUsed, NotBoth, SpentOnce
<1>6. Matching' /\ ChargedLate'
  BY <1>1, <1>2, <1>3, <1>4 DEF SafeInv, TokenInv, Matching, ChargedLate, Body
<1>7. ASSUME NEW q \in Reqs, (q \in charged \/ PastApproval(q))', Body(q)' \in HitlBodies
      PROVE  Backed(q)'
  <2>1. q # p
    BY <1>2, <1>3, <1>4, <1>7 DEF PastApproval, Finalizing
  <2>2. Body(q)' = Body(q) /\ PastApproval(q)' = PastApproval(q)
    BY <1>3, <2>1 DEF Body, PastApproval
  <2> QED
    BY <1>2, <1>7, <2>2 DEF SafeInv, TokenInv, HeldIsBacked, Backed
<1>8. HeldIsBacked'
  BY <1>7 DEF HeldIsBacked
<1> QED
  BY <1>5, <1>6, <1>8 DEF TokenInv

\* The conditional UPDATE: it succeeds at most once on a token that was not revoked,
\* and backs the request that made it.
LEMMA ConsumeToken == ASSUME SafeInv, NEW p \in Reqs, Consume(p) PROVE TokenInv'
<1> DEFINE t == req[p].token
<1>1. /\ stage \in [Reqs -> Stages] /\ charged \subseteq Reqs
      /\ t \in Tokens /\ token[t] \in TokenRow
      /\ token \in [Tokens -> TokenRow \cup {None}]
      /\ spentBy \in [Tokens -> SUBSET Reqs]
  BY DEF Consume, SafeInv, TypeInv, TypeOK, LocalsTyped, StoreTyped, HistoryTyped,
         Progress, Presented
<1>2. stage[p] = "consume" /\ UNCHANGED <<req, charged>>
  BY DEF Consume
<1>3. p \notin charged
  BY <1>2 DEF SafeInv, TokenInv, ChargedLate, Booked, Finalizing
<1>4. CASE ~Live(t)
  <2>1. UNCHANGED <<token, spentBy>>
    BY <1>4 DEF Consume
  <2>2. (\A q \in Reqs \ {p} : stage'[q] = stage[q]) /\ stage'[p] = "done"
    BY <1>1, <1>4 DEF Consume, Return, Goto
  <2> QED
    BY <1>1, <1>2, <1>3, <2>1, <2>2, QuietStep
       DEF SafeInv, PastApproval, Finalizing, Body, TokenInv, ChargedLate
<1>5. CASE Live(t)
  <2>1. /\ token' = [token EXCEPT ![t].used = TRUE]
        /\ spentBy' = [spentBy EXCEPT ![t] = @ \cup {p}]
    BY <1>5 DEF Consume
  <2>2. /\ \A q \in Reqs \ {p} : stage'[q] = stage[q]
        /\ stage'[p] \in {"book_user", "agent"}
    BY <1>1, <1>5 DEF Consume, Continue, Goto, AfterHitl
  <2>3. spentBy[t] = {} /\ ~token[t].revoked
    BY <1>1, <1>5 DEF Live, SafeInv, TokenInv, SpentIsUsed
  <2>4. token'[t] = [token[t] EXCEPT !.used = TRUE] /\ spentBy'[t] = {p}
    BY <1>1, <2>1, <2>3
  <2>5. /\ token'[t] \in TokenRow /\ token'[t].used /\ ~token'[t].revoked
        /\ token'[t].body = token[t].body
    BY <1>1, <2>3, <2>4 DEF TokenRow
  <2>6. \A s \in Tokens \ {t} : token'[s] = token[s] /\ spentBy'[s] = spentBy[s]
    BY <1>1, <2>1
  <2>7. token'[t] # None
    BY <2>5, NoneIsFresh
  <2>8. SpentIsUsed' /\ NotBoth'
    BY <2>5, <2>6, <2>7 DEF SafeInv, TokenInv, SpentIsUsed, NotBoth
  <2>9. SpentOnce'
    BY <2>4, <2>6 DEF SafeInv, TokenInv, SpentOnce
  <2>10. ASSUME NEW q \in Reqs, stage'[q] = "consume" PROVE token'[req'[q].token].body = Body(q)'
    <3>1. q # p /\ stage[q] = "consume"
      BY <2>2, <2>10
    <3>2. req[q].token \in Tokens
      BY <3>1 DEF SafeInv, TypeInv, Progress, Presented
    <3>3. token'[req[q].token].body = token[req[q].token].body
      BY <2>5, <2>6, <3>2
    <3> QED
      BY <1>2, <3>1, <3>3 DEF SafeInv, TokenInv, Matching, Body
  <2>11. ChargedLate'
    BY <1>1, <1>2, <1>3, <2>2 DEF SafeInv, TokenInv, ChargedLate
  <2>12. ASSUME NEW q \in Reqs, (q \in charged \/ PastApproval(q))', Body(q)' \in HitlBodies
         PROVE  Backed(q)'
    <3>1. Body(q)' = Body(q)
      BY <1>2 DEF Body
    <3>2. CASE q = p
      <4>1. token[t].body = Body(p)
        BY <1>2 DEF SafeInv, TokenInv, Matching
      <4> QED
        BY <1>1, <2>4, <2>5, <3>1, <3>2, <4>1 DEF Backed
    <3>3. CASE q # p
      <4>1. q \in charged \/ PastApproval(q)
        BY <1>2, <2>2, <2>12, <3>1, <3>3 DEF PastApproval
      <4>2. PICK s \in Tokens : q \in spentBy[s] /\ token[s].body = Body(q)
        BY <2>12, <3>1, <4>1 DEF SafeInv, TokenInv, HeldIsBacked, Backed
      <4>3. s # t
        BY <2>3, <4>2
      <4> QED
        BY <2>6, <3>1, <4>2, <4>3 DEF Backed
    <3> QED
      BY <3>2, <3>3
  <2>13. Matching' /\ HeldIsBacked'
    BY <2>10, <2>12 DEF Matching, HeldIsBacked
  <2> QED
    BY <2>8, <2>9, <2>11, <2>13 DEF TokenInv
<1> QED
  BY <1>4, <1>5

\* The booking: the request has been behind the approval check since it got here.
LEMMA BookUserToken == ASSUME SafeInv, NEW p \in Reqs, BookUser(p) PROVE TokenInv'
<1>1. stage \in [Reqs -> Stages] /\ charged \subseteq Reqs
  BY DEF SafeInv, TypeInv, TypeOK, LocalsTyped, HistoryTyped
<1>2. /\ stage[p] = "book_user" /\ UNCHANGED <<req, token, spentBy>>
      /\ charged' = charged \cup {p}
  BY DEF BookUser
<1>3. (\A q \in Reqs \ {p} : stage'[q] = stage[q]) /\ stage'[p] = "reread_user"
  BY <1>1 DEF BookUser, Continue, Goto
<1>4. SpentIsUsed' /\ NotBoth' /\ SpentOnce'
  BY <1>2 DEF SafeInv, TokenInv, SpentIsUsed, NotBoth, SpentOnce
<1>5. Matching' /\ ChargedLate'
  BY <1>1, <1>2, <1>3 DEF SafeInv, TokenInv, Matching, ChargedLate, Body, Booked, Finalizing
<1>6. HeldIsBacked'
  <2>1. \A q \in Reqs : (q \in charged \/ PastApproval(q))' => q \in charged \/ PastApproval(q)
    BY <1>2, <1>3 DEF PastApproval, Body, Finalizing
  <2> QED
    BY <1>2, <2>1 DEF SafeInv, TokenInv, HeldIsBacked, Backed, Body
<1> QED
  BY <1>4, <1>5, <1>6 DEF TokenInv

\* The steps of the operator and the clock on tokens: a token is issued where there
\* was none, and a used one is never revoked.
LEMMA TokenChange ==
    ASSUME SafeInv, NEW t \in Tokens, UNCHANGED <<stage, req, spentBy, charged>>,
           \A s \in Tokens \ {t} : token'[s] = token[s],
           token'[t] # None, ~(token'[t].used /\ token'[t].revoked),
           token[t] # None => token'[t].body = token[t].body /\ token'[t].used = token[t].used
    PROVE  TokenInv'
<1>1. SpentIsUsed' /\ NotBoth' /\ SpentOnce' /\ ChargedLate'
  BY DEF SafeInv, TokenInv, SpentIsUsed, NotBoth, SpentOnce, ChargedLate
<1>2. \A s \in Tokens : token[s] # None => token'[s].body = token[s].body
  OBVIOUS
<1>3. Matching'
  BY <1>2 DEF SafeInv, TokenInv, Matching, Body, TypeInv, Progress, Presented
<1>4. \A q \in Reqs : Backed(q) => Backed(q)'
  BY <1>2 DEF SafeInv, TokenInv, SpentIsUsed, Backed, Body
<1>5. HeldIsBacked'
  BY <1>4 DEF SafeInv, TokenInv, HeldIsBacked, PastApproval, Body
<1> QED
  BY <1>1, <1>3, <1>5 DEF TokenInv

LEMMA EnvironmentToken == ASSUME SafeInv, Environment PROVE TokenInv'
<1>1. token \in [Tokens -> TokenRow \cup {None}] /\ None \notin TokenRow
  BY NoneIsFresh DEF SafeInv, TypeInv, TypeOK, StoreTyped
<1>2. ASSUME NEW b \in Bodies, NEW t \in Tokens, Approve(b, t) PROVE TokenInv'
  <2> DEFINE new == [body |-> b, used |-> FALSE, revoked |-> FALSE, expired |-> FALSE]
  <2>1. new \in TokenRow
    BY DEF TokenRow
  <2>2. /\ UNCHANGED <<stage, req, spentBy, charged>>
        /\ token[t] = None /\ token' = [token EXCEPT ![t] = new]
    BY <1>2 DEF Approve, locals, history
  <2>3. token'[t] = new /\ \A s \in Tokens \ {t} : token'[s] = token[s]
    BY <1>1, <2>2
  <2> QED
    BY <1>1, <2>1, <2>2, <2>3, TokenChange
<1>3. ASSUME NEW t \in Tokens, Revoke(t) PROVE TokenInv'
  <2>1. token[t] \in TokenRow
    BY <1>1, <1>3 DEF Revoke
  <2>2. /\ UNCHANGED <<stage, req, spentBy, charged>>
        /\ token'[t] = [token[t] EXCEPT !.revoked = TRUE] /\ ~token[t].used
        /\ \A s \in Tokens \ {t} : token'[s] = token[s]
    BY <1>1, <1>3 DEF Revoke, locals, history
  <2>3. /\ token'[t] \in TokenRow /\ ~token'[t].used
        /\ token'[t].body = token[t].body /\ token'[t].used = token[t].used
    BY <2>1, <2>2 DEF TokenRow
  <2> QED
    BY <1>1, <2>1, <2>2, <2>3, TokenChange
<1>4. ASSUME NEW t \in Tokens, TokenExpires(t) PROVE TokenInv'
  <2>1. token[t] \in TokenRow
    BY <1>1, <1>4 DEF TokenExpires
  <2>2. /\ UNCHANGED <<stage, req, spentBy, charged>>
        /\ token'[t] = [token[t] EXCEPT !.expired = TRUE]
        /\ \A s \in Tokens \ {t} : token'[s] = token[s]
    BY <1>1, <1>4 DEF TokenExpires, locals, history
  <2>3. /\ token'[t] \in TokenRow /\ token'[t].body = token[t].body
        /\ token'[t].used = token[t].used /\ token'[t].revoked = token[t].revoked
    BY <2>1, <2>2 DEF TokenRow
  <2>4. ~(token[t].used /\ token[t].revoked)
    BY <1>4 DEF TokenExpires, SafeInv, TokenInv, NotBoth
  <2> QED
    BY <1>1, <2>1, <2>2, <2>3, <2>4, TokenChange
<1>5. ASSUME UNCHANGED <<stage, req, token, spentBy, charged>> PROVE TokenInv'
  BY <1>5 DEF SafeInv, TokenInv, SpentIsUsed, NotBoth, SpentOnce, Matching, ChargedLate,
         HeldIsBacked, PastApproval, Backed, Body
<1> QED
  BY <1>2, <1>3, <1>4, <1>5 DEF Environment, Withdraw, ReceiptExpires, EventAges,
     UpsertBudget, NewDay, NewUtcDay, locals, history

----------------------------------------------------------------------------
LEMMA TokenInvInit == Init => TokenInv
BY DEF Init, TokenInv, SpentIsUsed, NotBoth, SpentOnce, Matching, ChargedLate,
       HeldIsBacked, PastApproval, Finalizing

LEMMA TokenInvStep == SafeInv /\ [Next]_vars => TokenInv'
<1> SUFFICES ASSUME SafeInv, [Next]_vars PROVE TokenInv'
  OBVIOUS
<1>1. ASSUME NEW p \in Reqs, Handler(p) PROVE TokenInv'
  BY <1>1, ReceiveToken, ConsumeToken, BookUserToken, CheckQuiet, FinalizeQuiet, EndQuiet
     DEF Handler, Check, Finalize
<1>2. CASE UNCHANGED vars
  BY <1>2 DEF vars, locals, store, history, SafeInv, TokenInv, SpentIsUsed, NotBoth,
         SpentOnce, Matching, ChargedLate, HeldIsBacked, PastApproval, Backed, Body
<1> QED
  BY <1>1, <1>2, EnvironmentToken DEF Next, Quiesced

\* TokenInv with the typing it rests on: a token has one spender, which presented it,
\* and a held payment past the approval step has spent its own
\* (storage.py:5131-5155, hitl_policy.py:668-704).
THEOREM TokenInvariant == Spec => []SafeInv
<1>1. Init => SafeInv
  BY InitTyped, TokenInvInit DEF SafeInv
<1>2. SafeInv /\ [Next]_vars => SafeInv'
  BY StepTyped, TokenInvStep DEF SafeInv
<1> QED
  BY <1>1, <1>2, PTL DEF Spec

\* RevocationHolds: a revoked token backs no payment and a used one is not revoked,
\* however many payments and revocations race (storage.py:5131-5155).
THEOREM RevocationIsFinal == Spec => []RevocationHolds
<1>1. SafeInv => RevocationHolds
  BY DEF SafeInv, TokenInv, SpentIsUsed, NotBoth, RevocationHolds
<1> QED
  BY <1>1, TokenInvariant, PTL

\* ApprovalBacksPayment: every held payment that was booked consumed a token issued
\* for its body, which backs no other (hitl_policy.py:668-704).
THEOREM HeldPaymentsAreApproved == Spec => []ApprovalBacksPayment
<1>1. ASSUME SafeInv, NEW p \in charged, Body(p) \in HitlBodies
      PROVE  \E t \in Tokens : spentBy[t] = {p} /\ token[t].body = Body(p)
  <2>1. p \in Reqs
    BY <1>1 DEF SafeInv, TypeInv, TypeOK, HistoryTyped
  <2>2. PICK t \in Tokens : p \in spentBy[t] /\ token[t].body = Body(p)
    BY <1>1, <2>1 DEF SafeInv, TokenInv, HeldIsBacked, Backed
  <2>3. spentBy[t] = {p}
    BY <1>1, <2>2 DEF SafeInv, TokenInv, SpentOnce
  <2> QED
    BY <2>2, <2>3
<1>2. SafeInv => ApprovalBacksPayment
  BY <1>1 DEF ApprovalBacksPayment
<1> QED
  BY <1>2, TokenInvariant, PTL
=============================================================================
