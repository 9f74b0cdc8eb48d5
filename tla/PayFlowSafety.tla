--------------------------- MODULE PayFlowSafety ----------------------------
(***************************************************************************)
(* Receipts and idempotency records in PayFlow, for every value of its     *)
(* constants: what an answered request consumed or was granted is not used *)
(* or granted again by one that arrives later, and a stored 200 stands for *)
(* a payment all of whose effects are committed.                           *)
(*                                                                         *)
(* The properties speak of requests that have been answered; the invariant *)
(* says what is already true of a request in each stage on the way there,  *)
(* and how far one may come that arrived after such an answer.             *)
(***************************************************************************)
EXTENDS PayFlowProofs, SumLemmas

Logged(p) == <<p, "AUTHORIZED">> \in log
Refused(p) == <<p, "DENIED">> \in log
Marked(p) == req[p].receipt \in Receipts /\ receipt[req[p].receipt].used

AlertedUser(p) == \A th \in Reached(userRow[p]) :
    \E d \in 0..MaxDay : <<Body(p).user, d, th>> \in alerts
AlertedAgent(p) == \A th \in Reached(agentRow[p]) :
    \E d \in 0..MaxDay : <<Body(p).agent, d, th>> \in alerts

Complete(p) == p \in charged /\ Logged(p) /\ Marked(p) /\ AlertedUser(p) /\ AlertedAgent(p)

\* The finalizer: what it has committed when it is about to make a store call.
Committed(p) ==
    /\ stage[p] \in Finalizing \ {"book_user"} => p \in charged
    /\ stage[p] \in {"alert_agent", "mark", "log", "save"} => AlertedUser(p)
    /\ stage[p] \in {"mark", "log", "save"} => AlertedAgent(p)
    /\ stage[p] \in {"log", "save"} => Marked(p)
    /\ stage[p] = "save" => Logged(p)

\* The log is written once, by the request it names; whoever consumed its receipt
\* left it marked.
LogTrue(p) ==
    /\ Logged(p) => stage[p] \in {"save", "done"}
    /\ Refused(p) => stage[p] \in {"deny_mark", "deny_save", "done"}
    /\ Refused(p) /\ stage[p] = "deny_save" => Marked(p)
    /\ ConsumedReceipt(p) => Marked(p)

\* An answer ends a request; a refusal is never written with a 200; and a request
\* that was authorized under a key left a record there.
Closed(p) ==
    /\ resp[p] # None => stage[p] = "done"
    /\ denial[p] # 200
    /\ AuthorizedItself(p) /\ req[p].key # None => idem[req[p].key] # None

Consistent(p) == Committed(p) /\ LogTrue(p) /\ Closed(p)

Record200(k) == idem[k] # None =>
    /\ stage[idem[k].resp.by] = "done"
    /\ idem[k].resp.code = 200 => Complete(idem[k].resp.by)

SameReceipt(p, q) == ConsumedReceipt(p) /\ req[q].receipt = req[p].receipt
SameKey(p, q) == AuthorizedItself(p) /\ req[q].key = req[p].key /\ req[p].key # None

\* How far a request comes that arrives after the answer of another one, with the
\* receipt it consumed or the key it was authorized under.
After(p, q) == p \in seen[q] =>
    /\ stage[p] = "done"
    /\ p # q /\ SameReceipt(p, q) => q \notin charged /\ stage[q] \in {"verify", "deny_save", "done"}
    /\ p # q /\ SameKey(p, q) => q \notin charged /\ stage[q] = "done"

RecordInv ==
    /\ \A p \in Reqs : Consistent(p)
    /\ \A k \in Keys : Record200(k)
    /\ \A p, q \in Reqs : After(p, q)

RecInv == SafeInv /\ RecordInv

----------------------------------------------------------------------------
(* What every step leaves alone, and what only ever grows.                 *)

SameLocals(q) ==
    /\ stage'[q] = stage[q] /\ req'[q] = req[q] /\ resp'[q] = resp[q]
    /\ denial'[q] = denial[q] /\ seen'[q] = seen[q]
    /\ agentRow'[q] = agentRow[q] /\ userRow'[q] = userRow[q]

Growing ==
    /\ charged \subseteq charged' /\ log \subseteq log' /\ alerts \subseteq alerts'
    /\ \A r \in Receipts : receipt[r].used => receipt'[r].used

\* One call of the handler of h: the locals of the others stay as they are.
LEMMA HandlerFrame ==
    ASSUME TypeInv, NEW h \in Reqs, Handler(h)
    PROVE  /\ \A q \in Reqs \ {h} : SameLocals(q)
           /\ stage[h] \in Working \cup {"idle"} /\ stage'[h] # "idle"
           /\ stage[h] # "idle" => req'[h] = req[h] /\ seen'[h] = seen[h]
<1> USE DEF SameLocals
<1>1. /\ stage \in [Reqs -> Stages] /\ denial \in [Reqs -> Codes]
      /\ req \in [Reqs -> Inputs \cup {None}]
      /\ resp \in [Reqs -> Response \cup {None}]
      /\ agentRow \in [Reqs -> Row \cup {None}]
      /\ userRow \in [Reqs -> Row \cup {None}]
      /\ seen \in [Reqs -> SUBSET Reqs]
  BY DEF TypeInv, TypeOK, LocalsTyped, HistoryTyped
<1>2. CASE Receive(h)
  BY <1>1, <1>2 DEF Receive, Continue, Return, Goto
<1>3. CASE Verify(h) \/ McpPolicy(h) \/ Velocity(h)
  BY <1>1, <1>3 DEF Verify, McpPolicy, Velocity, history,
     Continue, Return, Deny, Refuse, Goto, Working
<1>4. CASE Hitl(h) \/ Consume(h)
  BY <1>1, <1>4 DEF Hitl, Consume, AfterHitl, history, Continue, Return, Deny, Refuse, Goto, Working
<1>5. CASE ReadAgent(h)
  BY <1>1, <1>5 DEF ReadAgent, history, Continue, Return, Deny, Refuse, Goto, Working
<1>6. CASE ReadUser(h)
  BY <1>1, <1>6 DEF ReadUser, history, Continue, Return, Deny, Refuse, Goto, Working
<1>7. CASE Finalize(h)
  BY <1>1, <1>7 DEF Finalize, BookUser, RereadUser, BookAgent, RereadAgent, RecordEvent,
     RecordUsage, AlertUser, AlertAgent, MarkReceipt, LogAuthorized, SaveAuthorized,
     history, Continue, Return, Goto, Working
<1>8. CASE Denial(h) \/ Fail(h)
  BY <1>1, <1>8 DEF Denial, DenyLog, DenyMark, DenySave, Fail, history, Continue, Return, Goto,
     Working
<1> QED
  BY <1>2, <1>3, <1>4, <1>5, <1>6, <1>7, <1>8 DEF Handler, Check

\* The tables that the properties read only grow, and a row of the log or of the
\* bookings that a handler adds is its own.
LEMMA HandlerGrows ==
    ASSUME TypeInv, NEW h \in Reqs, Handler(h)
    PROVE  /\ Growing
           /\ \A q \in Reqs \ {h} : /\ Logged(q)' = Logged(q) /\ Refused(q)' = Refused(q)
                                    /\ q \in charged' => q \in charged
<1> USE DEF Growing, Logged, Refused
<1>1. receipt \in [Receipts -> [used : BOOLEAN, expired : BOOLEAN]]
  BY DEF TypeInv, TypeOK, StoreTyped
<1>2. ASSUME MarkUsed(h) PROVE \A r \in Receipts : receipt[r].used => receipt'[r].used
  BY <1>1, <1>2 DEF MarkUsed
<1>3. CASE Check(h) \/ Fail(h)
  BY <1>3 DEF Check, Fail, Receive, Verify, McpPolicy, Hitl, Consume, ReadAgent, Velocity,
     ReadUser, store, history
<1>4. CASE Finalize(h)
  BY <1>2, <1>4 DEF Finalize, BookUser, RereadUser, BookAgent, RereadAgent, RecordEvent,
     RecordUsage, AlertUser, AlertAgent, MarkReceipt, LogAuthorized, SaveAuthorized,
     Enqueue, history
<1>5. CASE Denial(h)
  BY <1>2, <1>5 DEF Denial, DenyLog, DenyMark, DenySave, history
<1> QED
  BY <1>3, <1>4, <1>5 DEF Handler

\* Approvals, revocations, expiries, edits and the clock.
LEMMA EnvironmentFrame ==
    ASSUME TypeInv, Environment
    PROVE  /\ UNCHANGED <<locals, log, idem, alerts, charged, seen>>
           /\ Growing
<1>1. receipt \in [Receipts -> [used : BOOLEAN, expired : BOOLEAN]]
  BY DEF TypeInv, TypeOK, StoreTyped
<1>2. ASSUME NEW r \in Receipts, ReceiptExpires(r)
      PROVE  \A s \in Receipts : receipt[s].used => receipt'[s].used
  BY <1>1, <1>2 DEF ReceiptExpires
<1> QED
  BY <1>2 DEF Environment, Approve, Withdraw, Revoke, TokenExpires, ReceiptExpires, EventAges,
     UpsertBudget, NewDay, NewUtcDay, Growing, history

\* What is true of a request stays true while its locals stay and the tables grow.
LEMMA KeptWhileOthersMove ==
    ASSUME NEW q \in Reqs, SameLocals(q), Growing, Logged(q)' = Logged(q), Refused(q)' = Refused(q)
    PROVE  /\ Marked(q) => Marked(q)'
           /\ AlertedUser(q) => AlertedUser(q)'
           /\ AlertedAgent(q) => AlertedAgent(q)'
           /\ Complete(q) => Complete(q)'
           /\ Committed(q) => Committed(q)'
           /\ LogTrue(q) => LogTrue(q)'
           /\ ConsumedReceipt(q)' = ConsumedReceipt(q)
           /\ AuthorizedItself(q)' = AuthorizedItself(q)
<1>1. Marked(q) => Marked(q)'
  BY DEF SameLocals, Growing, Marked
<1>2. /\ AlertedUser(q) => AlertedUser(q)'
      /\ AlertedAgent(q) => AlertedAgent(q)'
  BY DEF SameLocals, Growing, AlertedUser, AlertedAgent, Reached, Body
<1>3. Complete(q) => Complete(q)'
  <2>1. q \in charged => q \in charged'
    BY DEF Growing
  <2> QED
    BY <1>1, <1>2, <2>1, Logged(q)' = Logged(q) DEF Complete
<1>4. Committed(q) => Committed(q)'
  <2>1. stage'[q] = stage[q] /\ (q \in charged => q \in charged')
    BY DEF SameLocals, Growing
  <2> QED
    BY <1>1, <1>2, <2>1, Logged(q)' = Logged(q) DEF Committed
<1>5. /\ ConsumedReceipt(q)' = ConsumedReceipt(q)
      /\ AuthorizedItself(q)' = AuthorizedItself(q)
  BY DEF SameLocals, ConsumedReceipt, AuthorizedItself, Logged, Refused
<1>6. LogTrue(q) => LogTrue(q)'
  BY <1>1, <1>5 DEF SameLocals, LogTrue
<1> QED
  BY <1>1, <1>2, <1>3, <1>4, <1>5, <1>6

----------------------------------------------------------------------------
(* The request whose handler moves.                                        *)

\* Up to the first booking nothing is committed and nothing is logged.
LEMMA CheckConsistent ==
    ASSUME RecInv, NEW h \in Reqs, Check(h) PROVE Consistent(h)'
<1>1. /\ stage \in [Reqs -> Stages] /\ denial \in [Reqs -> Codes]
      /\ resp \in [Reqs -> Response \cup {None}]
  BY DEF RecInv, SafeInv, TypeInv, TypeOK, LocalsTyped
<1>2. Consistent(h) /\ UNCHANGED <<log, idem>>
  BY DEF RecInv, RecordInv, Check, Receive, Verify, McpPolicy, Hitl, Consume, ReadAgent,
         Velocity, ReadUser, store
<1>3. stage[h] \in {"idle", "verify", "mcp", "hitl", "consume", "agent", "velocity", "user"}
  BY DEF Check, Receive, Verify, McpPolicy, Hitl, Consume, ReadAgent, Velocity, ReadUser
<1>4. ~Logged(h) /\ ~Refused(h) /\ resp[h] = None
  BY <1>2, <1>3 DEF Consistent, LogTrue, Closed
<1>5. stage'[h] \in {"verify", "mcp", "hitl", "consume", "agent", "velocity", "user",
                    "book_user", "deny_log", "deny_save", "done"}
  <2>1. CASE Receive(h) \/ Verify(h) \/ McpPolicy(h)
    BY <1>1, <2>1 DEF Receive, Verify, McpPolicy, Continue, Return, Refuse, Goto
  <2>2. CASE Hitl(h) \/ Consume(h)
    BY <1>1, <2>2 DEF Hitl, Consume, AfterHitl, Continue, Return, Deny, Goto
  <2>3. CASE ReadAgent(h) \/ Velocity(h) \/ ReadUser(h)
    BY <1>1, <2>3 DEF ReadAgent, Velocity, ReadUser, Continue, Deny, Refuse, Goto
  <2> QED
    BY <2>1, <2>2, <2>3 DEF Check
<1>6. /\ denial'[h] # 200
      /\ resp'[h] # None => stage'[h] = "done"
  <2>1. denial[h] # 200
    BY <1>2 DEF Consistent, Closed
  <2>2. CASE Receive(h) \/ Verify(h) \/ McpPolicy(h)
    BY <1>1, <1>4, <2>1, <2>2 DEF Receive, Verify, McpPolicy, Continue, Return, Refuse, Goto
  <2>3. CASE Hitl(h) \/ Consume(h)
    BY <1>1, <1>4, <2>1, <2>3 DEF Hitl, Consume, Continue, Return, Deny, Goto
  <2>4. CASE ReadAgent(h) \/ Velocity(h) \/ ReadUser(h)
    BY <1>1, <1>4, <2>1, <2>4 DEF ReadAgent, Velocity, ReadUser, Continue, Deny, Refuse, Goto
  <2> QED
    BY <2>2, <2>3, <2>4 DEF Check
<1>7. ~AuthorizedItself(h)'
  <2>1. CASE Receive(h)
    <3>1. PICK in \in Inputs :
            LET found == Lookup(in.key) IN
            \/ resp' = resp
            \/ Return(h, 409)
            \/ found # None /\ resp' = [resp EXCEPT ![h] = found.resp]
      BY <2>1 DEF Receive, Continue
    <3>2. ASSUME Lookup(in.key) # None PROVE Lookup(in.key).resp.by # h
      <4>1. in.key \in Keys
        BY <3>2, InputsTyped DEF InputType, Lookup
      <4> QED
        BY <1>3, <2>1, <3>2, <4>1, NoneIsFresh
           DEF Lookup, RecInv, RecordInv, Record200, Receive
    <3> QED
      BY <1>1, <1>4, <3>1, <3>2 DEF Return, AuthorizedItself
  <2>2. CASE ~Receive(h)
    BY <1>1, <1>4, <2>2 DEF Check, Verify, McpPolicy, Hitl, Consume, ReadAgent, Velocity,
       ReadUser, AfterHitl, Continue, Return, Deny, Refuse, Goto, AuthorizedItself
  <2> QED
    BY <2>1, <2>2
<1>8. ~Logged(h)' /\ ~Refused(h)'
  BY <1>2, <1>4 DEF Logged, Refused
<1>9. Committed(h)' /\ LogTrue(h)'
  BY <1>5, <1>8 DEF Committed, LogTrue, ConsumedReceipt, Logged, Refused, Finalizing
<1> QED
  BY <1>6, <1>7, <1>9 DEF Consistent, Closed

\* The upsert touches the row of its own key and leaves a record there.
LEMMA RecordRow ==
    ASSUME TypeInv, NEW h \in Reqs, req[h] \in Inputs, NEW code \in Codes,
           NEW form \in {"object", "text"}, Record(h, code, form)
    PROVE  /\ \A k \in Keys : \/ idem'[k] = idem[k]
                              \/ idem'[k].resp.by = h /\ idem'[k].resp.code = code
           /\ \A k \in Keys : idem[k] # None => idem'[k] # None
           /\ req[h].key # None => idem'[req[h].key] # None
<1> DEFINE k0 == req[h].key
           row == [body |-> Body(h), resp |-> [code |-> code, by |-> h, form |-> form]]
<1>1. idem \in [Keys -> IdemRow \cup {None}] /\ k0 \in Keys \cup {None}
  BY InputParts DEF TypeInv, TypeOK, StoreTyped
<1>2. row \in IdemRow
  BY InputParts DEF IdemRow, Response
<1>3. row # None
  BY <1>2, NoneIsFresh
<1>4. CASE k0 = None
  BY <1>4 DEF Record
<1>5. CASE k0 # None
  <2>1. idem' = [idem EXCEPT ![k0] = row]
    BY <1>5 DEF Record
  <2> QED
    BY <1>1, <1>3, <1>5, <2>1
<1> QED
  BY <1>4, <1>5

\* From the first booking to the answer: every step commits what its name says.
LEMMA FinalizeConsistent ==
    ASSUME RecInv, NEW h \in Reqs, Finalize(h) PROVE Consistent(h)'
<1>1. /\ stage \in [Reqs -> Stages] /\ denial \in [Reqs -> Codes]
      /\ resp \in [Reqs -> Response \cup {None}] /\ today \in 0..MaxDay
      /\ receipt \in [Receipts -> [used : BOOLEAN, expired : BOOLEAN]]
  BY DEF RecInv, SafeInv, TypeInv, TypeOK, LocalsTyped, StoreTyped
<1>2. Consistent(h) /\ Growing /\ req'[h] = req[h] /\ denial' = denial
  BY HandlerGrows, HandlerFrame DEF RecInv, SafeInv, RecordInv, Handler, Finalize, BookUser,
     RereadUser, BookAgent, RereadAgent, RecordEvent, RecordUsage, AlertUser, AlertAgent,
     MarkReceipt, LogAuthorized, SaveAuthorized, Continue, Return
<1>3. stage[h] \in Finalizing
  BY DEF Finalize, BookUser, RereadUser, BookAgent, RereadAgent, RecordEvent, RecordUsage,
         AlertUser, AlertAgent, MarkReceipt, LogAuthorized, SaveAuthorized, Finalizing
<1>4. req[h] \in Inputs /\ req[h].receipt \in Receipts
  BY <1>3, InputParts DEF RecInv, SafeInv, TypeInv, Progress, Sent, Paid, Accepted, Working,
     Finalizing
<1>5. ~Refused(h) /\ resp[h] = None /\ (Logged(h) => stage[h] = "save")
  BY <1>2, <1>3 DEF Consistent, LogTrue, Closed, Finalizing
<1>6. Refused(h)' = Refused(h)
  BY DEF Finalize, BookUser, RereadUser, BookAgent, RereadAgent, RecordEvent, RecordUsage,
         AlertUser, AlertAgent, MarkReceipt, LogAuthorized, SaveAuthorized, Refused
<1>7. Marked(h) => Marked(h)'
  BY <1>2, <1>4 DEF Marked, Growing
<1>8. CASE BookUser(h) \/ RereadUser(h) \/ BookAgent(h) \/ RereadAgent(h) \/ RecordEvent(h)
           \/ RecordUsage(h)
  <2>1. /\ stage'[h] \in {"reread_user", "book_agent", "reread_agent", "event", "usage",
                         "alert_user"}
        /\ h \in charged' /\ resp' = resp /\ log' = log
    BY <1>1, <1>2, <1>8 DEF BookUser, RereadUser, BookAgent, RereadAgent, RecordEvent,
       RecordUsage, Continue, Goto, Consistent, Committed, Finalizing, Growing
  <2>2. ~Logged(h)
    BY <1>5, <1>8 DEF BookUser, RereadUser, BookAgent, RereadAgent, RecordEvent, RecordUsage
  <2> QED
    BY <1>2, <1>5, <1>6, <2>1, <2>2
       DEF Consistent, Committed, LogTrue, Closed, ConsumedReceipt, Logged, Refused,
           AuthorizedItself
<1>9. CASE AlertUser(h)
  <2>1. /\ stage[h] = "alert_user" /\ stage'[h] = "alert_agent"
        /\ resp' = resp /\ log' = log /\ charged' = charged /\ userRow' = userRow
        /\ alerts' = alerts \cup ({Body(h).user} \X {today} \X Reached(userRow[h]))
    BY <1>1, <1>9 DEF AlertUser, Enqueue, Continue, Goto, history
  <2>2. AlertedUser(h)'
    BY <1>1, <1>2, <2>1 DEF AlertedUser, Reached, Body
  <2>3. h \in charged'
    BY <1>2, <2>1 DEF Consistent, Committed, Finalizing
  <2> QED
    BY <1>2, <1>5, <1>6, <2>1, <2>2, <2>3
       DEF Consistent, Committed, LogTrue, Closed, ConsumedReceipt, Logged, Refused,
           AuthorizedItself
<1>10. CASE AlertAgent(h)
  <2>1. /\ stage[h] = "alert_agent" /\ stage'[h] = "mark"
        /\ resp' = resp /\ log' = log /\ charged' = charged
        /\ userRow' = userRow /\ agentRow' = agentRow
        /\ alerts' = alerts \cup ({Body(h).agent} \X {today} \X Reached(agentRow[h]))
    BY <1>1, <1>10 DEF AlertAgent, Enqueue, Continue, Goto, history
  <2>2. AlertedAgent(h)'
    BY <1>1, <1>2, <2>1 DEF AlertedAgent, Reached, Body
  <2>3. h \in charged' /\ AlertedUser(h)
    BY <1>2, <2>1 DEF Consistent, Committed, Finalizing
  <2>4. AlertedUser(h)'
    BY <1>2, <2>1, <2>3 DEF AlertedUser, Growing, Reached, Body
  <2> QED
    BY <1>2, <1>5, <1>6, <2>1, <2>2, <2>3, <2>4
       DEF Consistent, Committed, LogTrue, Closed, ConsumedReceipt, Logged, Refused,
           AuthorizedItself
<1>11. CASE MarkReceipt(h) \/ LogAuthorized(h) \/ SaveAuthorized(h)
  <2>1. /\ stage[h] \in {"mark", "log", "save"}
        /\ charged' = charged /\ userRow' = userRow /\ agentRow' = agentRow
        /\ alerts' = alerts
    BY <1>11 DEF MarkReceipt, LogAuthorized, SaveAuthorized, history
  <2>2. h \in charged' /\ AlertedUser(h)' /\ AlertedAgent(h)'
    BY <1>2, <2>1 DEF Consistent, Committed, Finalizing, AlertedUser, AlertedAgent, Reached, Body
  <2>3. CASE MarkReceipt(h)
    <3>1. /\ stage[h] = "mark" /\ stage'[h] = "log" /\ resp' = resp /\ log' = log
          /\ receipt' = [receipt EXCEPT ![req[h].receipt].used = TRUE]
      BY <1>1, <2>3 DEF MarkReceipt, MarkUsed, Continue, Goto
    <3>2. Marked(h)'
      BY <1>1, <1>2, <1>4, <3>1 DEF Marked
    <3> QED
      BY <1>2, <1>5, <1>6, <2>2, <3>1, <3>2
         DEF Consistent, Committed, LogTrue, Closed, ConsumedReceipt, Logged, Refused,
             AuthorizedItself
  <2>4. CASE LogAuthorized(h)
    <3>1. /\ stage[h] = "log" /\ stage'[h] = "save" /\ resp' = resp
          /\ log' = log \cup {<<h, "AUTHORIZED">>}
      BY <1>1, <2>4 DEF LogAuthorized, Continue, Goto
    <3>2. Marked(h)' /\ Logged(h)'
      BY <1>2, <1>7, <3>1 DEF Consistent, Committed, Logged
    <3> QED
      BY <1>2, <1>5, <1>6, <2>2, <3>1, <3>2
         DEF Consistent, Committed, LogTrue, Closed, ConsumedReceipt, AuthorizedItself
  <2>5. CASE SaveAuthorized(h)
    <3>1. /\ stage[h] = "save" /\ stage'[h] = "done" /\ log' = log
          /\ Record(h, 200, "object")
      BY <1>1, <2>5 DEF SaveAuthorized, Return, Goto
    <3>2. req[h].key # None => idem'[req[h].key] # None
      <4> PICK ok \in Codes : ok = 200
        BY DEF Codes
      <4>1. TypeInv /\ Record(h, ok, "object")
        BY <3>1 DEF RecInv, SafeInv
      <4> QED
        BY <1>4, <4>1, RecordRow
    <3>3. Marked(h)'
      BY <1>2, <1>7, <3>1 DEF Consistent, Committed
    <3>4. Committed(h)' /\ LogTrue(h)'
      BY <3>1, <3>3 DEF Committed, LogTrue, Finalizing
    <3> QED
      BY <1>2, <3>1, <3>2, <3>4 DEF Consistent, Closed
  <2> QED
    BY <1>11, <2>3, <2>4, <2>5
<1> QED
  BY <1>8, <1>9, <1>10, <1>11 DEF Finalize

\* A refusal, or a handler that dies: neither ends in a 200.
LEMMA EndConsistent ==
    ASSUME RecInv, NEW h \in Reqs, Denial(h) \/ Fail(h) PROVE Consistent(h)'
<1>1. /\ stage \in [Reqs -> Stages] /\ denial \in [Reqs -> Codes]
      /\ resp \in [Reqs -> Response \cup {None}]
      /\ receipt \in [Receipts -> [used : BOOLEAN, expired : BOOLEAN]]
  BY DEF RecInv, SafeInv, TypeInv, TypeOK, LocalsTyped, StoreTyped
<1>2. Consistent(h) /\ Growing /\ req'[h] = req[h] /\ denial' = denial
  BY HandlerGrows, HandlerFrame DEF RecInv, SafeInv, RecordInv, Handler, Denial, DenyLog,
     DenyMark, DenySave, Fail, Continue, Return
<1>3. stage[h] \in Working /\ (stage[h] # "deny_save" /\ Denial(h) => stage[h] \in Accepted)
  BY DEF Denial, DenyLog, DenyMark, DenySave, Fail, Working, Accepted
<1>4. req[h] \in Inputs /\ (stage[h] \in Accepted => req[h].receipt \in Receipts)
  BY <1>3, InputParts DEF RecInv, SafeInv, TypeInv, Progress, Sent, Paid, Working
<1>5. resp[h] = None /\ (Marked(h) => Marked(h)')
  BY <1>2, <1>3, <1>4 DEF Consistent, Closed, Working, Marked, Growing
<1>6. CASE DenyLog(h) \/ DenyMark(h)
  <2>1. /\ ~Logged(h) /\ Logged(h)' = Logged(h) /\ resp' = resp
        /\ \/ stage[h] = "deny_log" /\ stage'[h] = "deny_mark"
           \/ /\ stage[h] = "deny_mark" /\ stage'[h] = "deny_save"
              /\ receipt' = [receipt EXCEPT ![req[h].receipt].used = TRUE]
    BY <1>1, <1>2, <1>6 DEF DenyLog, DenyMark, MarkUsed, Continue, Goto, Logged, Consistent, LogTrue
  <2>2. stage'[h] = "deny_save" => Marked(h)'
    BY <1>1, <1>2, <1>3, <1>4, <1>6, <2>1 DEF Marked, Denial, Accepted, Working
  <2> QED
    BY <1>2, <1>5, <2>1, <2>2
       DEF Consistent, Committed, LogTrue, Closed, ConsumedReceipt, Logged, Refused,
           AuthorizedItself, Finalizing
<1>7. CASE DenySave(h) \/ Fail(h)
  <2>1. /\ stage'[h] = "done" /\ log' = log
        /\ resp'[h].code = IF DenySave(h) THEN denial[h] ELSE 500
        /\ DenySave(h) => stage[h] = "deny_save"
    BY <1>1, <1>7 DEF DenySave, Fail, Return, Goto, store
  <2>2. ~AuthorizedItself(h)'
    BY <1>2, <2>1 DEF AuthorizedItself, Consistent, Closed
  <2>3. ConsumedReceipt(h)' => Marked(h)'
    BY <1>2, <1>5, <2>1 DEF ConsumedReceipt, Consistent, LogTrue, Logged, Refused
  <2> QED
    BY <1>2, <2>1, <2>2, <2>3
       DEF Consistent, Committed, LogTrue, Closed, Logged, Refused, Finalizing
<1> QED
  BY <1>6, <1>7 DEF Denial

----------------------------------------------------------------------------
(* A step of a handler.                                                    *)

\* It writes a record in two places only, and never removes one.
LEMMA HandlerRecords ==
    ASSUME TypeInv, NEW h \in Reqs, Handler(h)
    PROVE  /\ \A k \in Keys : idem[k] # None => idem'[k] # None
           /\ \A k \in Keys : \/ idem'[k] = idem[k]
                              \/ SaveAuthorized(h) /\ idem'[k].resp.by = h
                              \/ /\ DenySave(h) /\ idem'[k].resp.by = h
                                 /\ idem'[k].resp.code = denial[h]
<1>1. CASE ~SaveAuthorized(h) /\ ~DenySave(h)
  <2>1. idem' = idem
    BY <1>1 DEF Handler, Check, Finalize, Denial, Receive, Verify, McpPolicy, Hitl, Consume,
       ReadAgent, Velocity, ReadUser, BookUser, RereadUser, BookAgent, RereadAgent,
       RecordEvent, RecordUsage, AlertUser, AlertAgent, MarkReceipt, LogAuthorized, DenyLog,
       DenyMark, Fail, store
  <2> QED
    BY <2>1
<1>2. CASE SaveAuthorized(h) \/ DenySave(h)
  <2>1. req[h] \in Inputs /\ denial[h] \in Codes /\ 200 \in Codes
    BY <1>2 DEF SaveAuthorized, DenySave, TypeInv, TypeOK, LocalsTyped, Progress, Sent, Codes
  <2>2. CASE SaveAuthorized(h)
    <3>1. PICK ok \in Codes : Record(h, ok, "object")
      BY <2>1, <2>2 DEF SaveAuthorized
    <3> QED
      BY <2>1, <2>2, <3>1, RecordRow
  <2>3. CASE DenySave(h)
    <3>1. Record(h, denial[h], "text")
      BY <2>3 DEF DenySave
    <3> QED
      BY <2>1, <2>3, <3>1, RecordRow
  <2> QED
    BY <1>2, <2>2, <2>3
<1> QED
  BY <1>1, <1>2

LEMMA HandlerConsistent ==
    ASSUME RecInv, NEW h \in Reqs, Handler(h), NEW q \in Reqs PROVE Consistent(q)'
<1>1. CASE q = h
  BY <1>1, CheckConsistent, FinalizeConsistent, EndConsistent DEF Handler
<1>2. CASE q # h
  <2>1. Consistent(q) /\ SameLocals(q) /\ Growing
        /\ Logged(q)' = Logged(q) /\ Refused(q)' = Refused(q)
    BY <1>2, HandlerFrame, HandlerGrows DEF RecInv, SafeInv, RecordInv
  <2>2. /\ Committed(q)' /\ LogTrue(q)'
        /\ AuthorizedItself(q)' = AuthorizedItself(q)
    BY <2>1, KeptWhileOthersMove DEF Consistent
  <2>3. \A k \in Keys : idem[k] # None => idem'[k] # None
    BY HandlerRecords DEF RecInv, SafeInv
  <2>4. AuthorizedItself(q) /\ req[q].key # None => req[q].key \in Keys
    <3>1. ASSUME AuthorizedItself(q) PROVE req[q] \in Inputs
      BY <2>1, <3>1 DEF AuthorizedItself, Consistent, Closed, RecInv, SafeInv, TypeInv, Progress, Sent
    <3> QED
      BY <3>1, InputParts
  <2>5. Closed(q)'
    BY <2>1, <2>2, <2>3, <2>4 DEF Consistent, Closed, SameLocals
  <2> QED
    BY <2>2, <2>5 DEF Consistent
<1> QED
  BY <1>1, <1>2

\* What it stores as a 200 is complete, and what others stored stays complete.
LEMMA HandlerRecord200 ==
    ASSUME RecInv, NEW h \in Reqs, Handler(h), NEW k \in Keys PROVE Record200(k)'
<1>1. TypeInv /\ Consistent(h) /\ Record200(k)
  BY DEF RecInv, SafeInv, RecordInv
<1>2. idem[k] \in IdemRow \cup {None} /\ stage \in [Reqs -> Stages]
  BY <1>1 DEF TypeInv, TypeOK, StoreTyped, LocalsTyped
<1>3. CASE idem'[k] = idem[k]
  <2>1. ASSUME idem[k] # None PROVE Record200(k)'
    <3>1. PICK p \in Reqs : p = idem[k].resp.by /\ stage[p] = "done"
      BY <1>1, <1>2, <2>1 DEF IdemRow, Response, Record200
    <3>2. p # h
      BY <1>1, <3>1, HandlerFrame DEF Working
    <3>3. SameLocals(p) /\ (Complete(p) => Complete(p)')
      BY <1>1, <3>1, <3>2, HandlerFrame, HandlerGrows, KeptWhileOthersMove
    <3> QED
      BY <1>1, <1>3, <2>1, <3>1, <3>3 DEF Record200, SameLocals
  <2> QED
    BY <1>3, <2>1 DEF Record200
<1>4. CASE SaveAuthorized(h) /\ idem'[k].resp.by = h
  <2>1. stage[h] = "save" /\ stage'[h] = "done"
    BY <1>2, <1>4 DEF SaveAuthorized, Return, Goto
  <2>2. h \in charged /\ Logged(h) /\ Marked(h) /\ AlertedUser(h) /\ AlertedAgent(h)
    BY <1>1, <2>1 DEF Consistent, Committed, Finalizing
  <2>3. Complete(h)'
    BY <1>4, <2>2 DEF SaveAuthorized, Complete, Logged, Marked, AlertedUser, AlertedAgent,
       Reached, Body, history
  <2> QED
    BY <1>4, <2>1, <2>3 DEF Record200
<1>5. CASE DenySave(h) /\ idem'[k].resp.by = h /\ idem'[k].resp.code = denial[h]
  <2>1. stage'[h] = "done"
    BY <1>2, <1>5 DEF DenySave, Return, Goto
  <2> QED
    BY <1>1, <1>5, <2>1 DEF Record200, Consistent, Closed
<1> QED
  BY <1>1, <1>3, <1>4, <1>5, HandlerRecords

\* A request that arrives after the answer of p finds its key taken or its receipt
\* used, and one on the way to a refusal stays on it.
LEMMA HandlerAfter ==
    ASSUME RecInv, NEW h \in Reqs, Handler(h), NEW p \in Reqs, NEW q \in Reqs
    PROVE  After(p, q)'
<1>1. /\ TypeInv /\ TokenInv /\ After(p, q) /\ Consistent(p)
      /\ stage \in [Reqs -> Stages] /\ seen \in [Reqs -> SUBSET Reqs]
      /\ req \in [Reqs -> Inputs \cup {None}]
  BY DEF RecInv, SafeInv, RecordInv, TypeInv, TypeOK, LocalsTyped, HistoryTyped
<1>2. /\ \A r \in Reqs \ {h} : SameLocals(r)
      /\ stage[h] # "done" /\ stage'[h] # "idle"
      /\ stage[h] # "idle" => req'[h] = req[h] /\ seen'[h] = seen[h]
      /\ Growing
      /\ \A r \in Reqs \ {h} : /\ Logged(r)' = Logged(r) /\ Refused(r)' = Refused(r)
                               /\ r \in charged' => r \in charged
  BY <1>1, HandlerFrame, HandlerGrows DEF Working
<1>3. ASSUME stage[p] = "done"
      PROVE  /\ p # h /\ stage'[p] = "done" /\ req'[p] = req[p]
             /\ ConsumedReceipt(p)' = ConsumedReceipt(p)
             /\ AuthorizedItself(p)' = AuthorizedItself(p)
  BY <1>2, <1>3, KeptWhileOthersMove DEF SameLocals
<1>4. CASE q # h
  BY <1>1, <1>2, <1>3, <1>4 DEF After, SameReceipt, SameKey, SameLocals
<1>5. CASE q = h /\ stage[h] # "idle"
  <2>1. ASSUME p \in seen[h], p # h, SameReceipt(p, h)
        PROVE  h \notin charged' /\ stage'[h] \in {"deny_save", "done"}
    <3>1. h \notin charged /\ stage[h] \in {"verify", "deny_save"}
      BY <1>1, <1>2, <1>5, <2>1 DEF After
    <3>2. ~ReceiptAccepted(h)
      BY <1>1, <2>1 DEF SameReceipt, Consistent, LogTrue, Marked, ReceiptAccepted
    <3>3. Verify(h) \/ DenySave(h) \/ Fail(h)
      BY <3>1 DEF Handler, Check, Finalize, Denial, Receive, Verify, McpPolicy, Hitl, Consume,
         ReadAgent, Velocity, ReadUser, BookUser, RereadUser, BookAgent, RereadAgent,
         RecordEvent, RecordUsage, AlertUser, AlertAgent, MarkReceipt, LogAuthorized,
         SaveAuthorized, DenyLog, DenyMark, DenySave, Fail
    <3> QED
      BY <1>1, <3>1, <3>2, <3>3 DEF Verify, DenySave, Fail, Refuse, Return, Goto, history
  <2>2. ASSUME p \in seen[h], p # h, SameKey(p, h) PROVE FALSE
    BY <1>1, <1>2, <1>5, <2>2 DEF After
  <2> QED
    BY <1>1, <1>2, <1>3, <1>5, <2>1, <2>2 DEF After, SameReceipt, SameKey
<1>6. CASE q = h /\ stage[h] = "idle"
  <2>1. Receive(h)
    BY <1>6 DEF Handler, Check, Finalize, Denial, Verify, McpPolicy, Hitl, Consume,
       ReadAgent, Velocity, ReadUser, BookUser, RereadUser, BookAgent, RereadAgent,
       RecordEvent, RecordUsage, AlertUser, AlertAgent, MarkReceipt, LogAuthorized,
       SaveAuthorized, DenyLog, DenyMark, DenySave, Fail, Working
  <2>2. h \notin charged' /\ stage'[h] \in {"verify", "done"} /\ seen'[h] = Answered
    BY <1>1, <1>6, <2>1 DEF TokenInv, ChargedLate, Booked, Finalizing, Receive, Continue,
       Return, Goto
  <2>3. ASSUME p \in seen'[h], AuthorizedItself(p), req'[h].key = req[p].key, req[p].key # None
        PROVE  stage'[h] = "done"
    <3>1. PICK in \in Inputs :
            /\ req' = [req EXCEPT ![h] = in]
            /\ Lookup(in.key) = None \/ stage' = [stage EXCEPT ![h] = "done"]
      BY <2>1 DEF Receive, Return, Goto
    <3>2. in.key = req[p].key
      BY <1>1, <2>3, <3>1
    <3>3. Lookup(in.key) # None
      BY <1>1, <2>3, <3>2 DEF Consistent, Closed, Lookup
    <3> QED
      BY <1>1, <3>1, <3>3
  <2> QED
    BY <1>3, <1>6, <2>2, <2>3 DEF After, SameReceipt, SameKey, Answered
<1> QED
  BY <1>4, <1>5, <1>6

----------------------------------------------------------------------------
LEMMA RecordInvInit == Init => RecordInv
<1> SUFFICES ASSUME Init PROVE RecordInv
  OBVIOUS
<1>1. \A p \in Reqs : Consistent(p)
  BY DEF Init, Consistent, Committed, LogTrue, Closed, Logged, Refused, ConsumedReceipt,
         AuthorizedItself, Finalizing
<1>2. \A k \in Keys : Record200(k)
  BY DEF Init, Record200
<1>3. \A p, q \in Reqs : After(p, q)
  BY DEF Init, After
<1> QED
  BY <1>1, <1>2, <1>3 DEF RecordInv

\* Steps of the operator and the clock, and steps of nobody.
LEMMA QuietRecords ==
    ASSUME RecInv, UNCHANGED <<locals, log, idem, charged, seen>>, Growing
    PROVE  RecordInv'
<1>1. \A q \in Reqs : SameLocals(q) /\ Logged(q)' = Logged(q) /\ Refused(q)' = Refused(q)
  BY DEF locals, SameLocals, Logged, Refused
<1>2. \A q \in Reqs : /\ Complete(q) => Complete(q)'
                      /\ Committed(q) => Committed(q)'
                      /\ LogTrue(q) => LogTrue(q)'
                      /\ ConsumedReceipt(q)' = ConsumedReceipt(q)
                      /\ AuthorizedItself(q)' = AuthorizedItself(q)
  BY <1>1, KeptWhileOthersMove
<1>3. \A q \in Reqs : Consistent(q)'
  BY <1>2 DEF RecInv, RecordInv, Consistent, Closed, locals
<1>4. ASSUME NEW k \in Keys PROVE Record200(k)'
  <2>1. idem[k] # None => idem[k].resp.by \in Reqs
    BY DEF RecInv, SafeInv, TypeInv, TypeOK, StoreTyped, IdemRow, Response
  <2> QED
    BY <1>2, <2>1 DEF RecInv, RecordInv, Record200, locals
<1>5. \A p, q \in Reqs : After(p, q)'
  BY <1>2 DEF RecInv, RecordInv, After, SameReceipt, SameKey, locals
<1> QED
  BY <1>3, <1>4, <1>5 DEF RecordInv

LEMMA RecordInvStep == RecInv /\ [Next]_vars => RecordInv'
<1> SUFFICES ASSUME RecInv, [Next]_vars PROVE RecordInv'
  OBVIOUS
<1>1. ASSUME NEW h \in Reqs, Handler(h) PROVE RecordInv'
  BY <1>1, HandlerConsistent, HandlerRecord200, HandlerAfter DEF RecordInv
<1>2. CASE Environment
  BY <1>2, EnvironmentFrame, QuietRecords DEF RecInv, SafeInv
<1>3. CASE UNCHANGED vars
  BY <1>3, QuietRecords DEF vars, store, history, Growing
<1> QED
  BY <1>1, <1>2, <1>3 DEF Next, Quiesced

\* RecInv: what each stage of a payment has committed, what a stored record stands
\* for, and how far a request comes that arrives after an answer
\* (payment_finalize.py:113-307, payment_entry_checks.py:114-138).
THEOREM RecordInvariant == Spec => []RecInv
<1>1. Init => RecInv
  BY InitTyped, TokenInvInit, RecordInvInit DEF RecInv, SafeInv
<1>2. RecInv /\ [Next]_vars => RecInv'
  BY StepTyped, TokenInvStep, RecordInvStep DEF RecInv, SafeInv
<1> QED
  BY <1>1, <1>2, PTL DEF Spec

\* StoredAuthorizationIsComplete: a stored 200 stands for a payment that is booked,
\* logged, whose receipt is used and whose alerts are queued, wherever handlers died
\* (payment_finalize.py:113-307).
THEOREM StoredAuthorizationsAreComplete == Spec => []StoredAuthorizationIsComplete
<1>1. ASSUME RecInv, NEW k \in Keys, idem[k] # None, idem[k].resp.code = 200
      PROVE  Complete(idem[k].resp.by)
  BY <1>1 DEF RecInv, RecordInv, Record200
<1>2. ASSUME NEW p, Complete(p)
      PROVE  /\ p \in charged
             /\ <<p, "AUTHORIZED">> \in log
             /\ receipt[req[p].receipt].used
             /\ \A th \in Reached(userRow[p]) :
                    \E d \in 0..MaxDay : <<Body(p).user, d, th>> \in alerts
             /\ \A th \in Reached(agentRow[p]) :
                    \E d \in 0..MaxDay : <<Body(p).agent, d, th>> \in alerts
  BY <1>2 DEF Complete, Logged, Marked, AlertedUser, AlertedAgent
<1>3. ASSUME RecInv PROVE StoredAuthorizationIsComplete
  <2> SUFFICES ASSUME NEW k \in Keys, idem[k] # None /\ idem[k].resp.code = 200
               PROVE  LET p == idem[k].resp.by IN
                      /\ p \in charged
                      /\ <<p, "AUTHORIZED">> \in log
                      /\ receipt[req[p].receipt].used
                      /\ \A th \in Reached(userRow[p]) :
                             \E d \in 0..MaxDay : <<Body(p).user, d, th>> \in alerts
                      /\ \A th \in Reached(agentRow[p]) :
                             \E d \in 0..MaxDay : <<Body(p).agent, d, th>> \in alerts
    BY Zenon DEF StoredAuthorizationIsComplete
  <2> DEFINE p == idem[k].resp.by
  <2>1. Complete(p)
    BY <1>1, <1>3
  <2> HIDE DEF p
  <2> QED
    BY <2>1, <1>2 DEF p
<1>4. RecInv => StoredAuthorizationIsComplete
  BY <1>3
<1> QED
  BY <1>4, RecordInvariant, PTL

\* ConsumedReceiptStaysConsumed: a receipt that an answered request consumed pays for
\* none that arrives later (storage.py:2706-2714, x402.py:182-190).
THEOREM ReceiptsStayConsumed == Spec => []ConsumedReceiptStaysConsumed
<1>1. RecInv => ConsumedReceiptStaysConsumed
  BY DEF RecInv, RecordInv, After, SameReceipt, ConsumedReceiptStaysConsumed
<1> QED
  BY <1>1, RecordInvariant, PTL

\* NoPaymentOnRetry: a retry under the key of an authorization that was answered
\* books nothing (payment_entry_checks.py:114-138, payment_finalize.py:306-307).
THEOREM RetriesPayNothing == Spec => []NoPaymentOnRetry
<1>1. RecInv => NoPaymentOnRetry
  BY DEF RecInv, RecordInv, After, SameKey, NoPaymentOnRetry
<1> QED
  BY <1>1, RecordInvariant, PTL

----------------------------------------------------------------------------
(***************************************************************************)
(* The limits of PayFlow, for every value of its constants: how far the    *)
(* velocity limit, the cap of a tool and a receipt can be overdrawn by any *)
(* number of workers, the spend that any number of workers record, and the *)
(* daily caps that one worker holds.                                       *)
(*                                                                         *)
(* Every limit is checked by one store call and spent by a later one.  The *)
(* invariants therefore speak of the requests between the two: what they   *)
(* have been allowed is already counted against the limit.  With several   *)
(* workers the allowances of two requests may overlap, so a check says     *)
(* nothing of the others in flight, and they are fewer than the workers.   *)
(***************************************************************************)

\* Direct payments meet the approval check between the budgets and the bookings.
Direct(p) == Approving(p) /\ Body(p).tool = None

\* Requests that passed the velocity check and have not recorded their event.
PastVelocity(p) == stage[p] \in {"user", "book_user", "reread_user", "book_agent",
                                 "reread_agent", "event"} \/ Direct(p)
Cleared(pair) == {p \in Reqs : PastVelocity(p) /\ Pair(p) = pair}

\* Requests that passed the cap of their tool and have not recorded their usage.
ToolPending(p) ==
    /\ stage[p] \in {"hitl", "consume", "agent", "velocity", "user", "book_user",
                     "reread_user", "book_agent", "reread_agent", "event", "usage"}
    /\ Body(p).tool # None

\* Requests that compared a total with the cap of an account and have not booked it.
AgentPending(p) == stage[p] \in {"velocity", "user", "book_user", "reread_user",
                                 "book_agent"} \/ Direct(p)
UserPending(p) == stage[p] = "book_user" \/ Direct(p)

\* Requests whose receipt was accepted and that may still be logged as authorized.
Paying(p) == stage[p] \in Accepted \ {"deny_log", "deny_mark", "save"}

\* The limits on what is in flight.
WorkersBounded == Cardinality(InFlight) <= MaxInFlight
VelocityInv == \A pair \in Agents \X Users :
    recent[pair] + Cardinality(Cleared(pair)) <= VelocityLimit + MaxInFlight - 1

Fits(row, x) == row.spent <= row.cap /\ row.cap <= budget[x].cap
CapInv ==
    /\ RecordedSpendWithinCap
    /\ \A p \in Reqs : AgentPending(p) => Fits(agentRow[p], Body(p).agent)
    /\ \A p \in Reqs : UserPending(p) => Fits(userRow[p], Body(p).user)

\* With one worker: what was allowed is still free.
Alone == \A p, q \in InFlight : p = q
BookedCovered == \A x \in Account : budget[x] # None => booked[x] <= Rolled(x).spent
Covered ==
    /\ BookedCovered
    /\ \A p \in Reqs : AgentPending(p) =>
           booked[Body(p).agent] + Amount(p) <= agentRow[p].spent
    /\ \A p \in Reqs : UserPending(p) =>
           booked[Body(p).user] + Amount(p) <= userRow[p].spent

\* What a tool was allowed for a user and has not been recorded.
Booking(tu) == {p \in Reqs : ToolPending(p) /\ ToolUse(p) = tu}
Owed(tu) == [p \in Reqs |-> IF p \in Booking(tu) THEN Amount(p) ELSE 0]
ToolTop(tu) == ToolDailyCap[tu[1]] + (MaxInFlight - 1) * ToolTxCap[tu[1]]
ToolInv ==
    /\ \A p \in Reqs : ToolPending(p) => Amount(p) <= ToolTxCap[Body(p).tool]
    /\ \A tu \in Tools \X Users :
           toolSpent[tu] + SumFunctionOnSet(Owed(tu), Reqs) <= ToolTop(tu)

\* The requests that a receipt authorized or may still authorize.
Payers(r) == {p \in Reqs : (Paying(p) \/ Logged(p)) /\ req[p].receipt = r}
ReceiptInv == \A r \in Receipts : Cardinality(Payers(r)) <= MaxInFlight

----------------------------------------------------------------------------
(* How a request moves, and what it moves.                                 *)

\* Where each store call leads when it lets the request go on.
LEMMA HandlerPath ==
    ASSUME TypeInv, NEW h \in Reqs, Handler(h), ~Receive(h)
    PROVE  /\ req' = req /\ stage[h] \in Working
           /\ \/ stage'[h] \in {"deny_log", "deny_mark", "deny_save", "done"}
              \/ /\ Verify(h) /\ stage[h] = "verify" /\ ReceiptAccepted(h)
                 /\ stage'[h] = IF Body(h).tool = None THEN "agent" ELSE "mcp"
              \/ /\ McpPolicy(h) /\ stage[h] = "mcp" /\ ToolWithinCap(h)
                 /\ Amount(h) <= ToolTxCap[Body(h).tool]
                 /\ stage'[h] = "hitl" /\ Body(h).tool # None
              \/ /\ Hitl(h) \/ Consume(h)
                 /\ Approving(h) /\ stage'[h] \in {"consume", AfterHitl(h)}
              \/ ReadAgent(h) /\ stage[h] = "agent" /\ stage'[h] = "velocity"
              \/ Velocity(h) /\ stage[h] = "velocity" /\ ~TooFast(h) /\ stage'[h] = "user"
              \/ /\ ReadUser(h) /\ stage[h] = "user"
                 /\ stage'[h] = IF Body(h).tool = None THEN "hitl" ELSE "book_user"
              \/ BookUser(h) /\ stage[h] = "book_user" /\ stage'[h] = "reread_user"
              \/ RereadUser(h) /\ stage[h] = "reread_user" /\ stage'[h] = "book_agent"
              \/ BookAgent(h) /\ stage[h] = "book_agent" /\ stage'[h] = "reread_agent"
              \/ RereadAgent(h) /\ stage[h] = "reread_agent" /\ stage'[h] = "event"
              \/ /\ RecordEvent(h) /\ stage[h] = "event"
                 /\ stage'[h] = IF Body(h).tool = None THEN "alert_user" ELSE "usage"
              \/ RecordUsage(h) /\ stage[h] = "usage" /\ stage'[h] = "alert_user"
              \/ AlertUser(h) /\ stage[h] = "alert_user" /\ stage'[h] = "alert_agent"
              \/ AlertAgent(h) /\ stage[h] = "alert_agent" /\ stage'[h] = "mark"
              \/ MarkReceipt(h) /\ stage[h] = "mark" /\ stage'[h] = "log"
              \/ LogAuthorized(h) /\ stage[h] = "log" /\ stage'[h] = "save"
<1> DEFINE Over == stage'[h] \in {"deny_log", "deny_mark", "deny_save", "done"}
<1>1. stage \in [Reqs -> Stages] /\ (stage[h] = "mcp" => Body(h).tool # None)
  BY DEF TypeInv, TypeOK, LocalsTyped, Progress, Tooled
<1>2. ASSUME Verify(h), ~Over
      PROVE  /\ req' = req /\ stage[h] = "verify" /\ ReceiptAccepted(h)
             /\ stage'[h] = IF Body(h).tool = None THEN "agent" ELSE "mcp"
  BY <1>1, <1>2 DEF Verify, Refuse, Continue, Goto
<1>3. ASSUME McpPolicy(h), ~Over
      PROVE  /\ req' = req /\ stage[h] = "mcp" /\ ToolWithinCap(h) /\ stage'[h] = "hitl"
             /\ Amount(h) <= ToolTxCap[Body(h).tool]
  BY <1>1, <1>3 DEF McpPolicy, Return, Continue, Goto
<1>4. ASSUME Hitl(h) \/ Consume(h), ~Over
      PROVE  req' = req /\ Approving(h) /\ stage'[h] \in {"consume", AfterHitl(h)}
  BY <1>1, <1>4 DEF Hitl, Consume, Approving, Deny, Return, Continue, Goto
<1>5. ASSUME ReadAgent(h), ~Over
      PROVE  req' = req /\ stage[h] = "agent" /\ stage'[h] = "velocity"
  BY <1>1, <1>5 DEF ReadAgent, Deny, Refuse, Continue, Goto
<1>6. ASSUME Velocity(h), ~Over
      PROVE  req' = req /\ stage[h] = "velocity" /\ ~TooFast(h) /\ stage'[h] = "user"
  BY <1>1, <1>6 DEF Velocity, Deny, Continue, Goto
<1>7. ASSUME ReadUser(h), ~Over
      PROVE  /\ req' = req /\ stage[h] = "user"
             /\ stage'[h] = IF Body(h).tool = None THEN "hitl" ELSE "book_user"
  BY <1>1, <1>7 DEF ReadUser, Deny, Refuse, Continue, Goto
<1>8. CASE Finalize(h)
  BY <1>1, <1>8 DEF Finalize, BookUser, RereadUser, BookAgent, RereadAgent, RecordEvent,
     RecordUsage, AlertUser, AlertAgent, MarkReceipt, LogAuthorized, SaveAuthorized,
     Continue, Return, Goto, Working
<1>9. CASE Denial(h) \/ Fail(h)
  BY <1>1, <1>9 DEF Denial, DenyLog, DenyMark, DenySave, Fail, Continue, Return, Goto, Working
<1>10. CASE Check(h)
  <2>1. req' = req /\ stage[h] \in Working
    BY <1>10 DEF Check, Verify, McpPolicy, Hitl, Consume, ReadAgent, Velocity, ReadUser, Working
  <2> QED
    BY <1>1, <1>2, <1>3, <1>4, <1>5, <1>6, <1>7, <1>10, <2>1 DEF Check
<1> QED
  BY <1>8, <1>9, <1>10 DEF Handler

\* A call that arrives is only to be verified.
LEMMA ReceivePath ==
    ASSUME TypeInv, NEW h \in Reqs, Receive(h)
    PROVE  /\ stage'[h] \in {"verify", "done"} /\ stage[h] = "idle"
           /\ UNCHANGED <<store, booked, charged>>
  BY DEF TypeInv, TypeOK, LocalsTyped, Receive, Continue, Return, Goto

\* The counts of events and of usage, and the log, are each written by one step.
LEMMA HandlerCounts ==
    ASSUME NEW h \in Reqs, Handler(h)
    PROVE  /\ recent' = recent \/ RecordEvent(h)
           /\ toolSpent' = toolSpent \/ RecordUsage(h)
           /\ today' = today
  BY DEF Handler, Check, Finalize, Denial, Receive, Verify, McpPolicy, Hitl, Consume,
     ReadAgent, Velocity, ReadUser, BookUser, RereadUser, BookAgent, RereadAgent,
     RecordEvent, RecordUsage, AlertUser, AlertAgent, MarkReceipt, LogAuthorized,
     SaveAuthorized, DenyLog, DenyMark, DenySave, Fail, store

----------------------------------------------------------------------------
(* Workers.                                                                *)

LEMMA InFlightFinite ==
    /\ IsFiniteSet(InFlight) /\ Cardinality(InFlight) \in Nat
    /\ \A pair \in Agents \X Users : IsFiniteSet(Cleared(pair)) /\ Cardinality(Cleared(pair)) \in Nat
<1>1. InFlight \subseteq Reqs /\ \A pair \in Agents \X Users : Cleared(pair) \subseteq Reqs
  BY DEF InFlight, Cleared
<1>2. \A S \in SUBSET Reqs : IsFiniteSet(S) /\ Cardinality(S) \in Nat
  BY ReqsFinite, FS_Subset, FS_CardinalityType
<1> QED
  BY <1>1, <1>2

\* Only an arrival adds a request to those in flight, and only its own.
LEMMA InFlightStep ==
    ASSUME TypeInv, NEW h \in Reqs, Handler(h)
    PROVE  /\ InFlight' \subseteq InFlight \cup {h}
           /\ \/ InFlight' \subseteq InFlight
              \/ Receive(h) /\ h \notin InFlight
<1>1. \A q \in Reqs \ {h} : stage'[q] = stage[q]
  BY HandlerFrame DEF SameLocals
<1>2. InFlight' \subseteq InFlight \cup {h}
  BY <1>1 DEF InFlight
<1>3. CASE Receive(h)
  BY <1>2, <1>3 DEF Receive, InFlight, Working
<1>4. CASE ~Receive(h)
  <2>1. stage[h] \in Working
    BY <1>4, HandlerPath
  <2>2. h \in InFlight
    BY <2>1 DEF InFlight
  <2> QED
    BY <1>2, <2>2
<1> QED
  BY <1>2, <1>3, <1>4

LEMMA WorkersStep ==
    ASSUME TypeInv, WorkersBounded, NEW h \in Reqs, Handler(h)
    PROVE  WorkersBounded'
<1>1. IsFiniteSet(InFlight) /\ Cardinality(InFlight) \in Nat /\ MaxInFlight \in Nat
  BY InFlightFinite, LimitsTyped
<1>2. CASE InFlight' \subseteq InFlight
  <2>1. Cardinality(InFlight') <= Cardinality(InFlight) /\ Cardinality(InFlight') \in Nat
    BY <1>1, <1>2, FS_Subset, FS_CardinalityType
  <2> QED
    BY <1>1, <2>1 DEF WorkersBounded
<1>3. CASE Receive(h) /\ h \notin InFlight
  <2> DEFINE G == InFlight \cup {h}
  <2>1. IsFiniteSet(G) /\ Cardinality(G) = Cardinality(InFlight) + 1
    BY <1>1, <1>3, FS_AddElement
  <2>2. Cardinality(InFlight) < MaxInFlight /\ InFlight' \subseteq G
    BY <1>3, InFlightStep DEF Receive
  <2>3. Cardinality(InFlight') <= Cardinality(G) /\ Cardinality(InFlight') \in Nat
    BY <2>1, <2>2, FS_Subset, FS_CardinalityType
  <2> QED
    BY <1>1, <2>1, <2>2, <2>3 DEF WorkersBounded
<1> QED
  BY <1>2, <1>3, InFlightStep

----------------------------------------------------------------------------
(* The velocity limit.                                                     *)

\* Passing the check adds one request to those the limit has let through; the event
\* it records takes it off.
LEMMA VelocityStep ==
    ASSUME TypeInv, WorkersBounded, VelocityInv, NEW h \in Reqs, Handler(h)
    PROVE  VelocityInv'
<1> SUFFICES ASSUME NEW pair \in Agents \X Users
             PROVE  recent'[pair] + Cardinality(Cleared(pair)') <= VelocityLimit + MaxInFlight - 1
  BY DEF VelocityInv
<1> DEFINE C == Cleared(pair)
           D == Cleared(pair)'
<1>1. /\ recent \in [Agents \X Users -> Nat] /\ VelocityLimit \in Nat /\ MaxInFlight \in Nat
      /\ stage \in [Reqs -> Stages] /\ IsFiniteSet(C) /\ Cardinality(C) \in Nat
      /\ recent[pair] + Cardinality(C) <= VelocityLimit + MaxInFlight - 1
  BY InFlightFinite, LimitsTyped DEF TypeInv, TypeOK, StoreTyped, LocalsTyped, VelocityInv
<1>2. \A q \in Reqs \ {h} : (q \in D) = (q \in C)
  BY HandlerFrame DEF SameLocals, Cleared, PastVelocity, Direct, Approving, Pair, Body
<1>3. IsFiniteSet(D) /\ Cardinality(D) \in Nat
  <2>1. D \subseteq Reqs
    BY DEF Cleared
  <2> QED
    BY <2>1, ReqsFinite, FS_Subset, FS_CardinalityType
<1>4. ASSUME D \subseteq C PROVE Cardinality(D) <= Cardinality(C)
  BY <1>1, <1>4, FS_Subset
<1>5. CASE Receive(h)
  <2>1. D \subseteq C /\ recent' = recent
    BY <1>2, <1>5, ReceivePath DEF Cleared, PastVelocity, Direct, Approving, store
  <2> QED
    BY <1>1, <1>3, <1>4, <2>1
<1>6. CASE RecordEvent(h)
  <2>1. /\ stage[h] = "event" /\ stage'[h] \in {"usage", "alert_user"} /\ req' = req
        /\ recent' = [recent EXCEPT ![Pair(h)] = @ + 1] /\ h \notin D
    BY <1>1, <1>6 DEF RecordEvent, Continue, Goto, Cleared, PastVelocity, Direct, Approving
  <2>2. CASE Pair(h) = pair
    <3>1. h \in C /\ D \subseteq C \ {h}
      BY <1>2, <2>1, <2>2 DEF Cleared, PastVelocity
    <3>2. IsFiniteSet(C \ {h}) /\ Cardinality(C \ {h}) = Cardinality(C) - 1
      BY <1>1, <3>1, FS_RemoveElement
    <3>3. Cardinality(D) <= Cardinality(C) - 1
      BY <3>1, <3>2, FS_Subset
    <3>4. recent'[pair] = recent[pair] + 1
      BY <1>1, <2>1, <2>2
    <3> QED
      BY <1>1, <1>3, <3>3, <3>4
  <2>3. CASE Pair(h) # pair
    <3>1. D \subseteq C /\ recent'[pair] = recent[pair]
      BY <1>1, <1>2, <2>1, <2>3 DEF Cleared
    <3> QED
      BY <1>1, <1>3, <1>4, <3>1
  <2> QED
    BY <2>2, <2>3
<1>7. CASE Velocity(h) /\ stage'[h] = "user"
  <2>1. ~TooFast(h) /\ stage[h] = "velocity" /\ req' = req /\ recent' = recent
    BY <1>1, <1>7 DEF Velocity, Deny, Goto, store
  <2>2. CASE Pair(h) = pair
    <3>1. recent[pair] < VelocityLimit
      BY <1>1, <2>1, <2>2 DEF TooFast
    <3>2. D \subseteq InFlight'
      BY DEF Cleared, PastVelocity, Direct, Approving, InFlight, Working
    <3>3. IsFiniteSet(InFlight')
      BY ReqsFinite, FS_Subset DEF InFlight
    <3>4. Cardinality(InFlight') <= MaxInFlight /\ Cardinality(D) <= Cardinality(InFlight')
      BY <3>2, <3>3, WorkersStep, FS_Subset DEF WorkersBounded
    <3>5. Cardinality(InFlight') \in Nat
      BY <3>3, FS_CardinalityType
    <3> QED
      BY <1>1, <1>3, <2>1, <3>1, <3>4, <3>5
  <2>3. CASE Pair(h) # pair
    <3>1. D \subseteq C
      BY <1>2, <2>1, <2>3 DEF Cleared, Pair, Body
    <3> QED
      BY <1>1, <1>3, <1>4, <2>1, <3>1
  <2> QED
    BY <2>2, <2>3
<1>8. CASE ~Receive(h) /\ ~RecordEvent(h) /\ ~(Velocity(h) /\ stage'[h] = "user")
  <2>1. recent' = recent /\ req' = req
    BY <1>8, HandlerCounts, HandlerPath
  <2>2. PastVelocity(h)' => PastVelocity(h)
    BY <1>8, <2>1, HandlerPath DEF PastVelocity, Direct, Approving, AfterHitl, Body
  <2>3. D \subseteq C
    BY <1>2, <2>1, <2>2 DEF Cleared, Pair, Body
  <2> QED
    BY <1>1, <1>3, <1>4, <2>1, <2>3
<1> QED
  BY <1>5, <1>6, <1>7, <1>8

----------------------------------------------------------------------------
(* Budgets.                                                                *)

\* What one store call does to the row of an account and to what is booked on it.
LEMMA HandlerBooks ==
    ASSUME TypeInv, NEW h \in Reqs, Handler(h), NEW x \in Account
    PROVE  \/ budget'[x] \in {budget[x], Rolled(x)} /\ booked'[x] = booked[x]
           \/ /\ BookUser(h) /\ x = Body(h).user
              /\ budget'[x] = [budget[x] EXCEPT !.spent = userRow[h].spent, !.day = today]
              /\ booked'[x] = booked[x] + Amount(h)
           \/ /\ BookAgent(h) /\ x = Body(h).agent
              /\ budget'[x] = [budget[x] EXCEPT !.spent = agentRow[h].spent, !.day = today]
              /\ booked'[x] = booked[x] + Amount(h)
<1>1. budget \in [Account -> Row \cup {None}] /\ booked \in [Account -> Nat]
  BY DEF TypeInv, TypeOK, StoreTyped, HistoryTyped
<1>2. CASE ReadAgent(h) \/ ReadUser(h) \/ RereadUser(h) \/ RereadAgent(h)
  BY <1>1, <1>2 DEF ReadAgent, ReadUser, RereadUser, RereadAgent, ReadBack, history
<1>3. CASE BookUser(h)
  BY <1>1, <1>3 DEF BookUser, Book
<1>4. CASE BookAgent(h)
  BY <1>1, <1>4 DEF BookAgent, Book
<1>5. CASE ~ReadAgent(h) /\ ~ReadUser(h) /\ ~RereadUser(h) /\ ~RereadAgent(h)
           /\ ~BookUser(h) /\ ~BookAgent(h)
  <2>1. UNCHANGED <<budget, booked>>
    BY <1>5 DEF Handler, Check, Finalize, Denial, Receive, Verify, McpPolicy, Hitl, Consume,
       Velocity, RecordEvent, RecordUsage, AlertUser, AlertAgent, MarkReceipt, LogAuthorized,
       SaveAuthorized, DenyLog, DenyMark, DenySave, Fail, store, history
  <2> QED
    BY <2>1
<1> QED
  BY <1>2, <1>3, <1>4, <1>5

\* A request is about to book on an account if it was already, with the same total,
\* or if it just compared a total with the cap that it read.
LEMMA AgentTotal ==
    ASSUME TypeInv, NEW h \in Reqs, Handler(h), AgentPending(h)'
    PROVE  LET a == Body(h).agent
               row == Rolled(a)
           IN /\ req'[h] = req[h] /\ req[h] \in Inputs
              /\ \/ AgentPending(h) /\ agentRow'[h] = agentRow[h]
                 \/ /\ row # None /\ row.spent + Amount(h) <= row.cap
                    /\ budget'[a] = row /\ booked'[a] = booked[a]
                    /\ agentRow'[h] = [row EXCEPT !.spent = row.spent + Amount(h)]
<1>1. /\ agentRow \in [Reqs -> Row \cup {None}] /\ stage \in [Reqs -> Stages]
      /\ budget \in [Account -> Row \cup {None}]
  BY DEF TypeInv, TypeOK, LocalsTyped, StoreTyped
<1>2. ~Receive(h)
  BY ReceivePath DEF AgentPending, Direct, Approving
<1>3. req' = req /\ stage[h] \in Working
  BY <1>2, HandlerPath
<1>4. req[h] \in Inputs
  BY <1>3 DEF TypeInv, Progress, Sent, Working
<1>5. CASE ReadAgent(h)
  <2>1. stage[h] = "agent" /\ stage'[h] = "velocity" /\ Body(h).agent \in Account
    BY <1>2, <1>4, <1>5, InputParts, HandlerPath DEF AgentPending, Direct, Approving, ReadAgent
  <2> QED
    BY <1>1, <1>3, <1>4, <1>5, <2>1 DEF ReadAgent, Deny, Refuse, Continue, Goto, history
<1>6. CASE ~ReadAgent(h)
  <2>1. AgentPending(h)
    BY <1>2, <1>3, <1>6, HandlerPath DEF AgentPending, Direct, Approving, AfterHitl, Body
  <2>2. agentRow' = agentRow
    BY <1>2, <1>6, <2>1 DEF AgentPending, Direct, Approving, Handler, Check, Finalize, Denial,
       Verify, McpPolicy, Hitl, Consume, Velocity, ReadUser, BookUser, RereadUser, BookAgent,
       RereadAgent, RecordEvent, RecordUsage, AlertUser, AlertAgent, MarkReceipt,
       LogAuthorized, SaveAuthorized, DenyLog, DenyMark, DenySave, Fail
  <2> QED
    BY <1>3, <1>4, <2>1, <2>2
<1> QED
  BY <1>5, <1>6

LEMMA UserTotal ==
    ASSUME TypeInv, NEW h \in Reqs, Handler(h), UserPending(h)'
    PROVE  LET u == Body(h).user
               row == Rolled(u)
           IN /\ req'[h] = req[h] /\ req[h] \in Inputs
              /\ \/ UserPending(h) /\ userRow'[h] = userRow[h]
                 \/ /\ row # None /\ row.spent + Amount(h) <= row.cap
                    /\ budget'[u] = row /\ booked'[u] = booked[u]
                    /\ userRow'[h] = [row EXCEPT !.spent = row.spent + Amount(h)]
<1>1. /\ userRow \in [Reqs -> Row \cup {None}] /\ stage \in [Reqs -> Stages]
      /\ budget \in [Account -> Row \cup {None}]
  BY DEF TypeInv, TypeOK, LocalsTyped, StoreTyped
<1>2. ~Receive(h)
  BY ReceivePath DEF UserPending, Direct, Approving
<1>3. req' = req /\ stage[h] \in Working
  BY <1>2, HandlerPath
<1>4. req[h] \in Inputs
  BY <1>3 DEF TypeInv, Progress, Sent, Working
<1>5. CASE ReadUser(h)
  <2>1. stage'[h] \in {"hitl", "book_user"} /\ Body(h).user \in Account
    BY <1>1, <1>2, <1>4, <1>5, InputParts DEF UserPending, Direct, Approving, ReadUser, Deny,
       Refuse, Continue, Goto
  <2> QED
    BY <1>1, <1>3, <1>4, <1>5, <2>1 DEF ReadUser, Deny, Refuse, Continue, Goto, history
<1>6. CASE ~ReadUser(h)
  <2>1. UserPending(h)
    BY <1>2, <1>3, <1>6, HandlerPath DEF UserPending, Direct, Approving, AfterHitl, Body
  <2>2. userRow' = userRow
    BY <1>2, <1>6, <2>1 DEF UserPending, Direct, Approving, Handler, Check, Finalize, Denial,
       Verify, McpPolicy, Hitl, Consume, Velocity, ReadAgent, BookUser, RereadUser, BookAgent,
       RereadAgent, RecordEvent, RecordUsage, AlertUser, AlertAgent, MarkReceipt,
       LogAuthorized, SaveAuthorized, DenyLog, DenyMark, DenySave, Fail
  <2> QED
    BY <1>3, <1>4, <2>1, <2>2
<1> QED
  BY <1>5, <1>6

\* What a reset and a booking do to the fields of a row.
LEMMA RowFields ==
    ASSUME StoreTyped, NEW x \in Account, budget[x] # None, NEW total \in Nat
    PROVE  LET row == [budget[x] EXCEPT !.spent = total, !.day = today]
           IN /\ budget[x].spent \in Nat /\ budget[x].cap \in Nat /\ today \in Nat
              /\ row.spent = total /\ row.cap = budget[x].cap /\ row.day = today
              /\ Rolled(x).spent \in Nat /\ Rolled(x).spent <= budget[x].spent
              /\ Rolled(x).cap = budget[x].cap /\ Rolled(x).day = today
              /\ row # None /\ Rolled(x) # None
<1>1. budget[x] \in Row /\ today \in 0..MaxDay /\ 0..MaxDay \subseteq Nat
  BY LimitsTyped DEF StoreTyped
<1> DEFINE row == [budget[x] EXCEPT !.spent = total, !.day = today]
           zero == [budget[x] EXCEPT !.spent = 0, !.day = today]
<1>2. row \in Row /\ row.spent = total /\ row.cap = budget[x].cap /\ row.day = today
  BY <1>1 DEF Row
<1>3. zero \in Row /\ zero.spent = 0 /\ zero.cap = budget[x].cap /\ zero.day = today
  BY <1>1 DEF Row
<1>4. budget[x].spent \in Nat /\ budget[x].cap \in Nat
  BY <1>1 DEF Row
<1>5. Rolled(x) = zero \/ (Rolled(x) = budget[x] /\ budget[x].day = today)
  BY DEF Rolled
<1>6. None \notin Row
  BY NoneIsFresh
<1> HIDE DEF row, zero
<1>7. /\ Rolled(x).spent \in Nat /\ Rolled(x).spent <= budget[x].spent
      /\ Rolled(x).cap = budget[x].cap /\ Rolled(x).day = today /\ Rolled(x) # None
  BY <1>1, <1>3, <1>4, <1>5, <1>6
<1>8. row # None
  BY <1>2, <1>6
<1> QED
  BY <1>1, <1>2, <1>4, <1>7, <1>8 DEF row

\* No step of a handler changes a cap or removes a row.
LEMMA HandlerCaps ==
    ASSUME TypeInv, NEW h \in Reqs, Handler(h), NEW x \in Account, budget[x] # None
    PROVE  budget'[x] # None /\ budget'[x].cap = budget[x].cap
<1>1. StoreTyped /\ StoreTyped'
  BY StepTyped DEF TypeInv, TypeOK, Next
<1>2. Rolled(x) # None /\ Rolled(x).cap = budget[x].cap
  <2>1. 0 \in Nat
    OBVIOUS
  <2> QED
    BY <1>1, <2>1, RowFields
<1>3. ASSUME NEW total \in Nat, budget'[x] = [budget[x] EXCEPT !.spent = total, !.day = today]
      PROVE  budget'[x] # None /\ budget'[x].cap = budget[x].cap
  <2> DEFINE row == [budget[x] EXCEPT !.spent = total, !.day = today]
  <2>1. row # None /\ row.cap = budget[x].cap
    BY <1>1, RowFields
  <2>2. budget'[x] = row
    BY <1>3
  <2> HIDE DEF row
  <2> QED
    BY <2>1, <2>2
<1>4. /\ BookUser(h) => userRow[h].spent \in Nat
      /\ BookAgent(h) => agentRow[h].spent \in Nat
  BY DEF TypeInv, TypeOK, LocalsTyped, Progress, Funded, UserChecked, AgentChecked,
     Finalizing, BookUser, BookAgent, Row
<1> QED
  BY <1>2, <1>3, <1>4, HandlerBooks

\* Those who are about to book have read the row they book on.
LEMMA PendingRead ==
    ASSUME TypeInv, NEW p \in Reqs
    PROVE  /\ AgentPending(p) => /\ Body(p).agent \in Account /\ budget[Body(p).agent] # None
                               /\ agentRow[p] \in Row /\ Amount(p) \in Nat
           /\ UserPending(p) => /\ Body(p).user \in Account /\ budget[Body(p).user] # None
                              /\ userRow[p] \in Row /\ Amount(p) \in Nat
<1>1. AgentPending(p) \/ UserPending(p) => req[p] \in Inputs
  BY DEF TypeInv, Progress, Sent, AgentPending, UserPending, Direct, Approving
<1>2. /\ AgentPending(p) => AgentChecked(p)
      /\ UserPending(p) => UserChecked(p)
  BY DEF AgentPending, UserPending, Direct, AgentChecked, UserChecked, Finalizing
<1> QED
  BY <1>1, <1>2, InputParts DEF TypeInv, TypeOK, LocalsTyped, Progress, Funded

\* A total that fits the row it was compared with, under a cap that is not lowered.
LEMMA TotalFits ==
    ASSUME TypeInv, NEW x \in Account, budget[x] # None, NEW amount \in Nat,
           Rolled(x).spent + amount <= Rolled(x).cap
    PROVE  LET total == [Rolled(x) EXCEPT !.spent = Rolled(x).spent + amount]
           IN /\ total.spent = Rolled(x).spent + amount
              /\ total.spent <= total.cap /\ total.cap = budget[x].cap
<1>1. StoreTyped
  BY DEF TypeInv, TypeOK
<1>2. Rolled(x) \in Row
  BY <1>1, RolledRow
<1>3. 0 \in Nat
  OBVIOUS
<1>4. Rolled(x).cap = budget[x].cap
  BY <1>1, <1>3, RowFields
<1> QED
  BY <1>2, <1>4 DEF Row

\* The recorded spend and the totals about to be recorded stay within the caps.
LEMMA CapStep ==
    ASSUME TypeInv, CapInv, NEW h \in Reqs, Handler(h) PROVE CapInv'
<1>1. StoreTyped /\ TypeInv'
  BY StepTyped DEF TypeInv, TypeOK, Next
<1>2. ASSUME NEW x \in Account, budget'[x] # None PROVE budget'[x].spent <= budget'[x].cap
  <2>1. budget[x] # None
    BY <1>1, <1>2, RolledRow, HandlerBooks DEF BookUser, BookAgent, TypeInv, Progress, Funded,
       UserChecked, AgentChecked, Finalizing
  <2>2. budget[x].spent <= budget[x].cap
    BY <2>1 DEF CapInv, RecordedSpendWithinCap
  <2>3. CASE budget'[x] \in {budget[x], Rolled(x)}
    <3>1. 0 \in Nat
      OBVIOUS
    <3>2. /\ budget[x].spent \in Nat /\ budget[x].cap \in Nat
          /\ Rolled(x).spent \in Nat /\ Rolled(x).spent <= budget[x].spent
          /\ Rolled(x).cap = budget[x].cap
      BY <1>1, <2>1, <3>1, RowFields
    <3> QED
      BY <2>2, <2>3, <3>2
  <2>4. ASSUME NEW total \in Nat, total <= budget[x].cap,
               budget'[x] = [budget[x] EXCEPT !.spent = total, !.day = today]
        PROVE  budget'[x].spent <= budget'[x].cap
    <3> DEFINE row == [budget[x] EXCEPT !.spent = total, !.day = today]
    <3>1. row.spent = total /\ row.cap = budget[x].cap
      BY <1>1, <2>1, RowFields
    <3> HIDE DEF row
    <3>2. budget'[x] = row
      BY <2>4 DEF row
    <3> QED
      BY <2>4, <3>1, <3>2
  <2>5. ASSUME NEW row \in Row, Fits(row, x)
        PROVE  row.spent \in Nat /\ row.spent <= budget[x].cap
    BY <1>1, <2>1, <2>5 DEF Fits, StoreTyped, Row
  <2>6. /\ BookUser(h) /\ x = Body(h).user => userRow[h] \in Row /\ Fits(userRow[h], x)
        /\ BookAgent(h) /\ x = Body(h).agent => agentRow[h] \in Row /\ Fits(agentRow[h], x)
    BY PendingRead DEF BookUser, BookAgent, CapInv, UserPending, AgentPending
  <2>7. CASE /\ BookUser(h) /\ x = Body(h).user
             /\ budget'[x] = [budget[x] EXCEPT !.spent = userRow[h].spent, !.day = today]
    <3>1. userRow[h].spent \in Nat /\ userRow[h].spent <= budget[x].cap
      BY <2>5, <2>6, <2>7
    <3> QED
      BY <2>4, <2>7, <3>1
  <2>8. CASE /\ BookAgent(h) /\ x = Body(h).agent
             /\ budget'[x] = [budget[x] EXCEPT !.spent = agentRow[h].spent, !.day = today]
    <3>1. agentRow[h].spent \in Nat /\ agentRow[h].spent <= budget[x].cap
      BY <2>5, <2>6, <2>8
    <3> QED
      BY <2>4, <2>8, <3>1
  <2> QED
    BY <2>3, <2>7, <2>8, HandlerBooks
<1>3. RecordedSpendWithinCap'
  BY <1>2 DEF RecordedSpendWithinCap
<1>4. ASSUME NEW p \in Reqs, AgentPending(p)' PROVE Fits(agentRow[p], Body(p).agent)'
  <2>1. CASE AgentPending(p) /\ agentRow'[p] = agentRow[p] /\ req'[p] = req[p]
    BY <2>1, PendingRead, HandlerCaps DEF CapInv, Fits, Body
  <2>2. CASE p # h
    BY <1>4, <2>1, <2>2, HandlerFrame DEF SameLocals, AgentPending, Direct, Approving, Body
  <2>3. CASE p = h /\ ~(AgentPending(p) /\ agentRow'[p] = agentRow[p])
    <3> DEFINE a == Body(h).agent
    <3>1. /\ req'[h] = req[h] /\ req[h] \in Inputs /\ Rolled(a) # None
          /\ Rolled(a).spent + Amount(h) <= Rolled(a).cap /\ budget'[a] = Rolled(a)
          /\ agentRow'[h] = [Rolled(a) EXCEPT !.spent = Rolled(a).spent + Amount(h)]
      BY <1>4, <2>3, AgentTotal
    <3>2. a \in Account /\ Amount(h) \in Nat /\ budget[a] # None
      BY <1>1, <3>1, InputParts, RolledRow
    <3>3. /\ agentRow'[h].spent <= agentRow'[h].cap /\ agentRow'[h].cap = budget[a].cap
          /\ budget'[a].cap = budget[a].cap /\ budget[a].cap \in Nat
      <4>1. budget[a].cap \in Nat /\ budget'[a].cap = budget[a].cap
        BY <1>1, <3>2, HandlerCaps DEF StoreTyped, Row
      <4> QED
        BY <3>1, <3>2, <4>1, TotalFits
    <3> QED
      BY <2>3, <3>1, <3>3 DEF Fits, Body
  <2> QED
    BY <1>4, <2>1, <2>2, <2>3, AgentTotal
<1>5. ASSUME NEW p \in Reqs, UserPending(p)' PROVE Fits(userRow[p], Body(p).user)'
  <2>1. CASE UserPending(p) /\ userRow'[p] = userRow[p] /\ req'[p] = req[p]
    BY <2>1, PendingRead, HandlerCaps DEF CapInv, Fits, Body
  <2>2. CASE p # h
    BY <1>5, <2>1, <2>2, HandlerFrame DEF SameLocals, UserPending, Direct, Approving, Body
  <2>3. CASE p = h /\ ~(UserPending(p) /\ userRow'[p] = userRow[p])
    <3> DEFINE u == Body(h).user
    <3>1. /\ req'[h] = req[h] /\ req[h] \in Inputs /\ Rolled(u) # None
          /\ Rolled(u).spent + Amount(h) <= Rolled(u).cap /\ budget'[u] = Rolled(u)
          /\ userRow'[h] = [Rolled(u) EXCEPT !.spent = Rolled(u).spent + Amount(h)]
      BY <1>5, <2>3, UserTotal
    <3>2. u \in Account /\ Amount(h) \in Nat /\ budget[u] # None
      BY <1>1, <3>1, InputParts, RolledRow
    <3>3. /\ userRow'[h].spent <= userRow'[h].cap /\ userRow'[h].cap = budget[u].cap
          /\ budget'[u].cap = budget[u].cap /\ budget[u].cap \in Nat
      <4>1. budget[u].cap \in Nat /\ budget'[u].cap = budget[u].cap
        BY <1>1, <3>2, HandlerCaps DEF StoreTyped, Row
      <4> QED
        BY <3>1, <3>2, <4>1, TotalFits
    <3> QED
      BY <2>3, <3>1, <3>3 DEF Fits, Body
  <2> QED
    BY <1>5, <2>1, <2>2, <2>3, UserTotal
<1> QED
  BY <1>3, <1>4, <1>5 DEF CapInv

\* The operator never lowers a cap, and never sets a spend above one.
CapsOnlyRaised == \A x \in Account : budget[x] # None => budget[x].cap <= budget'[x].cap
SpendsWithinCaps ==
    /\ \A x \in Account : InitBudget[x] # None => InitBudget[x].spent <= InitBudget[x].cap
    /\ \A edit \in AdminEdits : edit[2].spent <= edit[2].cap

\* What the operator and the clock do to budgets and to what is booked.
LEMMA EnvironmentBooks ==
    ASSUME TypeInv, Environment
    PROVE  /\ UNCHANGED locals
           /\ \/ UNCHANGED <<budget, booked, today>>
              \/ budget' = budget /\ booked' = [x \in Account |-> 0]
              \/ \E edit \in AdminEdits, row \in Row :
                    /\ row.spent = edit[2].spent /\ row.cap = edit[2].cap /\ row.day = today
                    /\ budget' = [budget EXCEPT ![edit[1]] = row]
                    /\ booked' = [booked EXCEPT ![edit[1]] = 0]
                    /\ today' = today /\ edit[1] \in Account
<1>1. ASSUME NEW edit \in AdminEdits, UpsertBudget(edit[1], edit[2])
      PROVE  \E row \in Row :
                    /\ row.spent = edit[2].spent /\ row.cap = edit[2].cap /\ row.day = today
                    /\ budget' = [budget EXCEPT ![edit[1]] = row]
                    /\ booked' = [booked EXCEPT ![edit[1]] = 0]
                    /\ today' = today /\ edit[1] \in Account
  <2> DEFINE row == [cap |-> edit[2].cap, txCap |-> edit[2].txCap,
                     spent |-> edit[2].spent, day |-> today]
  <2>1. edit[1] \in Account /\ edit[2] \in [cap : Nat, txCap : Nat, spent : Nat]
    BY BudgetsTyped
  <2>2. today \in 0..MaxDay
    BY DEF TypeInv, TypeOK, StoreTyped
  <2>3. row \in Row /\ row.spent = edit[2].spent /\ row.cap = edit[2].cap /\ row.day = today
    BY <2>1, <2>2 DEF Row
  <2>4. /\ budget' = [budget EXCEPT ![edit[1]] = row]
        /\ booked' = [booked EXCEPT ![edit[1]] = 0] /\ today' = today
    BY <1>1 DEF UpsertBudget
  <2> HIDE DEF row
  <2> QED
    BY <2>1, <2>3, <2>4
<1>2. ASSUME Environment, ~NewDay, ~\E edit \in AdminEdits : UpsertBudget(edit[1], edit[2])
      PROVE  UNCHANGED <<locals, budget, booked, today>>
  BY <1>2 DEF Environment, Approve, Withdraw, Revoke, TokenExpires, ReceiptExpires, EventAges,
     NewUtcDay, history
<1>3. CASE NewDay
  BY <1>3 DEF NewDay
<1>4. ASSUME NEW edit \in AdminEdits, UpsertBudget(edit[1], edit[2]) PROVE UNCHANGED locals
  BY <1>4 DEF UpsertBudget
<1> QED
  BY <1>1, <1>2, <1>3, <1>4

LEMMA CapEnvironment ==
    ASSUME TypeInv, CapInv, Environment, CapsOnlyRaised, SpendsWithinCaps PROVE CapInv'
<1>1. StoreTyped /\ StoreTyped' /\ UNCHANGED locals
  BY StepTyped, EnvironmentBooks DEF TypeInv, TypeOK, Next
<1>2. ASSUME NEW x \in Account, budget'[x] # None PROVE budget'[x].spent <= budget'[x].cap
  <2>1. budget'[x] = budget[x] \/ \E edit \in AdminEdits :
          budget'[x].spent = edit[2].spent /\ budget'[x].cap = edit[2].cap
    BY <1>1, EnvironmentBooks DEF StoreTyped
  <2> QED
    BY <1>2, <2>1 DEF CapInv, RecordedSpendWithinCap, SpendsWithinCaps
<1>3. ASSUME NEW x \in Account, budget[x] # None
      PROVE  /\ budget[x].cap \in Nat /\ budget'[x].cap \in Nat /\ budget[x].cap <= budget'[x].cap
  <2>1. budget'[x] # None
    BY <1>1, <1>3, EnvironmentBooks, NoneIsFresh DEF StoreTyped
  <2> QED
    BY <1>1, <1>3, <2>1 DEF StoreTyped, Row, CapsOnlyRaised
<1>4. ASSUME NEW x \in Account, budget[x] # None, NEW row \in Row, Fits(row, x)
      PROVE  Fits(row, x)'
  BY <1>3, <1>4 DEF Fits, Row
<1>5. \A p \in Reqs : /\ AgentPending(p)' = AgentPending(p) /\ UserPending(p)' = UserPending(p)
                      /\ Body(p)' = Body(p)
  BY <1>1 DEF AgentPending, UserPending, Direct, Approving, Body, locals
<1>6. \A p \in Reqs : AgentPending(p)' => Fits(agentRow[p], Body(p).agent)'
  BY <1>1, <1>4, <1>5, PendingRead DEF CapInv, locals, Fits
<1>7. \A p \in Reqs : UserPending(p)' => Fits(userRow[p], Body(p).user)'
  BY <1>1, <1>4, <1>5, PendingRead DEF CapInv, locals, Fits
<1> QED
  BY <1>2, <1>6, <1>7 DEF CapInv, RecordedSpendWithinCap

----------------------------------------------------------------------------
(* One worker.                                                             *)

LEMMA OneWorker == ASSUME MaxInFlight = 1, WorkersBounded PROVE Alone
<1>1. IsFiniteSet(InFlight) /\ Cardinality(InFlight) \in Nat /\ Cardinality(InFlight) <= 1
  BY InFlightFinite DEF WorkersBounded
<1>2. CASE Cardinality(InFlight) = 0
  BY <1>1, <1>2, FS_EmptySet DEF Alone
<1>3. CASE Cardinality(InFlight) = 1
  BY <1>1, <1>3, FS_Singleton DEF Alone
<1> QED
  BY <1>1, <1>2, <1>3

\* Whoever is between a check and its booking holds the only worker.
LEMMA OnlyOne ==
    ASSUME Alone, NEW p \in Reqs, NEW h \in Reqs, stage[h] \in Working,
           AgentPending(p) \/ UserPending(p)
    PROVE  p = h
<1>1. p \in InFlight /\ h \in InFlight
  BY DEF InFlight, AgentPending, UserPending, Direct, Approving, Working
<1> QED
  BY <1>1 DEF Alone

\* What is booked on an account stays below its recorded spend: a booking writes the
\* total that counted everything booked before it.
LEMMA CoveredStep ==
    ASSUME TypeInv, Alone, Covered, NEW h \in Reqs, Handler(h) PROVE Covered'
<1>1. /\ StoreTyped /\ today' = today /\ 0 \in Nat
      /\ booked \in [Account -> Nat] /\ Users \cap Agents = {}
  BY HandlerCounts, HoldersDistinct DEF TypeInv, TypeOK, HistoryTyped
<1>2. ASSUME NEW x \in Account, budget'[x] # None PROVE booked'[x] <= Rolled(x)'.spent
  <2>1. budget[x] # None
    BY <1>1, <1>2, RolledRow, HandlerBooks DEF BookUser, BookAgent, TypeInv, Progress, Funded,
       UserChecked, AgentChecked, Finalizing
  <2>2. booked[x] <= Rolled(x).spent
    BY <2>1 DEF Covered, BookedCovered
  <2>3. CASE budget'[x] \in {budget[x], Rolled(x)} /\ booked'[x] = booked[x]
    <3>1. Rolled(x).day = today /\ Rolled(x) # None
      BY <1>1, <2>1, RowFields
    <3>2. Rolled(x)' = Rolled(x)
      BY <1>1, <2>1, <2>3, <3>1 DEF Rolled
    <3> QED
      BY <2>2, <2>3, <3>2
  <2>4. ASSUME NEW total \in Nat, booked'[x] <= total,
               budget'[x] = [budget[x] EXCEPT !.spent = total, !.day = today]
        PROVE  booked'[x] <= Rolled(x)'.spent
    <3> DEFINE row == [budget[x] EXCEPT !.spent = total, !.day = today]
    <3>1. row.spent = total /\ row.day = today
      BY <1>1, <2>1, RowFields
    <3> HIDE DEF row
    <3>2. Rolled(x)' = row
      BY <1>1, <2>4, <3>1 DEF row, Rolled
    <3> QED
      BY <2>4, <3>1, <3>2
  <2>5. /\ BookUser(h) /\ x = Body(h).user =>
              userRow[h].spent \in Nat /\ booked[x] + Amount(h) <= userRow[h].spent
        /\ BookAgent(h) /\ x = Body(h).agent =>
              agentRow[h].spent \in Nat /\ booked[x] + Amount(h) <= agentRow[h].spent
    BY PendingRead DEF BookUser, BookAgent, Covered, UserPending, AgentPending, Row
  <2>6. CASE /\ BookUser(h) /\ x = Body(h).user /\ booked'[x] = booked[x] + Amount(h)
             /\ budget'[x] = [budget[x] EXCEPT !.spent = userRow[h].spent, !.day = today]
    <3>1. userRow[h].spent \in Nat /\ booked'[x] <= userRow[h].spent
      BY <2>5, <2>6
    <3> QED
      BY <2>4, <2>6, <3>1
  <2>7. CASE /\ BookAgent(h) /\ x = Body(h).agent /\ booked'[x] = booked[x] + Amount(h)
             /\ budget'[x] = [budget[x] EXCEPT !.spent = agentRow[h].spent, !.day = today]
    <3>1. agentRow[h].spent \in Nat /\ booked'[x] <= agentRow[h].spent
      BY <2>5, <2>7
    <3> QED
      BY <2>4, <2>7, <3>1
  <2> QED
    BY <2>3, <2>6, <2>7, HandlerBooks
<1>3. BookedCovered'
  BY <1>2 DEF BookedCovered
<1>4. ASSUME NEW p \in Reqs, AgentPending(p)'
      PROVE  booked'[Body(p)'.agent] + Amount(p)' <= agentRow'[p].spent
  <2> DEFINE a == Body(p).agent
  <2>1. ASSUME AgentPending(p), agentRow'[p] = agentRow[p], req'[p] = req[p],
               booked'[a] = booked[a]
        PROVE  booked'[Body(p)'.agent] + Amount(p)' <= agentRow'[p].spent
    BY <2>1 DEF Covered, Body, Amount
  <2>2. CASE p # h
    <3>1. AgentPending(p) /\ agentRow'[p] = agentRow[p] /\ req'[p] = req[p]
      BY <1>4, <2>2, HandlerFrame DEF SameLocals, AgentPending, Direct, Approving, Body
    <3>2. ~BookUser(h) /\ ~BookAgent(h)
      BY <2>2, <3>1, OnlyOne DEF BookUser, BookAgent, Working
    <3> QED
      BY <2>1, <3>1, <3>2, PendingRead, HandlerBooks
  <2>3. CASE p = h /\ AgentPending(h) /\ agentRow'[h] = agentRow[h]
    <3>1. req'[h] = req[h] /\ req[h] \in Inputs
      BY <1>4, <2>3, AgentTotal
    <3>2. ~BookAgent(h)
      BY <1>4, <2>3 DEF BookAgent, Continue, Goto, AgentPending, Direct, Approving, TypeInv,
         TypeOK, LocalsTyped
    <3>3. a \in Account /\ a # Body(h).user
      BY <1>1, <2>3, <3>1, InputParts
    <3> QED
      BY <2>1, <2>3, <3>1, <3>2, <3>3, HandlerBooks
  <2>4. CASE p = h /\ ~(AgentPending(h) /\ agentRow'[h] = agentRow[h])
    <3>1. /\ req'[h] = req[h] /\ req[h] \in Inputs /\ Rolled(a) # None
          /\ Rolled(a).spent + Amount(h) <= Rolled(a).cap /\ booked'[a] = booked[a]
          /\ agentRow'[h] = [Rolled(a) EXCEPT !.spent = Rolled(a).spent + Amount(h)]
      BY <1>4, <2>4, AgentTotal
    <3>2. a \in Account /\ Amount(h) \in Nat /\ budget[a] # None
      BY <1>1, <2>4, <3>1, InputParts, RolledRow
    <3>3. agentRow'[h].spent = Rolled(a).spent + Amount(h)
      BY <3>1, <3>2, TotalFits
    <3>4. booked[a] <= Rolled(a).spent /\ Rolled(a).spent \in Nat /\ booked[a] \in Nat
      BY <1>1, <3>2, RowFields DEF Covered, BookedCovered
    <3> QED
      BY <2>4, <3>1, <3>2, <3>3, <3>4 DEF Body, Amount
  <2> QED
    BY <2>2, <2>3, <2>4
<1>5. ASSUME NEW p \in Reqs, UserPending(p)'
      PROVE  booked'[Body(p)'.user] + Amount(p)' <= userRow'[p].spent
  <2> DEFINE u == Body(p).user
  <2>1. ASSUME UserPending(p), userRow'[p] = userRow[p], req'[p] = req[p],
               booked'[u] = booked[u]
        PROVE  booked'[Body(p)'.user] + Amount(p)' <= userRow'[p].spent
    BY <2>1 DEF Covered, Body, Amount
  <2>2. CASE p # h
    <3>1. UserPending(p) /\ userRow'[p] = userRow[p] /\ req'[p] = req[p]
      BY <1>5, <2>2, HandlerFrame DEF SameLocals, UserPending, Direct, Approving, Body
    <3>2. ~BookUser(h) /\ ~BookAgent(h)
      BY <2>2, <3>1, OnlyOne DEF BookUser, BookAgent, Working
    <3> QED
      BY <2>1, <3>1, <3>2, PendingRead, HandlerBooks
  <2>3. CASE p = h /\ UserPending(h) /\ userRow'[h] = userRow[h]
    <3>1. req'[h] = req[h] /\ req[h] \in Inputs
      BY <1>5, <2>3, UserTotal
    <3>2. ~BookUser(h) /\ ~BookAgent(h)
      BY <1>5, <2>3 DEF BookUser, BookAgent, Continue, Goto, UserPending, Direct, Approving,
         TypeInv, TypeOK, LocalsTyped
    <3>3. u \in Account
      BY <2>3, <3>1, InputParts
    <3> QED
      BY <2>1, <2>3, <3>1, <3>2, <3>3, HandlerBooks
  <2>4. CASE p = h /\ ~(UserPending(h) /\ userRow'[h] = userRow[h])
    <3>1. /\ req'[h] = req[h] /\ req[h] \in Inputs /\ Rolled(u) # None
          /\ Rolled(u).spent + Amount(h) <= Rolled(u).cap /\ booked'[u] = booked[u]
          /\ userRow'[h] = [Rolled(u) EXCEPT !.spent = Rolled(u).spent + Amount(h)]
      BY <1>5, <2>4, UserTotal
    <3>2. u \in Account /\ Amount(h) \in Nat /\ budget[u] # None
      BY <1>1, <2>4, <3>1, InputParts, RolledRow
    <3>3. userRow'[h].spent = Rolled(u).spent + Amount(h)
      BY <3>1, <3>2, TotalFits
    <3>4. booked[u] <= Rolled(u).spent /\ Rolled(u).spent \in Nat /\ booked[u] \in Nat
      BY <1>1, <3>2, RowFields DEF Covered, BookedCovered
    <3> QED
      BY <2>4, <3>1, <3>2, <3>3, <3>4 DEF Body, Amount
  <2> QED
    BY <2>2, <2>3, <2>4
<1> QED
  BY <1>3, <1>4, <1>5 DEF Covered

LEMMA CoveredEnvironment ==
    ASSUME TypeInv, Covered, Environment PROVE Covered'
<1>1. /\ StoreTyped /\ UNCHANGED locals /\ booked \in [Account -> Nat]
      /\ budget \in [Account -> Row \cup {None}]
      /\ StoreTyped'
  BY StepTyped, EnvironmentBooks DEF TypeInv, TypeOK, HistoryTyped, StoreTyped, Next
<1>2. ASSUME NEW x \in Account, budget'[x] # None PROVE booked'[x] <= Rolled(x)'.spent
  <2>1. Rolled(x)'.spent \in Nat
    BY <1>1, <1>2, RolledRow DEF Rolled, Row, StoreTyped
  <2>2. booked'[x] = 0 \/ (booked'[x] = booked[x] /\ budget'[x] = budget[x] /\ today' = today)
    BY <1>1, EnvironmentBooks
  <2> QED
    BY <1>2, <2>1, <2>2 DEF Covered, BookedCovered, Rolled
<1>3. \A x \in Account : booked'[x] \in Nat /\ booked'[x] <= booked[x]
  BY <1>1, EnvironmentBooks
<1>4. \A p \in Reqs : /\ AgentPending(p)' = AgentPending(p) /\ UserPending(p)' = UserPending(p)
                      /\ Body(p)' = Body(p) /\ Amount(p)' = Amount(p)
                      /\ agentRow'[p] = agentRow[p] /\ userRow'[p] = userRow[p]
  BY <1>1 DEF AgentPending, UserPending, Direct, Approving, Body, Amount, locals
<1>5. ASSUME NEW p \in Reqs, AgentPending(p)
      PROVE  booked'[Body(p).agent] + Amount(p) <= agentRow[p].spent
  BY <1>1, <1>3, <1>5, PendingRead DEF Covered, Row
<1>6. ASSUME NEW p \in Reqs, UserPending(p)
      PROVE  booked'[Body(p).user] + Amount(p) <= userRow[p].spent
  BY <1>1, <1>3, <1>6, PendingRead DEF Covered, Row
<1> QED
  BY <1>2, <1>4, <1>5, <1>6 DEF Covered, BookedCovered

----------------------------------------------------------------------------
(* The cap of a tool.                                                      *)

\* What is owed to a tool are natural numbers, and no request owes more than its
\* transaction cap.
LEMMA OwedTyped ==
    ASSUME TypeInv, NEW tu \in Tools \X Users
    PROVE  /\ \A p \in Reqs : Owed(tu)[p] \in Nat
           /\ SumFunctionOnSet(Owed(tu), Reqs) \in Nat
           /\ toolSpent[tu] \in Nat /\ ToolDailyCap[tu[1]] \in Nat
           /\ ToolTxCap[tu[1]] \in Nat
<1>1. \A p \in Reqs : Owed(tu)[p] \in Nat
  <2>1. \A p \in Booking(tu) : Amount(p) \in Nat
    BY InputParts DEF Booking, ToolPending, TypeInv, Progress, Sent
  <2> QED
    BY <2>1 DEF Owed
<1>2. SumFunctionOnSet(Owed(tu), Reqs) \in Nat
  BY <1>1, ReqsFinite, SumNat
<1>3. toolSpent \in [Tools \X Users -> Nat]
  BY DEF TypeInv, TypeOK, StoreTyped
<1> QED
  BY <1>1, <1>2, <1>3, LimitsTyped

\* The other workers owe a tool no more than one transaction cap each.
LEMMA OwedByOthers ==
    ASSUME TypeInv, WorkersBounded, ToolInv, NEW tu \in Tools \X Users,
           NEW h \in InFlight
    PROVE  SumFunctionOnSet(Owed(tu), Reqs \ {h}) <= (MaxInFlight - 1) * ToolTxCap[tu[1]]
<1> DEFINE F == Owed(tu)
           S == Reqs \ {h}
           A == Booking(tu) \ {h}
           top == ToolTxCap[tu[1]]
<1>1. /\ A \subseteq S /\ A \subseteq InFlight \ {h} /\ IsFiniteSet(S) /\ IsFiniteSet(A)
      /\ \A x \in S : F[x] \in Nat
      /\ \A x \in S \ A : F[x] = 0
      /\ \A x \in A : F[x] \in Nat /\ F[x] <= top
      /\ top \in Nat
  <2>1. Booking(tu) \subseteq Reqs /\ Booking(tu) \subseteq InFlight
    BY DEF Booking, ToolPending, InFlight, Working
  <2>2. IsFiniteSet(S) /\ IsFiniteSet(A)
    BY <2>1, ReqsFinite, FS_Subset
  <2>3. top \in Nat /\ \A x \in Reqs : F[x] \in Nat
    BY OwedTyped
  <2>4. \A x \in Reqs \ Booking(tu) : F[x] = 0
    BY DEF Owed
  <2>5. ASSUME NEW x \in Booking(tu) PROVE F[x] <= top
    <3>1. x \in Reqs /\ ToolPending(x) /\ ToolUse(x) = tu /\ F[x] = Amount(x)
      BY <2>1 DEF Booking, Owed
    <3>2. Amount(x) <= ToolTxCap[Body(x).tool] /\ tu[1] = Body(x).tool
      BY <3>1 DEF ToolInv, ToolUse
    <3> QED
      BY <3>1, <3>2
  <2> QED
    BY <2>1, <2>2, <2>3, <2>4, <2>5
<1>2. Cardinality(A) \in Nat /\ Cardinality(A) <= MaxInFlight - 1
  <2>1. IsFiniteSet(InFlight) /\ Cardinality(InFlight) \in Nat /\ Cardinality(InFlight) <= MaxInFlight
    BY InFlightFinite DEF WorkersBounded
  <2>2. IsFiniteSet(InFlight \ {h}) /\ Cardinality(InFlight \ {h}) = Cardinality(InFlight) - 1
    BY <2>1, FS_RemoveElement
  <2>3. Cardinality(A) \in Nat /\ Cardinality(A) <= Cardinality(InFlight \ {h})
    BY <1>1, <2>2, FS_Subset, FS_CardinalityType
  <2> QED
    BY <2>1, <2>2, <2>3, LimitsTyped
<1>3. SumFunctionOnSet(F, S) = SumFunctionOnSet(F, A)
  <2> HIDE DEF F, S, A
  <2> QED
    BY <1>1, SumSupport
<1>4. SumFunctionOnSet(F, A) <= Cardinality(A) * top
  <2> HIDE DEF F, S, A, top
  <2> QED
    BY <1>1, SumAtMost
<1>5. Cardinality(A) * top <= (MaxInFlight - 1) * top
  <2>1. \A m, n, t \in Nat : m <= n => m * t <= n * t
    OBVIOUS
  <2>2. MaxInFlight - 1 \in Nat
    BY LimitsTyped
  <2> HIDE DEF A, top
  <2> QED
    BY <1>1, <1>2, <2>1, <2>2
<1>6. SumFunctionOnSet(F, A) \in Nat /\ Cardinality(A) * top \in Nat
      /\ (MaxInFlight - 1) * top \in Nat
  <2>1. SumFunctionOnSet(F, A) \in Nat
    <3> HIDE DEF F, A
    <3> QED
      BY <1>1, SumNat
  <2>2. \A m, t \in Nat : m * t \in Nat
    OBVIOUS
  <2>3. MaxInFlight - 1 \in Nat
    BY LimitsTyped
  <2> HIDE DEF A, top
  <2> QED
    BY <1>1, <1>2, <2>1, <2>2, <2>3
<1> HIDE DEF F, S, A, top
<1>7. SumFunctionOnSet(F, S) <= (MaxInFlight - 1) * top
  BY <1>3, <1>4, <1>5, <1>6
<1> QED
  BY <1>7 DEF F, S, top

\* Passing the cap adds what a request is allowed, at a time when the others owe no
\* more than one transaction each; its usage moves from what is owed to what is spent.
LEMMA ToolStep ==
    ASSUME TypeInv, WorkersBounded, ToolInv, NEW h \in Reqs, Handler(h) PROVE ToolInv'
<1>1. /\ toolSpent \in [Tools \X Users -> Nat] /\ TypeInv'
      /\ stage \in [Reqs -> Stages] /\ \A q \in Reqs \ {h} : SameLocals(q)
  BY HandlerFrame, StepTyped DEF TypeInv, TypeOK, StoreTyped, LocalsTyped, Next
<1>2. \A q \in Reqs \ {h} : /\ ToolPending(q)' = ToolPending(q) /\ Body(q)' = Body(q)
                            /\ Amount(q)' = Amount(q) /\ ToolUse(q)' = ToolUse(q)
  BY <1>1 DEF SameLocals, ToolPending, Body, Amount, ToolUse
<1>3. CASE ToolPending(h)' /\ ~ToolPending(h)
  <2>1. ~Receive(h)
    BY <1>3, ReceivePath DEF ToolPending
  <2>2. req' = req
    BY <2>1, HandlerPath
  <2>3. /\ stage[h] = "mcp" /\ ToolWithinCap(h) /\ Amount(h) <= ToolTxCap[Body(h).tool]
        /\ Body(h).tool # None
    BY <1>3, <2>1, <2>2, HandlerPath DEF ToolPending, Approving, AfterHitl, Body
  <2>4. toolSpent' = toolSpent
    BY <1>1, <2>3, HandlerCounts DEF RecordUsage
  <2>5. h \in InFlight
    BY <2>3 DEF InFlight, Working
  <2>6. ASSUME NEW tu \in Tools \X Users
        PROVE  toolSpent'[tu] + SumFunctionOnSet(Owed(tu)', Reqs) <= ToolTop(tu)
    <3> DEFINE F == Owed(tu)
               G == Owed(tu)'
    <3>1. /\ \A x \in Reqs : F[x] \in Nat
          /\ SumFunctionOnSet(F, Reqs) \in Nat /\ toolSpent[tu] \in Nat
          /\ ToolDailyCap[tu[1]] \in Nat
      BY OwedTyped
    <3>2. \A x \in Reqs : x # h => G[x] = F[x]
      BY <1>2 DEF Owed, Booking
    <3>3. /\ F[h] = 0 /\ G[h] \in Nat
          /\ G[h] = 0 \/ (ToolUse(h) = tu /\ G[h] = Amount(h))
      <4>1. Amount(h) \in Nat
        BY <2>3, InputParts DEF TypeInv, Progress, Sent
      <4>2. F[h] = 0 /\ (G[h] = 0 \/ (ToolUse(h) = tu /\ G[h] = Amount(h)))
        BY <1>3, <2>2 DEF Owed, Booking, ToolUse, Amount, Body
      <4> HIDE DEF F, G
      <4> QED
        BY <4>1, <4>2
    <3>4. SumFunctionOnSet(G, Reqs) = SumFunctionOnSet(F, Reqs) + G[h]
      <4>1. SumFunctionOnSet(G, Reqs) = SumFunctionOnSet(F, Reqs) - F[h] + G[h]
        <5> HIDE DEF F, G
        <5>1. \A x \in Reqs : F[x] \in Nat /\ G[x] \in Nat
          BY <3>1, <3>2, <3>3
        <5> QED
          BY <3>2, <5>1, ReqsFinite, SumChange
      <4> HIDE DEF F, G
      <4> QED
        BY <3>1, <3>3, <4>1
    <3>5. SumFunctionOnSet(F, Reqs) <= (MaxInFlight - 1) * ToolTxCap[tu[1]]
      <4>1. SumFunctionOnSet(F, Reqs) = F[h] + SumFunctionOnSet(F, Reqs \ {h})
        <5> HIDE DEF F
        <5> QED
          BY <3>1, ReqsFinite, SumRemove
      <4>2. SumFunctionOnSet(F, Reqs \ {h}) \in Nat
        <5>1. IsFiniteSet(Reqs \ {h})
          BY ReqsFinite, FS_Subset
        <5> HIDE DEF F
        <5> QED
          BY <3>1, <5>1, SumNat
      <4>3. SumFunctionOnSet(F, Reqs \ {h}) <= (MaxInFlight - 1) * ToolTxCap[tu[1]]
        BY <2>5, OwedByOthers
      <4> HIDE DEF F
      <4> QED
        BY <3>3, <4>1, <4>2, <4>3
    <3>6. toolSpent[tu] + SumFunctionOnSet(F, Reqs) <= ToolTop(tu)
      BY DEF ToolInv
    <3>7. ASSUME ToolUse(h) = tu
          PROVE  toolSpent[tu] + Amount(h) <= ToolDailyCap[tu[1]]
      BY <2>3, <3>7 DEF ToolWithinCap, ToolUse
    <3>8. ToolTop(tu) = ToolDailyCap[tu[1]] + (MaxInFlight - 1) * ToolTxCap[tu[1]]
      BY DEF ToolTop
    <3>9. (MaxInFlight - 1) * ToolTxCap[tu[1]] \in Nat
      BY LimitsTyped
    <3> HIDE DEF F, G
    <3>10. toolSpent[tu] + SumFunctionOnSet(G, Reqs) <= ToolTop(tu)
      BY <3>1, <3>3, <3>4, <3>5, <3>6, <3>7, <3>8, <3>9
    <3> QED
      BY <2>4, <3>10 DEF G
  <2>7. ASSUME NEW p \in Reqs, ToolPending(p)' PROVE Amount(p)' <= ToolTxCap[Body(p)'.tool]
    BY <1>2, <2>2, <2>3, <2>7 DEF ToolInv, Amount, Body
  <2> QED
    BY <2>6, <2>7 DEF ToolInv, ToolTop
<1>4. CASE ~(ToolPending(h)' /\ ~ToolPending(h))
  <2>1. ToolPending(h) => req'[h] = req[h] /\ req[h] \in Inputs
    BY HandlerFrame DEF ToolPending, TypeInv, Progress, Sent
  <2>2. ToolPending(h)' => ToolPending(h) /\ Body(h)' = Body(h) /\ Amount(h)' = Amount(h)
                            /\ ToolUse(h)' = ToolUse(h)
    BY <1>4, <2>1 DEF Body, Amount, ToolUse
  <2>3. \/ toolSpent' = toolSpent
        \/ /\ toolSpent' = [toolSpent EXCEPT ![ToolUse(h)] = @ + Amount(h)]
           /\ ToolPending(h) /\ ~ToolPending(h)'
    <3>1. ASSUME RecordUsage(h)
          PROVE  /\ toolSpent' = [toolSpent EXCEPT ![ToolUse(h)] = @ + Amount(h)]
                 /\ stage[h] = "usage" /\ stage'[h] = "alert_user"
      BY <1>1, <3>1 DEF RecordUsage, Continue, Goto
    <3> QED
      BY <3>1, HandlerCounts DEF ToolPending, TypeInv, Progress, Tooled
  <2>4. ASSUME NEW tu \in Tools \X Users
        PROVE  toolSpent'[tu] + SumFunctionOnSet(Owed(tu)', Reqs) <= ToolTop(tu)
    <3> DEFINE F == Owed(tu)
               G == Owed(tu)'
    <3>1. /\ \A x \in Reqs : F[x] \in Nat
          /\ SumFunctionOnSet(F, Reqs) \in Nat /\ toolSpent[tu] \in Nat
      BY OwedTyped
    <3>2. \A x \in Reqs : x # h => G[x] = F[x]
      BY <1>2 DEF Owed, Booking
    <3>3. G[h] = 0 \/ G[h] = F[h]
      BY <2>2 DEF Owed, Booking
    <3>4. SumFunctionOnSet(G, Reqs) = SumFunctionOnSet(F, Reqs) - F[h] + G[h]
      <4>1. \A x \in Reqs : F[x] \in Nat /\ G[x] \in Nat
        <5> HIDE DEF F, G
        <5> QED
          BY <3>1, <3>2, <3>3
      <4> HIDE DEF F, G
      <4> QED
        BY <3>2, <4>1, ReqsFinite, SumChange
    <3>5. \/ toolSpent'[tu] = toolSpent[tu]
          \/ toolSpent'[tu] = toolSpent[tu] + F[h] /\ G[h] = 0
      <4>1. ASSUME ToolPending(h), ~ToolPending(h)', ToolUse(h) = tu PROVE F[h] = Amount(h) /\ G[h] = 0
        BY <4>1 DEF Owed, Booking
      <4> HIDE DEF F, G
      <4> QED
        BY <1>1, <2>3, <4>1
    <3>6. toolSpent[tu] + SumFunctionOnSet(F, Reqs) <= ToolTop(tu) /\ ToolTop(tu) \in Nat
      <4>1. (MaxInFlight - 1) * ToolTxCap[tu[1]] \in Nat /\ ToolDailyCap[tu[1]] \in Nat
        BY LimitsTyped
      <4> QED
        BY <4>1 DEF ToolInv, ToolTop
    <3>7. F[h] \in Nat
      BY <3>1
    <3> HIDE DEF F, G
    <3>8. toolSpent'[tu] + SumFunctionOnSet(G, Reqs) <= ToolTop(tu)
      BY <3>1, <3>3, <3>4, <3>5, <3>6, <3>7
    <3> QED
      BY <3>8 DEF G
  <2>5. ASSUME NEW p \in Reqs, ToolPending(p)' PROVE Amount(p)' <= ToolTxCap[Body(p)'.tool]
    BY <1>2, <2>2, <2>5 DEF ToolInv
  <2> QED
    BY <2>4, <2>5 DEF ToolInv, ToolTop
<1> QED
  BY <1>3, <1>4

\* The operator and the clock: nothing more is owed, and at midnight nothing is spent.
LEMMA ToolEnvironment ==
    ASSUME TypeInv, ToolInv, UNCHANGED locals,
           toolSpent' = toolSpent \/ toolSpent' = [tu \in Tools \X Users |-> 0]
    PROVE  ToolInv'
<1>1. \A p \in Reqs : /\ ToolPending(p)' = ToolPending(p) /\ Body(p)' = Body(p)
                      /\ Amount(p)' = Amount(p) /\ ToolUse(p)' = ToolUse(p)
  BY DEF locals, ToolPending, Body, Amount, ToolUse
<1>2. ASSUME NEW tu \in Tools \X Users
      PROVE  toolSpent'[tu] + SumFunctionOnSet(Owed(tu)', Reqs) <= ToolTop(tu)
  <2>1. Owed(tu)' = Owed(tu)
    BY <1>1 DEF Owed, Booking
  <2>2. /\ toolSpent[tu] \in Nat /\ SumFunctionOnSet(Owed(tu), Reqs) \in Nat
        /\ toolSpent'[tu] = toolSpent[tu] \/ toolSpent'[tu] = 0
    BY OwedTyped
  <2>3. toolSpent[tu] + SumFunctionOnSet(Owed(tu), Reqs) <= ToolTop(tu) /\ ToolTop(tu) \in Nat
    <3>1. (MaxInFlight - 1) * ToolTxCap[tu[1]] \in Nat /\ ToolDailyCap[tu[1]] \in Nat
      BY LimitsTyped
    <3> QED
      BY <3>1 DEF ToolInv, ToolTop
  <2> QED
    BY <2>1, <2>2, <2>3
<1> QED
  BY <1>1, <1>2 DEF ToolInv, ToolTop

----------------------------------------------------------------------------
(* Receipts.                                                               *)

\* A receipt that is accepted belongs to no payment in the log, so that whoever may
\* still be logged with it is in flight.
LEMMA ReceiptStep ==
    ASSUME RecInv, WorkersBounded, ReceiptInv, NEW h \in Reqs, Handler(h) PROVE ReceiptInv'
<1> SUFFICES ASSUME NEW r \in Receipts PROVE Cardinality(Payers(r)') <= MaxInFlight
  BY DEF ReceiptInv
<1>1. /\ stage \in [Reqs -> Stages] /\ TypeInv
      /\ \A q \in Reqs \ {h} : SameLocals(q) /\ Logged(q)' = Logged(q)
      /\ \A q \in Reqs : LogTrue(q)
  BY HandlerFrame, HandlerGrows
     DEF RecInv, SafeInv, RecordInv, Consistent, TypeInv, TypeOK, LocalsTyped
<1>2. /\ IsFiniteSet(Payers(r)) /\ Cardinality(Payers(r)) \in Nat
      /\ Cardinality(Payers(r)) <= MaxInFlight /\ MaxInFlight \in Nat
  <2>1. Payers(r) \subseteq Reqs
    BY DEF Payers
  <2> QED
    BY <2>1, ReqsFinite, FS_Subset, FS_CardinalityType, LimitsTyped DEF ReceiptInv
<1>3. \A q \in Reqs \ {h} : q \in Payers(r)' => q \in Payers(r)
  BY <1>1 DEF Payers, Paying, SameLocals
<1>4. ASSUME NEW S, IsFiniteSet(S), Cardinality(S) <= MaxInFlight, Payers(r)' \subseteq S
      PROVE  Cardinality(Payers(r)') <= MaxInFlight
  <2>1. Cardinality(Payers(r)') <= Cardinality(S) /\ Cardinality(S) \in Nat
        /\ Cardinality(Payers(r)') \in Nat
    BY <1>4, FS_Subset, FS_CardinalityType
  <2> QED
    BY <1>2, <1>4, <2>1
<1>5. CASE h \in Payers(r)' /\ h \notin Payers(r)
  <2>1. Receive(h) => ~(h \in Payers(r)')
    <3>1. ASSUME Receive(h) PROVE ~Paying(h)' /\ ~Logged(h)'
      <4>1. stage[h] = "idle" /\ stage'[h] \in {"verify", "done"} /\ log' = log
        BY <1>1, <3>1, ReceivePath DEF store
      <4> QED
        BY <1>1, <4>1 DEF Paying, Accepted, Working, LogTrue, Logged
    <3> QED
      BY <3>1 DEF Payers
  <2>2. ~Receive(h) /\ req' = req
    BY <1>1, <1>5, <2>1, HandlerPath
  <2>3. ~Paying(h) /\ ~Logged(h) /\ req[h].receipt = r
    BY <1>5, <2>2 DEF Payers
  <2>4. ReceiptAccepted(h) /\ stage[h] = "verify"
    <3>1. ~LogAuthorized(h)
      BY <2>3 DEF LogAuthorized, Paying, Accepted, Working
    <3>2. log' = log \/ log' = log \cup {<<h, "DENIED">>}
      BY <3>1 DEF Handler, Check, Finalize, Denial, Receive, Verify, McpPolicy, Hitl, Consume,
         ReadAgent, Velocity, ReadUser, BookUser, RereadUser, BookAgent, RereadAgent,
         RecordEvent, RecordUsage, AlertUser, AlertAgent, MarkReceipt, SaveAuthorized,
         DenyLog, DenyMark, DenySave, Fail, store
    <3>3. ~Logged(h)'
      BY <2>3, <3>2 DEF Logged
    <3>4. Paying(h)'
      BY <1>5, <3>3 DEF Payers
    <3>5. stage'[h] \notin {"deny_log", "deny_mark", "deny_save", "done", "save"}
      BY <3>4 DEF Paying, Accepted, Working
    <3>6. \/ ReceiptAccepted(h) /\ stage[h] = "verify"
          \/ stage[h] \in {"mcp", "hitl", "consume", "agent", "velocity", "user", "book_user",
                         "reread_user", "book_agent", "reread_agent", "event", "usage",
                         "alert_user", "alert_agent", "mark", "log"}
      BY <1>1, <2>2, <3>5, HandlerPath DEF Approving
    <3> QED
      BY <2>3, <3>6 DEF Paying, Accepted, Working
  <2>5. ASSUME NEW q \in Reqs, Logged(q), req[q].receipt = r PROVE FALSE
    <3>1. Marked(q)
      BY <1>1, <2>5 DEF LogTrue, ConsumedReceipt, Logged
    <3> QED
      BY <2>3, <2>4, <2>5, <3>1 DEF Marked, ReceiptAccepted
  <2>6. Payers(r) \subseteq InFlight /\ h \in InFlight
    BY <2>4, <2>5 DEF Payers, Paying, Accepted, InFlight, Working
  <2>7. Payers(r)' \subseteq InFlight
    <3>1. Payers(r)' \subseteq Reqs
      BY DEF Payers
    <3> QED
      BY <1>3, <2>6, <3>1
  <2> QED
    BY <1>4, <2>7, InFlightFinite DEF WorkersBounded
<1>6. CASE ~(h \in Payers(r)' /\ h \notin Payers(r))
  <2>1. Payers(r)' \subseteq Reqs
    BY DEF Payers
  <2>2. Payers(r)' \subseteq Payers(r)
    BY <1>3, <1>6, <2>1
  <2> QED
    BY <1>2, <1>4, <2>2
<1> QED
  BY <1>5, <1>6

----------------------------------------------------------------------------
(* The theorems.                                                           *)

LEMMA LimitsInit ==
    ASSUME Init
    PROVE  /\ WorkersBounded /\ VelocityInv /\ ToolInv /\ ReceiptInv /\ Covered
           /\ SpendsWithinCaps => CapInv
<1>1. InFlight = {} /\ \A pair \in Agents \X Users : Cleared(pair) = {}
  BY DEF Init, InFlight, Cleared, PastVelocity, Direct, Approving, Working
<1>2. WorkersBounded /\ VelocityInv
  <2>1. Cardinality({}) = 0 /\ VelocityLimit \in Nat \ {0} /\ MaxInFlight \in Nat \ {0}
    BY FS_EmptySet, LimitsTyped
  <2>2. 0 <= MaxInFlight /\ 0 + 0 <= VelocityLimit + MaxInFlight - 1
    BY <2>1
  <2> QED
    BY <1>1, <2>1, <2>2 DEF WorkersBounded, VelocityInv, Init
<1>3. \A p \in Reqs : ~AgentPending(p) /\ ~UserPending(p) /\ ~ToolPending(p) /\ ~Logged(p)
  BY DEF Init, AgentPending, UserPending, ToolPending, Direct, Approving, Logged
<1>4. Covered
  <2>1. ASSUME NEW x \in Account, budget[x] # None PROVE booked[x] <= Rolled(x).spent
    <3>1. StoreTyped
      BY InitTyped DEF TypeInv, TypeOK
    <3>2. Rolled(x).spent \in Nat
      BY <2>1, <3>1, RolledRow DEF Row
    <3> QED
      BY <3>2 DEF Init
  <2> QED
    BY <1>3, <2>1 DEF Covered, BookedCovered
<1>5. ToolInv
  <2>1. ASSUME NEW tu \in Tools \X Users
        PROVE  toolSpent[tu] + SumFunctionOnSet(Owed(tu), Reqs) <= ToolTop(tu)
    <3>1. \A p \in Reqs \ {} : Owed(tu)[p] = 0
      BY <1>3 DEF Owed, Booking
    <3>2. SumFunctionOnSet(Owed(tu), Reqs) = SumFunctionOnSet(Owed(tu), {})
      <4>1. {} \in SUBSET Reqs /\ \A p \in Reqs : Owed(tu)[p] \in Nat
        BY <3>1
      <4> QED
        BY <3>1, <4>1, ReqsFinite, SumSupport
    <3>3. SumFunctionOnSet(Owed(tu), Reqs) = 0 /\ toolSpent[tu] = 0
      BY <3>2, SumEmpty DEF Init
    <3>4. (MaxInFlight - 1) * ToolTxCap[tu[1]] \in Nat /\ ToolDailyCap[tu[1]] \in Nat
      BY LimitsTyped
    <3> QED
      BY <3>3, <3>4 DEF ToolTop
  <2> QED
    BY <1>3, <2>1 DEF ToolInv
<1>6. ReceiptInv
  <2>1. ASSUME NEW r \in Receipts PROVE Payers(r) = {}
    BY <1>3 DEF Init, Payers, Paying, Accepted, Working
  <2>2. Cardinality({}) = 0
    BY FS_EmptySet
  <2> QED
    BY <2>1, <2>2, LimitsTyped DEF ReceiptInv
<1>7. SpendsWithinCaps => CapInv
  BY <1>3 DEF Init, SpendsWithinCaps, CapInv, RecordedSpendWithinCap
<1> QED
  BY <1>2, <1>4, <1>5, <1>6, <1>7

\* The operator and the clock start no request and let none through.
LEMMA QuietLimits ==
    ASSUME TypeInv, UNCHANGED locals,
           \A pair \in Agents \X Users : recent'[pair] \in Nat /\ recent'[pair] <= recent[pair]
    PROVE  /\ WorkersBounded => WorkersBounded'
           /\ VelocityInv => VelocityInv'
<1>1. InFlight' = InFlight /\ \A pair \in Agents \X Users : Cleared(pair)' = Cleared(pair)
  BY DEF locals, InFlight, Cleared, PastVelocity, Direct, Approving, Pair, Body
<1>2. \A pair \in Agents \X Users : recent[pair] \in Nat /\ Cardinality(Cleared(pair)) \in Nat
  BY InFlightFinite DEF TypeInv, TypeOK, StoreTyped
<1>3. VelocityLimit \in Nat /\ MaxInFlight \in Nat
  BY LimitsTyped
<1> QED
  BY <1>1, <1>2, <1>3 DEF WorkersBounded, VelocityInv

LEMMA FlowStep ==
    ASSUME TypeInv, WorkersBounded, VelocityInv, [Next]_vars PROVE WorkersBounded' /\ VelocityInv'
<1>1. recent \in [Agents \X Users -> Nat]
  BY DEF TypeInv, TypeOK, StoreTyped
<1>2. ASSUME NEW h \in Reqs, Handler(h) PROVE WorkersBounded' /\ VelocityInv'
  BY <1>2, WorkersStep, VelocityStep
<1>3. CASE Environment
  <2>1. recent' = recent \/ \E pair \in Agents \X Users : EventAges(pair)
    BY <1>3 DEF Environment, Approve, Withdraw, Revoke, TokenExpires, ReceiptExpires,
       UpsertBudget, NewDay, NewUtcDay
  <2>2. \A pair \in Agents \X Users : recent'[pair] \in Nat /\ recent'[pair] <= recent[pair]
    BY <1>1, <2>1 DEF EventAges
  <2> QED
    BY <1>3, <2>2, EnvironmentBooks, QuietLimits
<1>4. CASE UNCHANGED vars
  <2>1. UNCHANGED <<locals, recent>>
    BY <1>4 DEF vars, store
  <2> QED
    BY <1>1, <2>1, QuietLimits
<1> QED
  BY <1>2, <1>3, <1>4 DEF Next, Quiesced

LEMMA ToolInvStep ==
    ASSUME TypeInv, WorkersBounded, ToolInv, [Next]_vars PROVE ToolInv'
<1>1. CASE Environment
  <2>1. toolSpent' = toolSpent \/ toolSpent' = [tu \in Tools \X Users |-> 0]
    BY <1>1 DEF Environment, Approve, Withdraw, Revoke, TokenExpires, ReceiptExpires, EventAges,
       UpsertBudget, NewDay, NewUtcDay
  <2> QED
    BY <1>1, <2>1, EnvironmentBooks, ToolEnvironment
<1>2. CASE UNCHANGED vars
  <2>1. UNCHANGED locals /\ toolSpent' = toolSpent
    BY <1>2 DEF vars, store
  <2> QED
    BY <2>1, ToolEnvironment
<1> QED
  BY <1>1, <1>2, ToolStep DEF Next, Quiesced

LEMMA ReceiptInvStep ==
    ASSUME RecInv, WorkersBounded, ReceiptInv, [Next]_vars PROVE ReceiptInv'
<1>1. ASSUME UNCHANGED <<locals, log>> PROVE ReceiptInv'
  BY <1>1 DEF locals, ReceiptInv, Payers, Paying, Logged
<1>2. CASE Environment
  BY <1>1, <1>2, EnvironmentFrame DEF RecInv, SafeInv
<1>3. CASE UNCHANGED vars
  BY <1>1, <1>3 DEF vars, store
<1> QED
  BY <1>2, <1>3, ReceiptStep DEF Next, Quiesced

LEMMA CapInvStep ==
    ASSUME TypeInv, CapInv, SpendsWithinCaps, [Next]_vars, [CapsOnlyRaised]_vars PROVE CapInv'
<1>1. CASE UNCHANGED vars
  BY <1>1 DEF vars, locals, store, CapInv, RecordedSpendWithinCap, AgentPending, UserPending,
     Direct, Approving, Fits, Body
<1>2. CASE ~UNCHANGED vars
  BY <1>2, CapStep, CapEnvironment DEF Next, Quiesced
<1> QED
  BY <1>1, <1>2

LEMMA CoveredInvStep ==
    ASSUME MaxInFlight = 1, TypeInv, WorkersBounded, Covered, [Next]_vars PROVE Covered'
<1>1. CASE UNCHANGED vars
  BY <1>1 DEF vars, locals, store, history, Covered, BookedCovered, Rolled, AgentPending,
     UserPending, Direct, Approving, Body, Amount
<1> QED
  BY <1>1, OneWorker, CoveredStep, CoveredEnvironment DEF Next, Quiesced

\* VelocityOvershootBounded: whatever the interleaving of the workers, no pair has more
\* than the limit and the other requests in flight in its window (main.py:2272-2299).
THEOREM VelocityOvershoot == Spec => []VelocityOvershootBounded
<1> DEFINE Inv == TypeInv /\ WorkersBounded /\ VelocityInv
<1>1. Init => Inv
  BY InitTyped, LimitsInit
<1>2. Inv /\ [Next]_vars => Inv'
  BY StepTyped, FlowStep
<1>3. Inv => VelocityOvershootBounded
  <2> SUFFICES ASSUME Inv, NEW pair \in Agents \X Users
               PROVE  recent[pair] <= VelocityLimit + MaxInFlight - 1
    BY DEF VelocityOvershootBounded
  <2>1. /\ recent[pair] \in Nat /\ Cardinality(Cleared(pair)) \in Nat
        /\ VelocityLimit \in Nat /\ MaxInFlight \in Nat
    BY InFlightFinite, LimitsTyped DEF TypeInv, TypeOK, StoreTyped
  <2> QED
    BY <2>1 DEF VelocityInv
<1> QED
  BY <1>1, <1>2, <1>3, PTL DEF Spec

\* RecordedSpendWithinCap: an operator who only raises caps, and sets no spend above
\* one, never sees a recorded spend above its cap, with any number of workers
\* (main.py:2244-2270, 2379-2404; storage.py:1286-1299).
THEOREM RecordedSpendStaysWithinCap ==
    ASSUME SpendsWithinCaps
    PROVE  Spec /\ [][CapsOnlyRaised]_vars => []RecordedSpendWithinCap
<1> DEFINE Inv == TypeInv /\ CapInv
<1>1. Init => Inv
  BY InitTyped, LimitsInit
<1>2. Inv /\ [Next]_vars /\ [CapsOnlyRaised]_vars => Inv'
  BY StepTyped, CapInvStep
<1>3. Inv => RecordedSpendWithinCap
  BY DEF CapInv
<1> QED
  BY <1>1, <1>2, <1>3, PTL DEF Spec

\* DailyCapHeld: with one worker what is booked on an account today is within its cap,
\* through midnight, handlers that die and caps that are raised (storage.py:1194-1223,
\* 1286-1299; main.py:2244-2270, 2379-2404).
THEOREM DailyCapHolds ==
    ASSUME MaxInFlight = 1, SpendsWithinCaps
    PROVE  Spec /\ [][CapsOnlyRaised]_vars => []DailyCapHeld
<1> DEFINE Inv == TypeInv /\ WorkersBounded /\ VelocityInv /\ Covered /\ CapInv
<1>1. Init => Inv
  BY InitTyped, LimitsInit
<1>2. Inv /\ [Next]_vars /\ [CapsOnlyRaised]_vars => Inv'
  BY StepTyped, FlowStep, CoveredInvStep, CapInvStep
<1>3. Inv => DailyCapHeld
  <2> SUFFICES ASSUME Inv, NEW x \in Account, budget[x] # None
               PROVE  booked[x] <= Rolled(x).spent /\ Rolled(x).spent <= budget[x].cap
    BY DEF DailyCapHeld
  <2>1. StoreTyped /\ 0 \in Nat
    BY DEF TypeInv, TypeOK
  <2>2. /\ budget[x].spent \in Nat /\ budget[x].cap \in Nat /\ Rolled(x).spent \in Nat
        /\ Rolled(x).spent <= budget[x].spent
    BY <2>1, RowFields
  <2> QED
    BY <2>2 DEF Covered, BookedCovered, CapInv, RecordedSpendWithinCap
<1> QED
  BY <1>1, <1>2, <1>3, PTL DEF Spec

\* ToolOvershootBounded: whatever the interleaving of the workers, a day's usage of a
\* tool exceeds the cap of its permission by no more than one transaction cap for each
\* worker but one (mcp/payment_policy.py:253-297).
THEOREM ToolOvershoot == Spec => []ToolOvershootBounded
<1> DEFINE Inv == TypeInv /\ WorkersBounded /\ VelocityInv /\ ToolInv
<1>1. Init => Inv
  BY InitTyped, LimitsInit
<1>2. Inv /\ [Next]_vars => Inv'
  BY StepTyped, FlowStep, ToolInvStep
<1>3. Inv => ToolOvershootBounded
  <2> SUFFICES ASSUME Inv, NEW tu \in Tools \X Users PROVE toolSpent[tu] <= ToolTop(tu)
    BY DEF ToolOvershootBounded, ToolTop
  <2>1. toolSpent[tu] \in Nat /\ SumFunctionOnSet(Owed(tu), Reqs) \in Nat
    BY OwedTyped
  <2>2. (MaxInFlight - 1) * ToolTxCap[tu[1]] \in Nat /\ ToolDailyCap[tu[1]] \in Nat
    BY LimitsTyped
  <2>3. ToolTop(tu) \in Nat
    BY <2>2 DEF ToolTop
  <2> QED
    BY <2>1, <2>3 DEF ToolInv
<1> QED
  BY <1>1, <1>2, <1>3, PTL DEF Spec

\* ReceiptOveruseBounded: a receipt authorizes at most one payment for each worker, also
\* when handlers die between booking and marking (storage.py:2706,
\* payment_finalize.py:151-155).
THEOREM ReceiptOveruse == Spec => []ReceiptOveruseBounded
<1> DEFINE Inv == RecInv /\ WorkersBounded /\ VelocityInv /\ ReceiptInv
<1>1. Init => Inv
  BY InitTyped, TokenInvInit, RecordInvInit, LimitsInit DEF RecInv, SafeInv
<1>2. Inv /\ [Next]_vars => Inv'
  BY StepTyped, TokenInvStep, RecordInvStep, FlowStep, ReceiptInvStep DEF RecInv, SafeInv
<1>3. Inv => ReceiptOveruseBounded
  <2> SUFFICES ASSUME Inv, NEW r \in Receipts
               PROVE  Cardinality({p \in Reqs : Logged(p) /\ req[p].receipt = r}) <= MaxInFlight
    BY DEF ReceiptOveruseBounded, Logged
  <2> DEFINE L == {p \in Reqs : Logged(p) /\ req[p].receipt = r}
  <2>1. L \subseteq Payers(r) /\ Payers(r) \subseteq Reqs
    BY DEF Payers
  <2>2. IsFiniteSet(Payers(r)) /\ IsFiniteSet(L)
    BY <2>1, ReqsFinite, FS_Subset
  <2>3. Cardinality(L) <= Cardinality(Payers(r)) /\ Cardinality(L) \in Nat
        /\ Cardinality(Payers(r)) \in Nat
    BY <2>1, <2>2, FS_Subset, FS_CardinalityType
  <2>4. Cardinality(Payers(r)) <= MaxInFlight /\ MaxInFlight \in Nat
    BY LimitsTyped DEF ReceiptInv
  <2> HIDE DEF L
  <2>5. Cardinality(L) <= MaxInFlight
    BY <2>3, <2>4
  <2> QED
    BY <2>5 DEF L
<1> QED
  BY <1>1, <1>2, <1>3, PTL DEF Spec
=============================================================================
