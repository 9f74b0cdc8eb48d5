---------------------------- MODULE MCDispatcher ----------------------------
(***************************************************************************)
(* Small instances of Dispatcher: one alert with two endpoints and a call  *)
(* by hand beside the thread; alerts of two outboxes with one endpoint; an *)
(* anomalous payment with its alert and its export.  AuditChain shares no  *)
(* state with it, so a behaviour is of one or of the other: part, which    *)
(* never changes, says of which.                                           *)
(***************************************************************************)
EXTENDS Dispatcher, AuditChain

CONSTANTS bud, app, mcp, ano, siem, admin, pay

VARIABLE part

SourceOf == [a \in Alerts |->
    CASE a = bud -> "budget" [] a = app -> "approval" [] a = mcp -> "mcp"
      [] a = ano -> "anomaly" [] OTHER -> "siem"]
TopicOf == [a \in Alerts |-> IF a = siem THEN "export" ELSE "alert"]
AllTopics == {"alert", "export"}
AlertOfPay == [p \in Payments |-> ano]
ExportOfPay == [p \in Payments |-> siem]

Small == {
    [alerts |-> {bud}, endpoints |-> {1, 2}, admins |-> {admin}, wants |-> {"alert"},
     attempts |-> 1, edits |-> 0, restarts |-> 1],
    [alerts |-> {app, mcp}, endpoints |-> {1}, admins |-> {}, wants |-> {"alert"},
     attempts |-> 2, edits |-> 1, restarts |-> 0],
    [alerts |-> {ano, siem}, endpoints |-> {1}, admins |-> {}, wants |-> AllTopics,
     attempts |-> 1, edits |-> 0, restarts |-> 1] }

Delivering == part = "delivery" /\ UNCHANGED <<part, chainVars>>
Logging == part = "log" /\ UNCHANGED <<part, vars>>

MCInit == /\ Init /\ ChainInit
          /\ part \in {"delivery", "log"}
          /\ (part # "delivery" => scene.admins # {})
MCNext == (Next /\ Delivering) \/ (ChainNext /\ Logging)
MCSpec == /\ MCInit /\ [][MCNext]_<<vars, chainVars, part>>
          /\ WF_vars((Wake \/ Cycle(Thread)) /\ Delivering)
=============================================================================
