--------------------------- MODULE ApprovalsProofs ---------------------------
(***************************************************************************)
(* Human approval, for any number of calls and requests: what is announced *)
(* is true, late calls are refused, nothing is left unsettled unless a     *)
(* handler died, and the component implements SpendGrant.                  *)
(*                                                                         *)
(* Behind all four is the same fact: a request is decided by one call.     *)
(* That call is the only one that issues a token for it, so the token's    *)
(* single use is the single use of the approval.                           *)
(***************************************************************************)
EXTENDS Approvals, TLAPS

Sweeping == {"list", "expire", "notify"}
Ruling == {"fetch", "decide", "issue", "publish"}

\* What a call is doing is what it was sent for, and it is answered when it is done.
Kinds(c) ==
    /\ stage[c] # "idle" => call[c] \in CallType
    /\ stage[c] \in {"open", "announce"} => call[c].kind = "ask"
    /\ stage[c] \in Sweeping => call[c].kind \in {"decide", "sweep"}
    /\ stage[c] \in Ruling => call[c].kind = "decide"
    /\ stage[c] \in {"present", "consume"} => call[c].kind = "pay"
    /\ stage[c] # "done" => answer[c] # 200

\* A request exists once its call has opened it.
Opened(a) == approval[a] # None => stage[a] \in {"announce", "done"} /\ call[a].kind = "ask"

\* The calls that decided a request and issued, or still may issue, its token.
Decider(c) == stage[c] \in {"issue", "publish"} \/ token[c] # None
Decided(c) == Decider(c) =>
    /\ stage[c] \in {"issue", "publish", "done"} /\ call[c].kind = "decide"
    /\ approval[call[c].approval] # None
    /\ approval[call[c].approval].status = call[c].verdict
Issued(c) ==
    /\ token[c] # None => /\ stage[c] # "issue" /\ call[c].verdict = "approved"
                          /\ token[c].approval = call[c].approval
    /\ stage[c] = "issue" => call[c].verdict = "approved"
    /\ stage[c] = "decide" => approval[call[c].approval] # None
OneDecider(c, d) ==
    Decider(c) /\ Decider(d) /\ call[c].approval = call[d].approval => c = d

\* A payment that consumes a token, or has consumed it, found it.
Found(c) ==
    /\ stage[c] = "consume" => token[call[c].token] # None
    /\ stage[c] = "done" /\ call[c].kind = "pay" /\ answer[c] = 200 =>
           token[call[c].token] # None

\* What a sweep listed exists.
Listed(c) == \A a \in batch[c] : approval[a] # None

\* A late call stays before the step that would let it through.
Late(c) == c \in late =>
    /\ stage[c] # "idle" /\ call[c].kind \in {"decide", "pay"} /\ token[c] = None
    /\ call[c].kind = "decide" => /\ stage[c] \in Sweeping \cup {"fetch", "done"}
                                  /\ approval[call[c].approval] # None
                                  /\ approval[call[c].approval].due
    /\ call[c].kind = "pay" => /\ stage[c] \in {"present", "done"} /\ answer[c] # 200
                               /\ token[call[c].token] # None
                               /\ token[call[c].token].expired

CallTrue(c) ==
    Kinds(c) /\ Opened(c) /\ Decided(c) /\ Issued(c) /\ Found(c) /\ Listed(c) /\ Late(c)
CallInv ==
    /\ \A c \in Calls : CallTrue(c)
    /\ \A c, d \in Calls : OneDecider(c, d)

\* Who is still to announce a request, or to issue its token.
Announcing(a) == stage[a] = "announce"
Publishing(a) == \E c \in Calls : stage[c] \in {"issue", "publish"} /\ call[c].approval = a
Notifying(a) == \E c \in Calls : a \in batch[c] /\ stage[c] = "notify"
Issuing(a) == \E c \in Calls : stage[c] = "issue" /\ call[c].approval = a
HasToken(a) == \E t \in Calls : token[t] # None /\ token[t].approval = a

Settling(a) == approval[a] # None =>
    /\ <<"requested", a>> \in outbox \/ Announcing(a)
    /\ approval[a].status \in {"approved", "denied"} =>
           <<approval[a].status, a>> \in outbox \/ Publishing(a)
    /\ approval[a].status = "expired" => <<"expired", a>> \in outbox \/ Notifying(a)
    /\ approval[a].status = "approved" => HasToken(a) \/ Issuing(a)

ApprovalInv ==
    /\ TypeOK
    /\ CallInv
    /\ AnnouncementsTrue
    /\ ~died => \A a \in Calls : Settling(a)

Handler(c) ==
    \/ Arrive(c) \/ Open(c) \/ Announce(c)
    \/ List(c) \/ Expire(c) \/ Notify(c)
    \/ Fetch(c) \/ Decide(c) \/ Issue(c) \/ Publish(c)
    \/ Present(c) \/ Consume(c) \/ Fail(c)
Time(c) == Revoke(c) \/ ApprovalDue(c) \/ TokenExpires(c)

----------------------------------------------------------------------------
(* Types.                                                                  *)

LEMMA CallParts ==
    ASSUME NEW in \in CallType
    PROVE  /\ in.kind \in {"ask", "pay", "decide", "sweep"}
           /\ in.kind = "ask" => in.body \in Bodies
           /\ in.kind = "pay" => in.body \in Bodies /\ in.token \in Calls
           /\ in.kind = "decide" => in.approval \in Calls /\ in.verdict \in {"approved", "denied"}
  BY DEF CallType

LEMMA RowsNotNone == None \notin CallType /\ None \notin ApprovalRow /\ None \notin TokenRow
  BY NoneIsFresh

LEMMA TypeStep ==
    ASSUME TypeOK, \A d \in Calls : Kinds(d) /\ Issued(d) /\ Decided(d) /\ Found(d),
           NEW c \in Calls, Handler(c) \/ Time(c)
    PROVE  TypeOK'
<1> USE DEF TypeOK
<1>1. CASE Arrive(c)
  <2>1. PICK in \in Inputs[c] :
          /\ call' = [call EXCEPT ![c] = in] /\ Goto(c, Entry(in))
          /\ late' \in {late \cup {c}, late}
    BY <1>1 DEF Arrive
  <2>2. in \in CallType
    BY InputsTyped
  <2> QED
    BY <1>1, <2>1, <2>2 DEF Arrive, Goto, Entry, Working
<1>2. CASE Open(c)
  <2>1. call[c].body \in Bodies
    BY <1>2, CallParts DEF Open, Kinds
  <2>2. [status |-> "pending", body |-> call[c].body, due |-> FALSE] \in ApprovalRow
    BY <2>1 DEF ApprovalRow
  <2> QED
    BY <1>2, <2>2 DEF Open, Goto, handlers, Working
<1>3. CASE Announce(c)
  BY <1>3 DEF Announce, Return, Enqueue, handlers, Topics, Codes
<1>4. CASE List(c)
  BY <1>4 DEF List, Goto, Working
<1>5. CASE Expire(c)
  <2>1. \A a \in Overdue(c) : [approval[a] EXCEPT !.status = "expired"] \in ApprovalRow
    BY DEF Overdue, Pending, ApprovalRow
  <2>2. approval' \in [Calls -> ApprovalRow \cup {None}]
    BY <1>5, <2>1 DEF Expire
  <2> QED
    BY <1>5, <2>2 DEF Expire, AfterSweep, Return, Goto, Working, Codes
<1>6. CASE Notify(c)
  BY <1>6 DEF Notify, AfterSweep, Return, Goto, Enqueue, Topics, Working, Codes
<1>7. CASE Fetch(c)
  BY <1>7 DEF Fetch, Return, Goto, handlers, Working, Codes
<1>8. CASE Decide(c)
  <2>1. /\ stage[c] = "decide" /\ call[c].approval \in Calls
        /\ call[c].verdict \in {"approved", "denied"} /\ approval[call[c].approval] # None
    BY <1>8, CallParts DEF Decide, Kinds, Ruling, Issued
  <2>2. [approval[call[c].approval] EXCEPT !.status = call[c].verdict] \in ApprovalRow
    BY <2>1 DEF ApprovalRow
  <2> QED
    BY <1>8, <2>1, <2>2 DEF Decide, Return, Goto, handlers, Working, Codes
<1>9. CASE Issue(c)
  <2> DEFINE a == call[c].approval
             row == [approval |-> a, body |-> approval[a].body,
                     used |-> FALSE, revoked |-> FALSE, expired |-> FALSE]
  <2>1. a \in Calls /\ approval[a] \in ApprovalRow
    BY <1>9, CallParts DEF Issue, Kinds, Ruling, Decided, Decider
  <2>2. row \in TokenRow
    BY <2>1 DEF ApprovalRow, TokenRow
  <2> QED
    BY <1>9, <2>2 DEF Issue, Goto, handlers, Working
<1>10. CASE Publish(c)
  <2>1. call[c].approval \in Calls /\ call[c].verdict \in Topics
    BY <1>10, CallParts DEF Publish, Kinds, Ruling, Topics
  <2> QED
    BY <1>10, <2>1 DEF Publish, Return, Enqueue, handlers, Codes
<1>11. CASE Present(c)
  BY <1>11 DEF Present, Return, Goto, handlers, Working, Codes
<1>12. CASE Consume(c)
  <2>1. call[c].token \in Calls
    BY <1>12, CallParts DEF Consume, Kinds
  <2>2. [token[call[c].token] EXCEPT !.used = TRUE] \in TokenRow
    BY <1>12, <2>1 DEF TokenRow, Consume, Found
  <2> QED
    BY <1>12, <2>1, <2>2 DEF Consume, Return, handlers, Codes
<1>13. CASE Fail(c)
  BY <1>13 DEF Fail, Return, Codes
<1>14. CASE Revoke(c) \/ TokenExpires(c)
  <2>1. token[c] # None => /\ [token[c] EXCEPT !.revoked = TRUE] \in TokenRow
                           /\ [token[c] EXCEPT !.expired = TRUE] \in TokenRow
    BY DEF TokenRow
  <2> QED
    BY <1>14, <2>1 DEF Revoke, TokenExpires
<1>15. CASE ApprovalDue(c)
  <2>1. approval[c] # None => [approval[c] EXCEPT !.due = TRUE] \in ApprovalRow
    BY DEF ApprovalRow
  <2> QED
    BY <1>15, <2>1 DEF ApprovalDue
<1> QED
  BY <1>1, <1>2, <1>3, <1>4, <1>5, <1>6, <1>7, <1>8, <1>9, <1>10, <1>11, <1>12, <1>13,
     <1>14, <1>15 DEF Handler, Time

----------------------------------------------------------------------------
(* What no step undoes.                                                    *)

Grows ==
    /\ \A a \in Calls : approval[a] # None =>
          /\ approval'[a] # None
          /\ approval[a].due => approval'[a].due
          /\ approval[a].status # "pending" => approval'[a].status = approval[a].status
    /\ \A t \in Calls : token[t] # None =>
          /\ token'[t] # None
          /\ token'[t].approval = token[t].approval
          /\ token[t].expired => token'[t].expired
    /\ outbox \subseteq outbox'

\* A mark set on a token leaves the rest of its row.
LEMMA TokenMarks ==
    ASSUME NEW r \in TokenRow
    PROVE  /\ [r EXCEPT !.used = TRUE].approval = r.approval
           /\ [r EXCEPT !.used = TRUE].expired = r.expired
           /\ [r EXCEPT !.used = TRUE] \in TokenRow
           /\ [r EXCEPT !.revoked = TRUE].approval = r.approval
           /\ [r EXCEPT !.revoked = TRUE].expired = r.expired
           /\ [r EXCEPT !.revoked = TRUE] \in TokenRow
           /\ [r EXCEPT !.expired = TRUE].approval = r.approval
           /\ [r EXCEPT !.expired = TRUE].expired
           /\ [r EXCEPT !.expired = TRUE] \in TokenRow
  BY DEF TokenRow

LEMMA ApprovalsGrow ==
    ASSUME TypeOK, CallInv, NEW c \in Calls, Handler(c) \/ Time(c), TypeOK'
    PROVE  Grows
<1>1. /\ approval \in [Calls -> ApprovalRow \cup {None}]
      /\ approval' \in [Calls -> ApprovalRow \cup {None}]
      /\ token \in [Calls -> TokenRow \cup {None}]
      /\ token' \in [Calls -> TokenRow \cup {None}]
      /\ None \notin ApprovalRow /\ None \notin TokenRow
      /\ Kinds(c) /\ Issued(c) /\ Opened(c) /\ Found(c)
  BY RowsNotNone DEF TypeOK, CallInv, CallTrue
<1>2. \A a \in Calls : approval[a] # None =>
          /\ approval'[a] # None
          /\ approval[a].due => approval'[a].due
          /\ approval[a].status # "pending" => approval'[a].status = approval[a].status
  <2> SUFFICES ASSUME NEW a \in Calls, approval[a] # None
               PROVE  /\ approval'[a] # None
                      /\ approval[a].due => approval'[a].due
                      /\ approval[a].status # "pending" => approval'[a].status = approval[a].status
    OBVIOUS
  <2>1. approval[a] \in ApprovalRow
    BY <1>1
  <2>2. CASE Open(c)
    BY <1>1, <2>2 DEF Open, Opened
  <2>3. CASE Expire(c)
    <3>1. CASE a \in Overdue(c)
      <4>1. approval'[a] = [approval[a] EXCEPT !.status = "expired"]
        BY <2>3, <3>1 DEF Expire
      <4> QED
        BY <1>1, <2>1, <3>1, <4>1 DEF Overdue, Pending, ApprovalRow
    <3>2. CASE a \notin Overdue(c)
      BY <2>3, <3>2 DEF Expire
    <3> QED
      BY <3>1, <3>2
  <2>4. CASE Decide(c)
    <3>1. \/ approval'[a] = approval[a]
          \/ /\ approval[a].status = "pending"
             /\ approval'[a] = [approval[a] EXCEPT !.status = call[c].verdict]
      BY <1>1, <2>4 DEF Decide, Undecided
    <3>2. call[c].verdict \in {"approved", "denied"}
      BY <1>1, <2>4, CallParts DEF Decide, Kinds, Ruling
    <3> QED
      BY <1>1, <2>1, <3>1, <3>2 DEF ApprovalRow
  <2>5. CASE ApprovalDue(c)
    <3>1. approval'[a] \in {approval[a], [approval[a] EXCEPT !.due = TRUE]}
      BY <1>1, <2>5 DEF ApprovalDue
    <3> QED
      BY <1>1, <2>1, <3>1 DEF ApprovalRow
  <2>6. CASE ~Open(c) /\ ~Expire(c) /\ ~Decide(c) /\ ~ApprovalDue(c)
    BY <2>6 DEF Handler, Time, Arrive, Announce, List, Notify, Fetch, Issue, Publish, Present,
       Consume, Fail, Revoke, TokenExpires
  <2> QED
    BY <2>2, <2>3, <2>4, <2>5, <2>6
<1>3. \A t \in Calls : token[t] # None =>
          /\ token'[t] # None
          /\ token'[t].approval = token[t].approval
          /\ token[t].expired => token'[t].expired
  <2> SUFFICES ASSUME NEW t \in Calls, token[t] # None
               PROVE  /\ token'[t] # None
                      /\ token'[t].approval = token[t].approval
                      /\ token[t].expired => token'[t].expired
    OBVIOUS
  <2>1. token[t] \in TokenRow
    BY <1>1
  <2>2. CASE Issue(c)
    BY <1>1, <2>2 DEF Issue, Issued
  <2>3. CASE Consume(c)
    <3>1. token'[t] \in {token[t], [token[t] EXCEPT !.used = TRUE]}
      BY <1>1, <2>3 DEF Consume
    <3> QED
      BY <2>1, <3>1, TokenMarks, RowsNotNone
  <2>5. CASE Revoke(c) \/ TokenExpires(c)
    <3>1. \/ token'[t] = token[t]
          \/ token'[t] = [token[t] EXCEPT !.revoked = TRUE]
          \/ token'[t] = [token[t] EXCEPT !.expired = TRUE]
      BY <1>1, <2>5 DEF Revoke, TokenExpires
    <3>2. CASE token'[t] = token[t]
      BY <3>2, <2>1, RowsNotNone
    <3>3. CASE token'[t] = [token[t] EXCEPT !.revoked = TRUE]
      BY <3>3, <2>1, TokenMarks, RowsNotNone
    <3>4. CASE token'[t] = [token[t] EXCEPT !.expired = TRUE]
      BY <3>4, <2>1, TokenMarks, RowsNotNone
    <3> QED
      BY <3>1, <3>2, <3>3, <3>4
  <2>4. CASE ~Issue(c) /\ ~Consume(c) /\ ~Revoke(c) /\ ~TokenExpires(c)
    BY <2>4 DEF Handler, Time, Arrive, Open, Announce, List, Expire, Notify, Fetch, Decide,
       Publish, Present, Fail, ApprovalDue
  <2> QED
    BY <2>2, <2>3, <2>4, <2>5
<1>4. outbox \subseteq outbox'
  BY DEF Handler, Time, Arrive, Open, Announce, List, Expire, Notify, Fetch, Decide, Issue,
     Publish, Present, Consume, Fail, Revoke, ApprovalDue, TokenExpires, Enqueue
<1> QED
  BY <1>2, <1>3, <1>4 DEF Grows

\* One call moves; the others keep what they know, and no token appears for them.
SameCall(d) ==
    /\ call'[d] = call[d] /\ stage'[d] = stage[d] /\ batch'[d] = batch[d]
    /\ answer'[d] = answer[d] /\ (d \in late' <=> d \in late)

LEMMA OthersStay ==
    ASSUME TypeOK, CallInv, NEW c \in Calls
    PROVE  /\ Handler(c) => \A d \in Calls \ {c} : SameCall(d)
           /\ Time(c) => \A d \in Calls : SameCall(d)
<1> USE DEF SameCall, TypeOK
<1>1. ASSUME Arrive(c) \/ Open(c) \/ Announce(c) \/ List(c) \/ Expire(c) \/ Notify(c)
      PROVE  \A d \in Calls \ {c} : SameCall(d)
  BY <1>1 DEF Arrive, Open, Announce, List, Expire, Notify, AfterSweep, Goto, Return, handlers
<1>2. ASSUME Fetch(c) \/ Decide(c) \/ Issue(c) \/ Publish(c) \/ Present(c) \/ Consume(c) \/ Fail(c)
      PROVE  \A d \in Calls \ {c} : SameCall(d)
  BY <1>2 DEF Fetch, Decide, Issue, Publish, Present, Consume, Fail, Goto, Return, handlers
<1>3. Time(c) => \A d \in Calls : SameCall(d)
  BY DEF Time, Revoke, ApprovalDue, TokenExpires
<1> QED
  BY <1>1, <1>2, <1>3 DEF Handler

\* A token appears only when its call issues it, a request when its call opens it.
LEMMA RowsAppear ==
    ASSUME TypeOK, CallInv, NEW c \in Calls, Handler(c) \/ Time(c), NEW d \in Calls
    PROVE  /\ token[d] = None => token'[d] = None \/ (d = c /\ Issue(c))
           /\ approval[d] = None => approval'[d] = None \/ (d = c /\ Open(c))
<1>1. /\ Kinds(c) /\ Decided(c) /\ Issued(c) /\ Found(c)
      /\ approval \in [Calls -> ApprovalRow \cup {None}]
      /\ token \in [Calls -> TokenRow \cup {None}]
  BY DEF CallInv, CallTrue, TypeOK
<1>2. ASSUME token[d] = None
      PROVE  token'[d] = None \/ (d = c /\ Issue(c))
  <2>1. CASE Consume(c)
    <3>1. token[call[c].token] # None
      BY <1>1, <2>1 DEF Consume, Found
    <3> QED
      BY <1>1, <1>2, <2>1, <3>1 DEF Consume
  <2>2. CASE Revoke(c) \/ TokenExpires(c)
    BY <1>1, <1>2, <2>2 DEF Revoke, TokenExpires
  <2>3. CASE Issue(c)
    BY <1>1, <1>2, <2>3 DEF Issue
  <2>4. CASE ~Consume(c) /\ ~Revoke(c) /\ ~TokenExpires(c) /\ ~Issue(c)
    BY <1>2, <2>4 DEF Handler, Time, Arrive, Open, Announce, List, Expire, Notify, Fetch, Decide,
       Publish, Present, Fail, ApprovalDue
  <2> QED
    BY <2>1, <2>2, <2>3, <2>4
<1>3. ASSUME approval[d] = None
      PROVE  approval'[d] = None \/ (d = c /\ Open(c))
  <2>1. CASE Open(c)
    BY <1>1, <1>3, <2>1 DEF Open
  <2>2. CASE Expire(c)
    BY <1>1, <1>3, <2>2 DEF Expire, Overdue, Pending
  <2>3. CASE Decide(c)
    <3>1. approval[call[c].approval] # None
      BY <1>1, <2>3 DEF Decide, Issued
    <3> QED
      BY <1>1, <1>3, <2>3, <3>1 DEF Decide
  <2>4. CASE ApprovalDue(c)
    BY <1>1, <1>3, <2>4 DEF ApprovalDue
  <2>5. CASE ~Open(c) /\ ~Expire(c) /\ ~Decide(c) /\ ~ApprovalDue(c)
    BY <1>3, <2>5 DEF Handler, Time, Arrive, Announce, List, Notify, Fetch, Issue, Publish,
       Present, Consume, Fail, Revoke, TokenExpires
  <2> QED
    BY <2>1, <2>2, <2>3, <2>4, <2>5
<1> QED
  BY <1>2, <1>3

----------------------------------------------------------------------------
(* The calls that do not move.                                             *)

LEMMA SameCallRows ==
    ASSUME TypeOK, CallInv, NEW c \in Calls, Handler(c) \/ Time(c), NEW d \in Calls, SameCall(d)
    PROVE  /\ token[d] = None => token'[d] = None
           /\ approval[d] = None => approval'[d] = None
  BY RowsAppear DEF SameCall, Issue, Open, Goto, TypeOK

LEMMA OthersKeep ==
    ASSUME TypeOK, CallInv, TypeOK', Grows,
           NEW c \in Calls, Handler(c) \/ Time(c), NEW d \in Calls, SameCall(d)
    PROVE  CallTrue(d)' /\ (Decider(d)' => Decider(d))
<1>1. /\ CallTrue(d)
      /\ token[d] = None <=> token'[d] = None
      /\ approval[d] = None <=> approval'[d] = None
  BY SameCallRows DEF CallInv, Grows
<1>2. /\ call'[d] = call[d] /\ stage'[d] = stage[d] /\ batch'[d] = batch[d]
      /\ answer'[d] = answer[d] /\ (d \in late' <=> d \in late)
  BY DEF SameCall
<1>3. call[d] \in CallType =>
         /\ call[d].kind = "decide" => call[d].approval \in Calls
         /\ call[d].kind = "decide" => call[d].verdict \in {"approved", "denied"}
         /\ call[d].kind = "pay" => call[d].token \in Calls
  BY CallParts
<1>4. Kinds(d)' /\ Opened(d)' /\ (Decider(d)' <=> Decider(d))
  BY <1>1, <1>2 DEF CallTrue, Kinds, Opened, Decider
<1>5. Decided(d)' /\ Issued(d)'
  BY <1>1, <1>2, <1>3, <1>4 DEF CallTrue, Kinds, Decided, Issued, Ruling, Grows, Decider
<1>6. Found(d)' /\ Listed(d)' /\ Late(d)'
  BY <1>1, <1>2, <1>3, <1>4 DEF CallTrue, Kinds, Found, Listed, Late, Grows, TypeOK
<1> QED
  BY <1>4, <1>5, <1>6 DEF CallTrue

----------------------------------------------------------------------------
(* The call that moves.                                                    *)

LEMMA MoverKeeps ==
    ASSUME TypeOK, CallInv, TypeOK', Grows, NEW c \in Calls, Handler(c)
    PROVE  /\ CallTrue(c)'
           /\ Decider(c)' => (Decider(c) /\ call'[c] = call[c]) \/ Decide(c)
<1> DEFINE a == call[c].approval
           t == call[c].token
<1> USE DEF CallTrue, Kinds, Opened, Decider, Sweeping, Ruling
<1>1. CallTrue(c) /\ TypeOK
  BY DEF CallInv
<1>2. call[c] \in CallType =>
         /\ call[c].kind \in {"ask", "pay", "decide", "sweep"}
         /\ call[c].kind = "decide" => a \in Calls /\ call[c].verdict \in {"approved", "denied"}
         /\ call[c].kind = "pay" => t \in Calls
  BY CallParts
<1>3. CASE Arrive(c)
  <2>1. PICK in \in Inputs[c] :
          /\ call' = [call EXCEPT ![c] = in] /\ Goto(c, Entry(in))
          /\ late' = IF Expired(in) THEN late \cup {c} ELSE late
    BY <1>3 DEF Arrive
  <2>2. in \in CallType
    BY InputsTyped
  <2>3. /\ in.kind \in {"ask", "pay", "decide", "sweep"}
        /\ call'[c] = in /\ stage[c] = "idle"
        /\ stage'[c] = IF in.kind = "ask" THEN "open" ELSE IF in.kind = "pay" THEN "present" ELSE "list"
        /\ answer'[c] = answer[c] /\ batch'[c] = batch[c]
        /\ approval' = approval /\ token' = token
    BY <1>1, <1>3, <2>1, <2>2, CallParts DEF Arrive, Goto, Entry, TypeOK
  <2>4. token[c] = None /\ approval[c] = None
    BY <1>1, <2>3 DEF Decided
  <2>5. c \in late' => Expired(in)
    BY <1>1, <2>1, <2>3 DEF Late
  <2>6. Kinds(c)' /\ Opened(c)' /\ Decided(c)' /\ Issued(c)' /\ Found(c)' /\ Listed(c)' /\ ~Decider(c)'
    BY <1>1, <2>2, <2>3, <2>4 DEF Decided, Issued, Found, Listed
  <2>7. Late(c)'
    BY <1>1, <2>2, <2>3, <2>4, <2>5 DEF Late, Expired
  <2> QED
    BY <2>6, <2>7
<1>4. CASE Open(c) \/ Announce(c)
  <2>1. /\ stage[c] \in {"open", "announce"} /\ stage'[c] \in {"announce", "done"}
        /\ call' = call /\ batch' = batch /\ late' = late /\ token' = token
        /\ answer'[c] \in {answer[c], 202} /\ call[c].kind = "ask"
    BY <1>1, <1>4 DEF Open, Announce, Goto, Return, handlers, TypeOK
  <2> QED
    BY <1>1, <2>1 DEF Decided, Issued, Found, Listed, Late, Grows, TypeOK
<1>5. CASE List(c) \/ Expire(c) \/ Notify(c)
  <2>1. /\ stage[c] \in Sweeping /\ stage'[c] \in {"expire", "notify", "fetch", "done"}
        /\ call' = call /\ late' = late /\ token' = token
        /\ answer'[c] \in {answer[c], 200}
        /\ stage'[c] # "done" => answer'[c] = answer[c]
        /\ stage'[c] = "fetch" => call[c].kind # "sweep"
        /\ call[c].kind \in {"decide", "sweep"}
    BY <1>1, <1>5 DEF List, Expire, Notify, AfterSweep, Goto, Return, TypeOK
  <2>2. Listed(c)'
    <3>1. CASE List(c)
      BY <3>1 DEF List, Listed, Pending, TypeOK
    <3>2. CASE Expire(c) \/ Notify(c)
      <4>1. batch'[c] \subseteq batch[c] /\ batch[c] \subseteq Calls
        BY <1>1, <3>2 DEF Expire, Notify, TypeOK
      <4> QED
        BY <1>1, <4>1 DEF Listed, Grows
    <3> QED
      BY <1>5, <3>1, <3>2
  <2>3. approval[c] = None => approval'[c] = None
    BY <1>5, <2>1, RowsAppear DEF Open
  <2>4. token[c] = None
    BY <1>1, <2>1 DEF Decided
  <2>5. Kinds(c)' /\ Opened(c)' /\ Decided(c)' /\ Issued(c)' /\ Found(c)' /\ ~Decider(c)'
    BY <1>1, <2>1, <2>3, <2>4 DEF Decided, Issued, Found
  <2>6. Late(c)'
    BY <1>1, <1>2, <2>1, <2>4 DEF Late, Grows
  <2> QED
    BY <2>2, <2>5, <2>6
<1>6. CASE Fetch(c)
  <2>1. /\ stage[c] = "fetch" /\ stage'[c] \in {"decide", "done"}
        /\ call' = call /\ batch' = batch /\ late' = late /\ token' = token /\ approval' = approval
        /\ answer'[c] \in {answer[c], 404, 410} /\ call[c].kind = "decide"
        /\ stage'[c] = "decide" => approval[a] # None /\ ~approval[a].due
    BY <1>1, <1>6 DEF Fetch, Goto, Return, handlers, TypeOK, Due
  <2>2. token[c] = None
    BY <1>1, <2>1 DEF Decided
  <2> QED
    BY <1>1, <1>2, <2>1, <2>2 DEF Decided, Issued, Found, Listed, Late
<1>7. CASE Decide(c)
  <2>1. /\ stage[c] = "decide" /\ stage'[c] \in {"issue", "publish", "done"}
        /\ call' = call /\ batch' = batch /\ late' = late /\ token' = token
        /\ answer'[c] \in {answer[c], 409} /\ call[c].kind = "decide"
        /\ approval[a] # None /\ a \in Calls
        /\ stage'[c] = "issue" => call[c].verdict = "approved"
    BY <1>1, <1>2, <1>7 DEF Decide, Goto, Return, handlers, TypeOK, Issued
  <2>2. stage'[c] \in {"issue", "publish"} => approval'[a].status = call[c].verdict
    <3>1. approval[a] \in ApprovalRow
      BY <2>1 DEF TypeOK
    <3> QED
      BY <1>1, <1>7, <2>1, <3>1 DEF Decide, Return, TypeOK, ApprovalRow
  <2>3. token[c] = None /\ c \notin late
    BY <1>1, <2>1 DEF Decided, Late
  <2>4. approval[c] = None => approval'[c] = None
    BY <1>7, <2>1, RowsAppear DEF Open
  <2> QED
    BY <1>1, <1>2, <1>7, <2>1, <2>2, <2>3, <2>4 DEF Decided, Issued, Found, Listed, Late, Grows, TypeOK
<1>8. CASE Issue(c)
  <2>1. /\ stage[c] = "issue" /\ stage'[c] = "publish"
        /\ call' = call /\ batch' = batch /\ late' = late /\ approval' = approval
        /\ answer'[c] = answer[c] /\ call[c].kind = "decide"
        /\ token'[c].approval = a /\ c \notin late
    BY <1>1, <1>8 DEF Issue, Goto, handlers, TypeOK, Late
  <2> QED
    BY <1>1, <1>2, <2>1 DEF Decided, Issued, Found, Listed, Late
<1>9. CASE Publish(c)
  <2>1. /\ stage[c] = "publish" /\ stage'[c] = "done"
        /\ call' = call /\ batch' = batch /\ late' = late /\ approval' = approval /\ token' = token
        /\ answer'[c] = 200 /\ call[c].kind = "decide" /\ c \notin late
    BY <1>1, <1>9 DEF Publish, Return, handlers, TypeOK, Late
  <2> QED
    BY <1>1, <1>2, <2>1 DEF Decided, Issued, Found, Listed, Late
<1>10. CASE Present(c)
  <2>1. /\ stage[c] = "present" /\ stage'[c] \in {"consume", "done"}
        /\ call' = call /\ batch' = batch /\ late' = late /\ approval' = approval /\ token' = token
        /\ answer'[c] \in {answer[c], 403} /\ call[c].kind = "pay"
        /\ stage'[c] = "consume" => token[t] # None /\ ~token[t].expired
    BY <1>1, <1>10 DEF Present, Goto, Return, handlers, TypeOK
  <2> QED
    BY <1>1, <1>2, <2>1 DEF Decided, Issued, Found, Listed, Late
<1>11. CASE Consume(c)
  <2>1. /\ stage[c] = "consume" /\ stage'[c] = "done" /\ token[t] # None
        /\ call' = call /\ batch' = batch /\ late' = late /\ approval' = approval
        /\ call[c].kind = "pay" /\ c \notin late /\ t \in Calls
    BY <1>1, <1>2, <1>11 DEF Consume, Return, handlers, TypeOK, Found, Late
  <2>2. token[c] = None => token'[c] = None
    BY <1>11, <2>1, RowsAppear DEF Issue
  <2> QED
    BY <1>1, <1>2, <2>1, <2>2 DEF Decided, Issued, Found, Listed, Late, Grows
<1>12. CASE Fail(c)
  <2>1. /\ stage[c] \in Working /\ stage'[c] = "done" /\ answer'[c] = 500 /\ batch'[c] = {}
        /\ call' = call /\ late' = late /\ approval' = approval /\ token' = token
    BY <1>1, <1>12 DEF Fail, Return, TypeOK
  <2> QED
    BY <1>1, <1>2, <2>1 DEF Decided, Issued, Found, Listed, Late, Working
<1> QED
  BY <1>3, <1>4, <1>5, <1>6, <1>7, <1>8, <1>9, <1>10, <1>11, <1>12 DEF Handler

LEMMA CallStep ==
    ASSUME TypeOK, CallInv, TypeOK', Grows, NEW c \in Calls, Handler(c) \/ Time(c)
    PROVE  CallInv'
<1>1. \A d \in Calls : CallTrue(d)' /\
          (Decider(d)' => (Decider(d) /\ call'[d] = call[d]) \/ (d = c /\ Decide(c)))
  <2> SUFFICES ASSUME NEW d \in Calls
               PROVE  /\ CallTrue(d)'
                      /\ Decider(d)' => (Decider(d) /\ call'[d] = call[d]) \/ (d = c /\ Decide(c))
    OBVIOUS
  <2>1. CASE SameCall(d)
    BY <2>1, OthersKeep DEF SameCall
  <2>2. CASE ~SameCall(d)
    <3>1. d = c /\ Handler(c)
      BY <2>2, OthersStay
    <3> QED
      BY <3>1, MoverKeeps
  <2> QED
    BY <2>1, <2>2
<1>2. ASSUME NEW d \in Calls, NEW e \in Calls, Decider(d)', Decider(e)',
             call'[d].approval = call'[e].approval
      PROVE  d = e
  <2>1. OneDecider(d, e)
    BY DEF CallInv
  <2>2. CASE Decider(d) /\ call'[d] = call[d] /\ Decider(e) /\ call'[e] = call[e]
    BY <1>2, <2>1, <2>2 DEF OneDecider
  <2>3. CASE Decide(c) /\ (d = c \/ e = c)
    <3> SUFFICES ASSUME NEW f \in Calls, {d, e} = {c, f}, f # c
                 PROVE  FALSE
      BY <2>3
    <3>1. Decider(f) /\ call'[f] = call[f] /\ call'[c] = call[c]
      BY <1>1, <1>2, <2>3 DEF Decide, handlers
    <3>2. /\ call[f].approval = call[c].approval
          /\ approval[call[f].approval].status = call[f].verdict
          /\ call[f].verdict \in {"approved", "denied"}
      <4>1. CallTrue(f)
        BY DEF CallInv
      <4>2. call[f] \in CallType /\ call[f].kind = "decide"
        BY <3>1, <4>1 DEF CallTrue, Kinds, Decided
      <4> QED
        BY <1>2, <3>1, <4>1, <4>2, CallParts DEF CallTrue, Decided
    <3>3. Decider(c)'
      BY <1>2
    <3>4. stage'[c] \in {"issue", "publish"} \/ token[c] # None
      BY <2>3, <3>3 DEF Decider, Decide, handlers
    <3>5. token[c] = None
      BY <2>3 DEF Decide, CallInv, CallTrue, Decided, Decider
    <3> QED
      BY <2>3, <3>2, <3>4, <3>5 DEF Decide, Undecided, Return, TypeOK
  <2> QED
    BY <1>1, <1>2, <2>2, <2>3
<1> QED
  BY <1>1, <1>2 DEF CallInv, OneDecider

----------------------------------------------------------------------------
(* What is announced, and what is still to be done.                        *)

LEMMA AnnouncementsStep ==
    ASSUME TypeOK, CallInv, AnnouncementsTrue, TypeOK', Grows,
           NEW c \in Calls, Handler(c) \/ Time(c)
    PROVE  AnnouncementsTrue'
<1> SUFFICES ASSUME NEW m \in outbox', m[1] # "requested"
             PROVE  approval'[m[2]] # None /\ approval'[m[2]].status = m[1]
  BY DEF AnnouncementsTrue
<1>1. CallTrue(c) /\ TypeOK
  BY DEF CallInv
<1>2. CASE m \in outbox
  <2>1. m[1] \in Topics /\ m[2] \in Calls /\ approval[m[2]] # None /\ approval[m[2]].status = m[1]
    BY <1>2 DEF AnnouncementsTrue, TypeOK
  <2> QED
    BY <2>1 DEF Grows, Topics
<1>3. CASE m \notin outbox
  <2>1. CASE Announce(c)
    BY <1>3, <2>1 DEF Announce, Enqueue
  <2>2. CASE Notify(c)
    <3>1. PICK b \in batch[c] :
            approval[b].status = "expired" /\ m = <<"expired", b>> /\ approval' = approval
      BY <1>3, <2>2 DEF Notify, Enqueue
    <3> QED
      BY <1>1, <3>1 DEF CallTrue, Listed
  <2>3. CASE Publish(c)
    BY <1>1, <1>3, <2>3 DEF Publish, Enqueue, CallTrue, Decided, Decider
  <2>4. CASE ~Announce(c) /\ ~Notify(c) /\ ~Publish(c)
    BY <1>3, <2>4 DEF Handler, Time, Arrive, Open, List, Expire, Fetch, Decide, Issue, Present,
       Consume, Fail, Revoke, ApprovalDue, TokenExpires, handlers
  <2> QED
    BY <2>1, <2>2, <2>3, <2>4
<1> QED
  BY <1>2, <1>3

\* A request is opened by its call, expired by a sweep, decided by a decision.
LEMMA StatusMoves ==
    ASSUME TypeOK, CallInv, NEW c \in Calls, Handler(c) \/ Time(c),
           NEW a \in Calls, approval'[a] # None
    PROVE  \/ approval[a] # None /\ approval'[a].status = approval[a].status
           \/ approval[a] = None /\ Open(c) /\ a = c /\ approval'[a].status = "pending"
           \/ approval[a] # None /\ Expire(c) /\ a \in Overdue(c) /\ approval'[a].status = "expired"
           \/ /\ approval[a] # None /\ Decide(c) /\ a = call[c].approval
              /\ Undecided(a) /\ approval'[a].status = call[c].verdict
<1>1. TypeOK /\ CallTrue(c)
  BY DEF CallInv
<1>2. CASE Open(c)
  BY <1>1, <1>2 DEF Open, TypeOK, CallTrue, Opened
<1>3. CASE Expire(c)
  <2>1. approval[a] # None
    BY <1>3, RowsAppear DEF Open, Expire
  <2>3. approval[a] \in ApprovalRow
    BY <1>1, <2>1 DEF TypeOK
  <2>2. approval'[a] = IF a \in Overdue(c) THEN [approval[a] EXCEPT !.status = "expired"] ELSE approval[a]
    BY <1>3 DEF Expire
  <2> QED
    BY <1>3, <2>1, <2>2, <2>3 DEF ApprovalRow
<1>4. CASE Decide(c)
  <2>1. approval[a] # None /\ approval[a] \in ApprovalRow
    BY <1>1, <1>4, RowsAppear DEF Open, Decide, TypeOK
  <2>2. \/ approval'[a] = approval[a]
        \/ /\ Undecided(a) /\ a = call[c].approval
           /\ approval'[a] = [approval[a] EXCEPT !.status = call[c].verdict]
    BY <1>1, <1>4 DEF Decide, TypeOK
  <2> QED
    BY <1>4, <2>1, <2>2 DEF ApprovalRow
<1>5. CASE ApprovalDue(c)
  <2>1. approval[a] # None /\ approval[a] \in ApprovalRow
    BY <1>1, <1>5, RowsAppear DEF Open, ApprovalDue, TypeOK
  <2>2. approval'[a] \in {approval[a], [approval[a] EXCEPT !.due = TRUE]}
    BY <1>1, <1>5 DEF ApprovalDue, TypeOK
  <2> QED
    BY <2>1, <2>2 DEF ApprovalRow
<1>6. CASE ~Open(c) /\ ~Expire(c) /\ ~Decide(c) /\ ~ApprovalDue(c)
  BY <1>6 DEF Handler, Time, Arrive, Announce, List, Notify, Fetch, Issue, Publish,
     Present, Consume, Fail, Revoke, TokenExpires
<1> QED
  BY <1>2, <1>3, <1>4, <1>5, <1>6

LEMMA SettlingStep ==
    ASSUME TypeOK, CallInv, TypeOK', Grows, NEW c \in Calls, Handler(c) \/ Time(c), ~Fail(c),
           NEW a \in Calls, Settling(a)
    PROVE  Settling(a)'
<1> SUFFICES ASSUME approval'[a] # None
             PROVE  /\ <<"requested", a>> \in outbox' \/ Announcing(a)'
                    /\ approval'[a].status \in {"approved", "denied"} =>
                           <<approval'[a].status, a>> \in outbox' \/ Publishing(a)'
                    /\ approval'[a].status = "expired" => <<"expired", a>> \in outbox' \/ Notifying(a)'
                    /\ approval'[a].status = "approved" => HasToken(a)' \/ Issuing(a)'
  BY DEF Settling
<1>1. /\ TypeOK /\ CallTrue(c) /\ outbox \subseteq outbox'
      /\ \A d \in Calls : SameCall(d) \/ (d = c /\ Handler(c))
  BY OthersStay DEF CallInv, Grows
<1>2. \/ approval[a] # None /\ approval'[a].status = approval[a].status
      \/ approval[a] = None /\ Open(c) /\ a = c /\ approval'[a].status = "pending"
      \/ approval[a] # None /\ Expire(c) /\ a \in Overdue(c) /\ approval'[a].status = "expired"
      \/ /\ approval[a] # None /\ Decide(c) /\ a = call[c].approval
         /\ Undecided(a) /\ approval'[a].status = call[c].verdict
  BY StatusMoves
<1>3. <<"requested", a>> \in outbox' \/ Announcing(a)'
  <2>1. CASE Open(c) /\ a = c
    BY <1>1, <2>1 DEF Open, Goto, Announcing, TypeOK
  <2>2. CASE <<"requested", a>> \in outbox
    BY <1>1, <2>2
  <2>3. CASE Announcing(a)
    <3>1. CASE SameCall(a)
      BY <2>3, <3>1 DEF SameCall, Announcing
    <3>2. CASE a = c /\ Handler(c)
      <4>1. Announce(c)
        BY <2>3, <3>2 DEF Announcing, Handler, Arrive, Open, List, Expire, Notify, Fetch, Decide,
           Issue, Publish, Present, Consume
      <4> QED
        BY <3>2, <4>1 DEF Announce, Enqueue
    <3> QED
      BY <1>1, <3>1, <3>2
  <2> QED
    BY <1>2, <2>1, <2>2, <2>3 DEF Settling
<1>4. ASSUME approval'[a].status \in {"approved", "denied"}
      PROVE  <<approval'[a].status, a>> \in outbox' \/ Publishing(a)'
  <2>1. CASE Decide(c) /\ a = call[c].approval /\ Undecided(a)
    BY <1>1, <2>1 DEF Decide, Goto, Publishing, TypeOK, handlers
  <2>2. CASE approval'[a].status = approval[a].status /\ approval[a] # None
    <3>1. <<approval[a].status, a>> \in outbox \/ Publishing(a)
      BY <1>4, <2>2 DEF Settling
    <3>2. CASE <<approval[a].status, a>> \in outbox
      BY <1>1, <2>2, <3>2
    <3>3. CASE Publishing(a)
      <4>1. PICK d \in Calls : stage[d] \in {"issue", "publish"} /\ call[d].approval = a
        BY <3>3 DEF Publishing
      <4>2. CASE SameCall(d)
        BY <4>1, <4>2 DEF SameCall, Publishing
      <4>3. CASE d = c /\ Handler(c)
        <5>1. Issue(c) \/ Publish(c)
          BY <4>1, <4>3 DEF Handler, Arrive, Open, Announce, List, Expire, Notify, Fetch, Decide,
             Present, Consume
        <5>2. CASE Issue(c)
          BY <1>1, <4>1, <4>3, <5>2 DEF Issue, Goto, handlers, Publishing, TypeOK
        <5>3. CASE Publish(c)
          BY <1>1, <2>2, <4>1, <4>3, <5>3 DEF Publish, Enqueue, CallTrue, Decided, Decider
        <5> QED
          BY <5>1, <5>2, <5>3
      <4> QED
        BY <1>1, <4>2, <4>3
    <3> QED
      BY <3>1, <3>2, <3>3
  <2> QED
    BY <1>2, <1>4, <2>1, <2>2
<1>5. ASSUME approval'[a].status = "expired"
      PROVE  <<"expired", a>> \in outbox' \/ Notifying(a)'
  <2>1. CASE Expire(c) /\ a \in Overdue(c)
    <3>1. a \in batch[c] /\ batch'[c] = batch[c] /\ stage'[c] = "notify"
      BY <1>1, <2>1 DEF Expire, Overdue, Goto, TypeOK
    <3> QED
      BY <3>1 DEF Notifying
  <2>2. CASE approval'[a].status = approval[a].status /\ approval[a] # None
    <3>1. <<"expired", a>> \in outbox \/ Notifying(a)
      BY <1>5, <2>2 DEF Settling
    <3>2. CASE <<"expired", a>> \in outbox
      BY <1>1, <3>2
    <3>3. CASE Notifying(a)
      <4>1. PICK d \in Calls : a \in batch[d] /\ stage[d] = "notify"
        BY <3>3 DEF Notifying
      <4>2. CASE SameCall(d)
        BY <4>1, <4>2 DEF SameCall, Notifying
      <4>3. CASE d = c /\ Handler(c)
        <5>1. Notify(c)
          BY <4>1, <4>3 DEF Handler, Arrive, Open, Announce, List, Expire, Issue, Publish, Fetch,
             Decide, Present, Consume
        <5>2. PICK b \in batch[c] :
                /\ batch' = [batch EXCEPT ![c] = @ \ {b}]
                /\ IF approval[b].status = "expired" THEN Enqueue("expired", b) ELSE UNCHANGED outbox
                /\ IF batch[c] = {b} THEN AfterSweep(c) ELSE Goto(c, "notify")
          BY <5>1 DEF Notify
        <5>3. CASE a = b
          BY <1>5, <2>2, <5>2, <5>3 DEF Enqueue
        <5>4. CASE a # b
          <6>1. stage'[c] = "notify" /\ a \in batch'[c]
            BY <1>1, <4>1, <4>3, <5>2, <5>4 DEF Goto, TypeOK
          <6> QED
            BY <6>1 DEF Notifying
        <5> QED
          BY <5>3, <5>4
      <4> QED
        BY <1>1, <4>2, <4>3
    <3> QED
      BY <3>1, <3>2, <3>3
  <2>3. CASE Decide(c) /\ approval'[a].status = call[c].verdict
    <3>1. call[c].verdict \in {"approved", "denied"}
      BY <1>1, <2>3, CallParts DEF Decide, CallTrue, Kinds, Ruling
    <3> QED
      BY <1>5, <2>3, <3>1
  <2> QED
    BY <1>2, <1>5, <2>1, <2>2, <2>3
<1>6. ASSUME approval'[a].status = "approved"
      PROVE  HasToken(a)' \/ Issuing(a)'
  <2>1. CASE Decide(c) /\ a = call[c].approval /\ Undecided(a) /\ approval'[a].status = call[c].verdict
    BY <1>1, <1>6, <2>1 DEF Decide, Goto, Issuing, TypeOK, handlers
  <2>2. CASE approval'[a].status = approval[a].status /\ approval[a] # None
    <3>1. CASE HasToken(a)
      BY <3>1 DEF HasToken, Grows
    <3>2. CASE Issuing(a)
      <4>1. PICK d \in Calls : stage[d] = "issue" /\ call[d].approval = a
        BY <3>2 DEF Issuing
      <4>2. CASE SameCall(d)
        BY <4>1, <4>2 DEF SameCall, Issuing
      <4>3. CASE d = c /\ Handler(c)
        <5>1. Issue(c)
          BY <4>1, <4>3 DEF Handler, Arrive, Open, Announce, List, Expire, Notify, Publish, Fetch,
             Decide, Present, Consume
        <5>2. token'[c].approval = a /\ token'[c] # None
          <6>1. token'[c] = [approval |-> a, body |-> approval[a].body, used |-> FALSE,
                             revoked |-> FALSE, expired |-> FALSE]
            BY <1>1, <4>1, <4>3, <5>1 DEF Issue, TypeOK
          <6>2. approval[a] \in ApprovalRow
            BY <1>1, <2>2 DEF TypeOK
          <6>3. token'[c] \in TokenRow
            BY <6>1, <6>2 DEF ApprovalRow, TokenRow
          <6>4. token'[c].approval = a
            BY <6>1
          <6> QED
            BY <6>3, <6>4, RowsNotNone
        <5> QED
          BY <5>2 DEF HasToken
      <4> QED
        BY <1>1, <4>2, <4>3
    <3> QED
      BY <1>6, <2>2, <3>1, <3>2 DEF Settling
  <2> QED
    BY <1>2, <1>6, <2>1, <2>2
<1> QED
  BY <1>3, <1>4, <1>5, <1>6

----------------------------------------------------------------------------
(* The invariant, and what it is for.                                      *)

LEMMA InvInit == Init => ApprovalInv
<1> SUFFICES ASSUME Init
             PROVE  ApprovalInv
  OBVIOUS
<1>1. TypeOK
  <2>1. /\ call \in [Calls -> CallType \cup {None}]
        /\ approval \in [Calls -> ApprovalRow \cup {None}]
        /\ token \in [Calls -> TokenRow \cup {None}]
    BY DEF Init
  <2>2. /\ stage \in [Calls -> Working \cup {"idle", "done"}]
        /\ batch \in [Calls -> SUBSET Calls]
        /\ answer \in [Calls -> Codes]
    BY DEF Init, Codes
  <2> QED
    BY <2>1, <2>2 DEF Init, TypeOK
<1>2. CallInv
  BY DEF Init, CallInv, CallTrue, Kinds, Opened, Decided, Decider, Issued, Found, Listed, Late,
     OneDecider, Sweeping, Ruling
<1>3. AnnouncementsTrue /\ \A a \in Calls : Settling(a)
  BY DEF Init, AnnouncementsTrue, Settling
<1> QED
  BY <1>1, <1>2, <1>3 DEF ApprovalInv

LEMMA InvStep == ApprovalInv /\ [Next]_vars => ApprovalInv'
<1> SUFFICES ASSUME ApprovalInv, [Next]_vars
             PROVE  ApprovalInv'
  OBVIOUS
<1>1. CASE UNCHANGED vars
  BY <1>1 DEF vars, ApprovalInv, TypeOK, CallInv, CallTrue, Kinds, Opened, Decided, Decider, Issued,
     Found, Listed, Late, OneDecider, AnnouncementsTrue, Settling, Announcing, Publishing,
     Notifying, Issuing, HasToken
<1>2. ASSUME NEW c \in Calls, Handler(c) \/ Time(c)
      PROVE  ApprovalInv'
  <2>1. TypeOK'
    BY <1>2, TypeStep DEF ApprovalInv, CallInv, CallTrue
  <2>2. Grows
    BY <1>2, <2>1, ApprovalsGrow DEF ApprovalInv
  <2>3. CallInv' /\ AnnouncementsTrue'
    BY <1>2, <2>1, <2>2, CallStep, AnnouncementsStep DEF ApprovalInv
  <2>4. ~died' => \A a \in Calls : Settling(a)'
    <3>1. ~died' => ~died /\ ~Fail(c)
      BY <1>2 DEF Handler, Time, Arrive, Open, Announce, List, Expire, Notify, Fetch, Decide, Issue,
         Publish, Present, Consume, Fail, Revoke, ApprovalDue, TokenExpires
    <3> QED
      BY <1>2, <2>1, <2>2, <3>1, SettlingStep DEF ApprovalInv
  <2> QED
    BY <2>1, <2>3, <2>4 DEF ApprovalInv
<1> QED
  BY <1>1, <1>2 DEF Next, Quiesced, Handler, Time

\* The invariant of the component: every call is true to what it was sent for,
\* one call decides a request, what is announced holds, and while no handler has
\* died somebody is still to announce whatever is not announced.
THEOREM ApprovalInvariant == Spec => []ApprovalInv
  BY InvInit, InvStep, PTL DEF Spec

\* The tables of the component keep their types.
THEOREM ApprovalsTyped == Spec => []TypeOK
  BY ApprovalInvariant, PTL DEF ApprovalInv

\* What was announced of a request is its status, for any number of sweeps and
\* decisions that overlap.
THEOREM AnnouncementsAreTrue == Spec => []AnnouncementsTrue
  BY ApprovalInvariant, PTL DEF ApprovalInv

\* A decision that arrives after its request expired issues no token, and a
\* payment that arrives after its token expired consumes none.
THEOREM LateCallsAreRefused == Spec => []LateCallsRefused
<1>1. ApprovalInv => LateCallsRefused
  BY DEF ApprovalInv, TypeOK, CallInv, CallTrue, Late, LateCallsRefused
<1> QED
  BY <1>1, ApprovalInvariant, PTL

\* Once every call has been answered and no handler died, every request was
\* announced, and as what it is, and every approved one has its token.
THEOREM SettledUnlessDied == Spec => []SettledIfNothingDied
<1>1. ApprovalInv => SettledIfNothingDied
  <2> SUFFICES ASSUME ApprovalInv, ~died, Quiet, NEW a \in Calls, approval[a] # None
               PROVE  /\ <<"requested", a>> \in outbox
                      /\ approval[a].status # "pending" => <<approval[a].status, a>> \in outbox
                      /\ approval[a].status = "approved" => HasToken(a)
    BY DEF SettledIfNothingDied, HasToken
  <2>1. ~Announcing(a) /\ ~Publishing(a) /\ ~Notifying(a) /\ ~Issuing(a)
    BY DEF Quiet, Working, Announcing, Publishing, Notifying, Issuing
  <2>2. approval[a].status \in {"pending", "approved", "denied", "expired"}
    BY DEF ApprovalInv, TypeOK, ApprovalRow
  <2> QED
    BY <2>1, <2>2 DEF ApprovalInv, Settling
<1> QED
  BY <1>1, ApprovalInvariant, PTL

----------------------------------------------------------------------------
(* The approvals implement SpendGrant.                                     *)

\* A token of a request, and what a token is worth.
For(t, a) == token[t] # None /\ token[t].approval = a
Worth(t) == IF token[t].used THEN "spent" ELSE IF token[t].revoked THEN "void" ELSE "granted"

GrantShape == \A a \in Calls :
    /\ approval[a] = None => GrantOf(a) = "none"
    /\ approval[a] # None /\ approval[a].status = "pending" => GrantOf(a) = "open"
    /\ approval[a] # None /\ approval[a].status \in {"denied", "expired"} => GrantOf(a) = "void"
    /\ approval[a] # None /\ approval[a].status = "approved" /\ (\A t \in Calls : ~For(t, a)) =>
           GrantOf(a) = "granted"
    /\ \A t \in Calls : For(t, a) => GrantOf(a) = Worth(t)

\* The token of a request is one, and its request was approved.
LEMMA TokensAreDecided ==
    ASSUME ApprovalInv, NEW t \in Calls, NEW a \in Calls, For(t, a)
    PROVE  /\ approval[a] # None /\ approval[a].status = "approved"
           /\ \A u \in Calls : Decider(u) /\ call[u].approval = a => u = t
  BY DEF ApprovalInv, CallInv, CallTrue, Decided, Decider, Issued, OneDecider, For

LEMMA GrantFacts == ApprovalInv => GrantShape
<1> SUFFICES ASSUME ApprovalInv, NEW a \in Calls
             PROVE  /\ approval[a] = None => GrantOf(a) = "none"
                    /\ approval[a] # None /\ approval[a].status = "pending" => GrantOf(a) = "open"
                    /\ approval[a] # None /\ approval[a].status \in {"denied", "expired"} =>
                           GrantOf(a) = "void"
                    /\ approval[a] # None /\ approval[a].status = "approved"
                       /\ (\A t \in Calls : ~For(t, a)) => GrantOf(a) = "granted"
                    /\ \A t \in Calls : For(t, a) => GrantOf(a) = Worth(t)
  BY DEF GrantShape
<1>1. ASSUME NEW t \in Calls, For(t, a)
      PROVE  GrantOf(a) = Worth(t)
  <2>1. /\ approval[a] # None /\ approval[a].status = "approved"
        /\ \A u \in Calls : Decider(u) /\ call[u].approval = a => u = t
    BY <1>1, TokensAreDecided
  <2>2. {u \in Calls : token[u] # None /\ token[u].approval = a} = {t}
    BY <1>1, <2>1 DEF For, Decider, ApprovalInv, CallInv, CallTrue, Issued
  <2> QED
    BY <2>1, <2>2 DEF GrantOf, Worth
<1>2. ASSUME approval[a] # None, approval[a].status = "approved", \A t \in Calls : ~For(t, a)
      PROVE  GrantOf(a) = "granted"
  BY <1>2 DEF GrantOf, For
<1> QED
  BY <1>1, <1>2 DEF GrantOf

LEMMA SameGrant ==
    ASSUME NEW a \in Calls,
           approval'[a] = None <=> approval[a] = None,
           approval[a] # None => approval'[a].status = approval[a].status,
           \A t \in Calls : For(t, a)' <=> For(t, a),
           \A t \in Calls : For(t, a) => /\ token'[t].used = token[t].used
                                        /\ token'[t].revoked = token[t].revoked
    PROVE  GrantOf(a)' = GrantOf(a)
<1>1. {t \in Calls : token'[t] # None /\ token'[t].approval = a}
        = {t \in Calls : token[t] # None /\ token[t].approval = a}
  BY DEF For
<1>2. \A t \in {u \in Calls : token[u] # None /\ token[u].approval = a} :
          token'[t].used = token[t].used /\ token'[t].revoked = token[t].revoked
  BY DEF For
<1> QED
  BY <1>1, <1>2 DEF GrantOf

\* One step moves some approvals from one state to another and no other approval.
Moves(S, from, to) ==
    /\ \A a \in S : GrantOf(a) = from
    /\ \A a \in Calls : GrantOf(a)' = IF a \in S THEN to ELSE GrantOf(a)

\* Where no token changes, a request moves as its status does.
LEMMA StatusGrant ==
    ASSUME ApprovalInv, ApprovalInv', NEW c \in Calls, Handler(c) \/ Time(c), token' = token
    PROVE  \/ \A a \in Calls : GrantOf(a)' = GrantOf(a)
           \/ Open(c) /\ Moves({c}, "none", "open")
           \/ Expire(c) /\ Moves(Overdue(c), "open", "void")
           \/ /\ Decide(c) /\ call[c].approval \in Calls
              /\ \/ Moves({call[c].approval}, "open", "granted")
                 \/ Moves({call[c].approval}, "open", "void")
<1>1. GrantShape /\ GrantShape'
  BY GrantFacts, PTL
<1>2. TypeOK /\ CallInv /\ TypeOK' /\ CallTrue(c)
  BY DEF ApprovalInv, CallInv
<1>3. \A a \in Calls, t \in Calls : For(t, a)' <=> For(t, a)
  BY DEF For
<1>4. ASSUME NEW a \in Calls, approval'[a] = None <=> approval[a] = None,
             approval[a] # None => approval'[a].status = approval[a].status
      PROVE  GrantOf(a)' = GrantOf(a)
  BY <1>3, <1>4, SameGrant
<1>5. ASSUME NEW a \in Calls, approval'[a] = None
      PROVE  approval[a] = None
  <2>1. Grows
    BY <1>2, ApprovalsGrow
  <2> QED
    BY <1>5, <2>1 DEF Grows
<1>6. \A a \in Calls : approval[a] # None /\ approval[a].status = "pending" =>
          \A t \in Calls : ~For(t, a)
  BY TokensAreDecided
<1>7. CASE Open(c)
  <2>1. approval[c] = None
    BY <1>2, <1>7 DEF Open, CallTrue, Opened
  <2>2. approval'[c] # None /\ approval'[c].status = "pending"
    <3>1. approval'[c] = [status |-> "pending", body |-> call[c].body, due |-> FALSE]
      BY <1>2, <1>7 DEF Open, TypeOK
    <3>2. approval'[c].status = "pending"
      BY <3>1
    <3>3. call[c].body \in Bodies
      BY <1>2, <1>7, CallParts DEF Open, CallTrue, Kinds
    <3>4. approval'[c] \in ApprovalRow
      BY <3>1, <3>3 DEF ApprovalRow
    <3> QED
      BY <3>2, <3>4, RowsNotNone
  <2>3. \A a \in Calls \ {c} : approval'[a] = approval[a]
    BY <1>2, <1>7 DEF Open, TypeOK
  <2>4. \A a \in Calls \ {c} : GrantOf(a)' = GrantOf(a)
    BY <1>4, <2>3
  <2>5. GrantOf(c) = "none" /\ GrantOf(c)' = "open"
    BY <1>1, <2>1, <2>2 DEF GrantShape
  <2> QED
    BY <1>7, <2>4, <2>5 DEF Moves
<1>8. CASE Expire(c)
  <2>1. \A a \in Calls : approval'[a] =
          IF a \in Overdue(c) THEN [approval[a] EXCEPT !.status = "expired"] ELSE approval[a]
    BY <1>8 DEF Expire
  <2>2. ASSUME NEW a \in Overdue(c)
        PROVE  a \in Calls /\ GrantOf(a) = "open" /\ GrantOf(a)' = "void"
    <3>1. a \in Calls /\ approval[a] # None /\ approval[a].status = "pending"
      BY <1>2 DEF Overdue, Pending, TypeOK
    <3>2. approval'[a] # None /\ approval'[a].status = "expired"
      BY <1>2, <1>5, <2>1, <3>1 DEF TypeOK, ApprovalRow
    <3> QED
      BY <1>1, <3>1, <3>2 DEF GrantShape
  <2>3. \A a \in Calls : a \notin Overdue(c) => GrantOf(a)' = GrantOf(a)
    BY <1>4, <2>1
  <2> QED
    BY <1>8, <2>2, <2>3 DEF Moves
<1>9. CASE Decide(c)
  <2>0. call[c].approval \in Calls /\ call[c].verdict \in {"approved", "denied"}
    BY <1>2, <1>9, CallParts DEF Decide, CallTrue, Kinds, Ruling
  <2> PICK a \in Calls : a = call[c].approval
    BY <2>0
  <2>1. call[c].verdict \in {"approved", "denied"} /\ approval[a] # None
    BY <1>2, <1>9, <2>0 DEF Decide, CallTrue, Issued
  <2>2. CASE ~Undecided(a)
    BY <1>4, <1>9, <2>2 DEF Decide
  <2>3. CASE Undecided(a)
    <3>1. approval' = [approval EXCEPT ![a].status = call[c].verdict]
      BY <1>9, <2>3 DEF Decide
    <3>2. approval'[a] # None /\ approval'[a].status = call[c].verdict
      BY <1>2, <1>5, <2>1, <3>1 DEF TypeOK, ApprovalRow
    <3>3. \A b \in Calls \ {a} : GrantOf(b)' = GrantOf(b)
      BY <1>2, <1>4, <3>1 DEF TypeOK
    <3>4. GrantOf(a) = "open"
      BY <1>1, <2>1, <2>3 DEF GrantShape, Undecided
    <3>5. \A t \in Calls : ~For(t, a)'
      BY <1>3, <1>6, <2>1, <2>3 DEF Undecided
    <3>6. GrantOf(a)' \in {"granted", "void"}
      BY <1>1, <2>1, <3>2, <3>5 DEF GrantShape
    <3> QED
      BY <1>9, <2>1, <3>3, <3>4, <3>6 DEF Moves
  <2> QED
    BY <2>2, <2>3
<1>10. CASE ~Open(c) /\ ~Expire(c) /\ ~Decide(c)
  <2>1. ASSUME NEW a \in Calls
        PROVE  GrantOf(a)' = GrantOf(a)
    <3>1. approval'[a] = None <=> approval[a] = None
      BY <1>2, <1>5, <1>10, RowsAppear
    <3>2. approval[a] # None => approval'[a].status = approval[a].status
      BY <1>2, <1>10, <3>1, StatusMoves
    <3> QED
      BY <1>4, <3>1, <3>2
  <2> QED
    BY <2>1
<1> QED
  BY <1>7, <1>8, <1>9, <1>10

\* What consuming, revoking and letting expire change of a token.
LEMMA TokenUpdates ==
    ASSUME NEW row \in TokenRow, NEW new,
           \/ new = [row EXCEPT !.used = TRUE] \/ new = [row EXCEPT !.revoked = TRUE]
           \/ new = [row EXCEPT !.expired = TRUE]
    PROVE  /\ new # None /\ new.approval = row.approval
           /\ new = [row EXCEPT !.used = TRUE] => new.used
           /\ new = [row EXCEPT !.revoked = TRUE] => new.revoked /\ new.used = row.used
           /\ new = [row EXCEPT !.expired = TRUE] => new.used = row.used /\ new.revoked = row.revoked
<1>1. new \in TokenRow
  BY DEF TokenRow
<1> QED
  BY <1>1, RowsNotNone DEF TokenRow

\* A token moves its request once: when it is consumed or revoked.
LEMMA TokenGrant ==
    ASSUME ApprovalInv, ApprovalInv', NEW c \in Calls,
           Issue(c) \/ Consume(c) \/ Revoke(c) \/ TokenExpires(c)
    PROVE  \/ (\A a \in Calls : GrantOf(a)' = GrantOf(a)) /\ ~(Consume(c) /\ Live(call[c].token))
           \/ /\ Consume(c) /\ Live(call[c].token) /\ token[call[c].token].approval \in Calls
              /\ Moves({token[call[c].token].approval}, "granted", "spent")
           \/ Revoke(c) /\ token[c].approval \in Calls /\ Moves({token[c].approval}, "granted", "void")
<1>1. GrantShape /\ GrantShape'
  BY GrantFacts, PTL
<1>2. TypeOK /\ CallInv /\ TypeOK' /\ CallTrue(c) /\ approval' = approval
  BY DEF ApprovalInv, CallInv, Issue, Consume, Revoke, TokenExpires, handlers
<1>3. \A t \in Calls : token[t] \in TokenRow \cup {None} /\ token'[t] \in TokenRow \cup {None}
  BY <1>2 DEF TypeOK
<1>4. ASSUME NEW t \in Calls, NEW a \in Calls, token[t] # None, token[t].approval = a,
             \A u \in Calls \ {t} : token'[u] = token[u],
             token'[t] # None, token'[t].approval = a
      PROVE  /\ GrantOf(a) = Worth(t) /\ GrantOf(a)' = Worth(t)'
             /\ \A b \in Calls \ {a} : GrantOf(b)' = GrantOf(b)
  <2>1. GrantOf(a) = Worth(t) /\ GrantOf(a)' = Worth(t)'
    BY <1>1, <1>4 DEF GrantShape, For
  <2>2. ASSUME NEW b \in Calls \ {a}
        PROVE  GrantOf(b)' = GrantOf(b)
    <3>1. \A u \in Calls : For(u, b)' <=> For(u, b)
      BY <1>4 DEF For
    <3>2. \A u \in Calls : For(u, b) => token'[u] = token[u]
      BY <1>4 DEF For
    <3> QED
      BY <1>2, <3>1, <3>2, SameGrant
  <2> QED
    BY <2>1, <2>2
<1>5. CASE Issue(c)
  <2>0. call[c].approval \in Calls
    BY <1>2, <1>5, CallParts DEF Issue, CallTrue, Kinds, Ruling
  <2> PICK a \in Calls : a = call[c].approval
    BY <2>0
  <2>1. /\ token' = [token EXCEPT ![c] = [approval |-> a, body |-> approval[a].body,
                       used |-> FALSE, revoked |-> FALSE, expired |-> FALSE]]
        /\ token[c] = None /\ Decider(c) /\ approval[a] # None /\ approval[a].status = "approved"
    BY <1>2, <1>5 DEF Issue, CallTrue, Issued, Decided, Decider
  <2>2. token'[c] = [approval |-> a, body |-> approval[a].body,
                     used |-> FALSE, revoked |-> FALSE, expired |-> FALSE]
    BY <1>2, <2>1 DEF TypeOK
  <2>3. token'[c].approval = a /\ ~token'[c].used /\ ~token'[c].revoked
    BY <2>2
  <2>4. approval[a].body \in Bodies
    BY <1>2, <2>1 DEF TypeOK, ApprovalRow
  <2>5. token'[c] # None
    <3>1. token'[c] \in TokenRow
      BY <2>2, <2>4 DEF TokenRow
    <3> QED
      BY <3>1, RowsNotNone
  <2> HIDE <2>2
  <2>6. GrantOf(a)' = "granted"
    BY <1>1, <2>3, <2>5 DEF GrantShape, For, Worth
  <2>7. \A t \in Calls : ~For(t, a)
    BY <2>1, TokensAreDecided DEF For
  <2>8. GrantOf(a) = "granted"
    BY <1>1, <2>1, <2>7 DEF GrantShape
  <2>9. ASSUME NEW b \in Calls, b # a
        PROVE  GrantOf(b)' = GrantOf(b)
    <3>1. \A u \in Calls \ {c} : token'[u] = token[u]
      BY <1>2, <2>1 DEF TypeOK
    <3>2. ~For(c, b) /\ ~For(c, b)'
      BY <2>1, <2>3, <2>9 DEF For
    <3> QED
      BY <1>2, <3>1, <3>2, SameGrant DEF For
  <2>10. ~Consume(c)
    BY <1>5 DEF Issue, Consume
  <2> QED
    BY <2>6, <2>8, <2>9, <2>10
<1>6. CASE Consume(c) /\ Live(call[c].token)
  <2>1. call[c].token \in Calls /\ token[call[c].token] # None
    BY <1>2, <1>6, CallParts DEF Consume, CallTrue, Kinds, Found
  <2> PICK t \in Calls : t = call[c].token
    BY <2>1
  <2>2. token[t] # None /\ token[t] \in TokenRow /\ token[t].approval \in Calls
    BY <1>3, <2>1 DEF TokenRow
  <2> PICK a \in Calls : a = token[t].approval
    BY <2>2
  <2>3. token' = [token EXCEPT ![t].used = TRUE]
    BY <1>6 DEF Consume
  <2>4. token'[t] # None /\ token'[t].approval = a /\ token'[t].used
    <3>1. token'[t] = [token[t] EXCEPT !.used = TRUE]
      BY <1>2, <2>3 DEF TypeOK
    <3> QED
      BY <2>2, <3>1, TokenUpdates
  <2>5. \A u \in Calls \ {t} : token'[u] = token[u]
    BY <1>2, <2>3 DEF TypeOK
  <2>6. Worth(t)' = "spent" /\ Worth(t) = "granted"
    BY <1>6, <2>4 DEF Worth, Live
  <2> QED
    BY <1>4, <1>6, <2>2, <2>4, <2>5, <2>6 DEF Moves
<1>7. CASE Revoke(c)
  <2>1. token[c] # None /\ token[c] \in TokenRow /\ token[c].approval \in Calls
    BY <1>3, <1>7 DEF TokenRow, Revoke
  <2> PICK a \in Calls : a = token[c].approval
    BY <2>1
  <2>2. token' = [token EXCEPT ![c].revoked = TRUE] /\ Live(c)
    BY <1>7 DEF Revoke
  <2>3. /\ token'[c] # None /\ token'[c].approval = a /\ token'[c].revoked
        /\ token'[c].used = token[c].used
    <3>1. token'[c] = [token[c] EXCEPT !.revoked = TRUE]
      BY <1>2, <2>2 DEF TypeOK
    <3> QED
      BY <2>1, <3>1, TokenUpdates
  <2>4. \A u \in Calls \ {c} : token'[u] = token[u]
    BY <1>2, <2>2 DEF TypeOK
  <2>5. Worth(c)' = "void" /\ Worth(c) = "granted"
    BY <2>2, <2>3 DEF Worth, Live
  <2> QED
    BY <1>4, <1>7, <2>1, <2>3, <2>4, <2>5 DEF Moves
<1>8. CASE TokenExpires(c)
  <2>1. token[c] # None /\ token[c] \in TokenRow
    BY <1>3, <1>8 DEF TokenExpires
  <2>2. token' = [token EXCEPT ![c].expired = TRUE]
    BY <1>8 DEF TokenExpires
  <2>3. /\ token'[c] # None /\ token'[c].approval = token[c].approval
        /\ token'[c].used = token[c].used /\ token'[c].revoked = token[c].revoked
    <3>1. token'[c] = [token[c] EXCEPT !.expired = TRUE]
      BY <1>2, <2>2 DEF TypeOK
    <3> QED
      BY <2>1, <3>1, TokenUpdates
  <2>4. \A u \in Calls \ {c} : token'[u] = token[u]
    BY <1>2, <2>2 DEF TypeOK
  <2>5. \A u \in Calls : /\ token'[u] = None <=> token[u] = None
                         /\ token'[u].approval = token[u].approval
                         /\ token'[u].used = token[u].used /\ token'[u].revoked = token[u].revoked
    BY <2>1, <2>3, <2>4
  <2>6. \A a \in Calls : GrantOf(a)' = GrantOf(a)
    BY <1>2, <2>5, SameGrant DEF For
  <2>7. ~Consume(c)
    BY <1>2, <1>8 DEF TokenExpires, Consume, Return, TypeOK
  <2> QED
    BY <2>6, <2>7
<1>9. CASE Consume(c) /\ ~Live(call[c].token)
  <2>1. token' = token
    BY <1>9 DEF Consume
  <2> QED
    BY <1>2, <1>9, <2>1, SameGrant DEF For
<1> QED
  BY <1>5, <1>6, <1>7, <1>8, <1>9

\* A payment is made by consuming a token, and is not unmade.
LEMMA PaidStep ==
    ASSUME ApprovalInv, ApprovalInv', NEW c \in Calls, Handler(c) \/ Time(c), NEW a \in Calls
    PROVE  PaidWith(a)' = IF Consume(c) /\ Live(call[c].token) /\ token[call[c].token].approval = a
                          THEN PaidWith(a) \cup {c} ELSE PaidWith(a)
<1>1. TypeOK /\ CallInv /\ TypeOK' /\ CallTrue(c) /\ \A d \in Calls : CallTrue(d)
  BY DEF ApprovalInv, CallInv
<1>2. Grows
  BY <1>1, ApprovalsGrow
<1>3. \A d \in Calls : SameCall(d) \/ (d = c /\ Handler(c))
  BY <1>1, OthersStay
<1>4. ASSUME NEW d \in Calls, SameCall(d)
      PROVE  d \in PaidWith(a)' <=> d \in PaidWith(a)
  <2>1. call[d] # None /\ call[d].kind = "pay" => call[d].token \in Calls
    BY <1>1, CallParts DEF TypeOK
  <2>2. /\ d \in PaidWith(a) <=> /\ call[d] # None /\ call[d].kind = "pay"
                                 /\ stage[d] = "done" /\ answer[d] = 200
                                 /\ token[call[d].token].approval = a
        /\ d \in PaidWith(a)' <=> /\ call'[d] # None /\ call'[d].kind = "pay"
                                  /\ stage'[d] = "done" /\ answer'[d] = 200
                                  /\ token'[call'[d].token].approval = a
    BY DEF PaidWith
  <2>3. /\ call'[d] = call[d] /\ stage'[d] = stage[d] /\ answer'[d] = answer[d]
    BY <1>4 DEF SameCall
  <2>4. stage[d] = "done" /\ call[d].kind = "pay" /\ answer[d] = 200 => token[call[d].token] # None
    BY <1>1 DEF CallTrue, Found
  <2> QED
    BY <1>2, <2>1, <2>2, <2>3, <2>4 DEF Grows
<1>5. CASE Consume(c) /\ Live(call[c].token)
  <2>1. /\ call[c].kind = "pay" /\ call[c].token \in Calls /\ call[c] # None
        /\ token[call[c].token] # None /\ stage[c] = "consume"
    BY <1>1, <1>5, CallParts, RowsNotNone DEF Consume, CallTrue, Kinds, Found
  <2>2. call'[c] = call[c] /\ stage'[c] = "done" /\ answer'[c] = 200
    BY <1>1, <1>5 DEF Consume, Return, handlers, TypeOK
  <2>3. token'[call[c].token].approval = token[call[c].token].approval
    BY <1>2, <2>1 DEF Grows
  <2>4. c \notin PaidWith(a) /\ (c \in PaidWith(a)' <=> token[call[c].token].approval = a)
    BY <2>1, <2>2, <2>3 DEF PaidWith
  <2>5. \A d \in Calls \ {c} : d \in PaidWith(a)' <=> d \in PaidWith(a)
    BY <1>3, <1>4
  <2>6. PaidWith(a) \subseteq Calls /\ PaidWith(a)' \subseteq Calls
    BY DEF PaidWith
  <2> QED
    BY <1>5, <2>4, <2>5, <2>6
<1>6. CASE ~(Consume(c) /\ Live(call[c].token))
  <2>1. CASE SameCall(c)
    <3>1. PaidWith(a) \subseteq Calls /\ PaidWith(a)' \subseteq Calls
      BY DEF PaidWith
    <3> QED
      BY <1>3, <1>4, <1>6, <2>1, <3>1
  <2>2. CASE ~SameCall(c) /\ Handler(c)
    <3>1. stage[c] # "done"
      BY <2>2 DEF Handler, Arrive, Open, Announce, List, Expire, Notify, Fetch, Decide, Issue,
         Publish, Present, Consume, Fail, Working
    <3>2. c \notin PaidWith(a)
      BY <3>1 DEF PaidWith
    <3>3. stage'[c] = "done" /\ answer'[c] = 200 => call'[c].kind # "pay"
      <4>1. CASE Arrive(c)
        BY <1>1, <4>1 DEF Arrive, Goto, Entry, TypeOK
      <4>2. CASE Open(c) \/ Announce(c) \/ Fetch(c) \/ Decide(c) \/ Issue(c) \/ Fail(c)
        BY <1>1, <4>2 DEF Open, Announce, Fetch, Decide, Issue, Fail, Goto, Return, TypeOK, handlers
      <4>3. CASE List(c) \/ Expire(c) \/ Notify(c) \/ Publish(c)
        BY <1>1, <4>3 DEF List, Expire, Notify, Publish, AfterSweep, Goto, Return, TypeOK, handlers,
           CallTrue, Kinds, Sweeping, Ruling
      <4>4. CASE Present(c) \/ Consume(c)
        BY <1>1, <1>6, <4>4 DEF Present, Consume, Goto, Return, TypeOK, handlers
      <4> QED
        BY <2>2, <4>1, <4>2, <4>3, <4>4 DEF Handler
    <3>4. c \notin PaidWith(a)'
      BY <3>3 DEF PaidWith
    <3>5. PaidWith(a) \subseteq Calls /\ PaidWith(a)' \subseteq Calls
      BY DEF PaidWith
    <3> QED
      BY <1>3, <1>4, <1>6, <3>2, <3>4, <3>5
  <2> QED
    BY <1>3, <2>1, <2>2
<1> QED
  BY <1>5, <1>6

\* Every step of the component is a step of SpendGrant, or none.
LEMMA GrantStep ==
    ASSUME ApprovalInv, ApprovalInv', NEW c \in Calls, Handler(c) \/ Time(c)
    PROVE  [Grants!Next]_(Grants!vars)
<1> USE DEF Grants!vars
<1>1. ASSUME \A a \in Calls : GrantOf(a)' = GrantOf(a), \A a \in Calls : PaidWith(a)' = PaidWith(a)
      PROVE  UNCHANGED Grants!vars
  BY <1>1
<1>2. ASSUME NEW S \in SUBSET Calls, NEW from, NEW to, Moves(S, from, to)
      PROVE  Grants!Move(S, from, to)
  BY <1>2 DEF Moves, Grants!Move
<1>3. ~(Consume(c) /\ Live(call[c].token)) => \A a \in Calls : PaidWith(a)' = PaidWith(a)
  BY PaidStep
<1>4. (\A a \in Calls : PaidWith(a)' = PaidWith(a)) =>
          [a \in Calls |-> PaidWith(a)]' = [a \in Calls |-> PaidWith(a)]
  OBVIOUS
<1>5. CASE Issue(c) \/ Consume(c) \/ Revoke(c) \/ TokenExpires(c)
  <2>1. CASE (\A a \in Calls : GrantOf(a)' = GrantOf(a)) /\ ~(Consume(c) /\ Live(call[c].token))
    BY <1>1, <1>3, <2>1
  <2>2. CASE /\ Consume(c) /\ Live(call[c].token) /\ token[call[c].token].approval \in Calls
             /\ Moves({token[call[c].token].approval}, "granted", "spent")
    <3> PICK a \in Calls : a = token[call[c].token].approval
      BY <2>2
    <3>1. Grants!Move({a}, "granted", "spent")
      BY <1>2, <2>2
    <3>2. \A b \in Calls : PaidWith(b)' = IF b = a THEN PaidWith(b) \cup {c} ELSE PaidWith(b)
      BY <2>2, PaidStep
    <3>3. Grants!Spend(a, c)
      BY <3>1, <3>2 DEF Grants!Spend
    <3> QED
      BY <3>3 DEF Grants!Next
  <2>3. CASE Revoke(c) /\ token[c].approval \in Calls /\ Moves({token[c].approval}, "granted", "void")
    <3> PICK a \in Calls : a = token[c].approval
      BY <2>3
    <3>1. ~Consume(c)
      BY <2>3 DEF ApprovalInv, TypeOK, Revoke, Consume, Return
    <3>2. Grants!Withdraw(a)
      BY <1>2, <1>3, <1>4, <2>3, <3>1 DEF Grants!Withdraw
    <3> QED
      BY <3>2 DEF Grants!Next
  <2> QED
    BY <1>5, <2>1, <2>2, <2>3, TokenGrant
<1>6. CASE ~Issue(c) /\ ~Consume(c) /\ ~Revoke(c) /\ ~TokenExpires(c)
  <2>1. token' = token
    BY <1>6 DEF Handler, Time, Arrive, Open, Announce, List, Expire, Notify, Fetch, Decide, Publish,
       Present, Fail, ApprovalDue
  <2>2. [a \in Calls |-> PaidWith(a)]' = [a \in Calls |-> PaidWith(a)]
    BY <1>3, <1>4, <1>6
  <2>3. CASE \A a \in Calls : GrantOf(a)' = GrantOf(a)
    BY <1>1, <1>3, <1>6, <2>3
  <2>4. CASE Moves({c}, "none", "open")
    <3>1. Grants!Ask(c)
      BY <1>2, <2>2, <2>4 DEF Grants!Ask
    <3> QED
      BY <3>1 DEF Grants!Next
  <2>5. CASE Expire(c) /\ Moves(Overdue(c), "open", "void")
    <3> PICK S \in SUBSET Calls : S = Overdue(c)
      BY DEF Overdue, ApprovalInv, TypeOK
    <3>1. Grants!Lapse(S)
      BY <1>2, <2>2, <2>5 DEF Grants!Lapse
    <3> QED
      BY <3>1 DEF Grants!Next
  <2>6. CASE /\ call[c].approval \in Calls
             /\ \/ Moves({call[c].approval}, "open", "granted")
                \/ Moves({call[c].approval}, "open", "void")
    <3> PICK a \in Calls : a = call[c].approval
      BY <2>6
    <3>1. Grants!Permit(a) \/ Grants!Lapse({a})
      BY <1>2, <2>2, <2>6 DEF Grants!Permit, Grants!Lapse
    <3> QED
      BY <3>1 DEF Grants!Next
  <2> QED
    BY <2>1, <2>3, <2>4, <2>5, <2>6, StatusGrant
<1> QED
  BY <1>5, <1>6

\* The component keeps the promise of one approval: a request is decided or
\* expires once, and an approval pays for one call, whatever decisions, sweeps,
\* revocations and payments race.
THEOREM ApprovalsImplementGrants == Spec => KeepsGrants
<1>1. Init => Grants!Init
  <2> SUFFICES ASSUME Init
               PROVE  Grants!Init
    OBVIOUS
  <2>1. \A a \in Calls : GrantOf(a) = "none" /\ PaidWith(a) = {}
    BY DEF Init, GrantOf, PaidWith
  <2> QED
    BY <2>1 DEF Grants!Init
<1>2. ApprovalInv /\ ApprovalInv' /\ [Next]_vars => [Grants!Next]_(Grants!vars)
  <2> SUFFICES ASSUME ApprovalInv, ApprovalInv', [Next]_vars
               PROVE  [Grants!Next]_(Grants!vars)
    OBVIOUS
  <2>1. CASE UNCHANGED vars
    <3>1. \A a \in Calls : GrantOf(a)' = GrantOf(a) /\ PaidWith(a)' = PaidWith(a)
      BY <2>1 DEF vars, GrantOf, PaidWith
    <3> QED
      BY <3>1 DEF Grants!vars
  <2>2. CASE \E c \in Calls : Handler(c) \/ Time(c)
    BY <2>2, GrantStep
  <2> QED
    BY <2>1, <2>2 DEF Next, Quiesced, Handler, Time
<1> QED
  BY <1>1, <1>2, ApprovalInvariant, PTL DEF Spec, KeepsGrants, Grants!Spec

=============================================================================
