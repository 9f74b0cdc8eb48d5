----------------------------- MODULE Approvals -----------------------------
(***************************************************************************)
(* Human approval in Safe4 (app/hitl_policy.py, app/api/hitl.py): payments *)
(* that open approval requests, operators who decide them, the expiry      *)
(* sweep every decision runs first, and payments that present the token a  *)
(* decision issued.                                                        *)
(*                                                                         *)
(* Each store call is one action: it holds the lock of the one process the *)
(* service runs as (Dockerfile, main.py).  Between two store calls of a    *)
(* handler other handlers run, time passes, and the process may die.  An   *)
(* approval has the identity of the call that opened it, a token that of   *)
(* the decision that issued it, and a request its body (see PayFlow).      *)
(***************************************************************************)
EXTENDS FiniteSets

CONSTANTS
    Calls,    \* the calls of a behaviour, each made once
    Bodies,   \* request bodies that need approval
    Inputs,   \* [Calls -> SUBSET CallType]: what each call may send
    None

CallType ==
         [kind : {"ask"}, body : Bodies]                       \* POST /pay, no token
    \cup [kind : {"pay"}, body : Bodies, token : Calls]        \* POST /pay with one
    \cup [kind : {"decide"}, approval : Calls, verdict : {"approved", "denied"}]
    \cup [kind : {"sweep"}]                                    \* POST /approvals/expire

ApprovalRow == [status : {"pending", "approved", "denied", "expired"},
                body : Bodies, due : BOOLEAN]
TokenRow == [approval : Calls, body : Bodies,
             used : BOOLEAN, revoked : BOOLEAN, expired : BOOLEAN]

ASSUME InputsTyped == Inputs \in [Calls -> SUBSET CallType]
ASSUME NoneIsFresh == None \notin CallType \cup ApprovalRow \cup TokenRow

Working == {"open", "announce", "list", "expire", "notify", "fetch", "decide",
            "issue", "publish", "present", "consume"}
Topics == {"requested", "approved", "denied", "expired"}
Codes == {200, 202, 403, 404, 409, 410, 500}

VARIABLES
    call,       \* what each call sent
    stage,      \* the store call it makes next
    batch,      \* the due requests a sweep listed and has not looked at again
    answer,     \* the status code it was answered with
    approval,   \* approval_requests
    token,      \* spend_tokens
    outbox,     \* approval_alert_outbox: which requests were announced as what
    died,       \* history: some handler stopped half way
    late        \* history: calls whose subject had expired when they arrived

vars == <<call, stage, batch, answer, approval, token, outbox, died, late>>
handlers == <<call, batch, late>>

Goto(c, s) == stage' = [stage EXCEPT ![c] = s] /\ UNCHANGED answer
Return(c, code) ==
    /\ stage' = [stage EXCEPT ![c] = "done"]
    /\ answer' = [answer EXCEPT ![c] = code]

Pending(a) == approval[a] # None /\ approval[a].status = "pending"

\* Mutant: the times never compare as passed.
DueNever(a) == FALSE

\* expires_at has passed.
Due(a) == approval[a].due

\* enqueue_approval_alert: the event key is made of the topic and the request.
Enqueue(topic, a) == outbox' = outbox \cup {<<topic, a>>}

\* Where a handler begins.
Entry(in) == CASE in.kind = "ask" -> "open"
               [] in.kind = "pay" -> "present"
               [] OTHER -> "list"

\* The approval or the token the call is about had expired.
Expired(in) ==
    \/ in.kind = "decide" /\ approval[in.approval] # None /\ approval[in.approval].due
    \/ in.kind = "pay" /\ token[in.token] # None /\ token[in.token].expired

Arrive(c) ==
    /\ stage[c] = "idle"
    /\ \E in \in Inputs[c] :
         /\ call' = [call EXCEPT ![c] = in]
         /\ Goto(c, Entry(in))
         /\ late' = IF Expired(in) THEN late \cup {c} ELSE late
    /\ UNCHANGED <<batch, approval, token, outbox, died>>

----------------------------------------------------------------------------
(* POST /pay without a token: _create_hitl_approval.                       *)

Open(c) ==
    /\ stage[c] = "open"
    /\ approval' = [approval EXCEPT ![c] =
                      [status |-> "pending", body |-> call[c].body, due |-> FALSE]]
    /\ Goto(c, "announce")
    /\ UNCHANGED <<handlers, token, outbox, died>>

Announce(c) ==
    /\ stage[c] = "announce"
    /\ Enqueue("requested", c)
    /\ Return(c, 202)
    /\ UNCHANGED <<handlers, approval, token, died>>

----------------------------------------------------------------------------
(* _expire_and_enqueue_approval_alerts.                                    *)

AfterSweep(c) == IF call[c].kind = "sweep" THEN Return(c, 200) ELSE Goto(c, "fetch")

\* list_approval_requests("pending"), filtered by a clock read just before.
List(c) ==
    /\ stage[c] = "list"
    /\ batch' = [batch EXCEPT ![c] = {a \in Calls : Pending(a) /\ Due(a)}]
    /\ Goto(c, "expire")
    /\ UNCHANGED <<call, late, approval, token, outbox, died>>

\* Mutant: the UPDATE reads the clock again.
OverdueNow(c) == {a \in Calls : Pending(a) /\ Due(a)}

\* What expire_approval_requests finds pending and due at the clock of the
\* listing: a request opened since then is not, so all of it was listed.
Overdue(c) == {a \in batch[c] : Pending(a)}

\* The UPDATE; when it changed no row the listed requests are dropped.
Expire(c) ==
    /\ stage[c] = "expire"
    /\ LET S == Overdue(c) IN
       /\ approval' = [a \in Calls |->
              IF a \in S THEN [approval[a] EXCEPT !.status = "expired"] ELSE approval[a]]
       /\ IF S = {} THEN AfterSweep(c) ELSE Goto(c, "notify")
       /\ batch' = [batch EXCEPT ![c] = IF S = {} THEN {} ELSE @]
    /\ UNCHANGED <<call, late, token, outbox, died>>

\* Mutant: the listed request is not read again.
NotifyUnread(c) ==
    /\ stage[c] = "notify"
    /\ \E a \in batch[c] :
         /\ batch' = [batch EXCEPT ![c] = @ \ {a}]
         /\ Enqueue("expired", a)
         /\ IF batch[c] = {a} THEN AfterSweep(c) ELSE Goto(c, "notify")
    /\ UNCHANGED <<call, late, approval, token, died>>

\* One turn of the loop: get_approval_request, and an alert if it has expired by
\* now.  The two store calls are one step because a status that is not pending
\* never changes again.  The order of the loop does not matter.
Notify(c) ==
    /\ stage[c] = "notify"
    /\ \E a \in batch[c] :
         /\ batch' = [batch EXCEPT ![c] = @ \ {a}]
         /\ IF approval[a].status = "expired" THEN Enqueue("expired", a) ELSE UNCHANGED outbox
         /\ IF batch[c] = {a} THEN AfterSweep(c) ELSE Goto(c, "notify")
    /\ UNCHANGED <<call, late, approval, token, died>>

----------------------------------------------------------------------------
(* decide_approval, after the sweep.                                       *)

Fetch(c) ==
    /\ stage[c] = "fetch"
    /\ LET a == call[c].approval IN
       \/ approval[a] = None /\ Return(c, 404)
       \/ /\ approval[a] # None /\ (approval[a].status = "expired" \/ Due(a))
          /\ Return(c, 410)
       \/ /\ approval[a] # None /\ approval[a].status # "expired" /\ ~Due(a)
          /\ Goto(c, "decide")
    /\ UNCHANGED <<handlers, approval, token, outbox, died>>

\* What decide_approval_request asks of the row before it updates it.
Undecided(a) == approval[a].status = "pending"

Decide(c) ==
    /\ stage[c] = "decide"
    /\ LET a == call[c].approval IN
       \/ /\ Undecided(a)
          /\ approval' = [approval EXCEPT ![a].status = call[c].verdict]
          /\ Goto(c, IF call[c].verdict = "approved" THEN "issue" ELSE "publish")
       \/ ~Undecided(a) /\ Return(c, 409) /\ UNCHANGED approval
    /\ UNCHANGED <<handlers, token, outbox, died>>

\* create_spend_token, for the request the decided row holds.
Issue(c) ==
    /\ stage[c] = "issue"
    /\ LET a == call[c].approval IN
       token' = [token EXCEPT ![c] = [approval |-> a, body |-> approval[a].body,
                                      used |-> FALSE, revoked |-> FALSE, expired |-> FALSE]]
    /\ Goto(c, "publish")
    /\ UNCHANGED <<handlers, approval, outbox, died>>

Publish(c) ==
    /\ stage[c] = "publish"
    /\ Enqueue(call[c].verdict, call[c].approval)
    /\ Return(c, 200)
    /\ UNCHANGED <<handlers, approval, token, died>>

----------------------------------------------------------------------------
(* POST /pay with a token: validate_and_consume_spend_token.               *)

Present(c) ==
    /\ stage[c] = "present"
    /\ LET t == call[c].token
           usable == /\ token[t] # None
                     /\ ~token[t].revoked /\ ~token[t].used /\ ~token[t].expired
                     /\ token[t].body = call[c].body
       IN IF usable THEN Goto(c, "consume") ELSE Return(c, 403)
    /\ UNCHANGED <<handlers, approval, token, outbox, died>>

\* Mutant: the UPDATE does not exclude used tokens.
LiveIfKept(t) == ~token[t].revoked

\* The condition of the UPDATE in consume_spend_token and revoke_spend_token.
Live(t) == ~token[t].used /\ ~token[t].revoked

\* A 200 stands for whatever the payment is answered after its token was consumed.
Consume(c) ==
    /\ stage[c] = "consume"
    /\ LET t == call[c].token IN
       \/ /\ Live(t)
          /\ token' = [token EXCEPT ![t].used = TRUE]
          /\ Return(c, 200)
       \/ ~Live(t) /\ Return(c, 403) /\ UNCHANGED token
    /\ UNCHANGED <<handlers, approval, outbox, died>>

----------------------------------------------------------------------------
\* A store call raises or the process dies.
Fail(c) ==
    /\ stage[c] \in Working
    /\ Return(c, 500)
    /\ batch' = [batch EXCEPT ![c] = {}]
    /\ died' = TRUE
    /\ UNCHANGED <<call, late, approval, token, outbox>>

\* revoke_spend_token.
Revoke(t) ==
    /\ token[t] # None /\ Live(t)
    /\ token' = [token EXCEPT ![t].revoked = TRUE]
    /\ UNCHANGED <<call, stage, batch, answer, approval, outbox, died, late>>

ApprovalDue(a) ==
    /\ approval[a] # None /\ ~approval[a].due
    /\ approval' = [approval EXCEPT ![a].due = TRUE]
    /\ UNCHANGED <<call, stage, batch, answer, token, outbox, died, late>>

TokenExpires(t) ==
    /\ token[t] # None /\ ~token[t].expired
    /\ token' = [token EXCEPT ![t].expired = TRUE]
    /\ UNCHANGED <<call, stage, batch, answer, approval, outbox, died, late>>

Init ==
    /\ call = [c \in Calls |-> None]
    /\ stage = [c \in Calls |-> "idle"]
    /\ batch = [c \in Calls |-> {}]
    /\ answer = [c \in Calls |-> 500]
    /\ approval = [a \in Calls |-> None]
    /\ token = [t \in Calls |-> None]
    /\ outbox = {}
    /\ died = FALSE
    /\ late = {}

Quiet == \A c \in Calls : stage[c] \notin Working

\* Every call has been answered; the behaviour may end here and nowhere else.
Quiesced == (\A c \in Calls : stage[c] = "done") /\ UNCHANGED vars

Next ==
    \/ \E c \in Calls :
         \/ Arrive(c) \/ Open(c) \/ Announce(c)
         \/ List(c) \/ Expire(c) \/ Notify(c)
         \/ Fetch(c) \/ Decide(c) \/ Issue(c) \/ Publish(c)
         \/ Present(c) \/ Consume(c) \/ Fail(c)
         \/ Revoke(c) \/ ApprovalDue(c) \/ TokenExpires(c)
    \/ Quiesced

Spec == Init /\ [][Next]_vars

----------------------------------------------------------------------------
(* Properties.                                                             *)

TypeOK ==
    /\ call \in [Calls -> CallType \cup {None}]
    /\ stage \in [Calls -> Working \cup {"idle", "done"}]
    /\ batch \in [Calls -> SUBSET Calls]
    /\ answer \in [Calls -> Codes]
    /\ approval \in [Calls -> ApprovalRow \cup {None}]
    /\ token \in [Calls -> TokenRow \cup {None}]
    /\ outbox \subseteq Topics \X Calls
    /\ died \in BOOLEAN
    /\ late \subseteq Calls

\* Calls that consumed a token.
PaidWith(a) == {c \in Calls :
    /\ call[c] # None /\ call[c].kind = "pay"
    /\ stage[c] = "done" /\ answer[c] = 200
    /\ token[call[c].token].approval = a}

\* What has become of an approval, as SpendGrant sees it.
GrantOf(a) ==
    LET issued == {t \in Calls : token[t] # None /\ token[t].approval = a} IN
    CASE approval[a] = None -> "none"
      [] approval[a] # None /\ approval[a].status = "pending" -> "open"
      [] approval[a] # None /\ approval[a].status \in {"denied", "expired"} -> "void"
      [] OTHER -> IF \E t \in issued : token[t].used THEN "spent"
                  ELSE IF \E t \in issued : token[t].revoked THEN "void" ELSE "granted"

Grants == INSTANCE SpendGrant WITH
    Ids <- Calls, Payers <- Calls,
    grant <- [a \in Calls |-> GrantOf(a)],
    payer <- [a \in Calls |-> PaidWith(a)]

\* Requests, tokens and payments together keep the promise of one approval: a
\* request is decided or expires once, and an approval pays for one call, with
\* decisions, sweeps, revocations and payments racing (storage.py:3674-3706,
\* 5131-5155).
KeepsGrants == Grants!Spec

\* When no handler died, every request was announced, every decided or expired
\* one was announced as what it is, and every approved one has its token: two
\* sweeps that overlap leave no expiry unannounced (api/hitl.py:356-374).
SettledIfNothingDied ==
    ~died /\ Quiet => \A a \in Calls : approval[a] # None =>
        /\ <<"requested", a>> \in outbox
        /\ approval[a].status # "pending" => <<approval[a].status, a>> \in outbox
        /\ approval[a].status = "approved" =>
               \E t \in Calls : token[t] # None /\ token[t].approval = a

\* What was announced is what happened, although a sweep announces requests it
\* listed before another handler may have decided them (api/hitl.py:362-366).
AnnouncementsTrue ==
    \A m \in outbox : m[1] # "requested" =>
        approval[m[2]] # None /\ approval[m[2]].status = m[1]

\* A decision that arrives after its request expired issues no token, and a
\* payment that arrives after its token expired does not consume it.  (One that
\* arrived before may still do both.)
LateCallsRefused ==
    \A c \in late : /\ token[c] = None
                    /\ call[c].kind = "pay" => answer[c] # 200
=============================================================================
