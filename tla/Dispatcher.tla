----------------------------- MODULE Dispatcher -----------------------------
(***************************************************************************)
(* Webhook delivery in Safe4 (app/api/webhooks.py): the five outboxes of   *)
(* the store, the handlers that fill and acknowledge them, the background  *)
(* thread that delivers them and administrators who start the same cycle   *)
(* by hand.                                                                *)
(*                                                                         *)
(* A cycle reads the endpoints and each outbox once, and then works on     *)
(* those copies: count the attempts of a pair, send, record the attempt,   *)
(* overwrite the status of the alert.  Each of these is a store call or a  *)
(* request of its own, so cycles, acknowledgements and edits of endpoints  *)
(* interleave between any two of them, and the process may die there.      *)
(* The rows of the audit log each handler ends with are left out.          *)
(***************************************************************************)
EXTENDS Integers, FiniteSets

CONSTANTS
    Alerts,        \* event keys of alerts and exports
    Source,        \* [Alerts -> Sources]: the outbox an alert is kept in
    Topic,         \* [Alerts -> Topics]: the event it is sent as
    Topics,        \* event names an endpoint may subscribe to
    NumEndpoints,  \* endpoints are numbered in the order of their ids
    Thread,        \* the background dispatcher
    Admins,        \* calls of POST /webhooks/dispatch, each made once
    Payments,      \* anomalous payments being finalized
    AlertOf,       \* [Payments -> Alerts]: the anomaly alert of a payment
    ExportOf,      \* [Payments -> Alerts]: its SIEM export
    Scenes,        \* the actors, settings and bounds a behaviour may have
    None

Sources == {"budget", "approval", "mcp", "anomaly", "siem"}
Endpoints == 1..NumEndpoints
Workers == {Thread} \cup Admins
Status == {"pending", "delivered", "failed", "acknowledged"}

\* attempts is webhook_max_attempts; edits and restarts bound how often an endpoint
\* is edited and the process restarted.
Scene == [alerts : SUBSET Alerts, endpoints : SUBSET Endpoints, admins : SUBSET Admins,
          wants : SUBSET Topics, attempts : Nat \ {0}, edits : Nat, restarts : Nat]

ASSUME TablesTyped == /\ Source \in [Alerts -> Sources]
                      /\ Topic \in [Alerts -> Topics]
                      /\ AlertOf \in [Payments -> Alerts]
                      /\ ExportOf \in [Payments -> Alerts]
ASSUME BoundsTyped == NumEndpoints \in Nat \ {0}
ASSUME ActorsTyped == /\ Thread \notin Admins
                      /\ None \notin Alerts \cup Status
                      /\ \A x \in Scenes : x \in Scene
ASSUME AdminsFinite == IsFiniteSet(Admins)

VARIABLES
    outbox,    \* [Alerts -> status or None]: the five outbox tables
    wants,     \* webhook_endpoints: the subscriptions of an active endpoint
    attempts,  \* webhook_delivery_attempts, counted by answer
    stage,     \* the store call each worker makes next
    job,       \* locals of _dispatch_webhooks_once
    booking,   \* how far each anomalous payment is finalized
    edits, restarts,
    scene,     \* the element of Scenes this behaviour is in; never changes
    holders    \* history: cycles that held an alert when it was acknowledged

vars == <<outbox, wants, attempts, stage, job, booking, edits, restarts, scene, holders>>
tables == <<outbox, wants, attempts>>
others == <<booking, edits, restarts, scene, holders>>

NoJob == [subs |-> [e \in Endpoints |-> {}], batch |-> {}, at |-> 1, left |-> {},
          alert |-> None, ok |-> FALSE]
Listing == {"endpoints", "budget", "approval", "mcp", "anomaly", "siem"}
Serving == {"serve", "send", "record", "settle"}
Stages == {"idle", "done", "dead"} \cup Listing \cup Serving

Tries(a, e) == attempts[a][e].good + attempts[a][e].bad
Goto(w, s) == stage' = [stage EXCEPT ![w] = s]

----------------------------------------------------------------------------
(* The outboxes.                                                           *)

\* Mutant: only what was never tried is dispatched.
RetryableOnce(a) == outbox[a] = "pending"

\* Mutant: all that is not delivered is dispatched.
RetryableAll(a) == outbox[a] \notin {None, "delivered"}

\* _retryable_alerts: what a cycle picks from an outbox.
Retryable(a) == outbox[a] \in {"pending", "failed"}

\* INSERT ... ON CONFLICT(event_key) DO NOTHING.
Insert(S) == outbox' = [a \in Alerts |->
    IF a \in S /\ outbox[a] = None THEN "pending" ELSE outbox[a]]

Elsewhere == UNCHANGED <<wants, attempts, stage, job, others>>
Producible(s) == {a \in scene.alerts : Source[a] = s}

\* enqueue_budget_alerts: one INSERT for each threshold the total has reached.
EnqueueBudget ==
    /\ \E S \in SUBSET Producible("budget") : S # {} /\ Insert(S)
    /\ Elsewhere

\* enqueue_mcp_alert, called by registration and review of tools and servers.
EnqueueMcp ==
    /\ \E a \in Producible("mcp") : Insert({a})
    /\ Elsewhere

\* enqueue_approval_alert, called when a request is opened, decided or expired.
EnqueueApproval ==
    /\ \E a \in Producible("approval") : Insert({a})
    /\ Elsewhere

\* The alert of a payment whose anomaly severity calls for one, enqueued after
\* the anomaly itself was recorded.
EnqueueAnomaly(p) ==
    /\ booking[p] = "scored"
    /\ AlertOf[p] \in scene.alerts
    /\ Insert({AlertOf[p]})
    /\ booking' = [booking EXCEPT ![p] = "alerted"]
    /\ UNCHANGED <<wants, attempts, stage, job, edits, restarts, scene, holders>>

\* Its export, which bundles the anomaly, the alert and the audit entries of the
\* payment: these are read back in between, and have not changed.
EnqueueExport(p) ==
    /\ booking[p] = "alerted"
    /\ Insert({ExportOf[p]})
    /\ booking' = [booking EXCEPT ![p] = "exported"]
    /\ UNCHANGED <<wants, attempts, stage, job, edits, restarts, scene, holders>>

\* The UPDATE all acknowledgements share, whatever the status was; 404 when
\* there is no row.
Acknowledge(a) ==
    /\ outbox[a] # None
    /\ outbox' = [outbox EXCEPT ![a] = "acknowledged"]
    /\ holders' = [holders EXCEPT ![a] = {w \in Workers : a \in job[w].batch}]
    /\ UNCHANGED <<wants, attempts, stage, job, booking, edits, restarts, scene>>

\* One endpoint for each outbox but the exports, which nobody acknowledges.
AckBudget == \E a \in Producible("budget") : Acknowledge(a)
AckApproval == \E a \in Producible("approval") : Acknowledge(a)
AckMcp == \E a \in Producible("mcp") : Acknowledge(a)
AckAnomaly == \E a \in Producible("anomaly") : Acknowledge(a)

\* POST /webhooks/endpoints: subscriptions are replaced; an inactive endpoint
\* is not listed, which is the same as one that wants nothing.
UpsertEndpoint(e) ==
    /\ edits < scene.edits
    /\ e \in scene.endpoints
    /\ \E T \in SUBSET Topics : T # wants[e] /\ wants' = [wants EXCEPT ![e] = T]
    /\ edits' = edits + 1
    /\ UNCHANGED <<outbox, attempts, stage, job, booking, restarts, scene, holders>>

----------------------------------------------------------------------------
(* A cycle: _dispatch_webhooks_once.                                       *)

\* The thread's wait(interval) has returned.
Wake ==
    /\ stage[Thread] = "idle"
    /\ Goto(Thread, "endpoints")
    /\ UNCHANGED <<tables, job, others>>

\* POST /webhooks/dispatch.
Call(w) ==
    /\ stage[w] = "idle"
    /\ w \in scene.admins
    /\ Goto(w, "endpoints")
    /\ UNCHANGED <<tables, job, others>>

\* list_webhook_endpoints(active_only=True).
ListEndpoints(w) ==
    /\ stage[w] = "endpoints"
    /\ job' = [job EXCEPT ![w] = [NoJob EXCEPT !.subs = wants]]
    /\ holders' = [a \in Alerts |-> holders[a] \ {w}]
    /\ Goto(w, "budget")
    /\ UNCHANGED <<tables, booking, edits, restarts, scene>>

\* One outbox is listed; the copies are not read again.
List(w, s, next) ==
    /\ stage[w] = s
    /\ LET B == job[w].batch \cup {a \in Alerts : Source[a] = s /\ Retryable(a)} IN
       job' = [job EXCEPT ![w].batch = B, ![w].left = B]
    /\ Goto(w, next)
    /\ UNCHANGED <<tables, others>>

ListBudget(w) == List(w, "budget", "approval")
ListApproval(w) == List(w, "approval", "mcp")
ListMcp(w) == List(w, "mcp", "anomaly")
ListAnomaly(w) == List(w, "anomaly", "siem")
ListSiem(w) == List(w, "siem", "serve")

\* The loops over the outboxes follow each other in this order.
Rank(a) == CASE Source[a] = "budget" -> 1 [] Source[a] = "approval" -> 2
             [] Source[a] = "mcp" -> 3 [] Source[a] = "anomaly" -> 4 [] OTHER -> 5

Upcoming(w) == {a \in job[w].left : \A b \in job[w].left : Rank(a) <= Rank(b)}

\* Mutant: the attempt that reaches the limit is made twice.
ExhaustedLate(a, e) == Tries(a, e) > scene.attempts

\* count_webhook_delivery_attempts(...) >= webhook_max_attempts.
Exhausted(a, e) == Tries(a, e) >= scene.attempts

\* Mutant: an alert that meanwhile counts as delivered is skipped.
ServeUndelivered(w, s) ==
    /\ stage[w] = "serve"
    /\ \E a \in Upcoming(w) :
         /\ Source[a] = s
         /\ IF Topic[a] \in job[w].subs[job[w].at] /\ ~Exhausted(a, job[w].at)
               /\ outbox[a] # "delivered"
            THEN /\ job' = [job EXCEPT ![w].left = @ \ {a}, ![w].alert = a]
                 /\ Goto(w, "send")
            ELSE /\ job' = [job EXCEPT ![w].left = @ \ {a}]
                 /\ UNCHANGED stage
    /\ UNCHANGED <<tables, others>>

\* One turn of an inner loop, up to the request: the endpoint must subscribe to
\* the event and have attempts left.
Serve(w, s) ==
    /\ stage[w] = "serve"
    /\ \E a \in Upcoming(w) :
         /\ Source[a] = s
         /\ IF Topic[a] \in job[w].subs[job[w].at] /\ ~Exhausted(a, job[w].at)
            THEN /\ job' = [job EXCEPT ![w].left = @ \ {a}, ![w].alert = a]
                 /\ Goto(w, "send")
            ELSE /\ job' = [job EXCEPT ![w].left = @ \ {a}]
                 /\ UNCHANGED stage
    /\ UNCHANGED <<tables, others>>

ServeBudget(w) == Serve(w, "budget")
ServeApproval(w) == Serve(w, "approval")
ServeMcp(w) == Serve(w, "mcp")
ServeAnomaly(w) == Serve(w, "anomaly")
ServeSiem(w) == Serve(w, "siem")

\* The request is answered, with a code of success or another one.
Send(w) ==
    /\ stage[w] = "send"
    /\ \E ok \in BOOLEAN : job' = [job EXCEPT ![w].ok = ok]
    /\ Goto(w, "record")
    /\ UNCHANGED <<tables, others>>

\* No answer: urlopen raises.  Nothing catches it, neither in the cycle nor in
\* the thread's loop; a call by hand fails.
SendRaises(w) ==
    /\ stage[w] = "send"
    /\ Goto(w, IF w = Thread THEN "dead" ELSE "done")
    /\ job' = [job EXCEPT ![w] = NoJob]
    /\ UNCHANGED <<tables, others>>

\* record_webhook_delivery_attempt.
Record(w) ==
    /\ stage[w] = "record"
    /\ LET a == job[w].alert
           e == job[w].at IN
       attempts' = IF job[w].ok THEN [attempts EXCEPT ![a][e].good = @ + 1]
                                ELSE [attempts EXCEPT ![a][e].bad = @ + 1]
    /\ Goto(w, "settle")
    /\ UNCHANGED <<outbox, wants, job, others>>

\* Mutant: any answer counts as delivery.
VerdictLenient(w) == "delivered"

Verdict(w) == IF job[w].ok THEN "delivered" ELSE "failed"

\* set_<outbox>_status: whatever the status is by now.
Settle(w) ==
    /\ stage[w] = "settle"
    /\ outbox' = [outbox EXCEPT ![job[w].alert] = Verdict(w)]
    /\ job' = [job EXCEPT ![w].alert = None, ![w].ok = FALSE]
    /\ Goto(w, "serve")
    /\ UNCHANGED <<wants, attempts, others>>

RoundOver(w) == stage[w] = "serve" /\ job[w].left = {}

\* Mutant: the loop over the endpoints goes one too far.
NextEndpointLate(w) ==
    /\ RoundOver(w)
    /\ job' = [job EXCEPT ![w].at = @ + 1, ![w].left = job[w].batch]
    /\ UNCHANGED <<tables, stage, others>>

NextEndpoint(w) ==
    /\ RoundOver(w)
    /\ job[w].at < NumEndpoints
    /\ job' = [job EXCEPT ![w].at = @ + 1, ![w].left = job[w].batch]
    /\ UNCHANGED <<tables, stage, others>>

\* The thread waits again; a call by hand is answered.
Finish(w) ==
    /\ RoundOver(w)
    /\ job[w].at = NumEndpoints
    /\ job' = [job EXCEPT ![w] = NoJob]
    /\ Goto(w, IF w = Thread THEN "idle" ELSE "done")
    /\ UNCHANGED <<tables, others>>

----------------------------------------------------------------------------
\* The process dies or is stopped, the daemon thread and all handlers with it,
\* and starts again: only start() brings the thread back.
Restart ==
    /\ restarts < scene.restarts
    /\ restarts' = restarts + 1
    /\ stage' = [w \in Workers |->
                   IF w = Thread THEN "idle" ELSE IF stage[w] = "idle" THEN "idle" ELSE "done"]
    /\ job' = [w \in Workers |-> NoJob]
    /\ booking' = [p \in Payments |-> IF booking[p] = "alerted" THEN "lost" ELSE booking[p]]
    /\ UNCHANGED <<tables, edits, scene, holders>>

Init ==
    /\ scene \in Scenes
    /\ outbox = [a \in Alerts |-> None]
    /\ wants = [e \in Endpoints |-> IF e \in scene.endpoints THEN scene.wants ELSE {}]
    /\ attempts = [a \in Alerts |-> [e \in Endpoints |-> [good |-> 0, bad |-> 0]]]
    /\ stage = [w \in Workers |-> "idle"]
    /\ job = [w \in Workers |-> NoJob]
    /\ booking = [p \in Payments |-> "scored"]
    /\ edits = 0 /\ restarts = 0
    /\ holders = [a \in Alerts |-> {}]

Lists(w) == \/ ListEndpoints(w) \/ ListBudget(w) \/ ListApproval(w)
            \/ ListMcp(w) \/ ListAnomaly(w) \/ ListSiem(w)
Serves(w) == ServeBudget(w) \/ ServeApproval(w) \/ ServeMcp(w) \/ ServeAnomaly(w) \/ ServeSiem(w)
Cycle(w) == \/ Lists(w) \/ Serves(w) \/ Send(w) \/ SendRaises(w)
            \/ Record(w) \/ Settle(w) \/ NextEndpoint(w) \/ Finish(w)

Next ==
    \/ EnqueueBudget \/ EnqueueMcp \/ EnqueueApproval
    \/ \E p \in Payments : EnqueueAnomaly(p) \/ EnqueueExport(p)
    \/ AckBudget \/ AckApproval \/ AckMcp \/ AckAnomaly
    \/ \E e \in Endpoints : UpsertEndpoint(e)
    \/ Wake \/ \E w \in Admins : Call(w)
    \/ \E w \in Workers : Cycle(w)
    \/ Restart

\* The thread's wait returns after the interval, and a request ends at its
\* timeout: while the thread lives, it goes on.  Nothing else is promised.
Fairness == WF_vars(Wake \/ Cycle(Thread))
Spec == Init /\ [][Next]_vars /\ Fairness

----------------------------------------------------------------------------
(* What delivery promises.                                                 *)

JobType == [subs : [Endpoints -> SUBSET Topics], batch : SUBSET Alerts, at : Endpoints,
            left : SUBSET Alerts, alert : Alerts \cup {None}, ok : BOOLEAN]

\* The alert a cycle is sending is one it listed, still on the way when the
\* worker is between the request and the status; the rows have their types.
TypeOK ==
    /\ outbox \in [Alerts -> Status \cup {None}]
    /\ wants \in [Endpoints -> SUBSET Topics]
    /\ attempts \in [Alerts -> [Endpoints -> [good : Nat, bad : Nat]]]
    /\ stage \in [Workers -> Stages]
    /\ job \in [Workers -> JobType]
    /\ booking \in [Payments -> {"scored", "alerted", "exported", "lost"}]
    /\ edits \in 0..scene.edits /\ restarts \in 0..scene.restarts
    /\ scene \in Scenes
    /\ holders \in [Alerts -> SUBSET Workers]

Crew == {Thread} \cup scene.admins

\* The limit on attempts is checked before a request and the attempt recorded
\* after it, by cycles that do not know of each other: the limit is exceeded by
\* at most one attempt for each further cycle under way.
AttemptsBounded ==
    \A a \in Alerts, e \in Endpoints : Tries(a, e) <= scene.attempts + Cardinality(Crew) - 1

\* An alert is marked delivered only if some endpoint has confirmed it, and failed
\* only if some endpoint has refused it, whatever cycles, crashes and
\* acknowledgements came between the attempt and the mark.
StatusHasAttempt ==
    \A a \in Alerts :
       /\ outbox[a] = "delivered" => \E e \in Endpoints : attempts[a][e].good > 0
       /\ outbox[a] = "failed" => \E e \in Endpoints : attempts[a][e].bad > 0

\* A cycle that comes to its end has tried every alert it listed at every endpoint
\* that subscribed to it: the success or the exhaustion of one endpoint does not
\* cost another one its first attempt.
FullRound ==
    \A w \in Workers : RoundOver(w) =>
        \A a \in job[w].batch, e \in 1..job[w].at :
            Topic[a] \in job[w].subs[e] => Tries(a, e) > 0

\* What an operator has acknowledged comes back only through a cycle that had
\* listed the alert before: nothing dispatches it anew.
AckUndoneOnlyByOlderCycle ==
    [][\A a \in Alerts :
         outbox[a] = "acknowledged" /\ outbox'[a] # "acknowledged"
            => \E w \in holders[a] : stage[w] = "settle" /\ job[w].alert = a]_vars

Waiting(a) == outbox[a] \in {"pending", "failed"}

\* If from some time on the thread lives and an endpoint wants an alert, the alert
\* does not wait for ever: the endpoint uses up its attempts, or the alert is
\* delivered somewhere or acknowledged.
NoAlertForgotten ==
    \A a \in Alerts, e \in Endpoints :
       <>[](stage[Thread] # "dead" /\ Topic[a] \in wants[e])
          => (Waiting(a) ~> (Tries(a, e) >= scene.attempts \/ ~Waiting(a)))
=============================================================================
