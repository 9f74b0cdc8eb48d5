--------------------------- MODULE DispatcherProofs ---------------------------
(***************************************************************************)
(* Webhook delivery, for any number of alerts, endpoints, cycles started   *)
(* by hand and restarts: how often an endpoint is tried, what a status     *)
(* says, what a finished cycle has done, and who can undo an               *)
(* acknowledgement.                                                        *)
(*                                                                         *)
(* A cycle works on copies, so the invariant says what the copies of every *)
(* cycle under way still tell about the tables: which of its attempts are  *)
(* counted, which answer the status it is about to write has, and, of an   *)
(* acknowledged alert, that the cycle held it when that was done.          *)
(***************************************************************************)
EXTENDS Dispatcher, FiniteSetTheorems, TLAPS

LaterListing == Listing \ {"endpoints"}
Delivery == {"send", "record", "settle"}

\* The copies of a cycle.
Shape(w) ==
    /\ job[w].left \subseteq job[w].batch
    /\ stage[w] \in Delivery => job[w].alert \in job[w].batch
    /\ stage[w] \in LaterListing => job[w].at = 1
    /\ w \notin Crew => stage[w] = "idle"

\* The attempt a status is about to be written for is on record.
Answered(w) ==
    stage[w] = "settle" =>
       /\ job[w].ok => attempts[job[w].alert][job[w].at].good > 0
       /\ ~job[w].ok => attempts[job[w].alert][job[w].at].bad > 0

\* What a cycle is through with, it has tried.
Through(w, a, e) ==
    \/ a \in job[w].batch /\ e < job[w].at
    \/ /\ a \in job[w].batch \ job[w].left /\ e = job[w].at
       /\ ~(stage[w] \in {"send", "record"} /\ job[w].alert = a)
Rounds(w) ==
    \A a \in Alerts, e \in Endpoints :
       Through(w, a, e) /\ Topic[a] \in job[w].subs[e] => Tries(a, e) > 0

\* Cycles that have passed the limit and not recorded their attempt.
Senders(a, e) == {w \in Workers : stage[w] \in {"send", "record"} /\ job[w].alert = a /\ job[w].at = e}
Bounded(a, e) == Tries(a, e) + Cardinality(Senders(a, e)) <= scene.attempts + Cardinality(Crew) - 1

Held(w, a) == outbox[a] = "acknowledged" /\ a \in job[w].batch => w \in holders[a]

Confirmed(a) ==
    /\ outbox[a] = "delivered" => \E e \in Endpoints : attempts[a][e].good > 0
    /\ outbox[a] = "failed" => \E e \in Endpoints : attempts[a][e].bad > 0

DeliveryInv ==
    /\ TypeOK
    /\ \A w \in Workers : Shape(w) /\ Answered(w) /\ Rounds(w)
    /\ \A a \in Alerts : Confirmed(a) /\ \A w \in Workers : Held(w, a)
    /\ \A a \in Alerts, e \in Endpoints : Bounded(a, e)

----------------------------------------------------------------------------
(* What each step of a cycle does to the copies of its worker.             *)

Turns(w) == (Wake /\ w = Thread) \/ (Call(w) /\ w \in Admins) \/ Cycle(w)

Apart(w) == \A v \in Workers \ {w} : stage'[v] = stage[v] /\ job'[v] = job[v]
SameRound(w) == /\ job'[w].subs = job[w].subs /\ job'[w].at = job[w].at
                /\ job'[w].batch = job[w].batch

Starts(w) == /\ stage[w] = "idle" /\ stage'[w] = "endpoints" /\ w \in Crew
             /\ job'[w] = job[w] /\ UNCHANGED <<tables, others>>
Rereads(w) == /\ stage[w] = "endpoints" /\ stage'[w] = "budget"
              /\ job'[w].batch = {} /\ job'[w].left = {} /\ job'[w].at = 1
              /\ holders' = [a \in Alerts |-> holders[a] \ {w}]
              /\ UNCHANGED <<tables, booking, edits, restarts, scene>>
Collects(w) == /\ stage[w] \in LaterListing /\ stage'[w] \in LaterListing \cup {"serve"}
               /\ job'[w].subs = job[w].subs /\ job'[w].at = job[w].at
               /\ job'[w].left = job'[w].batch
               /\ \A a \in job'[w].batch : a \in job[w].batch \/ Retryable(a)
               /\ UNCHANGED <<tables, others>>
Skips(w) == /\ stage[w] = "serve" /\ stage'[w] = "serve" /\ SameRound(w)
            /\ \E a \in job[w].left :
                 /\ job'[w].left = job[w].left \ {a}
                 /\ Topic[a] \notin job[w].subs[job[w].at] \/ Exhausted(a, job[w].at)
            /\ UNCHANGED <<tables, others>>
Takes(w) == /\ stage[w] = "serve" /\ stage'[w] = "send" /\ SameRound(w)
            /\ \E a \in job[w].left :
                 /\ job'[w].left = job[w].left \ {a} /\ job'[w].alert = a
                 /\ ~Exhausted(a, job[w].at)
            /\ UNCHANGED <<tables, others>>
Hears(w) == /\ stage[w] = "send" /\ stage'[w] = "record" /\ SameRound(w)
            /\ job'[w].left = job[w].left /\ job'[w].alert = job[w].alert
            /\ UNCHANGED <<tables, others>>
Counts(w) == /\ stage[w] = "record" /\ stage'[w] = "settle" /\ job'[w] = job[w]
             /\ Record(w)
Marks(w) == /\ stage[w] = "settle" /\ stage'[w] = "serve" /\ SameRound(w)
            /\ job'[w].left = job[w].left /\ job'[w].alert = None
            /\ outbox' = [outbox EXCEPT ![job[w].alert] = Verdict(w)]
            /\ UNCHANGED <<wants, attempts, others>>
GoesOn(w) == /\ stage[w] = "serve" /\ stage'[w] = "serve" /\ job[w].left = {}
             /\ job'[w].subs = job[w].subs /\ job'[w].batch = job[w].batch
             /\ job'[w].at = job[w].at + 1 /\ job'[w].left = job[w].batch
             /\ UNCHANGED <<tables, others>>
Ends(w) == /\ stage[w] \in {"serve", "send"} /\ stage'[w] \in {"idle", "done", "dead"}
           /\ job'[w] = NoJob /\ UNCHANGED <<tables, others>>

Turn(w) == \/ Starts(w) \/ Rereads(w) \/ Collects(w) \/ Skips(w) \/ Takes(w) \/ Hears(w)
           \/ Counts(w) \/ Marks(w) \/ GoesOn(w) \/ Ends(w)

\* The rows, as a state has them.
LEMMA RowsTyped ==
    ASSUME DeliveryInv
    PROVE  /\ stage \in [Workers -> Stages] /\ job \in [Workers -> JobType]
           /\ outbox \in [Alerts -> Status \cup {None}] /\ wants \in [Endpoints -> SUBSET Topics]
           /\ attempts \in [Alerts -> [Endpoints -> [good : Nat, bad : Nat]]]
           /\ holders \in [Alerts -> SUBSET Workers]
           /\ scene.attempts \in Nat \ {0} /\ scene.admins \in SUBSET Admins
           /\ scene.edits \in Nat /\ scene.restarts \in Nat /\ scene.alerts \in SUBSET Alerts
  BY ActorsTyped DEF DeliveryInv, TypeOK, Scene

LEMMA OneJob ==
    ASSUME DeliveryInv, NEW w \in Workers, NEW new \in JobType, job' = [job EXCEPT ![w] = new]
    PROVE  /\ job'[w] = new /\ job' \in [Workers -> JobType]
           /\ \A v \in Workers \ {w} : job'[v] = job[v]
  BY RowsTyped

LEMMA OneStage ==
    ASSUME DeliveryInv, NEW w \in Workers, NEW s \in Stages, Goto(w, s)
    PROVE  /\ stage'[w] = s /\ stage' \in [Workers -> Stages]
           /\ \A v \in Workers \ {w} : stage'[v] = stage[v]
  BY RowsTyped DEF Goto

LEMMA NoJobTyped ==
    /\ NoJob \in JobType
    /\ NoJob.batch = {} /\ NoJob.left = {} /\ NoJob.at = 1 /\ NoJob.alert = None
<1>1. 1 \in Endpoints
  BY BoundsTyped DEF Endpoints
<1> QED
  BY <1>1 DEF NoJob, JobType

LEMMA StageNames ==
    /\ \A s \in {"idle", "done", "dead", "endpoints"} \cup LaterListing \cup Serving : s \in Stages
    /\ LaterListing = {"budget", "approval", "mcp", "anomaly", "siem"}
  BY DEF Stages, LaterListing, Listing, Serving

LEMMA TurnStart ==
    ASSUME DeliveryInv, NEW w \in Workers, (Wake /\ w = Thread) \/ (Call(w) /\ w \in Admins)
    PROVE  Starts(w) /\ Apart(w) /\ job' \in [Workers -> JobType] /\ stage' \in [Workers -> Stages]
<1>1. Goto(w, "endpoints") /\ stage[w] = "idle" /\ w \in Crew /\ UNCHANGED <<tables, job, others>>
  BY DEF Wake, Call, Crew
<1> QED
  BY <1>1, RowsTyped, OneStage, StageNames DEF Starts, Apart

LEMMA TurnList ==
    ASSUME DeliveryInv, NEW w \in Workers, Lists(w)
    PROVE  /\ Rereads(w) \/ Collects(w)
           /\ Apart(w) /\ job' \in [Workers -> JobType] /\ stage' \in [Workers -> Stages]
<1>1. CASE ListEndpoints(w)
  <2> DEFINE new == [NoJob EXCEPT !.subs = wants]
  <2>1. new \in JobType /\ new.batch = {} /\ new.left = {} /\ new.at = 1
    BY NoJobTyped, RowsTyped DEF NoJob, JobType
  <2>2. job' = [job EXCEPT ![w] = new]
    BY <1>1 DEF ListEndpoints
  <2> HIDE DEF new
  <2>3. job'[w] = new /\ job' \in [Workers -> JobType] /\ \A v \in Workers \ {w} : job'[v] = job[v]
    BY <2>1, <2>2, OneJob
  <2>4. stage'[w] = "budget" /\ stage' \in [Workers -> Stages] /\ \A v \in Workers \ {w} : stage'[v] = stage[v]
    BY <1>1, OneStage, StageNames DEF ListEndpoints
  <2> QED
    BY <1>1, <2>1, <2>3, <2>4 DEF ListEndpoints, Rereads, Apart
<1>2. ASSUME NEW s \in LaterListing, NEW next \in LaterListing \cup {"serve"}, List(w, s, next)
      PROVE  Collects(w) /\ Apart(w) /\ job' \in [Workers -> JobType] /\ stage' \in [Workers -> Stages]
  <2>1. PICK B : B = job[w].batch \cup {a \in Alerts : Source[a] = s /\ Retryable(a)}
    OBVIOUS
  <2>2. job[w] \in JobType
    BY RowsTyped
  <2> DEFINE new == [job[w] EXCEPT !.batch = B, !.left = B]
  <2>3. /\ new \in JobType /\ new.batch = B /\ new.left = B
        /\ new.subs = job[w].subs /\ new.at = job[w].at
    BY <2>1, <2>2 DEF JobType
  <2>4. job' = [job EXCEPT ![w] = new]
    BY <1>2, <2>1 DEF List
  <2> HIDE DEF new
  <2>5. job'[w] = new /\ job' \in [Workers -> JobType] /\ \A v \in Workers \ {w} : job'[v] = job[v]
    BY <2>3, <2>4, OneJob
  <2>6. stage'[w] = next /\ stage' \in [Workers -> Stages] /\ \A v \in Workers \ {w} : stage'[v] = stage[v]
    BY <1>2, OneStage, StageNames DEF List, Serving
  <2>7. \A a \in B : a \in job[w].batch \/ Retryable(a)
    BY <2>1
  <2> QED
    BY <1>2, <2>3, <2>5, <2>6, <2>7 DEF List, Collects, Apart
<1>3. CASE ListBudget(w) \/ ListApproval(w) \/ ListMcp(w) \/ ListAnomaly(w) \/ ListSiem(w)
  BY <1>2, <1>3, StageNames DEF ListBudget, ListApproval, ListMcp, ListAnomaly, ListSiem
<1> QED
  BY <1>1, <1>3 DEF Lists

LEMMA TurnServe ==
    ASSUME DeliveryInv, NEW w \in Workers, NEW s, Serve(w, s)
    PROVE  /\ Skips(w) \/ Takes(w)
           /\ Apart(w) /\ job' \in [Workers -> JobType] /\ stage' \in [Workers -> Stages]
<1>1. job[w] \in JobType
  BY RowsTyped
<1>2. PICK a \in job[w].left :
         \/ /\ Topic[a] \in job[w].subs[job[w].at] /\ ~Exhausted(a, job[w].at)
            /\ job' = [job EXCEPT ![w].left = @ \ {a}, ![w].alert = a] /\ Goto(w, "send")
         \/ /\ Topic[a] \notin job[w].subs[job[w].at] \/ Exhausted(a, job[w].at)
            /\ job' = [job EXCEPT ![w].left = @ \ {a}] /\ UNCHANGED stage
  BY DEF Serve, Upcoming
<1>3. a \in Alerts
  BY <1>1 DEF JobType
<1>4. CASE /\ ~Exhausted(a, job[w].at)
           /\ job' = [job EXCEPT ![w].left = @ \ {a}, ![w].alert = a] /\ Goto(w, "send")
  <2> DEFINE new == [job[w] EXCEPT !.left = @ \ {a}, !.alert = a]
  <2>1. /\ new \in JobType /\ new.left = job[w].left \ {a} /\ new.alert = a
        /\ new.subs = job[w].subs /\ new.at = job[w].at /\ new.batch = job[w].batch
    BY <1>1, <1>3 DEF JobType
  <2>2. job' = [job EXCEPT ![w] = new]
    BY <1>4
  <2> HIDE DEF new
  <2>3. job'[w] = new /\ job' \in [Workers -> JobType] /\ \A v \in Workers \ {w} : job'[v] = job[v]
    BY <2>1, <2>2, OneJob
  <2>4. stage'[w] = "send" /\ stage' \in [Workers -> Stages] /\ \A v \in Workers \ {w} : stage'[v] = stage[v]
    BY <1>4, OneStage, StageNames DEF Serving
  <2> QED
    BY <1>4, <2>1, <2>3, <2>4 DEF Serve, Takes, SameRound, Apart
<1>5. CASE /\ Topic[a] \notin job[w].subs[job[w].at] \/ Exhausted(a, job[w].at)
           /\ job' = [job EXCEPT ![w].left = @ \ {a}] /\ UNCHANGED stage
  <2> DEFINE new == [job[w] EXCEPT !.left = @ \ {a}]
  <2>1. /\ new \in JobType /\ new.left = job[w].left \ {a}
        /\ new.subs = job[w].subs /\ new.at = job[w].at /\ new.batch = job[w].batch
    BY <1>1, <1>3 DEF JobType
  <2>2. job' = [job EXCEPT ![w] = new]
    BY <1>5
  <2> HIDE DEF new
  <2>3. job'[w] = new /\ job' \in [Workers -> JobType] /\ \A v \in Workers \ {w} : job'[v] = job[v]
    BY <2>1, <2>2, OneJob
  <2> QED
    BY <1>5, <2>1, <2>3, RowsTyped DEF Serve, Skips, SameRound, Apart
<1> QED
  BY <1>2, <1>4, <1>5

LEMMA TurnDeliver ==
    ASSUME DeliveryInv, NEW w \in Workers, Send(w) \/ SendRaises(w) \/ Record(w) \/ Settle(w)
    PROVE  /\ Hears(w) \/ Ends(w) \/ Counts(w) \/ Marks(w)
           /\ Apart(w) /\ job' \in [Workers -> JobType] /\ stage' \in [Workers -> Stages]
<1>1. job[w] \in JobType
  BY RowsTyped
<1>2. CASE Send(w)
  <2>1. PICK ok \in BOOLEAN : job' = [job EXCEPT ![w].ok = ok]
    BY <1>2 DEF Send
  <2> DEFINE new == [job[w] EXCEPT !.ok = ok]
  <2>2. /\ new \in JobType /\ new.left = job[w].left /\ new.alert = job[w].alert
        /\ new.subs = job[w].subs /\ new.at = job[w].at /\ new.batch = job[w].batch
    BY <1>1 DEF JobType
  <2>3. job' = [job EXCEPT ![w] = new]
    BY <2>1
  <2> HIDE DEF new
  <2>4. job'[w] = new /\ job' \in [Workers -> JobType] /\ \A v \in Workers \ {w} : job'[v] = job[v]
    BY <2>2, <2>3, OneJob
  <2>5. stage'[w] = "record" /\ stage' \in [Workers -> Stages] /\ \A v \in Workers \ {w} : stage'[v] = stage[v]
    BY <1>2, OneStage, StageNames DEF Send, Serving
  <2> QED
    BY <1>2, <2>2, <2>4, <2>5 DEF Send, Hears, SameRound, Apart
<1>3. CASE SendRaises(w)
  <2>1. PICK s \in {"dead", "done"} : Goto(w, s)
    BY <1>3 DEF SendRaises
  <2>2. stage'[w] = s /\ stage' \in [Workers -> Stages] /\ \A v \in Workers \ {w} : stage'[v] = stage[v]
    BY <2>1, OneStage, StageNames
  <2>3. job'[w] = NoJob /\ job' \in [Workers -> JobType] /\ \A v \in Workers \ {w} : job'[v] = job[v]
    BY <1>3, OneJob, NoJobTyped DEF SendRaises
  <2> QED
    BY <1>3, <2>2, <2>3 DEF SendRaises, Ends, Apart
<1>4. CASE Record(w)
  <2>1. stage'[w] = "settle" /\ stage' \in [Workers -> Stages] /\ \A v \in Workers \ {w} : stage'[v] = stage[v]
    BY <1>4, OneStage, StageNames DEF Record, Serving
  <2> QED
    BY <1>4, <2>1, RowsTyped DEF Record, Counts, Apart
<1>5. CASE Settle(w)
  <2> DEFINE new == [job[w] EXCEPT !.alert = None, !.ok = FALSE]
  <2>1. /\ new \in JobType /\ new.left = job[w].left /\ new.alert = None
        /\ new.subs = job[w].subs /\ new.at = job[w].at /\ new.batch = job[w].batch
    BY <1>1 DEF JobType
  <2>2. job' = [job EXCEPT ![w] = new]
    BY <1>5 DEF Settle
  <2> HIDE DEF new
  <2>3. job'[w] = new /\ job' \in [Workers -> JobType] /\ \A v \in Workers \ {w} : job'[v] = job[v]
    BY <2>1, <2>2, OneJob
  <2>4. stage'[w] = "serve" /\ stage' \in [Workers -> Stages] /\ \A v \in Workers \ {w} : stage'[v] = stage[v]
    BY <1>5, OneStage, StageNames DEF Settle, Serving
  <2> QED
    BY <1>5, <2>1, <2>3, <2>4 DEF Settle, Marks, SameRound, Apart
<1> QED
  BY <1>2, <1>3, <1>4, <1>5

LEMMA TurnRound ==
    ASSUME DeliveryInv, NEW w \in Workers, NextEndpoint(w) \/ Finish(w)
    PROVE  /\ GoesOn(w) \/ Ends(w)
           /\ Apart(w) /\ job' \in [Workers -> JobType] /\ stage' \in [Workers -> Stages]
<1>1. job[w] \in JobType
  BY RowsTyped
<1>2. CASE NextEndpoint(w)
  <2> DEFINE new == [job[w] EXCEPT !.at = @ + 1, !.left = job[w].batch]
  <2>1. job[w].at + 1 \in Endpoints
    BY <1>1, <1>2, BoundsTyped DEF NextEndpoint, JobType, Endpoints
  <2>2. /\ new \in JobType /\ new.left = job[w].batch /\ new.at = job[w].at + 1
        /\ new.subs = job[w].subs /\ new.batch = job[w].batch
    BY <1>1, <2>1 DEF JobType
  <2>3. job' = [job EXCEPT ![w] = new]
    BY <1>2 DEF NextEndpoint
  <2> HIDE DEF new
  <2>4. job'[w] = new /\ job' \in [Workers -> JobType] /\ \A v \in Workers \ {w} : job'[v] = job[v]
    BY <2>2, <2>3, OneJob
  <2> QED
    BY <1>2, <2>2, <2>4, RowsTyped DEF NextEndpoint, RoundOver, GoesOn, Apart
<1>3. CASE Finish(w)
  <2>1. PICK s \in {"idle", "done"} : Goto(w, s)
    BY <1>3 DEF Finish
  <2>2. stage'[w] = s /\ stage' \in [Workers -> Stages] /\ \A v \in Workers \ {w} : stage'[v] = stage[v]
    BY <2>1, OneStage, StageNames
  <2>3. job'[w] = NoJob /\ job' \in [Workers -> JobType] /\ \A v \in Workers \ {w} : job'[v] = job[v]
    BY <1>3, OneJob, NoJobTyped DEF Finish
  <2> QED
    BY <1>3, <2>2, <2>3 DEF Finish, RoundOver, Ends, Apart
<1> QED
  BY <1>2, <1>3

LEMMA TurnsTurn ==
    ASSUME DeliveryInv, NEW w \in Workers, Turns(w)
    PROVE  Turn(w) /\ Apart(w) /\ job' \in [Workers -> JobType] /\ stage' \in [Workers -> Stages]
<1>1. CASE (Wake /\ w = Thread) \/ (Call(w) /\ w \in Admins)
  BY <1>1, TurnStart DEF Turn
<1>2. CASE Lists(w)
  BY <1>2, TurnList DEF Turn
<1>3. CASE Serves(w)
  BY <1>3, TurnServe DEF Turn, Serves, ServeBudget, ServeApproval, ServeMcp, ServeAnomaly, ServeSiem
<1>4. CASE Send(w) \/ SendRaises(w) \/ Record(w) \/ Settle(w)
  BY <1>4, TurnDeliver DEF Turn
<1>5. CASE NextEndpoint(w) \/ Finish(w)
  BY <1>5, TurnRound DEF Turn
<1> QED
  BY <1>1, <1>2, <1>3, <1>4, <1>5 DEF Turns, Cycle

----------------------------------------------------------------------------
(* Types, and attempts that are never taken back.                          *)

AttemptsGrow ==
    \A a \in Alerts, e \in Endpoints : /\ attempts'[a][e].good >= attempts[a][e].good
                                      /\ attempts'[a][e].bad >= attempts[a][e].bad

\* The one row an attempt is counted in.
LEMMA RecordCounts ==
    ASSUME DeliveryInv, NEW w \in Workers, Record(w)
    PROVE  LET a == job[w].alert
               e == job[w].at IN
           /\ attempts' \in [Alerts -> [Endpoints -> [good : Nat, bad : Nat]]]
           /\ a \in Alerts /\ e \in Endpoints
           /\ \A b \in Alerts, f \in Endpoints : ~(b = a /\ f = e) => attempts'[b][f] = attempts[b][f]
           /\ job[w].ok => /\ attempts'[a][e].good = attempts[a][e].good + 1
                           /\ attempts'[a][e].bad = attempts[a][e].bad
           /\ ~job[w].ok => /\ attempts'[a][e].good = attempts[a][e].good
                            /\ attempts'[a][e].bad = attempts[a][e].bad + 1
<1>1. PICK a, e : a = job[w].alert /\ e = job[w].at
  OBVIOUS
<1>2. job[w] \in JobType /\ attempts \in [Alerts -> [Endpoints -> [good : Nat, bad : Nat]]]
  BY RowsTyped
<1>3. job[w].batch \subseteq Alerts /\ e \in Endpoints
  BY <1>1, <1>2 DEF JobType
<1>4. a \in job[w].batch
  BY <1>1 DEF Record, DeliveryInv, Shape, Delivery
<1>5. a \in Alerts
  BY <1>3, <1>4
<1>6. attempts[a] \in [Endpoints -> [good : Nat, bad : Nat]] /\ attempts[a][e] \in [good : Nat, bad : Nat]
  BY <1>2, <1>3, <1>5
<1>7. PICK n : n = IF job[w].ok THEN [attempts[a][e] EXCEPT !.good = @ + 1] ELSE [attempts[a][e] EXCEPT !.bad = @ + 1]
  OBVIOUS
<1>8. /\ n \in [good : Nat, bad : Nat]
      /\ job[w].ok => n.good = attempts[a][e].good + 1 /\ n.bad = attempts[a][e].bad
      /\ ~job[w].ok => n.good = attempts[a][e].good /\ n.bad = attempts[a][e].bad + 1
  BY <1>6, <1>7
<1>9. attempts' = [attempts EXCEPT ![a] = [attempts[a] EXCEPT ![e] = n]]
  <2>1. CASE job[w].ok
    BY <1>1, <1>7, <2>1 DEF Record
  <2>2. CASE ~job[w].ok
    BY <1>1, <1>7, <2>2 DEF Record
  <2> QED
    BY <2>1, <2>2
<1>10. PICK row : row = [attempts[a] EXCEPT ![e] = n]
  OBVIOUS
<1>11. /\ row \in [Endpoints -> [good : Nat, bad : Nat]] /\ row[e] = n
       /\ \A f \in Endpoints \ {e} : row[f] = attempts[a][f]
  BY <1>3, <1>6, <1>8, <1>10
<1>12. attempts' = [attempts EXCEPT ![a] = row]
  BY <1>9, <1>10
<1>13. /\ attempts' \in [Alerts -> [Endpoints -> [good : Nat, bad : Nat]]] /\ attempts'[a] = row
       /\ \A b \in Alerts \ {a} : attempts'[b] = attempts[b]
  BY <1>2, <1>5, <1>11, <1>12
<1>14. \A b \in Alerts, f \in Endpoints : ~(b = a /\ f = e) => attempts'[b][f] = attempts[b][f]
  BY <1>11, <1>13
<1>15. attempts'[a][e] = n
  BY <1>11, <1>13
<1> QED
  BY <1>1, <1>3, <1>5, <1>8, <1>13, <1>14, <1>15

LEMMA AttemptsKept == ASSUME DeliveryInv, UNCHANGED attempts PROVE AttemptsGrow
<1>1. \A a \in Alerts, e \in Endpoints : attempts[a][e].good \in Nat /\ attempts[a][e].bad \in Nat
  BY RowsTyped
<1> QED
  BY <1>1 DEF AttemptsGrow

LEMMA RecordGrows == ASSUME DeliveryInv, NEW w \in Workers, Record(w) PROVE AttemptsGrow
<1>1. \A a \in Alerts, e \in Endpoints : attempts[a][e].good \in Nat /\ attempts[a][e].bad \in Nat
  BY RowsTyped
<1>2. PICK a, e : a = job[w].alert /\ e = job[w].at
  OBVIOUS
<1>3. /\ \A b \in Alerts, f \in Endpoints : ~(b = a /\ f = e) => attempts'[b][f] = attempts[b][f]
      /\ a \in Alerts /\ e \in Endpoints
      /\ attempts'[a][e].good \in {attempts[a][e].good, attempts[a][e].good + 1}
      /\ attempts'[a][e].bad \in {attempts[a][e].bad, attempts[a][e].bad + 1}
  BY <1>2, RecordCounts
<1>4. ASSUME NEW b \in Alerts, NEW f \in Endpoints
      PROVE  attempts'[b][f].good >= attempts[b][f].good /\ attempts'[b][f].bad >= attempts[b][f].bad
  <2>1. CASE b = a /\ f = e
    BY <1>1, <1>3, <2>1
  <2>2. CASE ~(b = a /\ f = e)
    BY <1>1, <1>3, <2>2
  <2> QED
    BY <2>1, <2>2
<1> QED
  BY <1>4 DEF AttemptsGrow

\* A worker's turn leaves the rows with their types and the scene alone.
LEMMA TurnTyped ==
    ASSUME DeliveryInv, NEW w \in Workers, Turns(w)
    PROVE  TypeOK' /\ AttemptsGrow /\ scene' = scene
<1>1. Turn(w) /\ job' \in [Workers -> JobType] /\ stage' \in [Workers -> Stages]
  BY TurnsTurn
<1>2. /\ outbox \in [Alerts -> Status \cup {None}] /\ wants \in [Endpoints -> SUBSET Topics]
      /\ attempts \in [Alerts -> [Endpoints -> [good : Nat, bad : Nat]]]
      /\ holders \in [Alerts -> SUBSET Workers]
      /\ booking \in [Payments -> {"scored", "alerted", "exported", "lost"}]
      /\ edits \in 0..scene.edits /\ restarts \in 0..scene.restarts /\ scene \in Scenes
  BY DEF DeliveryInv, TypeOK
<1>3. CASE UNCHANGED <<tables, others>>
  BY <1>1, <1>2, <1>3, AttemptsKept DEF TypeOK, tables, others
<1>4. CASE Rereads(w)
  BY <1>1, <1>2, <1>4, AttemptsKept DEF Rereads, TypeOK, tables
<1>5. CASE Counts(w)
  <2>1. Record(w) /\ UNCHANGED <<outbox, wants, others>>
    BY <1>5 DEF Counts, Record
  <2>2. attempts' \in [Alerts -> [Endpoints -> [good : Nat, bad : Nat]]]
    BY <2>1, RecordCounts
  <2> QED
    BY <1>1, <1>2, <2>1, <2>2, RecordGrows DEF TypeOK, others
<1>6. CASE Marks(w)
  <2>1. Verdict(w) \in Status /\ UNCHANGED <<wants, attempts, others>>
    BY <1>6 DEF Verdict, Status, Marks
  <2>2. outbox' \in [Alerts -> Status \cup {None}]
    BY <1>2, <1>6, <2>1 DEF Marks
  <2> QED
    BY <1>1, <1>2, <2>1, <2>2, AttemptsKept DEF TypeOK, others
<1> QED
  BY <1>1, <1>3, <1>4, <1>5, <1>6
     DEF Turn, Starts, Collects, Skips, Takes, Hears, GoesOn, Ends

----------------------------------------------------------------------------
(* The copies: what the worker that moves, and the others, keep.           *)

LEMMA TriesGrow ==
    ASSUME DeliveryInv, AttemptsGrow, TypeOK', NEW a \in Alerts, NEW e \in Endpoints
    PROVE  Tries(a, e) \in Nat /\ Tries(a, e)' \in Nat /\ Tries(a, e)' >= Tries(a, e)
<1>1. /\ attempts[a][e] \in [good : Nat, bad : Nat]
      /\ attempts'[a][e] \in [good : Nat, bad : Nat]
  BY RowsTyped DEF TypeOK
<1> QED
  BY <1>1 DEF AttemptsGrow, Tries

LEMMA BystanderCopies ==
    ASSUME DeliveryInv, AttemptsGrow, TypeOK', scene' = scene,
           NEW v \in Workers, stage'[v] = stage[v], job'[v] = job[v]
    PROVE  Shape(v)' /\ Answered(v)' /\ Rounds(v)'
<1>1. Shape(v) /\ Answered(v) /\ Rounds(v) /\ job[v] \in JobType
  BY RowsTyped DEF DeliveryInv
<1>2. Shape(v)'
  BY <1>1 DEF Shape, Crew
<1>3. Answered(v)'
  <2>1. CASE stage[v] = "settle"
    <3>1. PICK a, e : a = job[v].alert /\ e = job[v].at
      OBVIOUS
    <3>2. a \in Alerts /\ e \in Endpoints
      BY <1>1, <2>1, <3>1 DEF Shape, Delivery, JobType
    <3>3. /\ attempts[a][e] \in [good : Nat, bad : Nat] /\ attempts'[a][e] \in [good : Nat, bad : Nat]
      BY <3>2, RowsTyped DEF TypeOK
    <3>4. attempts'[a][e].good >= attempts[a][e].good /\ attempts'[a][e].bad >= attempts[a][e].bad
      BY <3>2 DEF AttemptsGrow
    <3>5. /\ job[v].ok => attempts[a][e].good > 0
          /\ ~job[v].ok => attempts[a][e].bad > 0
      BY <1>1, <2>1, <3>1 DEF Answered
    <3>6. /\ job[v].ok => attempts'[a][e].good > 0
          /\ ~job[v].ok => attempts'[a][e].bad > 0
      BY <3>3, <3>4, <3>5
    <3> QED
      BY <3>1, <3>6 DEF Answered
  <2>2. CASE stage[v] # "settle"
    BY <2>2 DEF Answered
  <2> QED
    BY <2>1, <2>2
<1>4. Rounds(v)'
  <2>1. \A a \in Alerts, e \in Endpoints : Through(v, a, e)' => Through(v, a, e)
    BY DEF Through
  <2>2. \A a \in Alerts, e \in Endpoints : Tries(a, e) > 0 => Tries(a, e)' > 0
    BY TriesGrow
  <2> QED
    BY <1>1, <2>1, <2>2 DEF Rounds
<1> QED
  BY <1>2, <1>3, <1>4

LEMMA MoverShape ==
    ASSUME DeliveryInv, NEW w \in Workers, Turns(w)
    PROVE  Shape(w)'
<1>1. Turn(w) /\ scene' = scene
  BY TurnsTurn, TurnTyped
<1>2. Shape(w) /\ job[w] \in JobType
  BY RowsTyped DEF DeliveryInv
<1>3. LaterListing = {"budget", "approval", "mcp", "anomaly", "siem"} /\ Delivery = {"send", "record", "settle"}
  BY StageNames DEF Delivery
<1>4. Crew' = Crew
  BY <1>1 DEF Crew
<1>5. job'[w].left \subseteq job'[w].batch
  BY <1>1, <1>2, NoJobTyped
     DEF Turn, Starts, Rereads, Collects, Skips, Takes, Hears, Counts, Marks, GoesOn, Ends, SameRound, Shape
<1>6. stage'[w] \in Delivery => job'[w].alert \in job'[w].batch
  BY <1>1, <1>2, <1>3
     DEF Turn, Starts, Rereads, Collects, Skips, Takes, Hears, Counts, Marks, GoesOn, Ends, SameRound, Shape
<1>7. stage'[w] \in LaterListing => job'[w].at = 1
  BY <1>1, <1>2, <1>3
     DEF Turn, Starts, Rereads, Collects, Skips, Takes, Hears, Counts, Marks, GoesOn, Ends, Shape
<1>8. w \in Crew
  BY <1>1, <1>2, <1>3
     DEF Turn, Starts, Rereads, Collects, Skips, Takes, Hears, Counts, Marks, GoesOn, Ends, Shape
<1> QED
  BY <1>4, <1>5, <1>6, <1>7, <1>8 DEF Shape

LEMMA MoverAnswered ==
    ASSUME DeliveryInv, NEW w \in Workers, Turns(w)
    PROVE  Answered(w)'
<1>1. Turn(w)
  BY TurnsTurn
<1>2. CASE stage'[w] # "settle"
  BY <1>2 DEF Answered
<1>3. CASE Counts(w)
  <2>1. PICK a, e : a = job[w].alert /\ e = job[w].at
    OBVIOUS
  <2>2. /\ a \in Alerts /\ e \in Endpoints
        /\ job[w].ok => attempts'[a][e].good = attempts[a][e].good + 1
        /\ ~job[w].ok => attempts'[a][e].bad = attempts[a][e].bad + 1
    BY <1>3, <2>1, RecordCounts DEF Counts
  <2>3. attempts[a][e] \in [good : Nat, bad : Nat]
    BY <2>2, RowsTyped
  <2>4. /\ job[w].ok => attempts'[a][e].good > 0
        /\ ~job[w].ok => attempts'[a][e].bad > 0
    BY <2>2, <2>3
  <2> QED
    BY <1>3, <2>1, <2>4 DEF Answered, Counts
<1>4. "settle" \notin LaterListing \cup {"serve"}
  BY StageNames
<1> QED
  BY <1>1, <1>2, <1>3, <1>4
     DEF Turn, Starts, Rereads, Collects, Skips, Takes, Hears, Marks, GoesOn, Ends

\* An alert is through with an endpoint when it was tried there, when nobody
\* there wants it, or when the attempts at the endpoint are used up.
LEMMA MoverRounds ==
    ASSUME DeliveryInv, NEW w \in Workers, Turns(w)
    PROVE  Rounds(w)'
<1>1. Turn(w) /\ TypeOK' /\ AttemptsGrow
  BY TurnsTurn, TurnTyped
<1>2. Shape(w) /\ Rounds(w) /\ job[w] \in JobType /\ job'[w] \in JobType
  BY <1>1, RowsTyped DEF DeliveryInv, TypeOK
<1>3. \A e \in Endpoints : e \in Int /\ e >= 1
  BY DEF Endpoints
<1> SUFFICES ASSUME NEW a \in Alerts, NEW e \in Endpoints, Through(w, a, e)', Topic[a] \in job'[w].subs[e]
             PROVE  Tries(a, e)' > 0
  BY DEF Rounds
<1>4. Tries(a, e) \in Nat /\ Tries(a, e)' \in Nat /\ Tries(a, e)' >= Tries(a, e)
  BY <1>1, TriesGrow
<1>5. ASSUME Through(w, a, e), job'[w].subs = job[w].subs PROVE Tries(a, e)' > 0
  BY <1>2, <1>4, <1>5 DEF Rounds
<1>6. CASE Starts(w)
  <2>1. Through(w, a, e)
    BY <1>6 DEF Starts, Through
  <2> QED
    BY <1>5, <1>6, <2>1 DEF Starts
<1>7. CASE Rereads(w) \/ Ends(w)
  <2>1. job'[w].batch = {}
    BY <1>7, NoJobTyped DEF Rereads, Ends
  <2> QED
    BY <2>1 DEF Through
<1>8. CASE Collects(w)
  <2>1. job'[w].at = 1 /\ job'[w].left = job'[w].batch
    BY <1>2, <1>8 DEF Collects, Shape
  <2> QED
    BY <1>3, <2>1 DEF Through
<1>9. CASE Skips(w)
  <2>1. PICK b \in job[w].left :
           /\ job'[w].left = job[w].left \ {b}
           /\ Topic[b] \notin job[w].subs[job[w].at] \/ Exhausted(b, job[w].at)
    BY <1>9 DEF Skips
  <2>4. SameRound(w) /\ stage[w] = "serve"
    BY <1>9 DEF Skips
  <2>2. CASE a = b /\ e = job[w].at
    <3>1. Exhausted(a, e)
      BY <2>1, <2>2, <2>4 DEF SameRound
    <3>2. Tries(a, e) >= scene.attempts /\ scene.attempts \in Nat \ {0}
      BY <3>1, RowsTyped DEF Exhausted
    <3> QED
      BY <1>4, <3>2
  <2>3. CASE ~(a = b /\ e = job[w].at)
    <3>1. Through(w, a, e)
      BY <2>1, <2>3, <2>4 DEF SameRound, Through
    <3> QED
      BY <1>5, <2>4, <3>1 DEF SameRound
  <2> QED
    BY <2>2, <2>3
<1>10. CASE Takes(w)
  <2>1. Through(w, a, e)
    BY <1>10 DEF Takes, SameRound, Through
  <2> QED
    BY <1>5, <1>10, <2>1 DEF Takes, SameRound
<1>11. CASE Hears(w)
  <2>1. Through(w, a, e)
    BY <1>11 DEF Hears, SameRound, Through
  <2> QED
    BY <1>5, <1>11, <2>1 DEF Hears, SameRound
<1>12. CASE Counts(w)
  <2>1. CASE a = job[w].alert /\ e = job[w].at
    <3>1. \/ attempts'[a][e].good = attempts[a][e].good + 1 /\ attempts'[a][e].bad = attempts[a][e].bad
          \/ attempts'[a][e].good = attempts[a][e].good /\ attempts'[a][e].bad = attempts[a][e].bad + 1
      BY <1>12, <2>1, RecordCounts DEF Counts
    <3>2. attempts[a][e] \in [good : Nat, bad : Nat]
      BY RowsTyped
    <3> QED
      BY <3>1, <3>2 DEF Tries
  <2>2. CASE ~(a = job[w].alert /\ e = job[w].at)
    <3>1. Through(w, a, e)
      BY <1>12, <2>2 DEF Counts, Through
    <3> QED
      BY <1>5, <1>12, <3>1 DEF Counts
  <2> QED
    BY <2>1, <2>2
<1>13. CASE Marks(w)
  <2>1. Through(w, a, e)
    BY <1>13 DEF Marks, SameRound, Through
  <2> QED
    BY <1>5, <1>13, <2>1 DEF Marks, SameRound
<1>14. CASE GoesOn(w)
  <2>1. job[w].at \in Int
    BY <1>2, <1>3 DEF JobType
  <2>2. a \in job[w].batch /\ e < job[w].at + 1
    BY <1>14 DEF GoesOn, Through
  <2>3. e < job[w].at \/ e = job[w].at
    BY <1>3, <2>1, <2>2
  <2>4. Through(w, a, e)
    BY <1>14, <2>2, <2>3 DEF GoesOn, Through
  <2> QED
    BY <1>5, <1>14, <2>4 DEF GoesOn
<1> QED
  BY <1>1, <1>6, <1>7, <1>8, <1>9, <1>10, <1>11, <1>12, <1>13, <1>14 DEF Turn

----------------------------------------------------------------------------
(* The tables: what the status of an alert says, and who holds it.         *)

LEMMA StillConfirmed ==
    ASSUME DeliveryInv, AttemptsGrow, TypeOK', NEW a \in Alerts,
           outbox'[a] \in {"delivered", "failed"} => outbox'[a] = outbox[a]
    PROVE  Confirmed(a)'
<1>1. Confirmed(a)
  BY DEF DeliveryInv
<1>2. \A e \in Endpoints : /\ attempts[a][e].good > 0 => attempts'[a][e].good > 0
                           /\ attempts[a][e].bad > 0 => attempts'[a][e].bad > 0
  <2>1. \A e \in Endpoints : /\ attempts[a][e] \in [good : Nat, bad : Nat]
                             /\ attempts'[a][e] \in [good : Nat, bad : Nat]
    BY RowsTyped DEF TypeOK
  <2> QED
    BY <2>1 DEF AttemptsGrow
<1> QED
  BY <1>1, <1>2 DEF Confirmed

LEMMA TurnConfirmed ==
    ASSUME DeliveryInv, NEW w \in Workers, Turns(w), NEW a \in Alerts
    PROVE  Confirmed(a)'
<1>1. Turn(w) /\ TypeOK' /\ AttemptsGrow
  BY TurnsTurn, TurnTyped
<1>2. CASE UNCHANGED outbox
  BY <1>1, <1>2, StillConfirmed
<1>3. CASE Marks(w)
  <2>1. job[w] \in JobType /\ outbox \in [Alerts -> Status \cup {None}]
    BY RowsTyped
  <2>2. CASE a # job[w].alert
    BY <1>1, <1>3, <2>1, <2>2, StillConfirmed DEF Marks
  <2>3. CASE a = job[w].alert
    <3>1. outbox'[a] = Verdict(w)
      BY <1>3, <2>1, <2>3 DEF Marks
    <3>2. PICK e \in Endpoints : e = job[w].at
      BY <2>1 DEF JobType
    <3>3. /\ job[w].ok => attempts[a][e].good > 0
          /\ ~job[w].ok => attempts[a][e].bad > 0
      BY <1>3, <2>3, <3>2 DEF DeliveryInv, Answered, Marks
    <3>4. attempts' = attempts
      BY <1>3 DEF Marks
    <3>5. CASE job[w].ok
      <4>1. outbox'[a] = "delivered"
        BY <3>1, <3>5 DEF Verdict
      <4> QED
        BY <3>3, <3>4, <3>5, <4>1 DEF Confirmed
    <3>6. CASE ~job[w].ok
      <4>1. outbox'[a] = "failed"
        BY <3>1, <3>6 DEF Verdict
      <4> QED
        BY <3>3, <3>4, <3>6, <4>1 DEF Confirmed
    <3> QED
      BY <3>5, <3>6
  <2> QED
    BY <2>2, <2>3
<1>4. Counts(w) => UNCHANGED outbox
  BY DEF Counts, Record
<1> QED
  BY <1>1, <1>2, <1>3, <1>4
     DEF Turn, Starts, Rereads, Collects, Skips, Takes, Hears, GoesOn, Ends, tables

LEMMA TurnHeld ==
    ASSUME DeliveryInv, NEW w \in Workers, Turns(w), NEW v \in Workers, NEW a \in Alerts
    PROVE  Held(v, a)'
<1>1. Turn(w) /\ Apart(w)
  BY TurnsTurn
<1>2. Held(v, a) /\ holders \in [Alerts -> SUBSET Workers] /\ outbox \in [Alerts -> Status \cup {None}]
  BY RowsTyped DEF DeliveryInv
<1> SUFFICES ASSUME outbox'[a] = "acknowledged", a \in job'[v].batch PROVE v \in holders'[a]
  BY DEF Held
<1>3. outbox[a] = "acknowledged"
  <2>1. CASE Marks(w)
    <3>1. Verdict(w) # "acknowledged"
      BY DEF Verdict
    <3> QED
      BY <1>2, <2>1, <3>1 DEF Marks
  <2>2. CASE ~Marks(w)
    BY <1>1, <2>2
       DEF Turn, Starts, Rereads, Collects, Skips, Takes, Hears, Counts, Record, GoesOn, Ends, tables
  <2> QED
    BY <2>1, <2>2
<1>4. CASE Rereads(w)
  <2>1. v # w
    BY <1>4 DEF Rereads
  <2>2. v \in holders[a]
    BY <1>1, <1>2, <1>3, <2>1 DEF Apart, Held
  <2>3. holders'[a] = holders[a] \ {w}
    BY <1>4 DEF Rereads
  <2> QED
    BY <2>1, <2>2, <2>3
<1>5. CASE ~Rereads(w)
  <2>1. holders' = holders
    BY <1>1, <1>5
       DEF Turn, Starts, Collects, Skips, Takes, Hears, Counts, Record, Marks, GoesOn, Ends, others
  <2>2. CASE v # w
    BY <1>1, <1>2, <1>3, <2>1, <2>2 DEF Apart, Held
  <2>3. CASE v = w
    <3>1. a \in job[w].batch
      BY <1>1, <1>3, <1>5, <2>3, NoJobTyped
         DEF Turn, Starts, Collects, Skips, Takes, Hears, Counts, Marks, GoesOn, Ends, SameRound, Retryable
    <3> QED
      BY <1>2, <1>3, <2>1, <2>3, <3>1 DEF Held
  <2> QED
    BY <2>2, <2>3
<1> QED
  BY <1>4, <1>5

----------------------------------------------------------------------------
(* Counting: attempts on record and attempts under way.                    *)

LEMMA CrewFinite ==
    ASSUME DeliveryInv
    PROVE  IsFiniteSet(Crew) /\ Cardinality(Crew) \in Nat /\ Cardinality(Crew) >= 1
<1>1. IsFiniteSet(scene.admins)
  BY RowsTyped, AdminsFinite, FS_Subset
<1>2. Crew = scene.admins \cup {Thread}
  BY DEF Crew
<1>3. IsFiniteSet(Crew)
  BY <1>1, <1>2, FS_AddElement
<1>4. Cardinality(Crew) \in Nat /\ Cardinality(Crew) # 0
  BY <1>2, <1>3, FS_CardinalityType, FS_EmptySet
<1> QED
  BY <1>3, <1>4

LEMMA SendersFinite ==
    ASSUME DeliveryInv, NEW a \in Alerts, NEW e \in Endpoints
    PROVE  /\ IsFiniteSet(Senders(a, e)) /\ Cardinality(Senders(a, e)) \in Nat
           /\ Cardinality(Senders(a, e)) <= Cardinality(Crew)
<1>1. Senders(a, e) \subseteq Crew
  BY DEF DeliveryInv, Shape, Senders
<1> QED
  BY <1>1, CrewFinite, FS_Subset, FS_CardinalityType

LEMMA BoundKept ==
    ASSUME DeliveryInv, TypeOK', AttemptsGrow, scene' = scene, NEW a \in Alerts, NEW e \in Endpoints,
           Tries(a, e)' = Tries(a, e), Senders(a, e)' \subseteq Senders(a, e)
    PROVE  Bounded(a, e)'
<1>1. Cardinality(Senders(a, e)') <= Cardinality(Senders(a, e)) /\ Cardinality(Senders(a, e)') \in Nat
  BY SendersFinite, FS_Subset, FS_CardinalityType
<1>2. Cardinality(Senders(a, e)) \in Nat /\ Tries(a, e) \in Nat /\ Cardinality(Crew) \in Nat /\ scene.attempts \in Nat
  BY SendersFinite, TriesGrow, CrewFinite, RowsTyped
<1>3. Bounded(a, e)
  BY DEF DeliveryInv
<1>4. Crew' = Crew /\ scene'.attempts = scene.attempts
  BY DEF Crew
<1>5. Tries(a, e)' + Cardinality(Senders(a, e)') <= scene.attempts + Cardinality(Crew) - 1
  BY <1>1, <1>2, <1>3 DEF Bounded
<1> QED
  BY <1>4, <1>5 DEF Bounded

LEMMA TurnBounded ==
    ASSUME DeliveryInv, NEW w \in Workers, Turns(w), NEW a \in Alerts, NEW e \in Endpoints
    PROVE  Bounded(a, e)'
<1>1. Turn(w) /\ Apart(w) /\ TypeOK' /\ AttemptsGrow /\ scene' = scene
  BY TurnsTurn, TurnTyped
<1>2. /\ Cardinality(Senders(a, e)) \in Nat /\ Tries(a, e) \in Nat /\ Tries(a, e)' \in Nat
      /\ Cardinality(Crew) \in Nat /\ Cardinality(Crew) >= 1 /\ scene.attempts \in Nat
  BY <1>1, SendersFinite, TriesGrow, CrewFinite, RowsTyped
<1>3. Crew' = Crew /\ scene'.attempts = scene.attempts
  BY <1>1 DEF Crew
<1>4. Bounded(a, e)
  BY DEF DeliveryInv
<1>5. CASE Takes(w) /\ job'[w].alert = a /\ job[w].at = e
  <2>1. Tries(a, e) < scene.attempts
    BY <1>2, <1>5 DEF Takes, Exhausted
  <2>2. Tries(a, e)' = Tries(a, e)
    BY <1>5 DEF Takes, Tries, tables
  <2>3. \A v \in Workers : Shape(v)'
    BY <1>1, MoverShape, BystanderCopies DEF Apart
  <2>4. Senders(a, e)' \subseteq Crew
    BY <1>3, <2>3 DEF Shape, Senders
  <2>5. Cardinality(Senders(a, e)') <= Cardinality(Crew) /\ Cardinality(Senders(a, e)') \in Nat
    BY <2>4, CrewFinite, FS_Subset, FS_CardinalityType
  <2>6. Tries(a, e)' + Cardinality(Senders(a, e)') <= scene.attempts + Cardinality(Crew) - 1
    BY <1>2, <2>1, <2>2, <2>5
  <2> QED
    BY <1>3, <2>6 DEF Bounded
<1>6. CASE Counts(w) /\ job[w].alert = a /\ job[w].at = e
  <2>1. w \in Senders(a, e)
    BY <1>6 DEF Counts, Senders
  <2>2. Senders(a, e)' = Senders(a, e) \ {w}
    BY <1>1, <1>6 DEF Counts, Senders, Apart
  <2>3. Cardinality(Senders(a, e)') = Cardinality(Senders(a, e)) - 1
    BY <2>1, <2>2, SendersFinite, FS_RemoveElement
  <2>4. \/ attempts'[a][e].good = attempts[a][e].good + 1 /\ attempts'[a][e].bad = attempts[a][e].bad
        \/ attempts'[a][e].good = attempts[a][e].good /\ attempts'[a][e].bad = attempts[a][e].bad + 1
    BY <1>6, RecordCounts DEF Counts
  <2>5. attempts[a][e] \in [good : Nat, bad : Nat]
    BY RowsTyped
  <2>6. Tries(a, e)' = Tries(a, e) + 1
    BY <2>4, <2>5 DEF Tries
  <2>7. Tries(a, e)' + Cardinality(Senders(a, e)') <= scene.attempts + Cardinality(Crew) - 1
    BY <1>2, <1>4, <2>3, <2>6 DEF Bounded
  <2> QED
    BY <1>3, <2>7 DEF Bounded
<1>7. CASE ~(Takes(w) /\ job'[w].alert = a /\ job[w].at = e) /\ ~(Counts(w) /\ job[w].alert = a /\ job[w].at = e)
  <2>1. Tries(a, e)' = Tries(a, e)
    <3>1. CASE Counts(w)
      <4>1. attempts'[a][e] = attempts[a][e]
        BY <1>7, <3>1, RecordCounts DEF Counts
      <4> QED
        BY <4>1 DEF Tries
    <3>2. CASE ~Counts(w)
      <4>1. attempts' = attempts
        BY <1>1, <3>2
           DEF Turn, Starts, Rereads, Collects, Skips, Takes, Hears, Marks, GoesOn, Ends, tables
      <4> QED
        BY <4>1 DEF Tries
    <3> QED
      BY <3>1, <3>2
  <2>2. stage'[w] \in {"send", "record"} /\ job'[w].alert = a /\ job'[w].at = e => w \in Senders(a, e)
    BY <1>1, <1>7, StageNames
       DEF Turn, Starts, Rereads, Collects, Skips, Takes, Hears, Counts, Marks, GoesOn, Ends, SameRound, Senders
  <2>3. Senders(a, e)' \subseteq Senders(a, e)
    BY <1>1, <2>2 DEF Apart, Senders
  <2> QED
    BY <1>1, <2>1, <2>3, BoundKept
<1> QED
  BY <1>5, <1>6, <1>7

LEMMA TurnKeeps ==
    ASSUME DeliveryInv, NEW w \in Workers, Turns(w)
    PROVE  DeliveryInv'
<1>1. Apart(w) /\ TypeOK' /\ AttemptsGrow /\ scene' = scene
  BY TurnsTurn, TurnTyped
<1>2. ASSUME NEW v \in Workers PROVE Shape(v)' /\ Answered(v)' /\ Rounds(v)'
  BY <1>1, BystanderCopies, MoverShape, MoverAnswered, MoverRounds DEF Apart
<1>3. ASSUME NEW a \in Alerts PROVE Confirmed(a)'
  BY TurnConfirmed
<1>4. ASSUME NEW a \in Alerts, NEW v \in Workers PROVE Held(v, a)'
  BY TurnHeld
<1>5. ASSUME NEW a \in Alerts, NEW e \in Endpoints PROVE Bounded(a, e)'
  BY TurnBounded
<1> QED
  BY <1>1, <1>2, <1>3, <1>4, <1>5 DEF DeliveryInv

----------------------------------------------------------------------------
(* The handlers that fill the outboxes and acknowledge, and restarts.      *)

Enqueues == \/ EnqueueBudget \/ EnqueueMcp \/ EnqueueApproval
            \/ \E p \in Payments : EnqueueAnomaly(p) \/ EnqueueExport(p)
Acks == AckBudget \/ AckApproval \/ AckMcp \/ AckAnomaly

\* What a handler may do to the row of an alert.
Filled(a) == /\ outbox'[a] = outbox[a] \/ (outbox[a] = None /\ outbox'[a] = "pending")
             /\ holders'[a] = holders[a]
Acked(a) == /\ outbox'[a] = "acknowledged"
            /\ holders'[a] = {w \in Workers : a \in job[w].batch}

LEMMA HandlersKeep ==
    ASSUME DeliveryInv, TypeOK', UNCHANGED <<stage, job, attempts, scene>>,
           \A a \in Alerts : Filled(a) \/ Acked(a)
    PROVE  DeliveryInv'
<1>1. AttemptsGrow
  BY AttemptsKept
<1>2. ASSUME NEW v \in Workers PROVE Shape(v)' /\ Answered(v)' /\ Rounds(v)'
  BY <1>1, BystanderCopies
<1>3. ASSUME NEW a \in Alerts PROVE Confirmed(a)'
  BY <1>1, StillConfirmed DEF Filled, Acked
<1>4. ASSUME NEW a \in Alerts, NEW v \in Workers PROVE Held(v, a)'
  <2>1. Held(v, a)
    BY DEF DeliveryInv
  <2> QED
    BY <2>1 DEF Held, Filled, Acked
<1>5. ASSUME NEW a \in Alerts, NEW e \in Endpoints PROVE Bounded(a, e)'
  <2>1. Tries(a, e)' = Tries(a, e) /\ Senders(a, e)' = Senders(a, e)
    BY DEF Tries, Senders
  <2> QED
    BY <1>1, <2>1, BoundKept
<1> QED
  BY <1>2, <1>3, <1>4, <1>5 DEF DeliveryInv

LEMMA InsertFills ==
    ASSUME DeliveryInv, NEW S, Insert(S)
    PROVE  /\ outbox' \in [Alerts -> Status \cup {None}]
           /\ \A a \in Alerts : outbox'[a] = outbox[a] \/ (outbox[a] = None /\ outbox'[a] = "pending")
  BY RowsTyped DEF Insert, Status

LEMMA EnqueueKeeps == ASSUME DeliveryInv, Enqueues PROVE DeliveryInv'
<1>1. PICK S : Insert(S)
  BY DEF Enqueues, EnqueueBudget, EnqueueMcp, EnqueueApproval, EnqueueAnomaly, EnqueueExport
<1>2. UNCHANGED <<wants, attempts, stage, job, edits, restarts, scene, holders>>
  BY DEF Enqueues, EnqueueBudget, EnqueueMcp, EnqueueApproval, EnqueueAnomaly, EnqueueExport, Elsewhere, others
<1>3. booking \in [Payments -> {"scored", "alerted", "exported", "lost"}]
  BY DEF DeliveryInv, TypeOK
<1>4. booking' \in [Payments -> {"scored", "alerted", "exported", "lost"}]
  <2>1. CASE UNCHANGED booking
    BY <1>3, <2>1
  <2>2. CASE \E p \in Payments : EnqueueAnomaly(p) \/ EnqueueExport(p)
    BY <1>3, <2>2 DEF EnqueueAnomaly, EnqueueExport
  <2> QED
    BY <2>1, <2>2 DEF Enqueues, EnqueueBudget, EnqueueMcp, EnqueueApproval, Elsewhere, others
<1>5. TypeOK'
  BY <1>1, <1>2, <1>4, InsertFills DEF DeliveryInv, TypeOK
<1> QED
  BY <1>1, <1>2, <1>5, InsertFills, HandlersKeep DEF Filled

LEMMA AckKeeps == ASSUME DeliveryInv, Acks PROVE DeliveryInv'
<1>1. PICK a \in Alerts : Acknowledge(a)
  BY RowsTyped DEF Acks, AckBudget, AckApproval, AckMcp, AckAnomaly, Producible
<1>2. /\ outbox \in [Alerts -> Status \cup {None}] /\ holders \in [Alerts -> SUBSET Workers]
  BY RowsTyped
<1>3. /\ UNCHANGED <<wants, attempts, stage, job, booking, edits, restarts, scene>>
      /\ outbox' = [outbox EXCEPT ![a] = "acknowledged"]
      /\ holders' = [holders EXCEPT ![a] = {w \in Workers : a \in job[w].batch}]
  BY <1>1 DEF Acknowledge
<1>4. Acked(a) /\ \A b \in Alerts \ {a} : Filled(b)
  BY <1>2, <1>3 DEF Acked, Filled
<1>5. outbox' \in [Alerts -> Status \cup {None}]
  BY <1>2, <1>3 DEF Status
<1>6. holders' \in [Alerts -> SUBSET Workers]
  BY <1>2, <1>3
<1>7. TypeOK'
  BY <1>3, <1>5, <1>6 DEF DeliveryInv, TypeOK
<1> QED
  BY <1>3, <1>4, <1>7, HandlersKeep

LEMMA UpsertKeeps == ASSUME DeliveryInv, NEW e \in Endpoints, UpsertEndpoint(e) PROVE DeliveryInv'
<1>1. UNCHANGED <<outbox, attempts, stage, job, booking, restarts, scene, holders>>
  BY DEF UpsertEndpoint
<1>2. wants' \in [Endpoints -> SUBSET Topics]
  BY RowsTyped DEF UpsertEndpoint
<1>3. edits' \in 0..scene.edits
  BY RowsTyped DEF UpsertEndpoint, DeliveryInv, TypeOK
<1>4. TypeOK'
  BY <1>1, <1>2, <1>3 DEF DeliveryInv, TypeOK
<1> QED
  BY <1>1, <1>4, HandlersKeep DEF Filled

\* All copies are lost at once; the tables stay.
LEMMA RestartKeeps == ASSUME DeliveryInv, Restart PROVE DeliveryInv'
<1>1. UNCHANGED <<outbox, wants, attempts, edits, scene, holders>>
  BY DEF Restart, tables
<1>2. \A w \in Workers : /\ stage'[w] \in {"idle", "done"} /\ job'[w] = NoJob
                         /\ stage'[w] = "idle" \/ (w # Thread /\ stage[w] # "idle")
  BY DEF Restart
<1>3. job' \in [Workers -> JobType]
  BY NoJobTyped DEF Restart
<1>4. stage' \in [Workers -> Stages]
  BY StageNames DEF Restart
<1>5. restarts' \in 0..scene.restarts
  BY RowsTyped DEF Restart, DeliveryInv, TypeOK
<1>6. booking' \in [Payments -> {"scored", "alerted", "exported", "lost"}]
  BY DEF Restart, DeliveryInv, TypeOK
<1>7. TypeOK'
  BY <1>1, <1>3, <1>4, <1>5, <1>6 DEF DeliveryInv, TypeOK
<1>8. AttemptsGrow
  BY <1>1, AttemptsKept
<1>9. "idle" \notin Delivery /\ "done" \notin Delivery /\ "idle" \notin LaterListing /\ "done" \notin LaterListing
  BY StageNames DEF Delivery
<1>10. ASSUME NEW w \in Workers PROVE Shape(w)' /\ Answered(w)' /\ Rounds(w)'
  <2>1. job'[w].batch = {} /\ job'[w].left = {} /\ stage'[w] \in {"idle", "done"}
    BY <1>2, NoJobTyped
  <2>2. w \notin Crew => stage'[w] = "idle"
    BY <1>2 DEF DeliveryInv, Shape
  <2>3. Crew' = Crew
    BY <1>1 DEF Crew
  <2>4. Shape(w)'
    BY <1>9, <2>1, <2>2, <2>3 DEF Shape
  <2> QED
    BY <2>1, <2>4 DEF Answered, Rounds, Through
<1>11. ASSUME NEW a \in Alerts PROVE Confirmed(a)' /\ \A w \in Workers : Held(w, a)'
  <2>1. Confirmed(a)'
    BY <1>1, <1>7, <1>8, StillConfirmed
  <2>2. \A w \in Workers : job'[w].batch = {}
    BY <1>2, NoJobTyped
  <2> QED
    BY <2>1, <2>2 DEF Held
<1>12. ASSUME NEW a \in Alerts, NEW e \in Endpoints PROVE Bounded(a, e)'
  <2>1. Tries(a, e)' = Tries(a, e) /\ Senders(a, e)' \subseteq Senders(a, e)
    BY <1>1, <1>2 DEF Tries, Senders
  <2> QED
    BY <1>1, <1>7, <1>8, <2>1, BoundKept
<1> QED
  BY <1>7, <1>10, <1>11, <1>12 DEF DeliveryInv

LEMMA DeliveryStarts == Init => DeliveryInv
<1> SUFFICES ASSUME Init PROVE DeliveryInv
  OBVIOUS
<1>1. scene \in Scenes /\ scene \in Scene
  BY ActorsTyped DEF Init
<1>2. /\ scene.attempts \in Nat \ {0} /\ scene.admins \in SUBSET Admins /\ scene.wants \in SUBSET Topics
      /\ scene.edits \in Nat /\ scene.restarts \in Nat
  BY <1>1 DEF Scene
<1>3. TypeOK
  <2>1. job \in [Workers -> JobType] /\ stage \in [Workers -> Stages]
    BY NoJobTyped, StageNames DEF Init
  <2>2. /\ attempts \in [Alerts -> [Endpoints -> [good : Nat, bad : Nat]]]
        /\ outbox \in [Alerts -> Status \cup {None}] /\ holders \in [Alerts -> SUBSET Workers]
        /\ booking \in [Payments -> {"scored", "alerted", "exported", "lost"}]
    BY DEF Init
  <2>3. wants \in [Endpoints -> SUBSET Topics]
    BY <1>2 DEF Init
  <2>4. edits \in 0..scene.edits /\ restarts \in 0..scene.restarts
    BY <1>2 DEF Init
  <2> QED
    BY <1>1, <2>1, <2>2, <2>3, <2>4 DEF TypeOK
<1>4. \A w \in Workers : stage[w] = "idle" /\ job[w].batch = {} /\ job[w].left = {} /\ job[w].at = 1
  BY NoJobTyped DEF Init
<1>5. ASSUME NEW w \in Workers PROVE Shape(w) /\ Answered(w) /\ Rounds(w)
  BY <1>4, StageNames DEF Shape, Answered, Rounds, Through, Delivery
<1>6. ASSUME NEW a \in Alerts PROVE Confirmed(a) /\ \A w \in Workers : Held(w, a)
  <2>1. outbox[a] = None /\ None \notin Status
    BY ActorsTyped DEF Init
  <2> QED
    BY <1>4, <2>1 DEF Confirmed, Held, Status
<1>7. ASSUME NEW a \in Alerts, NEW e \in Endpoints PROVE Bounded(a, e)
  <2>1. Senders(a, e) = {}
    BY <1>4 DEF Senders
  <2>2. Cardinality(Senders(a, e)) = 0
    BY <2>1, FS_EmptySet
  <2>3. attempts[a][e].good = 0 /\ attempts[a][e].bad = 0
    BY DEF Init
  <2>4. Tries(a, e) = 0
    BY <2>3 DEF Tries
  <2>5. IsFiniteSet(scene.admins)
    BY <1>2, AdminsFinite, FS_Subset
  <2>6. Crew = scene.admins \cup {Thread}
    BY DEF Crew
  <2>7. IsFiniteSet(Crew)
    BY <2>5, <2>6, FS_AddElement
  <2>8. Cardinality(Crew) \in Nat /\ Cardinality(Crew) # 0
    BY <2>6, <2>7, FS_CardinalityType, FS_EmptySet
  <2> QED
    BY <1>2, <2>2, <2>4, <2>8 DEF Bounded
<1> QED
  BY <1>3, <1>5, <1>6, <1>7 DEF DeliveryInv

LEMMA DeliveryIdles == ASSUME DeliveryInv, UNCHANGED vars PROVE DeliveryInv'
<1>1. UNCHANGED <<outbox, wants, attempts, stage, job, booking, edits, restarts, scene, holders>>
  BY DEF vars
<1>2. TypeOK'
  BY <1>1 DEF DeliveryInv, TypeOK
<1> QED
  BY <1>1, <1>2, HandlersKeep DEF Filled

\* What the copies of every cycle under way tell about the tables, in every
\* reachable state, for any number of alerts, endpoints, cycles and restarts
\* (_dispatch_webhooks_once and the handlers that enqueue and acknowledge).
THEOREM DeliveryInvariant == Spec => []DeliveryInv
<1>1. Init => DeliveryInv
  BY DeliveryStarts
<1>2. DeliveryInv /\ [Next]_vars => DeliveryInv'
  <2> SUFFICES ASSUME DeliveryInv, [Next]_vars PROVE DeliveryInv'
    OBVIOUS
  <2>1. CASE \E w \in Workers : Turns(w)
    BY <2>1, TurnKeeps
  <2>2. CASE Enqueues
    BY <2>2, EnqueueKeeps
  <2>3. CASE Acks
    BY <2>3, AckKeeps
  <2>4. CASE \E e \in Endpoints : UpsertEndpoint(e)
    BY <2>4, UpsertKeeps
  <2>5. CASE Restart
    BY <2>5, RestartKeeps
  <2>6. CASE UNCHANGED vars
    BY <2>6, DeliveryIdles
  <2>7. CASE Wake
    BY <2>1, <2>7 DEF Turns, Workers
  <2>8. CASE \E w \in Admins : Call(w)
    BY <2>1, <2>8 DEF Turns, Workers
  <2>9. CASE \E w \in Workers : Cycle(w)
    BY <2>1, <2>9 DEF Turns
  <2> QED
    BY <2>2, <2>3, <2>4, <2>5, <2>6, <2>7, <2>8, <2>9 DEF Next, Enqueues, Acks
<1> QED
  BY <1>1, <1>2, PTL DEF Spec

----------------------------------------------------------------------------
(* What it says of delivery.                                               *)

\* Outboxes, endpoints, delivery attempts and the copies of every cycle keep
\* their types.
THEOREM DeliveryTyped == Spec => []TypeOK
<1>1. DeliveryInv => TypeOK
  BY DEF DeliveryInv
<1> QED
  BY <1>1, DeliveryInvariant, PTL

\* webhook_max_attempts is exceeded by at most one attempt for each further cycle
\* under way, however many administrators dispatch by hand beside the thread.
THEOREM AttemptsStayBounded == Spec => []AttemptsBounded
<1>1. ASSUME DeliveryInv PROVE AttemptsBounded
  <2> SUFFICES ASSUME NEW a \in Alerts, NEW e \in Endpoints
               PROVE  Tries(a, e) <= scene.attempts + Cardinality(Crew) - 1
    BY DEF AttemptsBounded
  <2>1. Tries(a, e) + Cardinality(Senders(a, e)) <= scene.attempts + Cardinality(Crew) - 1
    BY <1>1 DEF DeliveryInv, Bounded
  <2>2. attempts[a][e] \in [good : Nat, bad : Nat]
    BY <1>1, RowsTyped
  <2>3. Tries(a, e) \in Nat
    BY <2>2 DEF Tries
  <2>4. Cardinality(Senders(a, e)) \in Nat /\ Cardinality(Crew) \in Nat /\ scene.attempts \in Nat
    BY <1>1, SendersFinite, CrewFinite, RowsTyped
  <2> QED
    BY <2>1, <2>3, <2>4
<1> QED
  BY <1>1, DeliveryInvariant, PTL

\* No alert is marked delivered, or failed, without an attempt on record that
\* ended so (set_<outbox>_status after record_webhook_delivery_attempt).
THEOREM StatusesHaveAttempts == Spec => []StatusHasAttempt
<1>1. DeliveryInv => StatusHasAttempt
  BY DEF DeliveryInv, Confirmed, StatusHasAttempt
<1> QED
  BY <1>1, DeliveryInvariant, PTL

\* A cycle that has gone through the endpoints up to one has tried there each
\* alert it listed and the endpoint wants: no endpoint costs another its attempt.
THEOREM CyclesMakeFullRounds == Spec => []FullRound
<1>1. ASSUME DeliveryInv PROVE FullRound
  <2> SUFFICES ASSUME NEW w \in Workers, RoundOver(w), NEW a \in job[w].batch, NEW e \in 1..job[w].at,
                      Topic[a] \in job[w].subs[e]
               PROVE  Tries(a, e) > 0
    BY DEF FullRound
  <2>1. job[w] \in JobType /\ Rounds(w)
    BY <1>1, RowsTyped DEF DeliveryInv
  <2>2. a \in Alerts /\ job[w].at \in Endpoints
    BY <2>1 DEF JobType
  <2>3. e \in Endpoints /\ (e < job[w].at \/ e = job[w].at)
    BY <2>2, BoundsTyped DEF Endpoints
  <2>4. job[w].left = {} /\ stage[w] = "serve"
    BY DEF RoundOver
  <2>5. Through(w, a, e)
    BY <2>3, <2>4 DEF Through
  <2> QED
    BY <2>1, <2>2, <2>3, <2>5 DEF Rounds
<1> QED
  BY <1>1, DeliveryInvariant, PTL

\* What was acknowledged comes back only by the status of a cycle that held the
\* alert when it was acknowledged: no step enqueues or dispatches it anew.
THEOREM AcksUndoneByOlderCyclesOnly == Spec => AckUndoneOnlyByOlderCycle
<1> DEFINE Undone(a) == outbox[a] = "acknowledged" /\ outbox'[a] # "acknowledged"
           ByHolder(a) == \E w \in holders[a] : stage[w] = "settle" /\ job[w].alert = a
<1>1. ASSUME DeliveryInv, Next, NEW a \in Alerts, Undone(a) PROVE ByHolder(a)
  <2>1. outbox \in [Alerts -> Status \cup {None}] /\ None # "acknowledged"
    BY <1>1, RowsTyped, ActorsTyped DEF Status
  <2>2. ASSUME NEW w \in Workers, Turns(w) PROVE ByHolder(a)
    <3>1. Turn(w)
      BY <1>1, <2>2, TurnsTurn
    <3>2. Marks(w)
      BY <1>1, <3>1
         DEF Turn, Starts, Rereads, Collects, Skips, Takes, Hears, Counts, Record, GoesOn, Ends, tables
    <3>3. job[w].alert = a /\ stage[w] = "settle"
      BY <1>1, <2>1, <3>2 DEF Marks
    <3>4. a \in job[w].batch /\ Held(w, a)
      BY <1>1, <3>3 DEF DeliveryInv, Shape, Delivery
    <3> QED
      BY <1>1, <3>3, <3>4 DEF Held
  <2>3. CASE Enqueues
    <3>1. PICK S : Insert(S)
      BY <2>3 DEF Enqueues, EnqueueBudget, EnqueueMcp, EnqueueApproval, EnqueueAnomaly, EnqueueExport
    <3> QED
      BY <1>1, <2>1, <3>1, InsertFills
  <2>4. CASE Acks
    <3>1. PICK b \in Alerts : Acknowledge(b)
      BY <1>1, <2>4, RowsTyped DEF Acks, AckBudget, AckApproval, AckMcp, AckAnomaly, Producible
    <3> QED
      BY <1>1, <2>1, <3>1 DEF Acknowledge
  <2>5. CASE (\E e \in Endpoints : UpsertEndpoint(e)) \/ Restart
    BY <1>1, <2>5 DEF UpsertEndpoint, Restart, tables
  <2>6. CASE Wake \/ (\E w \in Admins : Call(w)) \/ \E w \in Workers : Cycle(w)
    BY <2>2, <2>6 DEF Turns, Workers
  <2> QED
    BY <1>1, <2>3, <2>4, <2>5, <2>6 DEF Next, Enqueues, Acks
<1>2. DeliveryInv /\ [Next]_vars => [\A a \in Alerts : Undone(a) => ByHolder(a)]_vars
  BY <1>1
<1> QED
  BY <1>2, DeliveryInvariant, PTL DEF Spec, AckUndoneOnlyByOlderCycle
=============================================================================
