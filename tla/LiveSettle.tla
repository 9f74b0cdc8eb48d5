----------------------------- MODULE LiveSettle -----------------------------
(***************************************************************************)
(* The live settlement lane of Safe4 (app/api/demo_live.py): a request     *)
(* reserves its amount against a daily cap held in memory, asks the chain  *)
(* for balance and nonce, broadcasts a transfer and remembers it.  Requests *)
(* run in threads; answers of the chain get lost; midnight passes.         *)
(***************************************************************************)
EXTENDS Integers, FiniteSets, Functions, FiniteSetsExt

CONSTANTS
    Settlers,      \* the requests
    Amount,        \* [Settlers -> Nat]: the amount of each
    TooFine,       \* SUBSET Settlers: amounts of more than six decimal places
    PerPayment,    \* MAX_PER_TRANSACTION
    PerDay,        \* MAX_PER_DAY
    Funds,         \* the balance of the wallet
    Remembered,    \* the size of the table of broadcasts beyond which it is emptied
    Days           \* the days of a behaviour, 1..Days

ASSUME SettleTyped == /\ Amount \in [Settlers -> Nat]
                      /\ TooFine \subseteq Settlers
                      /\ {PerPayment, PerDay, Funds, Remembered} \subseteq Nat
                      /\ IsFiniteSet(Settlers) /\ Days \in Nat \ {0}

VARIABLES
    today,
    spendDay,      \* _spend_day; 0 is None
    spendTotal,    \* _spend_total
    pending,       \* _pending: the requests whose transactions it holds
    settler,       \* locals of live_settle
    chain,         \* the requests whose transfers the chain has taken
    seen,          \* what live_status last said of a request's transaction
    reserved,      \* history: the day a request reserved its amount on, or 0
    late           \* history: requests that reserved, or gave back, when the day was another

settleVars == <<today, spendDay, spendTotal, pending, settler, chain, seen, reserved, late>>

SettleInit ==
    /\ today = 1 /\ spendDay = 0 /\ spendTotal = 0
    /\ pending = {} /\ chain = {} /\ late = {}
    /\ settler = [s \in Settlers |-> [step |-> "idle", nonce |-> 0, day |-> 0]]
    /\ seen = [s \in Settlers |-> "unasked"]
    /\ reserved = [s \in Settlers |-> 0]

Goes(s, from, to) == settler[s].step = from /\ settler' = [settler EXCEPT ![s].step = to]

Midnight ==
    /\ today < Days
    /\ today' = today + 1
    /\ UNCHANGED <<spendDay, spendTotal, pending, settler, chain, seen, reserved, late>>

\* The checks before the reservation: amount, and the verdict on the intent.  What
\* passes begins _reserve_daily_budget, which asks for the date before it has the lock.
Turned(s) ==
    /\ Goes(s, "idle", "refused")
    /\ UNCHANGED <<today, spendDay, spendTotal, pending, chain, seen, reserved, late>>

ReadDate(s) ==
    /\ settler[s].step = "idle" /\ Amount[s] \in 1..PerPayment
    /\ settler' = [settler EXCEPT ![s] = [step |-> "dated", nonce |-> 0, day |-> today]]
    /\ UNCHANGED <<today, spendDay, spendTotal, pending, chain, seen, reserved, late>>

\* What has been spent on that day, once the day of the total has been looked at.
SpentOn(s) == IF spendDay = settler[s].day THEN spendTotal ELSE 0

\* Mutant: only what was spent before is compared with the cap.
FitsEarlier(s) == SpentOn(s) <= PerDay
Fits(s) == SpentOn(s) + Amount[s] <= PerDay

Reserving(s, step) ==
    /\ settler[s].step = "dated"
    /\ settler' = [settler EXCEPT ![s].step = step, ![s].day = 0]

\* The rest of it, under the lock; then _units, whose ValueError nothing catches: the
\* amount stays reserved.
Reserve(s) ==
    /\ spendDay' = settler[s].day
    /\ late' = IF settler[s].day = today THEN late ELSE late \cup {s}
    /\ IF Fits(s)
         THEN /\ Reserving(s, IF s \in TooFine THEN "leaked" ELSE "funded")
              /\ spendTotal' = SpentOn(s) + Amount[s]
              /\ reserved' = [reserved EXCEPT ![s] = settler[s].day]
         ELSE /\ Reserving(s, "refused")
              /\ spendTotal' = SpentOn(s)
              /\ UNCHANGED reserved
    /\ UNCHANGED <<today, pending, chain, seen>>

\* Mutant: nothing stops the total at zero.
GivenBackUnchecked(s) == spendTotal - Amount[s]
GivenBack(s) == IF Amount[s] > spendTotal THEN 0 ELSE spendTotal - Amount[s]

\* _release_daily_budget, on every exception inside the try.
Release(s) ==
    /\ settler[s].step = "failing"
    /\ settler' = [settler EXCEPT ![s].step = "failed"]
    /\ spendTotal' = GivenBack(s)
    /\ late' = IF spendDay = reserved[s] THEN late ELSE late \cup {s}
    /\ UNCHANGED <<today, spendDay, pending, chain, seen, reserved>>

Sent == SumFunctionOnSet(Amount, chain)

\* eth_call of the balance, and the gas estimate, either of which may fail.
CheckFunds(s) ==
    /\ \/ Funds - Sent >= Amount[s] /\ Goes(s, "funded", "nonce")
       \/ Goes(s, "funded", "failing")
    /\ UNCHANGED <<today, spendDay, spendTotal, pending, chain, seen, reserved, late>>

\* eth_getTransactionCount, then the price and the signature.
ReadNonce(s) ==
    /\ settler[s].step = "nonce"
    /\ settler' = [settler EXCEPT ![s].step = "send", ![s].nonce = Cardinality(chain)]
    /\ UNCHANGED <<today, spendDay, spendTotal, pending, chain, seen, reserved, late>>

\* eth_sendRawTransaction: the chain takes a transaction only with the next
\* nonce and enough funds; its answer may be lost either way.
Broadcast(s) ==
    /\ IF settler[s].nonce = Cardinality(chain) /\ Funds - Sent >= Amount[s]
         THEN \/ Goes(s, "send", "sent") /\ chain' = chain \cup {s}
              \/ Goes(s, "send", "failing") /\ chain' \in {chain, chain \cup {s}}
         ELSE Goes(s, "send", "failing") /\ UNCHANGED chain
    /\ UNCHANGED <<today, spendDay, spendTotal, pending, seen, reserved, late>>

\* _remember_pending, which forgets every transaction when there are too many.
Remember(s) ==
    /\ Goes(s, "sent", "settled")
    /\ pending' = {s} \cup (IF Cardinality(pending) > Remembered THEN {} ELSE pending)
    /\ UNCHANGED <<today, spendDay, spendTotal, chain, seen, reserved, late>>

\* live_status: 404 for a transaction the table does not hold.
Status(s) ==
    /\ settler[s].step = "settled"
    /\ seen' = [seen EXCEPT ![s] = IF s \in pending THEN "known" ELSE "unknown"]
    /\ UNCHANGED <<today, spendDay, spendTotal, pending, settler, chain, reserved, late>>

SettleNext ==
    \/ Midnight
    \/ \E s \in Settlers :
         \/ Turned(s) \/ ReadDate(s) \/ Reserve(s) \/ Release(s) \/ CheckFunds(s)
         \/ ReadNonce(s) \/ Broadcast(s) \/ Remember(s) \/ Status(s)

SettleSpec == SettleInit /\ [][SettleNext]_settleVars

----------------------------------------------------------------------------
Locals == [step : {"idle", "dated", "refused", "funded", "leaked", "nonce", "send",
                   "sent", "settled", "failing", "failed"},
           nonce : 0..Cardinality(Settlers), day : 0..Days]
SettleTypeOK ==
    /\ today \in 1..Days /\ spendDay \in 0..Days /\ spendTotal \in Nat
    /\ pending \subseteq Settlers /\ chain \subseteq Settlers /\ late \subseteq Settlers
    /\ settler \in [Settlers -> Locals]
    /\ seen \in [Settlers -> {"unasked", "known", "unknown"}]
    /\ reserved \in [Settlers -> 0..Days]

\* Transfers that went out although the request was told they failed.
Lost == {s \in chain : settler[s].step \in {"failing", "failed"}}

\* The daily ceiling bounds the transfers of the requests that reserved on a
\* day, whatever order the threads reserve, fail and give back in, except for
\* transfers whose answer was lost and for days on which midnight came between a
\* request's date and its reservation, or between that and its return
\* (_reserve_daily_budget, _release_daily_budget).
CapHeldUnlessLost ==
    late = {} => \A d \in 1..Days :
        SumFunctionOnSet(Amount, {s \in chain \ Lost : reserved[s] = d}) <= PerDay
=============================================================================
