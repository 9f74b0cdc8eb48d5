# Safe4: TLA+ specifications, model checking and proofs

Safe4 is a payment firewall for AI agents: an HTTP service (`app/main.py`,
FastAPI) that authorizes a payment only after a fee receipt, the agent's and the
user's budgets, velocity limits, MCP tool policy and, where a rule asks for it,
a human approval have been checked. This directory holds the specifications of
that service, the TLC instances that check them and the TLAPS proofs about them.
`PROJECT.json` lists components, runs, mutants, hazards and theorems, and maps
every definition to the lines of code it translates. Source paths below are
relative to the repository.

## How the program runs, and what makes it hard

* One process (`python main.py`, `Dockerfile`). The handlers are plain `def`
  functions, so FastAPI runs each request on a **thread pool**: two requests
  interleave freely.
* All state that matters is in one database behind `FirewallStore`
  (`app/storage.py`). Every store method takes the store's lock, reads or
  writes, commits and releases (`with self._lock, closing(self._connect())`).
  **No lock or transaction spans two store calls.** A payment makes about a
  dozen of them.
* A handler can therefore die between two commits (an exception, a lost
  database, a killed process), read a value that is stale when it is used, and
  overlap a retry of itself.
* Time acts on its own: receipts, tokens and approvals expire, the velocity
  window slides, budgets roll over at local midnight and MCP usage at midnight
  UTC.

In the models a **store call is one action**, and `stage[p]` is the store call
that request `p` makes next. Code between two store calls is local to a thread
and belongs to the action of the call before it.

## Inventory

| Component | State | Operations | Interacts with | What makes it correct |
|---|---|---|---|---|
| `POST /pay` pipeline (`main.py`, `payment_entry_checks.py`, `payment_flow.py`, `payment_finalize.py`) | locals of a handler; `idempotency_records`, `transaction_logs`, `transaction_events` | look up the key, verify the receipt, MCP policy, approval, agent budget, velocity, user budget, then ten finalizing writes, or a denial of up to three | everything below | a retry pays once; what a stored answer says happened did happen; limits hold |
| Fee receipts (`protocols/x402.py`, `api/receipts.py`) | `receipts` (`used_at`, `expires_at`) | issue, verify, mark used | `/pay` | a consumed receipt pays for nothing else |
| Human approval (`hitl_policy.py`, `api/hitl.py`) | `approval_requests`, `spend_tokens`, `approval_alert_outbox` | open, decide, sweep, issue a token, revoke, consume | `/pay`, webhook dispatcher | one decision per request, one payment per approval, true announcements |
| Budgets and alerts (`api/budgets.py`) | `budgets`, `agent_budgets`, `budget_alert_outbox` | read with roll-over, book, operator's upsert, queue alerts, acknowledge | `/pay`, dispatcher | recorded spend within the cap; every threshold reached is announced |
| MCP policy (`mcp/payment_policy.py`) | `mcp_tool_usage_events` | sum the day's usage, record usage | `/pay`, registry | the tool's daily cap |
| MCP registry (`mcp/api.py`, `mcp/models.py`) | servers, tools, permissions, drift, quarantine, alerts | register, detect drift, downgrade, review, quarantine | `/pay`, dispatcher | a quarantine survives until an operator lifts it; what is barred pays nothing |
| Webhook dispatcher (`api/webhooks.py`) | endpoints, delivery attempts, five outboxes | one cycle, from a background thread or a manual call; acknowledgements | every writer of an outbox | bounded attempts, true marks, nothing forgotten |
| OAuth (`api/oauth.py`) | codes, access tokens, refresh tokens | authorize, exchange, refresh, revoke | identity | a code and a refresh token work once |
| AP2 mandates (`protocols/ap2.py`) | mandate rows and families | present, consume the parent, retain, archive, sweep, redact | `/pay`, signers | an intent is used once; families are archived from the leaves |
| AP2 signers and discovery cache (`protocols/ap2.py`, `main.py`) | signer configurations, a cached document, the next poll | configure, poll, check a key | mandates | a key that was withdrawn dies |
| x402 provider receipts (`protocols/x402.py`) | provider configuration, receipt rows | configure, present, judge, mark used | `/pay` | a forged or stale claim lends a receipt nothing |
| Anomaly scoring (`ops/anomalies.py`, `hitl_policy.py`, `payment_finalize.py`) | identity profiles, logs | score, hold, deny, learn | `/pay`, approval | thresholds stop payments; profiles count payments |
| Live settlement (`api/demo_live.py`) | the day's reserved amount, known transactions (in memory, one lock) | reserve, broadcast, release, status | chain RPC | the day's ceiling |
| Batch journal (`scripts/demo_live_arc_batch*.py`) | lock file and JSON journal on disk | authorize, submit, verify, each journaled | Safe4, wallet CLI, chain RPC | no transfer twice, none ahead of the journal |
| Audit chain and traces (`storage.py`, `api/audit.py`) | `audit_entries` | append, verify, trace a payment | all writers | one chain; a trace is one payment's |
| Rate limiter and metrics, identity (`auth.py`), intent evaluation, policy bundle and settings, operations endpoints, integrations, demo pages, SDK, evidence scripts | process-local counters, or none | - | - | not state machines of interest here; see "Not modelled" |

The behaviours that are hard to test, each at its line, are the `hazards` of
`PROJECT.json`; the properties below are aimed at them.

## The modules

| Module | Models | |
|---|---|---|
| `PayFlow` | the whole `/pay` pipeline against the store, operator and clock | 21 store-call actions, `Receive`, `Fail`, and 9 environment actions |
| `MCPayFlow` + 6 `.cfg` | its small instances | |
| `PayFlowProofs` | types and spend tokens: `TypeInvariant`, `TokenInvariant`, `RevocationIsFinal`, `HeldPaymentsAreApproved` | TLAPS |
| `PayFlowSafety` | records and limits: `RecordInvariant` and eight properties | TLAPS |
| `Approvals` | human approval store call by store call: requests with identities, decisions, sweeps, announcements, tokens | |
| `SpendGrant` | what approval promises: the abstract specification `Approvals` implements | |
| `MCApprovals` + `Approvals.cfg` | its small instance | |
| `ApprovalsProofs` | `ApprovalInvariant`, three properties, and `ApprovalsImplementGrants` | TLAPS |
| `Dispatcher` | outboxes, acknowledgements, endpoints, the dispatch cycle | with fairness |
| `AuditChain` | appending to the hash chain from several processes, and verifying it | |
| `MCDispatcher` + `Dispatcher.cfg` | the two above, side by side | |
| `DispatcherProofs` | `DeliveryInvariant` and five properties | TLAPS |
| `Registry` | servers, tools, permissions, drift, review, and the policy that reads them | |
| `AuditTrace` | the audit rows of payments and how a trace is put together | |
| `OAuth` | codes, access and refresh tokens | |
| `OAuthProofs` | `OAuthInvariant`, two properties and the types | TLAPS |
| `Anomalies` | scoring, thresholds, profiles | |
| `MCControl` + `Control.cfg`, `Drift.cfg` | registry, traces, OAuth and anomalies, side by side | |
| `SumLemmas` | the sum over a finite set, and the least member of a set | TLAPS |
| `ControlProofs` | registry, audit chain, audit traces, anomalies: four invariants and all their properties | TLAPS |
| `Mandates` | AP2 mandates: presentation, parents, retention, archive, sweep | |
| `SignerTrust` | keys of signers against configuration and the discovery cache | |
| `ProviderReceipts` | receipts of x402 providers | |
| `LiveSettle` | reservation, broadcast, release | |
| `BatchJournal` | the fixed batch, its lock and its journal | |
| `MCProtocols` + `Protocols.cfg`, `MandateRace.cfg` | the five above, side by side | |
| `ProtocolProofs` | the same five: an invariant each and all their properties | TLAPS |

### PayFlow and the code

State: `budget`, `receipt`, `token`, `recent`, `toolSpent`, `alerts`, `log` and
`idem` are the tables of the same content; `approvals[b]` counts the pending
approval requests of body `b`; `today` is `date.today()`. `agentRow[p]` and
`userRow[p]` are what a handler read, with the projected total already in the
place of the spend, because that total, and not an increment, is what the
finalizer writes (`main.py:2246`, `:2377`, `payment_finalize.py:113`).

Actions in the order of the code:
`Receive` (idempotency lookup: new, conflict or replay) → `Verify` (receipt,
scope) → for MCP payments `McpPolicy`, then `Hitl`/`Consume`; →
`ReadAgent`, `Velocity`, `ReadUser` → for direct payments `Hitl`/`Consume` →
`BookUser`, `RereadUser`, `BookAgent`, `RereadAgent`, `RecordEvent`,
`RecordUsage`, `AlertUser`, `AlertAgent`, `MarkReceipt`, `LogAuthorized`,
`SaveAuthorized`. A refusal goes to `DenyLog`, `DenyMark`, `DenySave`, or straight
to `DenySave`, or is returned without a trace, exactly as each early return does.
`RereadUser` and `RereadAgent` exist because `update_spent_today` ends with
`return self.get_budget(...)`, a second lock section that may roll the day over
and write. `Fail` stops a handler anywhere. `Receive` also takes a free worker:
`MaxInFlight` is the size of the thread pool.

Abstractions: money is a small natural number; a request body stands for its own
hash (`build_request_hash` hashes canonical JSON); intent, scope, tool permission
and fee are functions of the body and so are constants; anomaly scoring depends on
profiles that are not modelled and is a choice among `AnomalyVerdicts`; a receipt
carries the amount it was paid for. `booked`, `charged`, `spentBy` and `seen` are
history for the properties and no action reads them.

### Approvals and the code

`Approvals` opens up what `PayFlow` has as `Approve` and `Withdraw`. A decision
is `List`, `Expire`, `Notify`* (the sweep every decision runs first), `Fetch`,
`Decide`, `Issue`, `Publish`: seven commits with other calls in between. An
approval is named after the call that opened it and a token after the decision
that issued it, so several requests and tokens for one body are told apart.
`List` keeps its batch because the sweep announces from a list read two store
calls earlier. `SpendGrant` has no handlers: an approval is asked for, granted
or voided, and a grant is spent by one call. The refinement mapping (`Grants` in
`Approvals`) takes an approval's row and the tokens issued for it to `grant`, and
the calls that consumed one of them to `payer`.

### The other modules and the code

All follow the same rule: a store call, a request to the outside or a write of a
file is one action, and what a handler holds in local variables between two of
them is a record per handler (`job`, `call`, `ask`, `run`, `visit`, `settler`,
`launch`). The rows that these handlers append to the audit log at their end are
left out of them; `AuditTrace` and `AuditChain` are about those rows.

* **`Dispatcher`**: `outbox[a]` is the status of an alert in one of five tables,
  told apart by `Source`. The cycle of `_dispatch_webhooks_once` is
  `ListEndpoints`, five listings, then for each endpoint and each alert of the
  copies `Serve`* (subscription, count of attempts), `Send` or `SendRaises`,
  `Record`, `Settle`. The copies are never refreshed, and `Settle` overwrites
  whatever status is there. `SendRaises` ends the background thread for good, as
  nothing in its loop catches; only `Restart` brings it back.
* **`AuditChain`**: `ReadLast` and `InsertEntry` are the two halves of
  `append_audit_entry`. Within a process its lock joins them (one `last[p]` at a
  time); between processes nothing does but the uniqueness of the columns. This
  is the only model with more than one process, since the code appends to the
  chain from whatever process shares the database.
* **`Registry`**: `StartRegister` ... `AlertQuarantine` are the commits of
  `register_mcp_tool`; `StartReview`, `WriteReview` those of a review; `ReadTool`,
  `ReadServer`, `ReadGrant` the three reads of `enforce_mcp_payment_policy`.
  A description is a model value, `Found` what the scan finds in it, and a hash is
  the description. `since[h]` is history: what has been barred all along
  while `h` ran.
* **`AuditTrace`**: a row has its kind, the hash of a body, and perhaps a
  transaction and an approval, as the writers give them. `TraceOf` is
  `build_transaction_trace`.
* **`OAuth`**: `AskWithCode`, `ConsumeCode`, `CheckCode`, `StoreAccess`,
  `StoreRefresh` in the order of the code: consumption comes before the checks.
* **`Anomalies`**: `SeverityOf` is the arithmetic of
  `compute_infrastructure_identity_anomaly` over whole numbers; `seen[p]` is what
  a handler has read so far, at the gate and once more in the finalizer.
* **`Mandates`**: a call is a presentation (eleven actions at most), a
  retention, an archive or a sweep. An offer carries, for each field, the
  set of values found under its different names, because the code's verdict is
  about their agreement. Redaction blanks a payload no property reads and is
  kept as a flag. `Swept` is what the loop of `archive_expired_ap2_mandates`
  ends with: a row goes when all below it is archived or goes before it, so one whose
  parents form a circle never does. A retention date without a time zone
  ("naive") is stored and makes the sweep raise (`FailSweep`).
* **`SignerTrust`**: time is a number. A call checks its key, then asks the cache for
  its documents twice, for the verdict and for the evidence. `Look` is a hit;
  when a poll is due, `StartFetch` takes the lock, `Answer` is the issuer's answer
  and `EndFetch` renews the copy, or not, and releases the lock: in between the issuer
  publishes, time passes and other callers wait. `dropped` and `outlived` are history.
* **`ProviderReceipts`**: `Arrive` (the configuration), then `Reject`, or `Store`, `Judge`
  and `Decide`, are the store calls of `verify`; then the payment is
  authorized or denied. A signature is the key it was made with; whether a claim names an
  amount (`priced`) and the firewall's currency (`ours`) is part of what is presented.
* **`LiveSettle`**: the lock of `_reserve_daily_budget` makes `Reserve` atomic, but
  the date is read before it. A broadcast whose answer is lost may or may not
  have been taken by the chain. `eth_getTransactionCount` counts the
  transfers the chain has taken.
* **`BatchJournal`**: every write of the journal may fail before or after the file
  was replaced, may leave its temporary file, and the process may die in any
  step; `Launches` start at any time, also beside one another.

**Side by side.** Several small machines that share no row are checked in one run:
`part`, chosen in the initial state, says which of them moves, and the others
keep their initial state. The states are therefore the sum and not the product
of the parts, and each part is checked as it would be alone. What is composed
because it interacts is in one module: dispatcher and outboxes, registry and
payment policy, mandates and their sweep, cache and key checks.

## The runs

The runs of `PayFlow` and `Approvals` check safety and deadlock; a behaviour may
end only when all calls are answered (`Quiesced`). The later runs do not check
deadlock: in them each call is made once and they really come to an end.

| Run | Instance | Shows |
|---|---|---|
| `pay_concurrent` | 3 calls, 2 workers, payments through one tool with a daily cap of 2 and a transaction cap of 2, one receipt, one token, velocity limit 1 | a held payment is booked only on its own approval; revocation and use exclude each other; a consumed receipt pays no later request; velocity is overshot by at most the overlap, the tool's cap by at most one transaction, and a receipt authorizes at most two payments; these three bounds are reached |
| `pay_serial` | 3 calls, 1 worker, tight caps, both midnights, all anomaly verdicts, crashes | the daily caps of users and agents hold |
| `pay_operator` | 2 calls, 2 workers, 2 users, 2 agents, one key, two receipts, a budget edit, midnight, two alert thresholds | types; a stored 200 is complete down to its alerts; recorded spend stays within the cap; an answered retry pays nothing |
| `approvals` | 4 calls: a request, an operator, and two of any kind, with revocation, expiry and crashes | one settlement and one payment per approval (refinement of `SpendGrant`); announcements are true, and complete unless a handler died; late calls are refused |
| `pay_first_response` | 2 calls under one key, 2 workers | **violation**: the later of two overlapping calls replaces the stored response |
| `pay_receipt_race` | 2 different payments, one receipt, 2 workers | **violation**: both are authorized |
| `pay_replay` | a refused call and its repetition, 1 worker | **violation**: the replay answers with the JSON text of the body instead of the body |
| `dispatcher` | one alert, two endpoints, the thread, a call by hand and a restart; alerts of two outboxes, two attempts and an edit of the endpoint; a payment with its alert and export; three processes with four entries | the limit on attempts is exceeded by at most the overlap; marks rest on answers; a cycle tries every endpoint; acknowledgement is undone only by a cycle that already held the alert; while the thread lives no alert waits for ever; the chain verifies |
| `control` | two handlers of any kind on one tool; three payments with one body; one code, two clients, three token requests; three payments around a baseline | `BarredPaysNothing`, `DriftLowersTrust`, `QuarantineAnnounced`, `OnlyReviewClears`; `TraceOfOnePayment`; `OneGuessPerCode`, `OneLiveRefresh`; `ThresholdsHeld`, `ProfileCountsPayments` |
| `protocols` | an intent and two carts in three calls; two presentations of two receipts; two keys, one caller, four instants, fetches that take up to one; three settlements over two days; two launches of two items | `UsedOnceUnlessRaced`, `ArchivedBottomUp`; `UndisturbedIsSound`; `RevokedKeyDies`; `CapHeldUnlessLost`; `OneTransferPerItem`, `JournalBeforeMoney` |
| `registry_drift` | as `control` | **violation**: a repeated registration clears a tool that awaits review |
| `mandate_race` | two calls, otherwise as `protocols` | **violation**: two carts under one intent |

Sizes: a passing run takes between half a minute and three and a half minutes with two
workers; the smallest has 60 thousand distinct states, the largest 3.3 million. Calls are symmetric where their inputs are the same
set, and so are receipts of the same amount. In `control` and `protocols` actors that
differ in nothing but their number begin in its order (`InOrder`, `RunsInOrder`,
`CasesInOrder`, `VisitsInOrder`), which loses no behaviour up to renaming;
`CasesInOrder` and `VisitsInOrder` also let at most two calls be under way at once,
and `OneKeyDropped` gives the one signer either no configuration or the first of two keys,
which is the only key the issuer withdraws.

**Why the bounds are enough.** Each hazard is a race of two handlers, or of one
handler with the operator or the clock, or a crash followed by one retry. Two
workers show every pairwise interleaving; the third call arrives after an answer,
which is what the retry properties speak of. One receipt, key and token per run
put every call in competition for it. Caps of one to four units against amounts
of one and two put each limit within reach. `MaxDay = 1` gives one midnight: a
budget row remembers only the day it was written. In the dispatcher two attempts
and two endpoints show both the limit and one endpoint standing in for another; the
chain needs three processes for two to collide while a third goes on. In the
registry, two handlers are a registration beside a review, a payment or another
registration, and one may follow the other. Three token requests are an exchange
and two uses of its refresh token. The caller whose poll is due holds the lock of the cache, so
others only wait: one caller, one signer and a fetch of one instant show an issuer that
publishes before, during and after a fetch, and a copy that outlives a failed poll, being an
instant younger than the poll it came from; the theorem is about any number of each. A
baseline of three payments is tried with two and
three in the past, so a payment may complete it. Three mandate calls are an intent and two
carts, or two carts and an archive; two launches are a batch and its restart, or two
batches at once.

**Limits and overlap.** The pipeline reads, decides and writes in separate store calls, so
no limit is exact when payments overlap. `VelocityOvershootBounded`,
`ToolOvershootBounded` and `ReceiptOveruseBounded` say for any number of workers how
far each is exceeded: one event, one transaction cap, one payment for every worker but the first;
with one worker the limits hold. For budgets
no such bound exists: a booking is an absolute total, so bookings are lost, and what is
booked may exceed the recorded spend by any number of payments. There
`RecordedSpendWithinCap` is what is left with several workers, and `DailyCapHeld` is
checked with `MaxInFlight = 1` and fails with two. `pay_receipt_race` keeps the receipt case as
a finding, since a docstring promises otherwise; for budgets and tools the documentation
promises nothing about overlapping requests, so that is stated here and is not a finding.

**Mutants.** Each property has a mutant of a mapped definition (`mutants` in
`PROJECT.json`, a definition marked "Mutant" in the module): a plausible bug with
which TLC finds the property violated. That is the evidence that the property
depends on the code.

**Conditions in the names.** `UsedOnceUnlessRaced`, `UndisturbedIsSound` and
`CapHeldUnlessLost` say what holds and under which circumstances it does not,
through history variables (`met`, `crowded`, `late`) that record overlap as it
happens: with one call at a time an intent is used once and a provider
receipt is judged on its own claim; the daily ceiling bounds the
transfers the service knows of, not the one whose answer it lost. `ArchivedBottomUp`
speaks of behaviours without any overlap, because the check of an archive
looks at the family alone and is made before its write.

**How long a fetch takes.** `FetchTime` is an assumption about the network. The timeout of
`urlopen` bounds each wait for data and not the whole fetch; a document that comes in one piece
takes no longer than it. `RevokedKeyDies` adds that time to the age of the cache, because
`_refresh_locked` counts the age of a copy from the end of its fetch.

**Fairness.** Only `Dispatcher` assumes any: `WF_vars(Wake \/ Cycle(Thread))`, the
background thread goes on while it can. The code justifies it: the thread's wait
has a timeout, every request it makes has one (`urlopen(..., timeout=...)`), store
calls return or raise, and a raising one ends the thread, which the model has as
`SendRaises`. Calls by hand, producers and administrators are not fair. Under it
`NoAlertForgotten` says: if from some time on the thread lives and an endpoint wants
an alert, the alert does not stay pending or failed for ever unless that endpoint
has used up its attempts. That the thread lives is a premise and not
a result, because one raising sender kills it. No other component retries by itself, so no
liveness is claimed elsewhere.

## The findings

1. `save_idempotency` (`app/storage.py:5254`) says "Persist the first completed
   response for an idempotency key" and is an upsert: the last one stays.
2. `mark_receipt_used` (`:2706`) says a consumed receipt "cannot authorize
   unrelated requests again"; the check is made many store calls earlier and the
   update has no condition, so two overlapping payments are both authorized.
3. `save_idempotent_response` (`app/payment_flow.py:76`) stores the text of a
   refusal, and the replay answers a JSON string where the first answer was an
   object; `docs/x402/CONTRACT.md:139-141` says "identical".
4. `upsert_mcp_tool` (`app/storage.py:3294`) puts a tool whose description changed in
   "review" only while it has no flags, and gives it a flag: the second
   registration of that description finds the flag and stores "clear". The
   message of `app/mcp/api.py:378` says "review required".
5. `enforce_ap2_policy` (`app/protocols/ap2.py:1557`) marks the parent intent consumed by an
   unconditional update, long after the verifier has looked at it: two carts
   presented at once are both accepted; `:933` says a cart "cannot reuse an intent
   mandate that has already been consumed by another child".

Not findings, since nothing promises otherwise, but worth knowing (all reachable in
the models): a lifecycle update of a mandate is written from a row read earlier and can
take back an archiving or a consumption that came in between; a cart that was held
for approval is consumed by its first presentation, so its repetition is refused
(`ap2.py:1517`); an intent that was accepted is marked rejected by a later
presentation of the same id that fails; `mark_x402_provider_receipt_used` is
unconditional like its sibling of finding 2; registering a server again overwrites
"blocked"; a tool blocked by an administrator is cleared when it is registered
with its first description; a review applies to whatever description is stored
when it is written; a discovery document that disappears is no objection to a key;
two live settlements may sign with one nonce, and one of them fails; an amount with too
many decimal places stays reserved; a retention date without a time zone
(`ap2.py:405`) cannot be compared with the time of the sweep (`storage.py:3955`), and every sweep
raises until that row is archived by hand or dated again.

## What is proved

Checked by TLAPS for every value of the constants: any number of calls, workers,
accounts, keys, receipts, tokens, alerts, endpoints, processes, servers, tools, clients,
codes, mandates, signers' keys, settlements, launches and days. Every safety
invariant and every action property that a run checks is stated by a theorem; only the
conjunction `TypeOK` of the composed instances is not, but each of its conjuncts is,
under its own name (`RegistryTypes`, `TraceTypes`, `OAuthTyped`, `AnomTypes`, `MandatesTypesHold`,
`TrustTypes`, `ReceiptTypes`, `SettleTypesHold`, `BatchTyping`).

The proofs assume what the modules assume by name at their heads, which TLC evaluates
on every run:

* constants have their types: amounts, limits and ages are natural numbers, a cache is kept at
  least as long as the poll interval, a key's window ends after it begins;
* names which stand for different things are different: `None`, `Nothing`, `NoRow`, `NoId`,
  `NoToken`, `NoFile` and `Never` are no row, name or time, `Codes` and `Requests` are disjoint, a
  decision is not the body of a payment;
* what is counted or summed is finite: requests (`ReqsFinite`), calls of an administrator
  (`AdminsFinite`), payments, currencies and the log before the first of them (`AnomTyped`),
  settlements (`SettleTyped`).

Each theorem is `Spec => []Property`, `Spec => [][Step]_vars` or, for the refinement,
`Spec => KeepsGrants`. What a theorem assumes beyond that is said below.

Every proof has one shape: the property is weak, so an invariant is stated that
implies it and that every step keeps; initial states have it, each action keeps it,
and PTL joins the three. What is worth reading is what had to be added.

### PayFlow

* **`PayFlowProofs`: `TypeCorrect`.** Types are not inductive by themselves: to
  write a budget row the finalizer uses the row it read, which is a row only if
  the handler came through `ReadAgent` and `ReadUser`; to mark a receipt it
  must have presented one. `Progress` says so per stage, and
  `TypeInv == TypeOK /\ Progress` is inductive (`TypeInvariant`).
* **`PayFlowProofs`: `RevocationIsFinal`, `HeldPaymentsAreApproved`.** The
  strengthening is `TokenInv`: only used tokens have spenders, at most one each, and
  these presented that token and its body; no token is used and revoked; and a
  payment of a held body that is past the approval step already has its token. The
  last conjunct carries the fact across the store calls between `Consume` and
  `BookUser`.
* **`PayFlowSafety`, records: `StoredAuthorizationsAreComplete`, `ReceiptsStayConsumed`,
  `RetriesPayNothing`.** The properties speak of answered requests. `RecordInv` says
  what is true on the way there: what each stage of the finalizer has committed
  (`Committed`), who wrote the log and a record (`LogTrue`, `Closed`, `Record200`), and
  how far a request can come that arrived after an answer (`After`: with the consumed
  receipt no further than the verification, under the stored key nowhere). An
  invariant about the moment of the answer alone fails in the next step.
* **`PayFlowSafety`, limits.** A limit is checked by one store call and used up by a later one,
  so every invariant counts what has been allowed and not yet been recorded.
  `VelocityOvershoot`: events in the window and requests past the check together
  stay below limit plus workers (`VelocityInv`); with the limit of the pool,
  `WorkersBounded`, that is the bound of the property, for any number of workers.
  `RecordedSpendStaysWithinCap`: every row a handler carries fits the cap in the table
  (`CapInv`). It holds under `CapsOnlyRaised` and `SpendsWithinCaps`, which speak of
  the operator: `POST /budgets` accepts a cap below what has been spent and a spend above
  the cap, and then the recorded spend exceeds it at once, with no payment
  involved. The instance of `pay_operator` satisfies both.
  `ToolOvershoot`: what is spent and what is owed (`Owed`, summed over the requests past the
  check) stay below the cap and one transaction for each further worker. A check compares what is
  spent alone with the cap; it is the number of workers that bounds what the others owe at that
  moment (`OwedByOthers`), and recording moves an amount from owed to spent.
  `ReceiptOveruse`: a receipt that is still unused has no payment in the log, so whoever
  may be logged with it is in flight when one more is accepted (`ReceiptInv`).
  `DailyCapHolds` (same operator) assumes `MaxInFlight = 1`: TLC refutes it with two workers.
  With one, nobody is between a check and a booking beside the one request
  (`Alone`), so what was allowed is still free (`Covered`).

### Approvals

`ApprovalInv` is types, `CallInv`, true announcements and, while nothing died,
`Settling`. The centre is `OneDecider`: a request is decided by at most one call,
for `Decide` looks at the status and writes it in one store call; and only the call that
decided issues the token (`Decided`, `Issued`). From it follow `AnnouncementsAreTrue` and
`LateCallsAreRefused` (`Late` keeps a late call before the step that would let it
through, since time does not turn back). `SettledUnlessDied` needs `Settling`: whatever is
not announced yet has somebody who is still to announce it, the opener, the decider
or a sweep that has it in its batch; a death is what removes that somebody.

`ApprovalsImplementGrants` is the refinement of `SpendGrant`, proved step by step: each
action maps to a step of the abstract machine or to a stutter. The single `Decide` is
the settlement, the single successful `Consume` the payment; `Issue`, announcements and sweeps of
decided requests are stutters. That two `Consume` steps cannot both pay comes from the
uniqueness of the token, hence from `OneDecider`.

### Dispatcher

A cycle works on copies, so `DeliveryInv` says what the copies of every cycle under way
still tell about the tables. `Answered`: the attempt whose status is about to be
written is on record (`StatusesHaveAttempts`). `Through`: what a cycle is through with it
has tried, or nobody there wants it, or it is exhausted, which is also tried
(`CyclesMakeFullRounds`). `Held`: a cycle that has an acknowledged alert in its copies had
it when it was acknowledged (`AcksUndoneByOlderCyclesOnly`, an action property).
`AttemptsStayBounded` counts: attempts on record plus cycles between the check and the
record (`Senders`) stay within the limit and the further cycles. The bound on recorded attempts
alone is not inductive, because a recording step would break it.

### Registry, audit chain, audit traces, anomalies, OAuth

* **`RegInv`** is types, what a handler knows in each step (`RegLocals`: rows it has found are never
  deleted), and three facts. `Unbarred`: a payment that is past the tool, the server or the
  permission has not been barred by it all the time, which is `BarredToolsPayNothing`
  once the last read is over. `DriftLowersTrust` is inductive as it stands: the trust of a server is
  lowered before the drift is recorded. `Announced`: a tool in quarantine that no review has
  touched has its alert, or the registration that stored its row has the row still in hand, or died;
  hence `QuarantinesAreAnnounced`. `OnlyReviewsClear` is an action property: from a registration a
  tool gets "clear" only when nothing is found in its description.
* **`ChainInv`.** Nothing but the unique sequence number keeps the processes apart. `Numbered`,
  `Unique` and `Linked` say that the entries are numbered from one without a gap and that each names the
  hash of its predecessor; `Writers`, that two processes never write an entry of one change, so that
  `OneEntryEach` survives an insertion that raised. An insertion succeeds only if its number is free,
  and then what the process read is still the last entry. `ChainAlwaysVerifies` needs one more
  lemma: entries sorted by a sequence number without gaps are the sequence a verification walks.
* **`TraceInv`** says of every row what its call must be (`Telling`) and how far that call must have come
  (`Following`); and that of the rows of one call only an anomaly score comes after the
  verdict. `TracesAreOfOnePayment` follows: of a call that was judged before the traced one began,
  everything but that score lies outside the window of the trace.
* **`AnomInv`.** A payment that none has overtaken is scored twice, at the gate and in the finalizer, by
  the same history. `Undisturbed` says per stage what has been read so far and that it is what would be
  read now; `ThresholdsHoldUndisturbed` is its last line. `ProfilesAreExact` is an equation
  between the profile and a sum over the payments captured, and each capture (`Capture`,
  `CaptureFromScoring`) adds one member to that sum.
* **`OAuthInv`.** What is presented is consumed before it is checked. So a code that is
  not used up has no presenter and no tokens, and a refresh token that is not
  revoked has no successor; every token, stored or about to be, descends from the one request that was
  right about the code (`Descends`). `CodesAreGuessedOnce` and `OneRefreshLineLives`
  follow by counting: two members of a set that are always equal are one. `OAuthTyped` needs that the
  access token of a pair is stored before the refresh token (`Paired`).

### Mandates, keys, provider receipts, settlement, batch

* **`MandateInv`.** Two regimes. For a call that met nobody, what its locals say is still true of the rows
  (`Private`), and once such a call has accepted a cart its intent is closed for good (`Closed`): the
  row has a terminal life cycle, and every call under way that could still write it
  either leaves that alone or will refuse (`Resigned`). That holds whatever other calls do
  afterwards, also when they race, and gives `IntentsAreUsedOnce`. While nobody has met anybody, what a call
  has read is what is stored (`UpToDate`), an accepted cart stands in the family of its intent, in a
  terminal state (`Leaf`), and an intent not consumed yet has a call about to consume it (`Pending`,
  `Consuming`); this gives `RetirementIsBottomUp`.
* **`TrustInv`.** What a fetch under way has in its hands was published after it began, and it is under
  way no longer than `FetchTime` (`FetchBounded`). So a copy, in the cache or with a caller, lists a key for
  at most the age of the cache and that time after the issuer dropped it, or the age of the cache after
  the process started (`CopyBounded`). A check accepts a key a copy lists only while the copy is usable, so
  how long any key was accepted after it was dropped (`outlived`) is arithmetic over those
  bounds; that is `RevokedKeysDie`.
* **`ReceiptInv`.** While nobody comes between, the claim that is judged is the one that was presented, and a sound
  verdict means a claim not used before (`Undisturbed`); a receipt that has paid says
  so for ever (`PaidIsUsed`), so the second payment of one cannot be undisturbed.
* **`SettleInv`.** `TotalIsHeld`: while no date was out of date, the total of the day is the sum of
  what its reservations hold, and no day's reservations exceed the ceiling. The ceiling of the
  transfers (`DailyCapHeld`) is a sum over a subset of those.
* **`BatchInv`.** One launch at a time is behind the lock (`Exclusive`), and a launch that finds a
  journal does not go on. So it is enough to follow that launch (`Accounts`): before the
  preflight is over no money has moved, and in each step afterwards its record of progress,
  and with it the file, owns up to every transfer. `ItemsAreTransferredOnce` and
  `MoneyFollowsTheJournal` are conjuncts.

### Sums and sequences

The models count with `SumFunctionOnSet` and `SetToSortSeq` of the community modules, whose
definitions choose a recursive function. The induction theorems of the library take an
operator as a parameter and cannot be used here, so `SumLemmas` argues by least counterexamples:
the well-founded orderings of the library (`<` on the naturals, strict inclusion
on the subsets of a finite set) give a smallest set on which the function does not exist, or on
which two of them differ, and removing one member refutes it (`SummingExists`, `SummingAgree`). What
the other proofs cite is ordinary: the sum over the empty set, with one member more or fewer, over a
subset, of functions that agree or differ in one place, that are zero or bounded (`SumEmpty`,
`SumAdd`, `SumRemove`, `SumMonotone`, `SumAgree`, `SumChange`, `SumSupport`, `SumAtMost`). The chain argues in the same way that a
set without gaps has as many members as its greatest number.

Each of these invariants was checked with TLC on the instances of the runs before or
while it was proved; the runs themselves check the properties they imply.

### Only model-checked

* `NoAlertForgotten`: liveness under fairness is out of this prover's reach.
* Two starts of the composed instances: `MCControl` also lets a behaviour of the registry begin with a
  registered tool, and `MCProtocols` one of the mandates with a presented intent, to save steps. The
  theorems are about `RegSpec` and `MandatesSpec`, which begin with empty tables, as the program
  does; there the same rows are the work of one more call.
* The findings: a violation is a counterexample, which is TLC's to find.

## Not modelled

* In `/pay`: rate limiting and metrics. AP2 mandates, provider receipts, anomaly
  scoring and audit rows are modelled beside `PayFlow`, each with the payment
  pipeline reduced to its two outcomes, and not inside it.
* Changes of the policy bundle during a behaviour.
* In approvals: the matching of amount and vendor rules (an input: which bodies are
  held).
* The rows the administrative handlers append to the audit log; identity profiles
  captured for administrators.
* Audit reports built on a trace (`api/audit.py:609-831`, `:911-1477`): timelines,
  cross references and exports rearrange rows and keep nothing.
* Provider receipts: verification of a settlement over RPC.
* The single-shot batch script, apart from the coordinator and the ports it shares with
  the fixed batch.
* Without state of their own, or reports only: identity, intent evaluation,
  operations, phase 3 and integration endpoints, demo pages, SDK, evidence
  scripts.
* Several server processes on one database, except for the audit chain; the
  deployment files start one.

## Plan

All modules planned at first exist: `PayFlow`, `Approvals`, `Dispatcher`, `Registry`, `OAuth`, `Mandates`,
`LiveSettle`, `BatchJournal`, then `AuditChain`, `AuditTrace`, `Anomalies`, `SignerTrust` and
`ProviderReceipts`; so do the proofs of all their safety properties. What would come next:

1. A payment with everything it touches in one machine: `PayFlow` with the mandate and the
   provider receipt of its request, and the theorem that it implements `Mandates` and
   `ProviderReceipts`, whose payment is one step today.
2. An abstract specification of delivery, at least once and within the limit, and `Dispatcher` as its
   implementation.
3. The hazards without a property, which `PROJECT.json` lists with the reason: the
   crash between an approval and its token, codes in the hands of two processes, the nonce
   shared by two settlements, the lost answer and the late release that loosen the day's
   ceiling, and the table of known transactions at its limit.

## Running

    tlc -workers 2 -config PayConcurrent.cfg MCPayFlow     # likewise the other Pay*.cfg
    tlc -workers 2 -config Approvals.cfg MCApprovals
    tlc -workers 2 -config Dispatcher.cfg MCDispatcher
    tlc -workers 2 -config Control.cfg MCControl
    tlc -workers 2 -config Protocols.cfg MCProtocols
    tlapm PayFlowProofs.tla        # likewise PayFlowSafety, ApprovalsProofs, DispatcherProofs,
                                   # OAuthProofs, SumLemmas, ControlProofs, ProtocolProofs
