---------------------------- MODULE BatchJournal ----------------------------
(***************************************************************************)
(* The fixed live batch of Safe4 (scripts/demo_live_arc_batch_fixed.py     *)
(* around the coordinator of scripts/demo_live_arc_batch.py): transfers    *)
(* that are authorized, submitted and verified one after another, each     *)
(* step journaled on disk.  The script may be started again, or twice; it  *)
(* may die at any point, and every write of the journal may fail.          *)
(***************************************************************************)
EXTENDS Integers

CONSTANTS
    Launches,   \* the times an operator starts the script
    ItemCount,  \* items of the fixed plan
    NoFile

ASSUME BatchTyped == ItemCount \in Nat \ {0}

Items == 1..ItemCount
Ports == 1..3       \* authorization, submission, verification
NotStarted == [port |-> 0, kind |-> "not started"]
Phase == {NotStarted} \cup [port : Ports, kind : {"started", "result", "exception"}]
JournalStatus == {"prepared", "started", "complete", "stopped", "aborted"}
File == [status : JournalStatus, phase : [Items -> Phase]]

ASSUME NoFileIsNone == NoFile \notin File

VARIABLES
    lock,     \* the lock file exists
    journal,  \* the journal on disk, or NoFile
    remnant,  \* a temporary file of an interrupted write exists
    launch,   \* the processes: position, progress in memory, health of the journal
    moved     \* the transfers the provider has made for each item

batchVars == <<lock, journal, remnant, launch, moved>>

Unborn == [step |-> "idle", item |-> 1, port |-> 1, answer |-> "none", healthy |-> TRUE,
           progress |-> [i \in Items |-> NotStarted]]

BatchInit ==
    /\ lock = FALSE /\ journal = NoFile /\ remnant = FALSE
    /\ launch = [l \in Launches |-> Unborn]
    /\ moved = [i \in Items |-> 0]

At(l, step) == launch[l].step = step
Moves(l, fields) == launch' = [launch EXCEPT ![l] = fields]
Enters(l, step) == Moves(l, [launch[l] EXCEPT !.step = step])

\* _atomic_write_private_json and _assert_journal_matches: the file is replaced
\* and read back, after which the process is "ok"; or a step of this fails, before
\* the replacement (a temporary file may stay) or after it, and it is "bad".
Write(l, status, ok, bad) ==
    LET file == [status |-> status, phase |-> ok.progress] IN
    \/ journal' = file /\ Moves(l, ok) /\ UNCHANGED remnant
    \/ journal' \in {journal, file} /\ Moves(l, bad) /\ remnant' \in {remnant, TRUE}

----------------------------------------------------------------------------
(* execute_fixed_live_batch, up to the first port.                         *)

\* A step that touches nothing of this state and either lets the launch pass or ends it.
Passes(l, from, to, otherwise) ==
    /\ At(l, from)
    /\ Enters(l, to) \/ Enters(l, otherwise)
    /\ UNCHANGED <<lock, journal, remnant, moved>>

\* observe_clean_source_identity: a clean worktree at a known revision.
CheckSource(l) == Passes(l, "idle", "sourced", "out")

\* _ExclusiveFileLock.__enter__; what fails after the file was created leaves it.
TakeLock(l) ==
    /\ At(l, "sourced")
    /\ IF lock THEN Enters(l, "out") ELSE \E step \in {"locked", "out"} : Enters(l, step)
    /\ lock' = TRUE
    /\ UNCHANGED <<journal, remnant, moved>>

\* Mutant: a journal that ended, well or not, does not stand in the way.
PriorUnfinished == remnant \/ (journal # NoFile /\ journal.status \in {"prepared", "started"})
\* _refuse_prior_or_incomplete_state: any other entry of the directory.
PriorState == journal # NoFile \/ remnant

LookAround(l) ==
    /\ At(l, "locked")
    /\ Enters(l, IF PriorState THEN "leaving" ELSE "prepare")
    /\ UNCHANGED <<lock, journal, remnant, moved>>

\* The plan is on disk before the application is configured.
PersistPlan(l) ==
    /\ \/ At(l, "prepare") /\ Write(l, "prepared", [launch[l] EXCEPT !.step = "configure"],
                                                   [launch[l] EXCEPT !.step = "leaving"])
       \/ At(l, "start") /\ Write(l, "started", [launch[l] EXCEPT !.step = "runtime"],
                                                [launch[l] EXCEPT !.step = "leaving"])
    /\ UNCHANGED <<lock, moved>>

\* configure_isolated_environment.
Isolate(l) == Passes(l, "configure", "start", "leaving")

\* _real_runtime_factory: the isolation of the application, the version of the Circle
\* CLI and the wallet in its list, and a token of the local application.
OpenRuntime(l) == Passes(l, "runtime", "wallet", "abort")
CheckWallet(l) == Passes(l, "wallet", "balances", "abort")

\* ArcPublicBalanceObserver and _assert_required_preflight_balance: what is not observed,
\* or is too low, ends the launch.
ReadBalances(l) == Passes(l, "balances", "preflight", "abort")

\* The journal with what the preflight observed.
Preflight(l) ==
    /\ At(l, "preflight")
    /\ Write(l, "started", [launch[l] EXCEPT !.step = "port"], [launch[l] EXCEPT !.step = "abort"])
    /\ UNCHANGED <<lock, moved>>

----------------------------------------------------------------------------
(* LiveArcBatchCoordinator.run through the journaled ports.                *)

\* _DurableProgressJournal.record: the transition is in memory before it is
\* written; a failed write is raised, and the coordinator stops the batch.
Recorded(l, kind) ==
    [launch[l] EXCEPT !.progress[launch[l].item] = [port |-> launch[l].port, kind |-> kind]]

\* Mutant: a failed write of the journal is noted, and the call made all the same.
UnrecordedGoesOn(l, kind) == [Recorded(l, kind) EXCEPT !.step = "call", !.healthy = FALSE]
Unrecorded(l, kind) == [Recorded(l, kind) EXCEPT !.step = "finish", !.healthy = FALSE]

StartCall(l) ==
    /\ At(l, "port")
    /\ Write(l, "started", [Recorded(l, "started") EXCEPT !.step = "call"],
                           Unrecorded(l, "started"))
    /\ UNCHANGED <<lock, moved>>

Answered(l, answer) == Moves(l, [launch[l] EXCEPT !.step = "answered", !.answer = answer])

\* LocalSafe4AuthorizationPort.authorize: Safe4 asks for its fee, sells a receipt for it
\* and authorizes the payment with it; or it denies, or its answer or audit row is not
\* the one of this item, or a call fails.
AskSafe4(l) ==
    /\ At(l, "call") /\ launch[l].port = 1
    /\ \E answer \in {"good", "bad", "raised"} : Answered(l, answer)
    /\ UNCHANGED <<lock, journal, remnant, moved>>

\* CircleCliSubmissionPort.submit: a hash of its own, or the hash of an earlier
\* item, comes with a transfer; without one there may have been a transfer too.
Submit(l) ==
    /\ At(l, "call") /\ launch[l].port = 2
    /\ \E took \in BOOLEAN, answer \in {"good", "reused", "bad", "raised"} :
         /\ answer = "good" => took
         /\ answer = "reused" => ~took /\ launch[l].item > 1
         /\ Answered(l, answer)
         /\ moved' = [moved EXCEPT ![launch[l].item] = @ + (IF took THEN 1 ELSE 0)]
    /\ UNCHANGED <<lock, journal, remnant>>

\* assert_single_bound_outgoing_transfer, assert_single_successful_bound_user_operation:
\* the receipt holds one transfer of the wallet, and it is this item's.
Confirmed(i) == moved[i] > 0

\* ArcRpcVerificationPort.verify: the chain confirms, contradicts, is silent or fails; it
\* confirms nothing that did not happen.
Observe(l) ==
    /\ At(l, "call") /\ launch[l].port = 3
    /\ \E answer \in {"good", "bad", "raised"} :
         /\ answer = "good" => Confirmed(launch[l].item)
         /\ Answered(l, answer)
    /\ UNCHANGED <<lock, journal, remnant, moved>>

\* What follows an answer: the next port, the next item, or the end.
Onward(l) ==
    LET now == [launch[l] EXCEPT !.answer = "none"] IN
    IF launch[l].answer # "good" THEN [launch[l] EXCEPT !.step = "finish"]
    ELSE IF launch[l].port = 3 /\ launch[l].item = ItemCount THEN [now EXCEPT !.step = "finish"]
    ELSE IF launch[l].port < 3 THEN [now EXCEPT !.step = "port", !.port = @ + 1]
    ELSE [now EXCEPT !.step = "port", !.port = 1, !.item = @ + 1]

RecordAnswer(l) ==
    /\ At(l, "answered")
    /\ LET kind == IF launch[l].answer = "raised" THEN "exception" ELSE "result" IN
       Write(l, "started", [Onward(l) EXCEPT !.progress = Recorded(l, kind).progress],
                           Unrecorded(l, kind))
    /\ UNCHANGED <<lock, moved>>

----------------------------------------------------------------------------
(* The end of execute_fixed_live_batch.                                    *)

\* No call stopped the batch, so that every item was verified.
AllGood(l) == launch[l].answer = "none"

\* assert_healthy, the balances, the evidence and the last journal.
Finish(l) ==
    /\ At(l, "finish")
    /\ \/ Enters(l, "abort") /\ UNCHANGED <<journal, remnant>>
       \/ /\ launch[l].healthy
          /\ Write(l, IF AllGood(l) THEN "complete" ELSE "stopped",
                   [launch[l] EXCEPT !.step = "leaving"], [launch[l] EXCEPT !.step = "abort"])
    /\ UNCHANGED <<lock, moved>>

\* Any exception; a failure of this write is swallowed.
Abort(l) ==
    /\ At(l, "abort")
    /\ LET gone == [launch[l] EXCEPT !.step = "leaving"] IN Write(l, "aborted", gone, gone)
    /\ UNCHANGED <<lock, moved>>

\* _ExclusiveFileLock.__exit__, whose unlink may fail.
Leave(l) ==
    /\ At(l, "leaving")
    /\ Enters(l, "out")
    /\ lock' \in BOOLEAN
    /\ UNCHANGED <<journal, remnant, moved>>

\* The process dies; in the middle of a write its temporary file stays.
Die(l) ==
    /\ launch[l].step \notin {"idle", "out"}
    /\ Enters(l, "out")
    /\ remnant' \in {remnant, TRUE}
    /\ UNCHANGED <<lock, journal, moved>>

BatchNext == \E l \in Launches :
    \/ CheckSource(l) \/ TakeLock(l) \/ LookAround(l) \/ PersistPlan(l) \/ Isolate(l)
    \/ OpenRuntime(l) \/ CheckWallet(l) \/ ReadBalances(l) \/ Preflight(l)
    \/ StartCall(l) \/ AskSafe4(l) \/ Submit(l) \/ Observe(l) \/ RecordAnswer(l)
    \/ Finish(l) \/ Abort(l) \/ Leave(l) \/ Die(l)

BatchSpec == BatchInit /\ [][BatchNext]_batchVars

----------------------------------------------------------------------------
BatchTypeOK ==
    /\ lock \in BOOLEAN /\ remnant \in BOOLEAN
    /\ journal \in {NoFile} \cup File
    /\ \A l \in Launches :
         /\ launch[l].item \in Items /\ launch[l].port \in Ports
         /\ launch[l].healthy \in BOOLEAN /\ launch[l].progress \in [Items -> Phase]
    /\ moved \in [Items -> Nat]

\* However often and however simultaneously the script is started, and wherever
\* it dies, the provider makes at most one transfer for an item: a launch has
\* keys of its own, so nothing but lock and journal keeps a second one out
\* (_ExclusiveFileLock, _refuse_prior_or_incomplete_state).
OneTransferPerItem == \A i \in Items : moved[i] <= 1

\* No money moves ahead of the journal: whatever the provider may have done, the
\* file on disk says that its submission was at least started, also after a death
\* or a failed write (_JournaledSubmissionPort).
JournalBeforeMoney ==
    \A i \in Items : moved[i] > 0 => journal # NoFile /\ journal.phase[i].port >= 2
=============================================================================
