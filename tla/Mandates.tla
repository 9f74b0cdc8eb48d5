------------------------------ MODULE Mandates ------------------------------
(***************************************************************************)
(* AP2 mandates in Safe4 (app/protocols/ap2.py): a payment presents an     *)
(* intent or a cart under an intent, which is verified against the stored  *)
(* rows and then stored, in many store calls; administrators set retention, *)
(* archive and sweep in between.                                           *)
(***************************************************************************)
EXTENDS Integers, FiniteSets, Sequences

CONSTANTS
    Ids,        \* mandate ids
    Offers,     \* presentations: a set of Offer
    Cases,      \* calls of the API, each made once: numbers, begun in their order
    Goods,      \* kinds of items
    NoId

Fields == {"amount", "currency", "vendor", "user"}

\* What is in a request and its mandate.  "says" is, for each source of the
\* package (the payload and its envelope), the values of a field under all its
\* names; "lists" the item lists of the sources, as bags; "pays" and "asked" are
\* the payment's own fields and items.
Bag == [Goods -> Nat]
IsOffer(o) ==
    /\ o.id \in Ids /\ o.type \in {"intent", "cart"} /\ o.parent \in Ids \cup {NoId}
    /\ o.signed \in BOOLEAN
    /\ \A f \in Fields : o.says[f] \subseteq Nat /\ o.pays[f] \in Nat
    /\ \A b \in o.lists \cup o.asked : b \in Bag

Life == {"active", "consumed", "consumed_by_child", "archived", "rejected"}
Terminal == {"archived", "consumed", "consumed_by_child"}
\* "kept" is retained_until: not set, to come, reached, or of no time zone, which
\* cannot be compared with the present.
Row == [type : {"intent", "cart"}, life : Life, accepted : BOOLEAN, successor : Ids \cup {NoId},
        kept : {"undated", "later", "past", "naive"}, archived : BOOLEAN, redacted : BOOLEAN,
        family : Ids, parent : Ids \cup {NoId}, offer : Offers]

ASSUME MandatesTyped == (\A o \in Offers : IsOffer(o)) /\ NoId \notin Ids \cup Row

VARIABLES
    mandate,   \* ap2_mandates: a Row, or NoId
    run,       \* locals of the calls
    done,      \* history: the accepted presentations, in the order of their answers
    met        \* history: the calls during which another one took a step

mandateVars == <<mandate, run, done, met>>

NoResult == [accepted |-> FALSE, lifecycle |-> FALSE, family |-> NoId]
Resting == [step |-> "idle", kind |-> "none", offer |-> NoId, id |-> NoId, parent |-> NoId,
            result |-> NoResult, existing |-> NoId, row |-> NoId]

MandatesInit ==
    /\ mandate = [i \in Ids |-> NoId]
    /\ run = [c \in Cases |-> Resting]
    /\ done = <<>> /\ met = {}

Ended == {"idle", "over"}
\* Every step of a call is one that the other calls in flight have met.
Stepping(c, from, fields) ==
    /\ run[c].step = from
    /\ run' = [run EXCEPT ![c] = fields]
    /\ LET others == {d \in Cases \ {c} : run[d].step \notin Ended} IN
       met' = met \cup others \cup (IF others = {} THEN {} ELSE {c})
To(c, step) == [run[c] EXCEPT !.step = step]
Accept(c) == done' = Append(done, [call |-> c, offer |-> run[c].offer])

Stored(i) == mandate[i] # NoId
OfFamily(f) == {i \in Ids : Stored(i) /\ mandate[i].family = f}
Retiring(f) == \E i \in OfFamily(f) : mandate[i].archived

----------------------------------------------------------------------------
(* SharedSecretAP2Verifier.verify.                                         *)

\* _resolve_canonical_package: every source that names a field agrees, and the
\* item lists are the same bag.
Resolved(o, f) == Cardinality(o.says[f]) = 1
Package(o) == (\A f \in Fields : Resolved(o, f)) /\ Cardinality(o.lists) <= 1
Says(o, f) == CHOOSE v \in o.says[f] : TRUE

\* The payment is the one the mandate describes, item for item.
MatchesPayment(o) ==
    /\ \A f \in Fields : Says(o, f) = o.pays[f]
    /\ o.lists # {} => o.asked = o.lists

\* An intent whose payload was redacted lists no items.
ItemsOf(p) == IF p.redacted THEN {} ELSE p.offer.lists

\* A cart stays within its intent: the same payer, vendor and currency, no more
\* money, and of each item no more (_compare_parent_item_limits).
WithinIntent(o, p) ==
    /\ \A f \in Fields \ {"amount"} : p.offer.pays[f] = o.pays[f]
    /\ Says(o, "amount") <= p.offer.pays["amount"]
    /\ \A limit \in ItemsOf(p), items \in o.lists : \A g \in Goods : items[g] <= limit[g]

\* Mutant: the state of a used cart is looked for, not that of a used intent.
ConsumedAsCart(o, p) == p.life = "consumed" /\ p.successor \notin {NoId, o.id}
\* Another cart has consumed the intent.
ConsumedByOther(o, p) == p.life = "consumed_by_child" /\ p.successor \notin {NoId, o.id}

IsIntent(p) == p # NoId /\ p.type = "intent" /\ p.accepted
FamilyOf(o, p) == IF o.type = "cart" /\ IsIntent(p) THEN p.family ELSE o.id

Refusal == NoResult
Unfit(family) == [accepted |-> FALSE, lifecycle |-> TRUE, family |-> family]

\* The verdict once the rows have been read: signature, then parent, then limits.
Verdict(o, p) ==
    IF ~o.signed \/ (o.type = "cart" /\ ~IsIntent(p)) THEN Refusal
    ELSE IF o.type = "cart" /\ (p.life = "archived" \/ ConsumedByOther(o, p)) THEN Unfit(p.family)
    ELSE [accepted |-> MatchesPayment(o) /\ (o.type = "cart" => WithinIntent(o, p)),
          lifecycle |-> FALSE, family |-> FamilyOf(o, p)]

Judged(c, result) == [To(c, "existing") EXCEPT !.result = result]

Present(c) ==
    /\ \E o \in Offers :
         Stepping(c, "idle",
           [Resting EXCEPT !.kind = "pay", !.offer = o, !.id = o.id, !.parent = o.parent,
              !.step = IF o.type = "cart" /\ o.parent = NoId THEN "existing" ELSE "lifecycle"])
    /\ UNCHANGED <<mandate, done>>

\* _validate_existing_mandate_lifecycle, then the package.
CheckLifecycle(c) ==
    LET o == run[c].offer
        old == mandate[o.id]
    IN /\ Stepping(c, "lifecycle",
            IF old # NoId /\ old.life \in Terminal THEN Judged(c, Unfit(old.family))
            ELSE IF ~Package(o) THEN Judged(c, Refusal)
            ELSE IF o.type = "cart" THEN To(c, "parent")
            ELSE Judged(c, Verdict(o, NoId)))
       /\ UNCHANGED <<mandate, done>>

ReadParent(c) ==
    LET o == run[c].offer
        p == mandate[o.parent]
    IN /\ Stepping(c, "parent",
            IF IsIntent(p) /\ p.life # "archived" THEN [To(c, "family") EXCEPT !.row = p]
            ELSE Judged(c, Verdict(o, p)))
       /\ UNCHANGED <<mandate, done>>

\* _validate_parent_family_retirement.
CheckFamily(c) ==
    LET o == run[c].offer
        p == run[c].row
        judged == IF Retiring(p.family) THEN Unfit(p.family) ELSE Verdict(o, p)
    IN /\ Stepping(c, "family", [Judged(c, judged) EXCEPT !.row = NoId])
       /\ UNCHANGED <<mandate, done>>

----------------------------------------------------------------------------
(* The rest of enforce_ap2_policy.                                         *)

\* The row is read again; one of a terminal state is kept as it is, and a family
\* in retirement takes no snapshot of a mandate that was refused for it.
ReadExisting(c) ==
    LET old == mandate[run[c].id] IN
    /\ Stepping(c, "existing",
         [run[c] EXCEPT !.existing = old, !.row = old,
            !.step = IF old # NoId /\ old.life \in Terminal
                       THEN IF old.kept = "undated" THEN "retain" ELSE "settle"
                     ELSE IF old = NoId /\ run[c].result.lifecycle THEN "snapshot"
                     ELSE "upsert"])
    /\ UNCHANGED <<mandate, done>>

CheckSnapshot(c) ==
    /\ Stepping(c, "snapshot",
                To(c, IF Retiring(run[c].result.family) THEN "settle" ELSE "upsert"))
    /\ UNCHANGED <<mandate, done>>

\* upsert_ap2_mandate: archived and consumed rows keep their state, redacted ones
\* their (lack of a) payload; dates and successor are those of the old row.
Upserted(o, result, old) ==
    [type |-> o.type, accepted |-> result.accepted, parent |-> o.parent,
     life |-> IF old # NoId /\ (old.archived \/ old.life \in {"consumed", "consumed_by_child"})
                THEN old.life
              ELSE IF ~result.accepted THEN "rejected"
              ELSE IF o.type = "cart" THEN "consumed" ELSE "active",
     family |-> IF result.family = NoId THEN o.id ELSE result.family,
     successor |-> IF old = NoId THEN NoId ELSE old.successor,
     kept |-> IF old = NoId THEN "undated" ELSE old.kept,
     archived |-> old # NoId /\ old.archived, redacted |-> old # NoId /\ old.redacted,
     offer |-> o]

Upsert(c) ==
    /\ Stepping(c, "upsert", To(c, "reread"))
    /\ mandate' = [mandate EXCEPT ![run[c].id] = Upserted(run[c].offer, run[c].result, @)]
    /\ UNCHANGED done

Reread(c) ==
    /\ Stepping(c, "reread",
         [run[c] EXCEPT !.row = mandate[run[c].id],
            !.step = IF run[c].existing = NoId \/ run[c].existing.kept = "undated"
                       THEN "retain" ELSE "settle"])
    /\ UNCHANGED <<mandate, done>>

\* update_ap2_mandate_lifecycle: the four columns are written from a row that was
\* read earlier.
Rewritten(i, fields) ==
    mandate' = IF ~Stored(i) THEN mandate
               ELSE [mandate EXCEPT ![i] = [@ EXCEPT !.life = fields.life, !.kept = fields.kept,
                       !.successor = fields.successor, !.archived = fields.archived]]

Retain(c) ==
    /\ Stepping(c, "retain", To(c, "settle"))
    /\ Rewritten(run[c].id, [run[c].row EXCEPT !.kept = "later"])
    /\ UNCHANGED done

\* An accepted cart goes on to its parent, every other call to its answer.
Settle(c) ==
    LET won == run[c].result.accepted
        cart == run[c].offer.type = "cart"
    IN /\ IF won /\ cart
            THEN /\ Stepping(c, "settle",
                             [To(c, "consume") EXCEPT !.row = mandate[run[c].parent]])
                 /\ UNCHANGED done
            ELSE /\ Stepping(c, "settle", [Resting EXCEPT !.step = "over"])
                 /\ IF won THEN Accept(c) ELSE UNCHANGED done
       /\ UNCHANGED mandate

ConsumeParent(c) ==
    /\ Stepping(c, "consume", [Resting EXCEPT !.step = "over"])
    /\ Rewritten(run[c].parent,
                 [run[c].row EXCEPT !.life = "consumed_by_child", !.successor = run[c].id])
    /\ Accept(c)

----------------------------------------------------------------------------
(* Administration.                                                         *)

\* Both handlers begin by reading the row; 404 without one.
Open(c, i, kind) ==
    /\ Stored(i)
    /\ Stepping(c, "idle", [Resting EXCEPT !.step = kind, !.kind = kind, !.id = i,
                                          !.row = mandate[i]])
    /\ UNCHANGED <<mandate, done>>

\* set_ap2_mandate_retention; any timestamp will do, AP2MandateRetentionRequest asks
\* for no time zone.
SetRetention(c) ==
    /\ Stepping(c, "retention", [Resting EXCEPT !.step = "over"])
    /\ \E date \in {"later", "past", "naive"} :
         Rewritten(run[c].id, [run[c].row EXCEPT !.kept = date])
    /\ UNCHANGED done

\* A mandate, and every one below it in the same set of rows.
Below(i, rows) ==
    {j \in rows : \A under \in SUBSET rows :
        (\A k \in rows : mandate[k].parent \in under \cup {i} => k \in under) => j \in under}
Unarchived(rows) == {j \in rows : ~mandate[j].archived}

\* _assert_ap2_mandate_can_archive, over the family alone.
CheckArchive(c) ==
    LET alive == Unarchived(Below(run[c].id, OfFamily(run[c].row.family))) IN
    /\ Stepping(c, "archive", IF alive = {} THEN To(c, "close") ELSE [Resting EXCEPT !.step = "over"])
    /\ UNCHANGED <<mandate, done>>

\* archive_ap2_mandate.
Archive(c) ==
    /\ Stepping(c, "close", [Resting EXCEPT !.step = "over"])
    /\ Rewritten(run[c].id, [run[c].row EXCEPT !.life = "archived", !.archived = TRUE])
    /\ UNCHANGED done

\* Mutant: the sweep archives whatever is past its date.
SweptAnyway(due) == due
\* archive_expired_ap2_mandates: of the rows past their date, those below which
\* all is archived or swept before them; an unarchived row below itself never is.
Swept(due) ==
    LET rows == {k \in Ids : Stored(k)} IN
    {i \in due : \A j \in Unarchived(Below(i, rows)) : j \in due /\ j \notin Below(j, rows)}

\* The unarchived rows of a date, of which one that is not comparable ends the sweep
\* (and its handler) with a TypeError.
OfDate(kept) == {i \in Ids : Stored(i) /\ ~mandate[i].archived /\ mandate[i].kept = kept}

FailSweep(c) ==
    /\ OfDate("naive") # {}
    /\ Stepping(c, "idle", [Resting EXCEPT !.step = "over"])
    /\ UNCHANGED <<mandate, done>>

\* archive_expired_ap2_mandates and redact_archived_ap2_mandates, each one
\* transaction: of the families without an unarchived member, the rows archived
\* long enough ago are redacted.
Sweep(c) ==
    /\ OfDate("naive") = {}
    /\ Stepping(c, "idle", [Resting EXCEPT !.kind = "sweep", !.step = "redact"])
    /\ mandate' = [i \in Ids |-> IF i \in Swept(OfDate("past"))
                     THEN [mandate[i] EXCEPT !.life = "archived", !.archived = TRUE]
                     ELSE mandate[i]]
    /\ UNCHANGED done

Redact(c) ==
    /\ Stepping(c, "redact", [Resting EXCEPT !.step = "over"])
    /\ \E old \in SUBSET {i \in Ids : Stored(i) /\ mandate[i].archived
                                      /\ Unarchived(OfFamily(mandate[i].family)) = {}} :
         mandate' = [i \in Ids |-> IF i \in old THEN [mandate[i] EXCEPT !.redacted = TRUE]
                                   ELSE mandate[i]]
    /\ UNCHANGED done

\* Days go by: the date of a row is reached.
Expire(i) ==
    /\ Stored(i) /\ mandate[i].kept = "later"
    /\ mandate' = [mandate EXCEPT ![i].kept = "past"]
    /\ UNCHANGED <<run, done, met>>

MandatesNext ==
    \/ \E c \in Cases :
         \/ Present(c) \/ CheckLifecycle(c) \/ ReadParent(c) \/ CheckFamily(c)
         \/ ReadExisting(c) \/ CheckSnapshot(c) \/ Upsert(c) \/ Reread(c) \/ Retain(c)
         \/ Settle(c) \/ ConsumeParent(c) \/ SetRetention(c) \/ CheckArchive(c) \/ Archive(c)
         \/ FailSweep(c) \/ Sweep(c) \/ Redact(c)
         \/ \E i \in Ids : Open(c, i, "retention") \/ Open(c, i, "archive")
    \/ \E i \in Ids : Expire(i)

MandatesSpec == MandatesInit /\ [][MandatesNext]_mandateVars

----------------------------------------------------------------------------
MandatesTypeOK ==
    /\ \A i \in Ids : Stored(i) => mandate[i] \in Row
    /\ \A c \in Cases :
         /\ run[c].step \in {"idle", "over", "lifecycle", "parent", "family", "existing", "snapshot",
              "upsert", "reread", "retain", "settle", "consume", "retention", "archive", "close",
              "redact"}
         /\ run[c].existing # NoId => run[c].existing \in Row
         /\ run[c].row # NoId => run[c].row \in Row
    /\ met \subseteq Cases

Carts == {n \in DOMAIN done : done[n].offer.type = "cart"}

\* Of two carts accepted under one intent, the first was not verified and stored
\* undisturbed: only calls of other clients in the middle of it let the intent be
\* used twice (_validate_parent_mandate_lifecycle and the update of the parent).
UsedOnceUnlessRaced ==
    \A m, n \in Carts : m < n /\ done[m].offer.parent = done[n].offer.parent
                          => done[m].call \in met

\* As the verifier's message has it: an intent consumed by a cart accepts no other.
OneChildPerIntent ==
    \A m, n \in Carts : done[m].offer.parent = done[n].offer.parent => m = n

\* Retirement goes from the leaves up: no accepted cart is left unarchived under an
\* archived intent, whoever archives, unless calls met
\* (_assert_ap2_mandate_can_archive, archive_expired_ap2_mandates).
ArchivedBottomUp ==
    met = {} => \A i \in Ids :
        Stored(i) /\ mandate[i].type = "cart" /\ mandate[i].accepted /\ ~mandate[i].archived
            => Stored(mandate[i].parent) /\ ~mandate[mandate[i].parent].archived
=============================================================================
