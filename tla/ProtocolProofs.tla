-------------------------- MODULE ProtocolProofs ----------------------------
(***************************************************************************)
(* What the mandates, the signers' keys, the provider receipts, the live   *)
(* settlement and the batch journal keep, for any number of requests,      *)
(* mandates, keys, payments, settlers, launches and items: for each the    *)
(* invariant that its steps keep, and the properties of its runs that      *)
(* follow from it.                                                         *)
(***************************************************************************)
EXTENDS Mandates, SignerTrust, ProviderReceipts, LiveSettle, BatchJournal, SumLemmas

----------------------------------------------------------------------------
(* The mandates of AP2.                                                    *)

\* The steps of a presentation; those with a row in hand; the rows of locals.
Judging == {"existing", "snapshot", "upsert", "reread", "retain", "settle", "consume"}
Payments == {"lifecycle", "parent", "family"} \cup Judging
RowUsers == {"retain", "retention", "archive", "close"}
RunSteps == Payments \cup {"idle", "over", "retention", "archive", "close", "redact"}
ResultRow == [accepted : BOOLEAN, lifecycle : BOOLEAN, family : Ids \cup {NoId}]
RunRow == [step : RunSteps, kind : {"none", "pay", "retention", "archive", "sweep"},
           offer : Offers \cup {NoId}, id : Ids \cup {NoId}, parent : Ids \cup {NoId},
           result : ResultRow, existing : Row \cup {NoId}, row : Row \cup {NoId}]

\* A call on its way; one whose verdict accepted a cart; a row archived as its columns say.
Active(c) == run[c].step \notin Ended
Won(r) == r.result.accepted /\ r.offer.type = "cart"
RowOK(r) == /\ r.archived => r.life \in {"archived", "consumed_by_child"}
            /\ r.life = "archived" => r.archived

\* What the locals of a call say of the rows, whoever else is at work.
Formed(m, r) ==
    /\ r.step \in Payments => r.offer \in Offers /\ r.id = r.offer.id /\ r.parent = r.offer.parent
    /\ r.step = "lifecycle" /\ r.offer.type = "cart" => r.parent \in Ids
    /\ r.step \in {"parent", "family"} => r.offer.type = "cart" /\ r.parent \in Ids
    /\ r.step = "family" => r.row \in Row /\ m[r.parent] # NoId
    /\ r.step \in RowUsers \cup {"consume"} => r.row \in Row
    /\ r.step \in RowUsers \cup {"reread"} => r.id \in Ids /\ m[r.id] # NoId
    /\ r.row # NoId => RowOK(r.row)
    /\ r.result.accepted => r.step \in Judging /\ ~r.result.lifecycle
    /\ r.step \in Judging /\ Won(r) => r.parent \in Ids /\ m[r.parent] # NoId
    /\ r.step = "snapshot" => ~r.result.accepted
    /\ r.step = "consume" => Won(r)

\* What a call knows that nobody has met.
Private(m, r) ==
    /\ r.step \in {"reread", "retain", "settle", "consume"} /\ Won(r) =>
          m[r.id] # NoId /\ m[r.id].life \in Terminal
    /\ r.step = "retain" => r.row.life = m[r.id].life

\* Cart j has consumed intent i.
Spent(row, j) == row.life = "archived" \/ (row.life = "consumed_by_child" /\ row.successor = j)
Shut(m, i, j) == /\ m[j] # NoId /\ m[j].life \in Terminal
                 /\ m[i] # NoId /\ Spent(m[i], j)
\* A call that will neither accept another cart under i nor write an older row back.
Resigned(r, i, j) ==
    /\ r.step \in Judging => ~(Won(r) /\ r.parent = i)
    /\ r.step \in {"parent", "family"} => r.id # j
    /\ r.step = "family" /\ r.parent = i => Spent(r.row, j)
    /\ r.step \in RowUsers => /\ r.id = j => r.row.life \in Terminal
                              /\ r.id = i => Spent(r.row, j)
Closed(m, at, i, j) == Shut(m, i, j) /\ \A c \in Cases : Resigned(at[c], i, j)

\* While nobody has met anybody, what a call has read is what is stored.
UpToDate(m, r) ==
    /\ r.step \in RowUsers => /\ r.row.archived = m[r.id].archived /\ r.row.life = m[r.id].life
                              /\ r.row.family = m[r.id].family
    /\ r.step = "consume" => r.row.archived = m[r.parent].archived
    /\ r.step = "family" => /\ r.row.family = m[r.parent].family
                            /\ r.row.type = "intent" /\ r.row.accepted
    /\ r.step \in Judging /\ Won(r) => /\ ~m[r.parent].archived
                                       /\ r.result.family = m[r.parent].family
    /\ r.step \in {"snapshot", "upsert"} => m[r.id] = NoId \/ m[r.id].life \notin Terminal
    /\ r.step = "close" => \A k \in Ids : m[k] # NoId /\ m[k].type = "cart" /\ m[k].accepted
                                           /\ m[k].parent = r.id => m[k].archived

\* An accepted cart is in the family of its intent, which it has consumed or is about to.
AcceptedCart(m, i) == m[i] # NoId /\ m[i].type = "cart" /\ m[i].accepted
\* The place of an accepted cart; one whose intent is not consumed yet, and the call that will.
Leaf(m, i) ==
    AcceptedCart(m, i) =>
       /\ m[i].life \in Terminal
       /\ m[i].parent \in Ids /\ m[m[i].parent] # NoId
       /\ m[i].family = m[m[i].parent].family
       /\ ~m[i].archived => ~m[m[i].parent].archived
Pending(m, i) == AcceptedCart(m, i) /\ m[m[i].parent].life \notin Terminal
Consuming(m, r, i) == /\ r.step \in {"reread", "retain", "settle", "consume"} /\ Won(r)
                      /\ r.id = i /\ r.parent = m[i].parent
Orderly(m, r) == \A i \in Ids : Leaf(m, i) /\ (Pending(m, i) => Consuming(m, r, i))

\* The rows; the accepted presentations so far, each of a call that is over.
MandateRows(m) == /\ m \in [Ids -> Row \cup {NoId}]
                  /\ \A i \in Ids : m[i] # NoId => RowOK(m[i])
Entry == [call : Cases, offer : Offers]
History ==
    /\ done \in Seq(Entry)
    /\ \A n \in DOMAIN done : run[done[n].call].step = "over"
    /\ \A n \in Carts : done[n].call \notin met =>
          done[n].offer.parent \in Ids /\ Closed(mandate, run, done[n].offer.parent, done[n].offer.id)
    /\ UsedOnceUnlessRaced

\* The invariant: without others in between, what a call has read is what is stored; an intent whose
\* cart was accepted by a call nobody met is closed for good; and while nobody has met anybody accepted
\* carts stand under intents that are not archived before them.
MandateInv ==
    /\ MandateRows(mandate)
    /\ run \in [Cases -> RunRow] /\ met \subseteq Cases
    /\ \A c \in Cases : Formed(mandate, run[c])
    /\ \A c, d \in Cases : c # d /\ Active(c) /\ Active(d) => c \in met
    /\ \A c \in Cases : c \notin met => Private(mandate, run[c])
    /\ History
    /\ met = {} => /\ \A c \in Cases : UpToDate(mandate, run[c])
                   /\ \A i \in Ids : Leaf(mandate, i)
                   /\ \A i \in Ids : Pending(mandate, i) => \E c \in Cases : Consuming(mandate, run[c], i)

----------------------------------------------------------------------------
\* What a step of one call leaves alone, and what the invariant says of that call.
LEMMA OneCall ==
  ASSUME MandateInv, NEW c \in Cases, NEW from \in RunSteps \ {"over"}, NEW fields,
         Stepping(c, from, fields)
  PROVE  /\ run[c].step = from /\ run'[c] = fields
         /\ \A d \in Cases \ {c} : run'[d] = run[d] /\ (Active(d) => d \in met' /\ c \in met')
         /\ met \subseteq met' /\ met' \subseteq Cases
         /\ run' = [run EXCEPT ![c] = fields]
<1> QED
  BY DEF MandateInv, Stepping, Active

LEMMA Known ==
  ASSUME MandateInv, NEW c \in Cases
  PROVE  /\ MandateRows(mandate) /\ run[c] \in RunRow /\ Formed(mandate, run[c])
         /\ c \notin met => Private(mandate, run[c])
         /\ \A i, j \in Ids : Closed(mandate, run, i, j) => Shut(mandate, i, j) /\ Resigned(run[c], i, j)
         /\ met = {} => UpToDate(mandate, run[c])
<1> QED
  BY DEF MandateInv, Closed

LEMMA KnownAlone ==
  ASSUME MandateInv, NEW c \in Cases, NEW from \in RunSteps \ {"over"}, NEW fields,
         Stepping(c, from, fields), met' = {}
  PROVE  met = {} /\ Orderly(mandate, run[c]) /\ UpToDate(mandate, run[c])
<1>1. met = {} /\ \A d \in Cases \ {c} : ~Active(d)
  BY OneCall
<1>2. ASSUME NEW i \in Ids, Pending(mandate, i)
      PROVE  Consuming(mandate, run[c], i)
  <2>1. PICK d \in Cases : Consuming(mandate, run[d], i)
    BY <1>1, <1>2 DEF MandateInv
  <2>2. Active(d)
    BY <2>1 DEF Consuming, Active, Ended
  <2> QED
    BY <1>1, <2>1, <2>2
<1>3. \A i \in Ids : Leaf(mandate, i)
  BY <1>1 DEF MandateInv
<1> QED
  BY <1>1, <1>2, <1>3 DEF MandateInv, Orderly

\* What an entry of the history rules out stays ruled out.
LEMMA HistoryKept ==
  ASSUME MandateInv, done' = done, met \subseteq met',
         \A n \in DOMAIN done : run'[done[n].call].step = "over",
         \A i, j \in Ids : Closed(mandate, run, i, j) => Closed(mandate', run', i, j)
  PROVE  History'
<1>1. Carts' = Carts
  BY DEF Carts
<1>2. \A n \in Carts : n \in DOMAIN done /\ done[n] \in Entry
  <2>1. done \in Seq(Entry)
    BY DEF MandateInv, History
  <2> HIDE DEF Entry
  <2>2. \A n \in DOMAIN done : done[n] \in Entry
    BY <2>1
  <2> QED
    BY <2>2 DEF Carts
<1>3. \A n \in Carts : done[n].offer.id \in Ids
  BY <1>2, MandatesTyped DEF Entry, IsOffer
<1>4. \A n \in Carts : done[n].call \notin met' =>
          done[n].offer.parent \in Ids /\ Closed(mandate', run', done[n].offer.parent, done[n].offer.id)
  <2> TAKE n \in Carts
  <2> HAVE done[n].call \notin met'
  <2>1. done[n].offer.parent \in Ids /\ Closed(mandate, run, done[n].offer.parent, done[n].offer.id)
    BY DEF MandateInv, History
  <2> QED
    BY <1>3, <2>1
<1>5. UsedOnceUnlessRaced'
  BY <1>1 DEF MandateInv, History, UsedOnceUnlessRaced
<1> QED
  BY <1>1, <1>4, <1>5 DEF MandateInv, History

\* A call takes a step: what has to be shown of its locals and of the rows.
LEMMA CallStep ==
  ASSUME MandateInv, NEW c \in Cases, NEW from \in RunSteps \ {"over"}, NEW fields \in RunRow,
         Stepping(c, from, fields),
         MandateRows(mandate'), \A i \in Ids : mandate[i] # NoId => mandate'[i] # NoId,
         Formed(mandate', fields),
         c \notin met' => Private(mandate', fields),
         \A i, j \in Ids : Shut(mandate, i, j) /\ Resigned(run[c], i, j)
                             => Shut(mandate', i, j) /\ Resigned(fields, i, j),
         met' = {} => UpToDate(mandate', fields) /\ Orderly(mandate', fields),
         done' = done \/ History'
  PROVE  MandateInv'
<1>1. /\ run[c].step = from /\ run'[c] = fields
      /\ \A d \in Cases \ {c} : run'[d] = run[d] /\ (Active(d) => d \in met' /\ c \in met')
      /\ met \subseteq met' /\ met' \subseteq Cases
      /\ run' = [run EXCEPT ![c] = fields]
  BY OneCall
<1>2. run' \in [Cases -> RunRow]
  BY <1>1 DEF MandateInv
<1>3. ASSUME NEW d \in Cases
      PROVE  Formed(mandate', run'[d])
  <2>1. CASE d = c
    BY <1>1, <2>1
  <2>2. CASE d # c
    <3>1. run'[d] = run[d] /\ Formed(mandate, run[d])
      BY <1>1, <2>2 DEF MandateInv
    <3>2. run[d].step \in Payments => run[d].offer \in Offers
      BY <3>1 DEF Formed
    <3> QED
      BY <3>1, <3>2 DEF Formed
  <2> QED
    BY <2>1, <2>2
<1>4. \A d, e \in Cases : d # e /\ Active(d)' /\ Active(e)' => d \in met'
  BY <1>1 DEF MandateInv, Active
<1>5. ASSUME NEW d \in Cases, d \notin met'
      PROVE  Private(mandate', run'[d])
  <2>1. CASE d = c
    BY <1>1, <1>5, <2>1
  <2>2. CASE d # c
    <3>1. run'[d] = run[d] /\ run[d].step \in Ended
      BY <1>1, <1>5, <2>2 DEF Active
    <3> QED
      BY <3>1 DEF Private, Ended
  <2> QED
    BY <2>1, <2>2
<1>6. ASSUME NEW i \in Ids, NEW j \in Ids, Closed(mandate, run, i, j)
      PROVE  Closed(mandate', run', i, j)
  <2>1. Shut(mandate, i, j) /\ \A d \in Cases : Resigned(run[d], i, j)
    BY <1>6 DEF Closed
  <2>2. Shut(mandate', i, j) /\ Resigned(fields, i, j)
    BY <2>1
  <2>3. \A d \in Cases : Resigned(run'[d], i, j)
    BY <1>1, <2>1, <2>2
  <2> QED
    BY <2>2, <2>3 DEF Closed, Shut
<1>7. History'
  <2>1. CASE done' = done
    <3>1. ASSUME NEW n \in DOMAIN done PROVE run'[done[n].call].step = "over"
      <4>1. run[done[n].call].step = "over"
        BY DEF MandateInv, History
      <4>2. done[n] \in Entry
        <5>1. done \in Seq(Entry)
          BY DEF MandateInv, History
        <5> HIDE DEF Entry
        <5> QED
          BY <5>1
      <4>3. done[n].call \in Cases /\ done[n].call # c
        BY <1>1, <4>1, <4>2 DEF Entry
      <4> QED
        BY <1>1, <4>1, <4>3
    <3> QED
      BY <1>1, <1>6, <2>1, <3>1, HistoryKept
  <2> QED
    BY <2>1
<1>8. ASSUME met' = {}
      PROVE  /\ \A d \in Cases : UpToDate(mandate', run'[d])
             /\ \A i \in Ids : Leaf(mandate', i)
             /\ \A i \in Ids : Pending(mandate', i) =>
                                  \E d \in Cases : Consuming(mandate', run'[d], i)
  <2>1. ASSUME NEW d \in Cases PROVE UpToDate(mandate', run'[d])
    <3>1. CASE d = c
      BY <1>1, <1>8, <3>1
    <3>2. CASE d # c
      <4>1. run'[d] = run[d] /\ run[d].step \in Ended
        BY <1>1, <1>8, <3>2 DEF Active
      <4> QED
        BY <4>1 DEF UpToDate, Ended, RowUsers, Judging
    <3> QED
      BY <3>1, <3>2
  <2>2. Orderly(mandate', run'[c])
    BY <1>1, <1>8
  <2> QED
    BY <2>1, <2>2 DEF Orderly
<1> QED
  BY <1>1, <1>2, <1>3, <1>4, <1>5, <1>7, <1>8 DEF MandateInv

\* A call only reads.
LEMMA ReadStep ==
  ASSUME MandateInv, NEW c \in Cases, NEW from \in RunSteps \ {"over"}, NEW fields \in RunRow,
         Stepping(c, from, fields), UNCHANGED <<mandate, done>>,
         Formed(mandate, fields),
         c \notin met' => Private(mandate, fields),
         \A i, j \in Ids : Shut(mandate, i, j) /\ Resigned(run[c], i, j) => Resigned(fields, i, j),
         met' = {} => UpToDate(mandate, fields),
         \A i \in Ids : Consuming(mandate, run[c], i) => Consuming(mandate, fields, i)
  PROVE  MandateInv'
<1>1. mandate' = mandate /\ MandateRows(mandate)
  BY DEF MandateInv
<1>2. ASSUME met' = {} PROVE UpToDate(mandate', fields) /\ Orderly(mandate', fields)
  <2>1. Orderly(mandate, run[c])
    BY <1>2, KnownAlone
  <2>2. Orderly(mandate, fields)
    BY <2>1 DEF Orderly
  <2> QED
    BY <1>1, <1>2, <2>2
<1> QED
  BY <1>1, <1>2, CallStep

\* What the verifier says of an offer, given the row of its intent.
LEMMA Verdicted ==
  ASSUME NEW o \in Offers, NEW p \in Row \cup {NoId}, NEW result, result = Verdict(o, p)
  PROVE  /\ result \in ResultRow
         /\ result.accepted => ~result.lifecycle
         /\ result.accepted /\ o.type = "cart" =>
              /\ p \in Row /\ p.life # "archived" /\ ~ConsumedByOther(o, p)
              /\ result.family = p.family
<1>1. o.id \in Ids
  BY MandatesTyped DEF IsOffer
<1>2. IsIntent(p) => p \in Row /\ p.family \in Ids
  BY DEF IsIntent, Row
<1>3. MatchesPayment(o) \in BOOLEAN
  BY DEF MatchesPayment
<1>4. WithinIntent(o, p) \in BOOLEAN
  BY DEF WithinIntent
<1>5. CASE ~o.signed \/ (o.type = "cart" /\ ~IsIntent(p))
  BY <1>5 DEF Verdict, Refusal, NoResult, ResultRow
<1>6. CASE ~(~o.signed \/ (o.type = "cart" /\ ~IsIntent(p)))
  <2>1. CASE o.type = "cart" /\ (p.life = "archived" \/ ConsumedByOther(o, p))
    BY <1>2, <1>6, <2>1 DEF Verdict, Unfit, ResultRow
  <2>2. CASE ~(o.type = "cart" /\ (p.life = "archived" \/ ConsumedByOther(o, p)))
    <3> DEFINE fine == MatchesPayment(o) /\ (o.type = "cart" => WithinIntent(o, p))
    <3>1. result = [accepted |-> fine, lifecycle |-> FALSE, family |-> FamilyOf(o, p)]
      BY <1>6, <2>2 DEF Verdict
    <3>2. fine \in BOOLEAN
      BY <1>3, <1>4
    <3>3. FamilyOf(o, p) \in Ids
      BY <1>1, <1>2 DEF FamilyOf
    <3>4. o.type = "cart" => FamilyOf(o, p) = p.family
      BY <1>6 DEF FamilyOf
    <3> HIDE DEF fine
    <3> QED
      BY <1>2, <1>6, <2>2, <3>1, <3>2, <3>3, <3>4 DEF ResultRow
  <2> QED
    BY <2>1, <2>2
<1> QED
  BY <1>5, <1>6

\* One lemma for each step of a presentation.
LEMMA OffersAreTyped ==
  ASSUME NEW o \in Offers
  PROVE  o.id \in Ids /\ o.type \in {"intent", "cart"} /\ o.parent \in Ids \cup {NoId}
<1> QED
  BY MandatesTyped DEF IsOffer

LEMMA PresentKeeps ==
  ASSUME MandateInv, NEW c \in Cases, Present(c)
  PROVE  MandateInv'
<1>1. PICK o \in Offers :
         Stepping(c, "idle",
           [Resting EXCEPT !.kind = "pay", !.offer = o, !.id = o.id, !.parent = o.parent,
              !.step = IF o.type = "cart" /\ o.parent = NoId THEN "existing" ELSE "lifecycle"])
  BY DEF Present
<1> DEFINE fields ==
      [Resting EXCEPT !.kind = "pay", !.offer = o, !.id = o.id, !.parent = o.parent,
         !.step = IF o.type = "cart" /\ o.parent = NoId THEN "existing" ELSE "lifecycle"]
<1>2. /\ fields.offer = o /\ fields.id = o.id /\ fields.parent = o.parent
      /\ fields.result = NoResult /\ fields.row = NoId
      /\ fields.step = IF o.type = "cart" /\ o.parent = NoId THEN "existing" ELSE "lifecycle"
  BY DEF Resting
<1>3. fields \in RunRow
  BY OffersAreTyped DEF Resting, NoResult, RunRow, RunSteps, Payments, Judging, ResultRow
<1> HIDE DEF fields
<1>4. Formed(mandate, fields)
  BY <1>2, OffersAreTyped DEF Formed, Judging, RowUsers, Won, NoResult
<1>5. Private(mandate, fields)
  BY <1>2 DEF Private
<1>6. \A i, j \in Ids : Resigned(fields, i, j)
  BY <1>2 DEF Resigned, Won, NoResult, Judging, RowUsers
<1>7. UpToDate(mandate, fields)
  BY <1>2 DEF UpToDate, Won, NoResult, Judging, RowUsers
<1>8. \A i \in Ids : ~Consuming(mandate, run[c], i)
  BY <1>1 DEF Stepping, Consuming
<1>9. "idle" \in RunSteps \ {"over"} /\ UNCHANGED <<mandate, done>>
  BY DEF RunSteps, Present
<1>10. Stepping(c, "idle", fields)
  BY <1>1 DEF fields
<1> QED
  BY <1>3, <1>4, <1>5, <1>6, <1>7, <1>8, <1>9, <1>10, ReadStep


\* A verdict: an accepted cart must have an intent that nothing has closed.
LEMMA JudgedStep ==
  ASSUME MandateInv, NEW c \in Cases, NEW from \in {"lifecycle", "parent", "family"},
         NEW result \in ResultRow, NEW fields,
         fields = Judged(c, result) \/ fields = [Judged(c, result) EXCEPT !.row = NoId],
         Stepping(c, from, fields), UNCHANGED <<mandate, done>>,
         result.accepted => ~result.lifecycle,
         result.accepted /\ run[c].offer.type = "cart" =>
           /\ run[c].parent \in Ids /\ mandate[run[c].parent] # NoId
           /\ \A j \in Ids : ~(Shut(mandate, run[c].parent, j) /\ Resigned(run[c], run[c].parent, j))
           /\ met = {} => /\ ~mandate[run[c].parent].archived
                          /\ result.family = mandate[run[c].parent].family
  PROVE  MandateInv'
<1>1. from \in RunSteps \ {"over"} /\ run[c].step = from
  BY OneCall DEF RunSteps, Payments
<1>2. run[c] \in RunRow /\ Formed(mandate, run[c])
  BY Known
<1>3. /\ fields \in RunRow
      /\ fields.step = "existing" /\ fields.result = result /\ fields.id = run[c].id
      /\ fields.offer = run[c].offer /\ fields.parent = run[c].parent
      /\ fields.row = run[c].row \/ fields.row = NoId
  BY <1>2 DEF Judged, To, RunRow, RunSteps, Payments, Judging
<1>4. run[c].step \in Payments
  BY <1>1 DEF Payments
<1>5. Won(fields) => result.accepted /\ run[c].offer.type = "cart"
  BY <1>3 DEF Won
<1>6. Formed(mandate, fields)
  BY <1>2, <1>3, <1>4, <1>5 DEF Formed, Payments, Judging, RowUsers
<1>7. Private(mandate, fields)
  BY <1>3 DEF Private
<1>8. \A i, j \in Ids : Shut(mandate, i, j) /\ Resigned(run[c], i, j) => Resigned(fields, i, j)
  BY <1>3, <1>5 DEF Resigned, Judging, RowUsers
<1>9. met' = {} => UpToDate(mandate, fields)
  <2>1. met' = {} => met = {}
    BY DEF Stepping
  <2> QED
    BY <1>3, <1>5, <2>1 DEF UpToDate, Judging, RowUsers
<1>10. \A i \in Ids : ~Consuming(mandate, run[c], i)
  BY <1>1 DEF Consuming
<1> QED
  BY <1>1, <1>3, <1>6, <1>7, <1>8, <1>9, <1>10, ReadStep

LEMMA CheckLifecycleKeeps ==
  ASSUME MandateInv, NEW c \in Cases, CheckLifecycle(c)
  PROVE  MandateInv'
<1> DEFINE o == run[c].offer
           old == mandate[o.id]
<1>1. /\ run[c].step = "lifecycle" /\ UNCHANGED <<mandate, done>>
      /\ run[c] \in RunRow /\ Formed(mandate, run[c]) /\ MandateRows(mandate)
  BY Known DEF CheckLifecycle, Stepping
<1>2. /\ o \in Offers /\ run[c].id = o.id /\ run[c].parent = o.parent /\ o.id \in Ids
      /\ o.type = "cart" => o.parent \in Ids
      /\ old \in Row \cup {NoId}
  BY <1>1, OffersAreTyped DEF Formed, Payments, MandateRows
<1>3. CASE old # NoId /\ old.life \in Terminal
  <2>1. Stepping(c, "lifecycle", Judged(c, Unfit(old.family)))
    BY <1>3 DEF CheckLifecycle
  <2>2. Unfit(old.family) \in ResultRow /\ ~Unfit(old.family).accepted
    BY <1>2, <1>3 DEF Unfit, ResultRow, Row
  <2> QED
    BY <1>1, <2>1, <2>2, JudgedStep
<1>4. CASE ~(old # NoId /\ old.life \in Terminal) /\ ~Package(o)
  <2>1. Stepping(c, "lifecycle", Judged(c, Refusal))
    BY <1>4 DEF CheckLifecycle
  <2>2. Refusal \in ResultRow /\ ~Refusal.accepted
    BY DEF Refusal, NoResult, ResultRow
  <2> QED
    BY <1>1, <2>1, <2>2, JudgedStep
<1>5. CASE ~(old # NoId /\ old.life \in Terminal) /\ Package(o) /\ o.type # "cart"
  <2>1. Stepping(c, "lifecycle", Judged(c, Verdict(o, NoId)))
    BY <1>5 DEF CheckLifecycle
  <2>2. /\ Verdict(o, NoId) \in ResultRow
        /\ Verdict(o, NoId).accepted => ~Verdict(o, NoId).lifecycle
    BY <1>2, Verdicted
  <2> QED
    BY <1>1, <1>5, <2>1, <2>2, JudgedStep
<1>6. CASE ~(old # NoId /\ old.life \in Terminal) /\ Package(o) /\ o.type = "cart"
  <2> DEFINE fields == To(c, "parent")
  <2>1. Stepping(c, "lifecycle", fields)
    BY <1>6 DEF CheckLifecycle
  <2>2. /\ fields \in RunRow /\ fields.step = "parent" /\ fields.offer = o
        /\ fields.id = o.id /\ fields.parent = o.parent /\ fields.row = run[c].row
        /\ fields.result = run[c].result
    BY <1>1, <1>2 DEF To, RunRow, RunSteps, Payments
  <2> HIDE DEF fields
  <2>3. Formed(mandate, fields)
    BY <1>1, <1>2, <1>6, <2>2 DEF Formed, RowUsers, Judging
  <2>4. Private(mandate, fields) /\ UpToDate(mandate, fields)
    BY <2>2 DEF Private, UpToDate, RowUsers, Judging
  <2>5. \A i, j \in Ids : Shut(mandate, i, j) => Resigned(fields, i, j)
    BY <1>6, <2>2 DEF Shut, Resigned, Judging, RowUsers
  <2>6. \A i \in Ids : ~Consuming(mandate, run[c], i)
    BY <1>1 DEF Consuming
  <2> QED
    BY <1>1, <2>1, <2>2, <2>3, <2>4, <2>5, <2>6, ReadStep DEF RunSteps, Payments
<1> QED
  BY <1>3, <1>4, <1>5, <1>6

LEMMA ReadParentKeeps ==
  ASSUME MandateInv, NEW c \in Cases, ReadParent(c)
  PROVE  MandateInv'
<1> DEFINE o == run[c].offer
           p == mandate[o.parent]
<1>1. /\ run[c].step = "parent" /\ UNCHANGED <<mandate, done>>
      /\ run[c] \in RunRow /\ Formed(mandate, run[c]) /\ MandateRows(mandate)
  BY Known DEF ReadParent, Stepping
<1>2. /\ o \in Offers /\ run[c].id = o.id /\ run[c].parent = o.parent /\ o.id \in Ids
      /\ o.type = "cart" /\ o.parent \in Ids /\ p \in Row \cup {NoId}
      /\ p # NoId => RowOK(p)
  BY <1>1, OffersAreTyped DEF Formed, Payments, MandateRows
<1>3. CASE IsIntent(p) /\ p.life # "archived"
  <2> DEFINE fields == [To(c, "family") EXCEPT !.row = p]
  <2>1. Stepping(c, "parent", fields)
    BY <1>3 DEF ReadParent
  <2>2. /\ fields \in RunRow /\ fields.step = "family" /\ fields.offer = o
        /\ fields.id = o.id /\ fields.parent = o.parent /\ fields.row = p
        /\ fields.result = run[c].result
    BY <1>1, <1>2 DEF To, RunRow, RunSteps, Payments
  <2>3. p \in Row /\ p.type = "intent" /\ p.accepted /\ p = mandate[fields.parent]
    BY <1>2, <1>3, <2>2 DEF IsIntent
  <2> HIDE DEF fields, p
  <2>4. Formed(mandate, fields)
    BY <1>1, <1>2, <2>2, <2>3, MandatesTyped DEF Formed, RowUsers, Judging
  <2>5. Private(mandate, fields) /\ UpToDate(mandate, fields)
    BY <2>2, <2>3 DEF Private, UpToDate, RowUsers, Judging
  <2>6. \A i, j \in Ids : Shut(mandate, i, j) /\ Resigned(run[c], i, j) => Resigned(fields, i, j)
    BY <1>1, <1>2, <2>2, <2>3 DEF Shut, Resigned, Judging, RowUsers
  <2>7. \A i \in Ids : ~Consuming(mandate, run[c], i)
    BY <1>1 DEF Consuming
  <2> QED
    BY <1>1, <2>1, <2>2, <2>4, <2>5, <2>6, <2>7, ReadStep DEF RunSteps, Payments
<1>4. CASE ~(IsIntent(p) /\ p.life # "archived")
  <2>1. Stepping(c, "parent", Judged(c, Verdict(o, p)))
    BY <1>4 DEF ReadParent
  <2>2. Verdict(o, p) \in ResultRow /\ ~Verdict(o, p).accepted
    <3>1. CASE ~IsIntent(p)
      BY <1>2, <3>1 DEF Verdict, Refusal, NoResult, ResultRow
    <3>2. CASE p.life = "archived"
      BY <1>2, <3>2, Verdicted
    <3> QED
      BY <1>4, <3>1, <3>2
  <2> QED
    BY <1>1, <2>1, <2>2, JudgedStep
<1> QED
  BY <1>3, <1>4

LEMMA CheckFamilyKeeps ==
  ASSUME MandateInv, NEW c \in Cases, CheckFamily(c)
  PROVE  MandateInv'
<1> DEFINE o == run[c].offer
           p == run[c].row
           judged == IF Retiring(p.family) THEN Unfit(p.family) ELSE Verdict(o, p)
<1>1. /\ run[c].step = "family" /\ UNCHANGED <<mandate, done>>
      /\ run[c] \in RunRow /\ Formed(mandate, run[c]) /\ MandateRows(mandate)
      /\ Stepping(c, "family", [Judged(c, judged) EXCEPT !.row = NoId])
  BY Known DEF CheckFamily, Stepping
<1>2. /\ o \in Offers /\ run[c].id = o.id /\ run[c].parent = o.parent /\ o.id \in Ids
      /\ o.type = "cart" /\ o.parent \in Ids /\ p \in Row /\ p.family \in Ids
      /\ mandate[o.parent] # NoId
  BY <1>1, OffersAreTyped DEF Formed, Payments, Row
<1>3. CASE Retiring(p.family)
  <2>1. Stepping(c, "family", [Judged(c, Unfit(p.family)) EXCEPT !.row = NoId])
    BY <1>1, <1>3
  <2>2. Unfit(p.family) \in ResultRow /\ ~Unfit(p.family).accepted
    BY <1>2 DEF Unfit, ResultRow
  <2> QED
    BY <1>1, <2>1, <2>2, JudgedStep
<1>4. CASE ~Retiring(p.family)
  <2> DEFINE result == Verdict(o, p)
  <2>1. Stepping(c, "family", [Judged(c, result) EXCEPT !.row = NoId])
    BY <1>1, <1>4
  <2>2. /\ result \in ResultRow /\ (result.accepted => ~result.lifecycle)
        /\ result.accepted => /\ p.life # "archived" /\ ~ConsumedByOther(o, p)
                              /\ result.family = p.family
    BY <1>2, Verdicted
  <2> HIDE DEF result
  <2>3. ASSUME result.accepted, NEW j \in Ids, Resigned(run[c], o.parent, j)
        PROVE  FALSE
    <3>1. Spent(p, j) /\ o.id # j
      BY <1>1, <1>2, <2>3 DEF Resigned
    <3>2. j # NoId
      BY MandatesTyped
    <3> QED
      BY <2>2, <2>3, <3>1, <3>2 DEF Spent, ConsumedByOther
  <2>4. ASSUME result.accepted, met = {}
        PROVE  ~mandate[o.parent].archived /\ result.family = mandate[o.parent].family
    <3>1. p.family = mandate[o.parent].family
      BY <1>1, <1>2, <2>4, Known DEF UpToDate
    <3>2. o.parent \in OfFamily(p.family)
      BY <1>2, <3>1 DEF OfFamily, Stored
    <3> QED
      BY <1>4, <2>2, <2>4, <3>1, <3>2 DEF Retiring
  <2> QED
    BY <1>1, <1>2, <2>1, <2>2, <2>3, <2>4, JudgedStep
<1> QED
  BY <1>3, <1>4


LEMMA ReadExistingKeeps ==
  ASSUME MandateInv, NEW c \in Cases, ReadExisting(c)
  PROVE  MandateInv'
<1> DEFINE old == mandate[run[c].id]
           fields == [run[c] EXCEPT !.existing = old, !.row = old,
             !.step = IF old # NoId /\ old.life \in Terminal
                        THEN IF old.kept = "undated" THEN "retain" ELSE "settle"
                      ELSE IF old = NoId /\ run[c].result.lifecycle THEN "snapshot"
                      ELSE "upsert"]
<1>1. /\ run[c].step = "existing" /\ UNCHANGED <<mandate, done>>
      /\ run[c] \in RunRow /\ Formed(mandate, run[c]) /\ MandateRows(mandate)
  BY Known DEF ReadExisting, Stepping
<1>2. /\ run[c].offer \in Offers /\ run[c].id \in Ids /\ run[c].id = run[c].offer.id
      /\ run[c].parent = run[c].offer.parent
      /\ old \in Row \cup {NoId} /\ (old # NoId => RowOK(old))
  BY <1>1, OffersAreTyped DEF Formed, Payments, Judging, MandateRows
<1>3. Stepping(c, "existing", fields)
  BY DEF ReadExisting
<1>4. /\ fields.id = run[c].id /\ fields.offer = run[c].offer /\ fields.parent = run[c].parent
      /\ fields.result = run[c].result /\ fields.row = old
      /\ fields.step \in {"retain", "settle", "snapshot", "upsert"}
      /\ fields.step \in {"retain", "settle"} <=> old # NoId /\ old.life \in Terminal
      /\ fields.step = "snapshot" => old = NoId /\ run[c].result.lifecycle
  BY <1>1 DEF RunRow
<1>5. fields \in RunRow
  BY <1>1, <1>2 DEF RunRow, RunSteps, Payments, Judging
<1>6. old = mandate[fields.id]
  BY <1>4
<1> HIDE DEF fields, old
<1>7. Formed(mandate, fields)
  BY <1>1, <1>2, <1>4, <1>6 DEF Formed, RowUsers, Judging, Payments, Won
<1>8. Private(mandate, fields)
  BY <1>4, <1>6 DEF Private
<1>9. met' = {} => UpToDate(mandate, fields)
  <2> SUFFICES ASSUME met' = {} PROVE UpToDate(mandate, fields)
    OBVIOUS
  <2>1. UpToDate(mandate, run[c])
    BY <1>3, <1>5, KnownAlone DEF RunSteps, Payments, Judging
  <2> QED
    BY <1>1, <1>4, <1>6, <2>1 DEF UpToDate, RowUsers, Judging, Won
<1>10. \A i, j \in Ids : Shut(mandate, i, j) /\ Resigned(run[c], i, j) => Resigned(fields, i, j)
  BY <1>1, <1>4, <1>6 DEF Shut, Resigned, Judging, RowUsers, Won
<1>11. \A i \in Ids : ~Consuming(mandate, run[c], i)
  BY <1>1 DEF Consuming
<1> QED
  BY <1>1, <1>3, <1>5, <1>7, <1>8, <1>9, <1>10, <1>11, ReadStep DEF RunSteps, Payments, Judging

LEMMA CheckSnapshotKeeps ==
  ASSUME MandateInv, NEW c \in Cases, CheckSnapshot(c)
  PROVE  MandateInv'
<1> DEFINE fields == To(c, IF Retiring(run[c].result.family) THEN "settle" ELSE "upsert")
<1>1. /\ run[c].step = "snapshot" /\ UNCHANGED <<mandate, done>>
      /\ run[c] \in RunRow /\ Formed(mandate, run[c])
      /\ Stepping(c, "snapshot", fields)
  BY Known DEF CheckSnapshot, Stepping
<1>2. /\ fields.id = run[c].id /\ fields.offer = run[c].offer /\ fields.parent = run[c].parent
      /\ fields.result = run[c].result /\ fields.row = run[c].row
      /\ fields.step \in {"settle", "upsert"}
  BY <1>1 DEF To, RunRow
<1>3. fields \in RunRow
  BY <1>1 DEF To, RunRow, RunSteps, Payments, Judging
<1>4. ~run[c].result.accepted
  BY <1>1 DEF Formed
<1> HIDE DEF fields
<1>5. Formed(mandate, fields)
  BY <1>1, <1>2, <1>4 DEF Formed, RowUsers, Judging, Payments, Won
<1>6. Private(mandate, fields)
  BY <1>2, <1>4 DEF Private, Won
<1>7. met' = {} => UpToDate(mandate, fields)
  <2> SUFFICES ASSUME met' = {} PROVE UpToDate(mandate, fields)
    OBVIOUS
  <2>1. UpToDate(mandate, run[c])
    BY <1>1, <1>3, KnownAlone DEF RunSteps, Payments, Judging
  <2> QED
    BY <1>1, <1>2, <1>4, <2>1 DEF UpToDate, RowUsers, Judging, Won
<1>8. \A i, j \in Ids : Resigned(fields, i, j)
  BY <1>2, <1>4 DEF Resigned, Judging, RowUsers, Won
<1>9. \A i \in Ids : ~Consuming(mandate, run[c], i)
  BY <1>1 DEF Consuming
<1> QED
  BY <1>1, <1>3, <1>5, <1>6, <1>7, <1>8, <1>9, ReadStep DEF RunSteps, Payments, Judging

LEMMA RereadKeeps ==
  ASSUME MandateInv, NEW c \in Cases, Reread(c)
  PROVE  MandateInv'
<1> DEFINE fields ==
      [run[c] EXCEPT !.row = mandate[run[c].id],
         !.step = IF run[c].existing = NoId \/ run[c].existing.kept = "undated"
                    THEN "retain" ELSE "settle"]
           old == mandate[run[c].id]
<1>1. /\ run[c].step = "reread" /\ UNCHANGED <<mandate, done>>
      /\ run[c] \in RunRow /\ Formed(mandate, run[c]) /\ MandateRows(mandate)
      /\ Stepping(c, "reread", fields)
  BY Known DEF Reread, Stepping
<1>2. run[c].id \in Ids /\ old \in Row /\ RowOK(old)
  BY <1>1 DEF Formed, RowUsers, MandateRows
<1>3. /\ fields.id = run[c].id /\ fields.offer = run[c].offer /\ fields.parent = run[c].parent
      /\ fields.result = run[c].result /\ fields.row = old
      /\ fields.step \in {"settle", "retain"}
  BY <1>1 DEF RunRow
<1>4. fields \in RunRow
  BY <1>1, <1>2 DEF RunRow, RunSteps, Payments, Judging
<1>5. old = mandate[fields.id] /\ old # NoId
  BY <1>2, <1>3, MandatesTyped
<1> HIDE DEF fields, old
<1>6. Formed(mandate, fields)
  BY <1>1, <1>2, <1>3, <1>5 DEF Formed, RowUsers, Judging, Payments, Won
<1>7. c \notin met' => Private(mandate, fields)
  <2> SUFFICES ASSUME c \notin met' PROVE Private(mandate, fields)
    OBVIOUS
  <2>1. Private(mandate, run[c])
    BY <1>1, Known DEF Stepping
  <2> QED
    BY <1>1, <1>3, <1>5, <2>1 DEF Private, Won
<1>8. met' = {} => UpToDate(mandate, fields)
  <2> SUFFICES ASSUME met' = {} PROVE UpToDate(mandate, fields)
    OBVIOUS
  <2>1. UpToDate(mandate, run[c])
    BY <1>1, <1>4, KnownAlone DEF RunSteps, Payments, Judging
  <2> QED
    BY <1>1, <1>3, <1>5, <2>1 DEF UpToDate, RowUsers, Judging, Won
<1>9. \A i, j \in Ids : Shut(mandate, i, j) /\ Resigned(run[c], i, j) => Resigned(fields, i, j)
  BY <1>1, <1>3, <1>5 DEF Shut, Resigned, Judging, RowUsers, Won
<1>10. \A i \in Ids : Consuming(mandate, run[c], i) => Consuming(mandate, fields, i)
  BY <1>3 DEF Consuming, Won
<1> QED
  BY <1>1, <1>4, <1>6, <1>7, <1>8, <1>9, <1>10, ReadStep DEF RunSteps, Payments, Judging

\* Opening a change of retention, an archiving or a redaction, and its check.
LEMMA OpenKeeps ==
  ASSUME MandateInv, NEW c \in Cases, NEW i \in Ids, NEW kind \in {"retention", "archive"},
         Open(c, i, kind)
  PROVE  MandateInv'
<1> DEFINE fields == [Resting EXCEPT !.step = kind, !.kind = kind, !.id = i, !.row = mandate[i]]
           old == mandate[i]
<1>1. /\ run[c].step = "idle" /\ UNCHANGED <<mandate, done>> /\ Stepping(c, "idle", fields)
      /\ old \in Row /\ RowOK(old) /\ old # NoId
  BY Known DEF Open, Stepping, Stored, MandateRows
<1>2. /\ fields.id = i /\ fields.row = old /\ fields.step = kind /\ fields.result = NoResult
      /\ old = mandate[fields.id]
  BY DEF Resting
<1>3. fields \in RunRow
  BY <1>1 DEF Resting, NoResult, RunRow, RunSteps, ResultRow
<1> HIDE DEF fields, old
<1>4. Formed(mandate, fields)
  BY <1>1, <1>2 DEF Formed, RowUsers, Judging, Payments, Won, NoResult
<1>5. Private(mandate, fields) /\ UpToDate(mandate, fields)
  BY <1>2 DEF Private, UpToDate, RowUsers, Judging
<1>6. \A k, j \in Ids : Shut(mandate, k, j) => Resigned(fields, k, j)
  BY <1>2 DEF Shut, Resigned, Judging, RowUsers
<1>7. \A k \in Ids : ~Consuming(mandate, run[c], k)
  BY <1>1 DEF Consuming
<1> QED
  BY <1>1, <1>3, <1>4, <1>5, <1>6, <1>7, ReadStep DEF RunSteps

\* The locals of a call that is over, or that goes on to redact.
LEMMA Rests ==
  ASSUME NEW m, NEW fields,
         \/ fields = [Resting EXCEPT !.step = "over"]
         \/ fields = [Resting EXCEPT !.kind = "sweep", !.step = "redact"]
  PROVE  /\ fields \in RunRow /\ Formed(m, fields) /\ Private(m, fields) /\ UpToDate(m, fields)
         /\ \A i, j \in Ids : Resigned(fields, i, j)
<1>1. /\ fields.step \in {"over", "redact"} /\ fields.row = NoId
      /\ ~fields.result.accepted /\ fields \in RunRow
  <2>1. CASE fields = [Resting EXCEPT !.step = "over"]
    BY <2>1 DEF Resting, NoResult, RunRow, RunSteps, ResultRow
  <2>2. CASE fields = [Resting EXCEPT !.kind = "sweep", !.step = "redact"]
    BY <2>2 DEF Resting, NoResult, RunRow, RunSteps, ResultRow
  <2> QED
    BY <2>1, <2>2
<1>3. Formed(m, fields)
  BY <1>1 DEF Formed, RowUsers, Judging, Payments, Won
<1>4. Private(m, fields) /\ UpToDate(m, fields)
  BY <1>1 DEF Private, UpToDate, RowUsers, Judging
<1>5. \A i, j \in Ids : Resigned(fields, i, j)
  BY <1>1 DEF Resigned, RowUsers, Judging
<1> QED
  BY <1>1, <1>3, <1>4, <1>5

LEMMA CheckArchiveKeeps ==
  ASSUME MandateInv, NEW c \in Cases, CheckArchive(c)
  PROVE  MandateInv'
<1> DEFINE family == OfFamily(run[c].row.family)
           alive == Unarchived(Below(run[c].id, family))
<1>1. /\ run[c].step = "archive" /\ UNCHANGED <<mandate, done>>
      /\ run[c] \in RunRow /\ Formed(mandate, run[c])
      /\ Stepping(c, "archive",
                  IF alive = {} THEN To(c, "close") ELSE [Resting EXCEPT !.step = "over"])
  BY Known DEF CheckArchive, Stepping
<1>2. \A i \in Ids : ~Consuming(mandate, run[c], i)
  BY <1>1 DEF Consuming
<1>3. CASE alive # {}
  <2> DEFINE fields == [Resting EXCEPT !.step = "over"]
  <2>1. Stepping(c, "archive", fields)
    BY <1>1, <1>3
  <2>3. /\ fields \in RunRow /\ Formed(mandate, fields) /\ Private(mandate, fields)
        /\ UpToDate(mandate, fields) /\ \A i, j \in Ids : Resigned(fields, i, j)
    BY Rests
  <2> HIDE DEF fields
  <2> QED
    BY <1>1, <1>2, <2>1, <2>3, ReadStep DEF RunSteps
<1>4. CASE alive = {}
  <2> DEFINE fields == To(c, "close")
  <2>1. Stepping(c, "archive", fields)
    BY <1>1, <1>4
  <2>2. /\ fields.id = run[c].id /\ fields.row = run[c].row /\ fields.step = "close"
        /\ fields.result = run[c].result /\ fields \in RunRow
    BY <1>1 DEF To, RunRow, RunSteps
  <2> HIDE DEF fields
  <2>3. Formed(mandate, fields)
    BY <1>1, <2>2 DEF Formed, RowUsers, Judging, Payments, Won
  <2>4. Private(mandate, fields)
    BY <2>2 DEF Private
  <2>5. ASSUME met' = {} PROVE UpToDate(mandate, fields)
    <3>1. UpToDate(mandate, run[c]) /\ Orderly(mandate, run[c])
      BY <1>1, <2>1, <2>2, <2>5, KnownAlone DEF RunSteps
    <3>2. ASSUME NEW k \in Ids, AcceptedCart(mandate, k), mandate[k].parent = run[c].id
          PROVE  mandate[k].archived
      <4>1. mandate[k].family = mandate[run[c].id].family
        BY <3>1, <3>2 DEF Orderly, Leaf
      <4>2. run[c].row.family = mandate[run[c].id].family
        BY <1>1, <3>1 DEF UpToDate, RowUsers
      <4>3. k \in family
        BY <3>2, <4>1, <4>2 DEF AcceptedCart, OfFamily, Stored
      <4>4. k \in Below(run[c].id, family)
        BY <3>2, <4>3 DEF Below
      <4> QED
        BY <1>4, <4>4 DEF Unarchived
    <3> QED
      BY <1>1, <2>2, <3>1, <3>2 DEF UpToDate, AcceptedCart, RowUsers, Judging
  <2>6. \A i, j \in Ids : Resigned(run[c], i, j) => Resigned(fields, i, j)
    BY <1>1, <2>2 DEF Resigned, Judging, RowUsers
  <2> QED
    BY <1>1, <1>2, <2>1, <2>2, <2>3, <2>4, <2>5, <2>6, ReadStep DEF RunSteps
<1> QED
  BY <1>3, <1>4


\* What a call writes of a row.
LEMMA RewritingDoes ==
  ASSUME MandateInv, NEW i \in Ids, mandate[i] # NoId, NEW fields \in Row, RowOK(fields),
         Rewritten(i, fields)
  PROVE  /\ MandateRows(mandate')
         /\ mandate'[i].life = fields.life /\ mandate'[i].archived = fields.archived
         /\ mandate'[i].successor = fields.successor
         /\ mandate'[i].type = mandate[i].type /\ mandate'[i].accepted = mandate[i].accepted
         /\ mandate'[i].parent = mandate[i].parent /\ mandate'[i].family = mandate[i].family
         /\ mandate'[i] # NoId
         /\ \A k \in Ids : k # i => mandate'[k] = mandate[k]
         /\ \A k \in Ids : mandate[k] # NoId => mandate'[k] # NoId
<1> DEFINE new == [mandate[i] EXCEPT !.life = fields.life, !.kept = fields.kept,
                     !.successor = fields.successor, !.archived = fields.archived]
<1>1. /\ mandate \in [Ids -> Row \cup {NoId}] /\ mandate[i] \in Row
      /\ \A k \in Ids : mandate[k] # NoId => RowOK(mandate[k])
  BY DEF MandateInv, MandateRows
<1>2. mandate' = [mandate EXCEPT ![i] = new]
  BY DEF Rewritten, Stored
<1>3. /\ new \in Row
      /\ new.life = fields.life /\ new.archived = fields.archived
      /\ new.successor = fields.successor
      /\ new.type = mandate[i].type /\ new.accepted = mandate[i].accepted
      /\ new.parent = mandate[i].parent /\ new.family = mandate[i].family
  BY <1>1 DEF Row
<1>4. RowOK(new) /\ new # NoId
  BY <1>3, MandatesTyped DEF RowOK
<1> HIDE DEF new
<1>5. mandate' \in [Ids -> Row \cup {NoId}] /\ mandate'[i] = new
      /\ \A k \in Ids : k # i => mandate'[k] = mandate[k]
  BY <1>1, <1>2, <1>3
<1>6. MandateRows(mandate')
  BY <1>1, <1>4, <1>5 DEF MandateRows
<1> QED
  BY <1>3, <1>4, <1>5, <1>6

\* The order of retirement depends on five columns, and on whether a row is used up.
Alike(row, old) ==
    /\ row = NoId <=> old = NoId
    /\ row.type = old.type /\ row.accepted = old.accepted /\ row.parent = old.parent
    /\ row.family = old.family /\ row.archived = old.archived
    /\ row.life \in Terminal <=> old.life \in Terminal

\* Writes that leave the place of every accepted cart as it was.
LEMMA OrderStands ==
  ASSUME NEW m, NEW m2, \A k \in Ids : Alike(m2[k], m[k]),
         NEW r, NEW r2, Orderly(m, r),
         \A i \in Ids : Consuming(m, r, i) => Consuming(m, r2, i)
  PROVE  Orderly(m2, r2)
<1> SUFFICES ASSUME NEW i \in Ids
             PROVE  Leaf(m2, i) /\ (Pending(m2, i) => Consuming(m2, r2, i))
  BY DEF Orderly
<1>1. Leaf(m, i) /\ (Pending(m, i) => Consuming(m, r, i))
  BY DEF Orderly
<1>2. AcceptedCart(m2, i) <=> AcceptedCart(m, i)
  BY DEF AcceptedCart, Alike
<1>3. m2[i].parent = m[i].parent /\ (m[i].parent \in Ids => Alike(m2[m[i].parent], m[m[i].parent]))
  BY DEF Alike
<1>4. Leaf(m2, i)
  BY <1>1, <1>2, <1>3 DEF Leaf, Alike
<1>5. ASSUME Pending(m2, i) PROVE Consuming(m2, r2, i)
  <2>1. AcceptedCart(m, i) /\ m[i].parent \in Ids
    BY <1>1, <1>2, <1>5 DEF Pending, Leaf
  <2>2. Pending(m, i)
    BY <1>3, <1>5, <2>1 DEF Pending, Alike
  <2>3. Consuming(m, r2, i)
    BY <1>1, <2>2
  <2> QED
    BY <1>3, <2>3 DEF Consuming
<1> QED
  BY <1>4, <1>5

LEMMA RetainKeeps ==
  ASSUME MandateInv, NEW c \in Cases, Retain(c)
  PROVE  MandateInv'
<1> DEFINE fields == To(c, "settle")
           i == run[c].id
           row == [run[c].row EXCEPT !.kept = "later"]
<1>1. /\ run[c].step = "retain" /\ done' = done /\ Stepping(c, "retain", fields)
      /\ run[c] \in RunRow /\ Formed(mandate, run[c]) /\ MandateRows(mandate)
      /\ Rewritten(i, row)
  BY Known DEF Retain, Stepping
<1>2. /\ fields.id = i /\ fields.offer = run[c].offer /\ fields.parent = run[c].parent
      /\ fields.result = run[c].result /\ fields.row = run[c].row
      /\ fields.step = "settle" /\ fields \in RunRow
  BY <1>1 DEF To, RunRow, RunSteps, Payments, Judging
<1>3. i \in Ids /\ mandate[i] # NoId /\ run[c].row \in Row /\ RowOK(run[c].row)
  BY <1>1, MandatesTyped DEF Formed, RowUsers
<1>4. /\ row \in Row /\ row.life = run[c].row.life /\ row.archived = run[c].row.archived
      /\ row.successor = run[c].row.successor
  BY <1>3 DEF Row
<1>5. RowOK(row)
  BY <1>3, <1>4 DEF RowOK
<1> HIDE DEF fields, row
<1>6. /\ MandateRows(mandate')
      /\ mandate'[i].life = row.life /\ mandate'[i].archived = row.archived
      /\ mandate'[i].successor = row.successor
      /\ mandate'[i].type = mandate[i].type /\ mandate'[i].accepted = mandate[i].accepted
      /\ mandate'[i].parent = mandate[i].parent /\ mandate'[i].family = mandate[i].family
      /\ mandate'[i] # NoId
      /\ \A k \in Ids : k # i => mandate'[k] = mandate[k]
      /\ \A k \in Ids : mandate[k] # NoId => mandate'[k] # NoId
  BY <1>1, <1>3, <1>4, <1>5, RewritingDoes
<1> HIDE DEF i
<1>7. Formed(mandate', fields)
  <2>1. Won(fields) => Won(run[c])
    BY <1>2 DEF Won
  <2> QED
    BY <1>1, <1>2, <1>6, <2>1 DEF Formed, RowUsers, Judging, Payments, i
<1>8. c \notin met' => Private(mandate', fields)
  <2>1. c \notin met' => Private(mandate, run[c])
    BY <1>1, Known DEF Stepping
  <2> QED
    BY <1>1, <1>2, <1>4, <1>6, <2>1 DEF Private, Won
<1>9. ASSUME NEW k \in Ids, NEW j \in Ids, Shut(mandate, k, j), Resigned(run[c], k, j)
      PROVE  Shut(mandate', k, j) /\ Resigned(fields, k, j)
  <2>1. j = i => row.life \in Terminal
    BY <1>1, <1>4, <1>9 DEF Resigned, RowUsers, i
  <2>2. k = i => Spent(row, j)
    BY <1>1, <1>4, <1>9 DEF Resigned, RowUsers, Spent, i
  <2>3. Shut(mandate', k, j)
    BY <1>6, <1>9, <2>1, <2>2 DEF Shut, Spent
  <2>4. Resigned(fields, k, j)
    BY <1>1, <1>2, <1>9 DEF Resigned, RowUsers, Judging, Won
  <2> QED
    BY <2>3, <2>4
<1>10. ASSUME met' = {} PROVE UpToDate(mandate', fields) /\ Orderly(mandate', fields)
  <2>1. met = {} /\ Orderly(mandate, run[c]) /\ UpToDate(mandate, run[c])
    BY <1>1, <1>2, <1>10, KnownAlone DEF RunSteps, Payments, Judging
  <2>2. row.archived = mandate[i].archived /\ row.life = mandate[i].life
    BY <1>1, <1>4, <2>1 DEF UpToDate, RowUsers, i
  <2>3. \A k \in Ids : Alike(mandate'[k], mandate[k])
    BY <1>3, <1>6, <2>2 DEF Alike
  <2>4. UpToDate(mandate', fields)
    <3> SUFFICES ASSUME Won(fields)
                 PROVE  ~mandate'[fields.parent].archived
                        /\ fields.result.family = mandate'[fields.parent].family
      BY <1>2 DEF UpToDate, RowUsers, Judging
    <3>1. /\ Won(run[c]) /\ run[c].parent \in Ids /\ ~mandate[run[c].parent].archived
          /\ run[c].result.family = mandate[run[c].parent].family
      BY <1>1, <1>2, <2>1 DEF Won, UpToDate, Formed, Judging
    <3>2. Alike(mandate'[run[c].parent], mandate[run[c].parent])
      BY <2>3, <3>1
    <3> QED
      BY <1>2, <3>1, <3>2 DEF Alike
  <2>5. \A k \in Ids : Consuming(mandate, run[c], k) => Consuming(mandate, fields, k)
    BY <1>2 DEF Consuming, Won, i
  <2> QED
    BY <2>1, <2>3, <2>4, <2>5, OrderStands
<1> QED
  BY <1>1, <1>2, <1>6, <1>7, <1>8, <1>9, <1>10, CallStep DEF RunSteps, Payments, Judging


LEMMA SetRetentionKeeps ==
  ASSUME MandateInv, NEW c \in Cases, SetRetention(c)
  PROVE  MandateInv'
<1>1. PICK date \in {"later", "past", "naive"} :
         Rewritten(run[c].id, [run[c].row EXCEPT !.kept = date])
  BY DEF SetRetention
<1> DEFINE fields == [Resting EXCEPT !.step = "over"]
           i == run[c].id
           row == [run[c].row EXCEPT !.kept = date]
<1>2. /\ run[c].step = "retention" /\ done' = done /\ Stepping(c, "retention", fields)
      /\ run[c] \in RunRow /\ Formed(mandate, run[c])
  BY Known DEF SetRetention, Stepping
<1>3. /\ \A m : Formed(m, fields) /\ Private(m, fields) /\ UpToDate(m, fields)
      /\ fields \in RunRow /\ \A k, j \in Ids : Resigned(fields, k, j)
  BY Rests
<1>4. i \in Ids /\ mandate[i] # NoId /\ run[c].row \in Row /\ RowOK(run[c].row)
  BY <1>2, MandatesTyped DEF Formed, RowUsers
<1>5. /\ row \in Row /\ row.life = run[c].row.life /\ row.archived = run[c].row.archived
      /\ row.successor = run[c].row.successor
  BY <1>4 DEF Row
<1>6. RowOK(row)
  BY <1>4, <1>5 DEF RowOK
<1> HIDE DEF fields, row
<1>7. /\ MandateRows(mandate')
      /\ mandate'[i].life = row.life /\ mandate'[i].archived = row.archived
      /\ mandate'[i].successor = row.successor
      /\ mandate'[i].type = mandate[i].type /\ mandate'[i].accepted = mandate[i].accepted
      /\ mandate'[i].parent = mandate[i].parent /\ mandate'[i].family = mandate[i].family
      /\ mandate'[i] # NoId
      /\ \A k \in Ids : k # i => mandate'[k] = mandate[k]
      /\ \A k \in Ids : mandate[k] # NoId => mandate'[k] # NoId
  BY <1>1, <1>4, <1>5, <1>6, RewritingDoes DEF row
<1>8. ASSUME NEW k \in Ids, NEW j \in Ids, Shut(mandate, k, j), Resigned(run[c], k, j)
      PROVE  Shut(mandate', k, j)
  <2>1. j = i => row.life \in Terminal
    BY <1>2, <1>5, <1>8 DEF Resigned, RowUsers
  <2>2. k = i => Spent(row, j)
    BY <1>2, <1>5, <1>8 DEF Resigned, RowUsers, Spent
  <2> HIDE DEF i
  <2> QED
    BY <1>7, <1>8, <2>1, <2>2 DEF Shut, Spent
<1>9. ASSUME met' = {} PROVE Orderly(mandate', fields)
  <2>1. met = {} /\ Orderly(mandate, run[c]) /\ UpToDate(mandate, run[c])
    BY <1>2, <1>9, KnownAlone DEF RunSteps
  <2>2. row.archived = mandate[i].archived /\ row.life = mandate[i].life
    BY <1>2, <1>5, <2>1 DEF UpToDate, RowUsers
  <2> HIDE DEF i
  <2>3. \A k \in Ids : Alike(mandate'[k], mandate[k])
    BY <1>4, <1>7, <2>2 DEF Alike
  <2>4. \A k \in Ids : ~Consuming(mandate, run[c], k)
    BY <1>2 DEF Consuming
  <2> QED
    BY <2>1, <2>3, <2>4, OrderStands
<1> QED
  BY <1>2, <1>3, <1>7, <1>8, <1>9, CallStep DEF RunSteps

LEMMA ArchiveKeeps ==
  ASSUME MandateInv, NEW c \in Cases, Archive(c)
  PROVE  MandateInv'
<1> DEFINE fields == [Resting EXCEPT !.step = "over"]
           i == run[c].id
           row == [run[c].row EXCEPT !.life = "archived", !.archived = TRUE]
<1>1. /\ run[c].step = "close" /\ done' = done /\ Stepping(c, "close", fields)
      /\ run[c] \in RunRow /\ Formed(mandate, run[c]) /\ Rewritten(i, row)
  BY Known DEF Archive, Stepping
<1>2. /\ \A m : Formed(m, fields) /\ Private(m, fields) /\ UpToDate(m, fields)
      /\ fields \in RunRow /\ \A k, j \in Ids : Resigned(fields, k, j)
  BY Rests
<1>3. i \in Ids /\ mandate[i] # NoId /\ run[c].row \in Row
  BY <1>1, MandatesTyped DEF Formed, RowUsers
<1>4. row \in Row /\ row.life = "archived" /\ row.archived
  BY <1>3 DEF Row, Life
<1>5. RowOK(row)
  BY <1>4 DEF RowOK
<1> HIDE DEF fields, row
<1>6. /\ MandateRows(mandate')
      /\ mandate'[i].life = "archived" /\ mandate'[i].archived
      /\ mandate'[i].type = mandate[i].type /\ mandate'[i].accepted = mandate[i].accepted
      /\ mandate'[i].parent = mandate[i].parent /\ mandate'[i].family = mandate[i].family
      /\ mandate'[i] # NoId
      /\ \A k \in Ids : k # i => mandate'[k] = mandate[k]
      /\ \A k \in Ids : mandate[k] # NoId => mandate'[k] # NoId
  BY <1>1, <1>3, <1>4, <1>5, RewritingDoes
<1>7. ASSUME NEW k \in Ids, NEW j \in Ids, Shut(mandate, k, j)
      PROVE  Shut(mandate', k, j)
  <2> HIDE DEF i
  <2> QED
    BY <1>6, <1>7 DEF Shut, Spent, Terminal
<1>8. ASSUME met' = {} PROVE Orderly(mandate', fields)
  <2>1. Orderly(mandate, run[c]) /\ UpToDate(mandate, run[c])
    BY <1>1, <1>8, KnownAlone DEF RunSteps
  <2>2. \A k \in Ids : AcceptedCart(mandate, k) /\ mandate[k].parent = i => mandate[k].archived
    BY <1>1, <2>1 DEF UpToDate, AcceptedCart
  <2>3. \A k \in Ids : Leaf(mandate, k) /\ ~Pending(mandate, k)
    BY <1>1, <2>1 DEF Orderly, Consuming
  <2> HIDE DEF i
  <2>4. ASSUME NEW k \in Ids PROVE Leaf(mandate', k) /\ ~Pending(mandate', k)
    <3> SUFFICES ASSUME AcceptedCart(mandate', k)
                 PROVE  Leaf(mandate', k) /\ ~Pending(mandate', k)
      BY DEF Leaf, Pending
    <3>1. /\ AcceptedCart(mandate, k) /\ mandate'[k].parent = mandate[k].parent
          /\ mandate'[k].family = mandate[k].family
      BY <1>3, <1>6 DEF AcceptedCart
    <3> DEFINE p == mandate[k].parent
    <3>2. /\ p \in Ids /\ mandate[p] # NoId /\ mandate[k].life \in Terminal
          /\ mandate[k].family = mandate[p].family /\ mandate[p].life \in Terminal
          /\ ~mandate[k].archived => ~mandate[p].archived
      BY <2>3, <3>1 DEF Leaf, Pending
    <3>3. p = i => mandate[k].archived
      BY <2>2, <3>1
    <3> HIDE DEF p
    <3>4. mandate'[k].life \in Terminal
      BY <1>6, <3>2 DEF Terminal
    <3>5. /\ mandate'[p] # NoId /\ mandate'[p].life \in Terminal
          /\ mandate'[p].family = mandate[p].family
      BY <1>6, <3>2 DEF Terminal
    <3>6. ~mandate'[k].archived => ~mandate'[p].archived
      BY <1>6, <3>2, <3>3
    <3> QED
      BY <3>1, <3>2, <3>4, <3>5, <3>6 DEF Leaf, Pending, p
  <2> QED
    BY <2>4 DEF Orderly
<1> QED
  BY <1>1, <1>2, <1>6, <1>7, <1>8, CallStep DEF RunSteps

\* What a redaction or a date changes in a row, nothing here depends on.
SameButDates(row, old) == row = old \/ row = [old EXCEPT !.kept = "past"]
                                   \/ row = [old EXCEPT !.redacted = TRUE]

\* Retention dates and redaction decide nothing about lives, parents and families.
LEMMA DatesDoNotMatter ==
  ASSUME NEW old \in Row \cup {NoId}, NEW row, SameButDates(row, old), old = NoId => row = NoId
  PROVE  /\ row \in Row \cup {NoId} /\ Alike(row, old)
         /\ row.life = old.life /\ row.successor = old.successor
<1>1. CASE old = NoId
  BY <1>1 DEF Alike
<1>2. CASE old # NoId
  <2>1. old \in Row
    BY <1>2
  <2>2. CASE row = [old EXCEPT !.kept = "past"]
    BY <2>1, <2>2, MandatesTyped DEF Row, Alike
  <2>3. CASE row = [old EXCEPT !.redacted = TRUE]
    BY <2>1, <2>3, MandatesTyped DEF Row, Alike
  <2> QED
    BY <2>2, <2>3 DEF SameButDates, Alike
<1> QED
  BY <1>1, <1>2

LEMMA DatesKeepRows ==
  ASSUME MandateInv, mandate' \in [Ids -> Row \cup {NoId}],
         \A k \in Ids : /\ Alike(mandate'[k], mandate[k])
                        /\ mandate'[k].life = mandate[k].life
                        /\ mandate'[k].successor = mandate[k].successor
  PROVE  /\ MandateRows(mandate')
         /\ \A k \in Ids : mandate[k] # NoId <=> mandate'[k] # NoId
         /\ \A k, j \in Ids : Shut(mandate, k, j) => Shut(mandate', k, j)
<1> QED
  BY DEF MandateInv, MandateRows, Alike, RowOK, Shut, Spent


LEMMA RedactKeeps ==
  ASSUME MandateInv, NEW c \in Cases, Redact(c)
  PROVE  MandateInv'
<1> DEFINE fields == [Resting EXCEPT !.step = "over"]
<1>1. PICK old \in SUBSET Ids :
        mandate' = [i \in Ids |-> IF i \in old THEN [mandate[i] EXCEPT !.redacted = TRUE]
                                  ELSE mandate[i]]
        /\ \A i \in old : mandate[i] # NoId
  BY DEF Redact, Stored
<1>2. /\ run[c].step = "redact" /\ done' = done /\ Stepping(c, "redact", fields)
      /\ mandate \in [Ids -> Row \cup {NoId}]
  BY DEF Redact, Stepping, MandateInv, MandateRows
<1>3. /\ \A m : Formed(m, fields) /\ Private(m, fields) /\ UpToDate(m, fields)
      /\ fields \in RunRow /\ \A k, j \in Ids : Resigned(fields, k, j)
  BY Rests
<1> HIDE DEF fields
<1>4. ASSUME NEW k \in Ids
      PROVE  /\ mandate'[k] \in Row \cup {NoId} /\ Alike(mandate'[k], mandate[k])
             /\ mandate'[k].life = mandate[k].life
             /\ mandate'[k].successor = mandate[k].successor
  <2>1. SameButDates(mandate'[k], mandate[k]) /\ (mandate[k] = NoId => mandate'[k] = NoId)
    BY <1>1 DEF SameButDates
  <2> QED
    BY <1>2, <2>1, DatesDoNotMatter
<1>5. mandate' \in [Ids -> Row \cup {NoId}]
  BY <1>1, <1>4
<1>6. /\ MandateRows(mandate')
      /\ \A k \in Ids : mandate[k] # NoId <=> mandate'[k] # NoId
      /\ \A k, j \in Ids : Shut(mandate, k, j) => Shut(mandate', k, j)
  BY <1>4, <1>5, DatesKeepRows
<1>7. ASSUME met' = {} PROVE Orderly(mandate', fields)
  <2>1. Orderly(mandate, run[c])
    BY <1>2, <1>7, KnownAlone DEF RunSteps
  <2>2. \A k \in Ids : ~Consuming(mandate, run[c], k)
    BY <1>2 DEF Consuming
  <2> QED
    BY <1>4, <2>1, <2>2, OrderStands
<1> QED
  BY <1>2, <1>3, <1>6, <1>7, CallStep DEF RunSteps

\* Time, and the sweep over all rows at once.
LEMMA ExpireKeeps ==
  ASSUME MandateInv, NEW x \in Ids, Expire(x)
  PROVE  MandateInv'
<1>1. /\ mandate' = [mandate EXCEPT ![x].kept = "past"] /\ mandate[x] # NoId
      /\ UNCHANGED <<run, done, met>>
      /\ mandate \in [Ids -> Row \cup {NoId}]
  BY DEF Expire, Stored, MandateInv, MandateRows
<1>2. ASSUME NEW k \in Ids
      PROVE  /\ mandate'[k] \in Row \cup {NoId} /\ Alike(mandate'[k], mandate[k])
             /\ mandate'[k].life = mandate[k].life
             /\ mandate'[k].successor = mandate[k].successor
  <2>1. SameButDates(mandate'[k], mandate[k]) /\ (mandate[k] = NoId => mandate'[k] = NoId)
    BY <1>1 DEF SameButDates
  <2> QED
    BY <1>1, <2>1, DatesDoNotMatter
<1>3. mandate' \in [Ids -> Row \cup {NoId}]
  BY <1>1, <1>2
<1>4. /\ MandateRows(mandate')
      /\ \A k \in Ids : mandate[k] # NoId <=> mandate'[k] # NoId
      /\ \A k, j \in Ids : Shut(mandate, k, j) => Shut(mandate', k, j)
  BY <1>2, <1>3, DatesKeepRows
<1>5. ASSUME NEW c \in Cases
      PROVE  /\ run[c] \in RunRow /\ Formed(mandate, run[c]) /\ Formed(mandate', run[c])
             /\ run[c].step \in Payments => run[c].id \in Ids
             /\ run[c].step \in Judging /\ Won(run[c]) => run[c].parent \in Ids
  <2>1. run[c] \in RunRow /\ Formed(mandate, run[c])
    BY Known
  <2>2. run[c].step \in Payments => run[c].id \in Ids
    BY <2>1, OffersAreTyped DEF Formed
  <2>3. Formed(mandate', run[c])
    BY <1>4, <2>1 DEF Formed
  <2> QED
    BY <2>1, <2>2, <2>3 DEF Formed
<1>6. ASSUME NEW c \in Cases, c \notin met
      PROVE  Private(mandate', run[c])
  <2>1. Private(mandate, run[c]) /\ Formed(mandate, run[c])
    BY <1>6, Known
  <2> QED
    BY <1>2, <1>4, <1>5, <2>1 DEF Private, Payments, Judging
<1>7. ASSUME NEW c \in Cases, met = {}
      PROVE  UpToDate(mandate', run[c])
  <2>1. UpToDate(mandate, run[c]) /\ Formed(mandate, run[c])
    BY <1>7, Known
  <2>2. \A k \in Ids : /\ mandate'[k].archived = mandate[k].archived
                       /\ mandate'[k].life = mandate[k].life
                       /\ mandate'[k].family = mandate[k].family
                       /\ mandate'[k].parent = mandate[k].parent
                       /\ mandate'[k].type = mandate[k].type
                       /\ mandate'[k].accepted = mandate[k].accepted
                       /\ (mandate'[k] = NoId <=> mandate[k] = NoId)
    BY <1>2, <1>4 DEF Alike
  <2>3. /\ run[c].step \in RowUsers => run[c].id \in Ids
        /\ run[c].step \in {"snapshot", "upsert"} => run[c].id \in Ids
        /\ run[c].step \in {"family", "consume"} => run[c].parent \in Ids
    BY <1>5, <2>1 DEF Formed, Payments, Judging
  <2> QED
    BY <1>5, <2>1, <2>2, <2>3 DEF UpToDate
<1>8. \A i, j \in Ids : Closed(mandate, run, i, j) => Closed(mandate', run', i, j)
  BY <1>1, <1>4 DEF Closed
<1>9. History'
  BY <1>1, <1>8, HistoryKept DEF MandateInv, History
<1>10. ASSUME met = {}
       PROVE  /\ \A i \in Ids : Leaf(mandate', i)
              /\ \A i \in Ids : Pending(mandate', i) =>
                                   \E c \in Cases : Consuming(mandate', run[c], i)
  <2>1. ASSUME NEW i \in Ids
        PROVE  /\ Leaf(mandate', i)
               /\ Pending(mandate', i) => \E c \in Cases : Consuming(mandate', run[c], i)
    <3>1. Leaf(mandate, i)
      BY <1>10 DEF MandateInv
    <3>2. Alike(mandate'[i], mandate[i])
      BY <1>2
    <3>3. mandate[i].parent \in Ids => Alike(mandate'[mandate[i].parent], mandate[mandate[i].parent])
      BY <1>2
    <3>4. AcceptedCart(mandate', i) <=> AcceptedCart(mandate, i)
      BY <3>2 DEF AcceptedCart, Alike
    <3>5. Leaf(mandate', i)
      BY <3>1, <3>2, <3>3, <3>4 DEF Leaf, Alike
    <3>6. ASSUME Pending(mandate', i)
          PROVE  \E c \in Cases : Consuming(mandate', run[c], i)
      <4>1. Pending(mandate, i)
        BY <3>1, <3>2, <3>3, <3>4, <3>6 DEF Pending, Leaf, Alike
      <4>2. PICK c \in Cases : Consuming(mandate, run[c], i)
        BY <1>10, <4>1 DEF MandateInv
      <4> QED
        BY <3>2, <4>2 DEF Consuming, Alike
    <3> QED
      BY <3>5, <3>6
  <2> QED
    BY <2>1
<1> QED
  BY <1>1, <1>4, <1>5, <1>6, <1>7, <1>9, <1>10 DEF MandateInv, Active

LEMMA SweepKeeps ==
  ASSUME MandateInv, NEW c \in Cases, Sweep(c)
  PROVE  MandateInv'
<1> DEFINE fields == [Resting EXCEPT !.kind = "sweep", !.step = "redact"]
           due == OfDate("past")
           rows == {k \in Ids : Stored(k)}
<1>1. /\ run[c].step = "idle" /\ done' = done /\ Stepping(c, "idle", fields)
      /\ mandate \in [Ids -> Row \cup {NoId}] /\ MandateRows(mandate)
      /\ mandate' = [i \in Ids |-> IF i \in Swept(due)
                       THEN [mandate[i] EXCEPT !.life = "archived", !.archived = TRUE]
                       ELSE mandate[i]]
  BY DEF Sweep, Stepping, MandateInv, MandateRows
<1>2. /\ \A m : Formed(m, fields) /\ Private(m, fields) /\ UpToDate(m, fields)
      /\ fields \in RunRow /\ \A k, j \in Ids : Resigned(fields, k, j)
  BY Rests
<1> HIDE DEF fields
<1>3. Swept(due) \subseteq rows
  BY DEF Swept, OfDate
<1>4. ASSUME NEW k \in Ids
      PROVE  /\ mandate'[k] \in Row \cup {NoId} /\ (mandate'[k] # NoId <=> mandate[k] # NoId)
             /\ mandate'[k].type = mandate[k].type /\ mandate'[k].accepted = mandate[k].accepted
             /\ mandate'[k].parent = mandate[k].parent /\ mandate'[k].family = mandate[k].family
             /\ mandate'[k].successor = mandate[k].successor
             /\ k \in Swept(due) => mandate'[k].life = "archived" /\ mandate'[k].archived
             /\ k \notin Swept(due) => mandate'[k] = mandate[k]
  <2>1. CASE k \in Swept(due)
    <3>1. mandate[k] \in Row
      BY <1>1, <1>3, <2>1 DEF Stored
    <3>2. mandate'[k] = [mandate[k] EXCEPT !.life = "archived", !.archived = TRUE]
      BY <1>1, <2>1
    <3> HIDE DEF due
    <3>3. /\ mandate'[k] \in Row /\ mandate'[k].life = "archived" /\ mandate'[k].archived
          /\ mandate'[k].type = mandate[k].type /\ mandate'[k].accepted = mandate[k].accepted
          /\ mandate'[k].parent = mandate[k].parent /\ mandate'[k].family = mandate[k].family
          /\ mandate'[k].successor = mandate[k].successor
      BY <3>1, <3>2 DEF Row, Life
    <3> QED
      BY <2>1, <3>1, <3>3, MandatesTyped
  <2>2. CASE k \notin Swept(due)
    <3>1. mandate'[k] = mandate[k]
      BY <1>1, <2>2
    <3> QED
      BY <1>1, <2>2, <3>1
  <2> QED
    BY <2>1, <2>2
<1>5. MandateRows(mandate')
  <2>1. mandate' \in [Ids -> Row \cup {NoId}]
    BY <1>1, <1>4
  <2>2. \A k \in Ids : mandate'[k] # NoId => RowOK(mandate'[k])
    BY <1>1, <1>4 DEF RowOK, MandateRows
  <2> QED
    BY <2>1, <2>2 DEF MandateRows
<1>6. ASSUME NEW k \in Ids, NEW j \in Ids, Shut(mandate, k, j)
      PROVE  Shut(mandate', k, j)
  BY <1>4, <1>6 DEF Shut, Spent, Terminal
<1>7. ASSUME NEW k \in Ids, NEW p \in Swept(due), k \in rows, mandate[k].parent = p, k \in due
      PROVE  k \in Swept(due)
  <2>1. k \in Below(p, rows)
    BY <1>7 DEF Below
  <2>2. ASSUME NEW j \in Below(k, rows) PROVE j \in Below(p, rows)
    <3>1. j \in rows
      BY <2>2 DEF Below
    <3>2. ASSUME NEW under \in SUBSET rows,
                 \A l \in rows : mandate[l].parent \in under \cup {p} => l \in under
          PROVE  j \in under
      <4>1. k \in under
        BY <1>7, <3>2
      <4>2. \A l \in rows : mandate[l].parent \in under \cup {k} => l \in under
        BY <3>2, <4>1
      <4> QED
        BY <2>2, <4>2 DEF Below
    <3> QED
      BY <3>1, <3>2 DEF Below
  <2>3. \A j \in Unarchived(Below(p, rows)) : j \in due /\ j \notin Below(j, rows)
    BY <1>7 DEF Swept
  <2>4. \A j \in Unarchived(Below(k, rows)) : j \in due /\ j \notin Below(j, rows)
    BY <2>2, <2>3 DEF Unarchived
  <2> QED
    BY <1>7, <2>4 DEF Swept
<1>8. ASSUME NEW k \in Ids, NEW p \in Swept(due), k \in rows, mandate[k].parent = p, ~mandate[k].archived
      PROVE  k \in Swept(due)
  <2>1. k \in Unarchived(Below(p, rows))
    BY <1>8 DEF Below, Unarchived
  <2>2. k \in due
    BY <1>8, <2>1 DEF Swept
  <2> QED
    BY <1>7, <1>8, <2>2
<1>9. ASSUME met' = {} PROVE Orderly(mandate', fields)
  <2>1. \A k \in Ids : Leaf(mandate, k) /\ ~Pending(mandate, k)
    BY <1>1, <1>9, KnownAlone DEF Orderly, Consuming, RunSteps
  <2>2. ASSUME NEW k \in Ids PROVE Leaf(mandate', k) /\ ~Pending(mandate', k)
    <3> SUFFICES ASSUME AcceptedCart(mandate', k)
                 PROVE  Leaf(mandate', k) /\ ~Pending(mandate', k)
      BY DEF Leaf, Pending
    <3>1. /\ AcceptedCart(mandate, k) /\ mandate'[k].parent = mandate[k].parent
          /\ mandate'[k].family = mandate[k].family
      BY <1>4 DEF AcceptedCart
    <3> DEFINE p == mandate[k].parent
    <3>2. /\ p \in Ids /\ mandate[p] # NoId /\ mandate[k].life \in Terminal
          /\ mandate[k].family = mandate[p].family /\ mandate[p].life \in Terminal
          /\ ~mandate[k].archived => ~mandate[p].archived
      BY <2>1, <3>1 DEF Leaf, Pending
    <3>3. k \in rows
      BY <3>1 DEF AcceptedCart, Stored
    <3>4. p \in Swept(due) /\ ~mandate[k].archived => k \in Swept(due)
      BY <1>8, <3>3
    <3> HIDE DEF p, due
    <3>5. mandate'[k].life \in Terminal
      BY <1>4, <3>2 DEF Terminal
    <3>6. /\ mandate'[p] # NoId /\ mandate'[p].life \in Terminal
          /\ mandate'[p].family = mandate[p].family
      BY <1>4, <3>2 DEF Terminal
    <3>7. ~mandate'[k].archived => ~mandate'[p].archived
      BY <1>4, <3>2, <3>4
    <3> QED
      BY <3>1, <3>2, <3>5, <3>6, <3>7 DEF Leaf, Pending, p
  <2> QED
    BY <2>2 DEF Orderly
<1> QED
  BY <1>1, <1>2, <1>4, <1>5, <1>6, <1>9, CallStep DEF RunSteps


LEMMA FailSweepKeeps ==
  ASSUME MandateInv, NEW c \in Cases, FailSweep(c)
  PROVE  MandateInv'
<1> DEFINE fields == [Resting EXCEPT !.step = "over"]
<1>1. run[c].step = "idle" /\ Stepping(c, "idle", fields) /\ UNCHANGED <<mandate, done>>
  BY DEF FailSweep, Stepping
<1>2. /\ fields \in RunRow /\ Formed(mandate, fields) /\ Private(mandate, fields)
      /\ UpToDate(mandate, fields) /\ \A i, j \in Ids : Resigned(fields, i, j)
  BY Rests
<1> HIDE DEF fields
<1>3. \A i \in Ids : ~Consuming(mandate, run[c], i)
  BY <1>1 DEF Consuming
<1> QED
  BY <1>1, <1>2, <1>3, ReadStep DEF RunSteps


\* The upsert of a presentation, the outcome on the row, and the update of the parent.
LEMMA UpsertingDoes ==
  ASSUME MandateInv, NEW o \in Offers, NEW result \in ResultRow, NEW old \in Row \cup {NoId},
         old # NoId => RowOK(old), NEW new, new = Upserted(o, result, old)
  PROVE  /\ new \in Row /\ new # NoId /\ RowOK(new)
         /\ new.type = o.type /\ new.accepted = result.accepted /\ new.parent = o.parent
         /\ new.family = IF result.family = NoId THEN o.id ELSE result.family
         /\ old # NoId => new.archived = old.archived /\ new.successor = old.successor
         /\ old = NoId => ~new.archived
         /\ old # NoId /\ old.life \in Terminal => new.life = old.life
         /\ result.accepted /\ o.type = "cart" => new.life \in Terminal
<1>1. o.id \in Ids /\ o.type \in {"intent", "cart"} /\ o.parent \in Ids \cup {NoId}
  BY OffersAreTyped
<1>2. result.accepted \in BOOLEAN /\ result.family \in Ids \cup {NoId}
  BY DEF ResultRow
<1>3. old # NoId => /\ old \in Row /\ old.life \in Life /\ old.archived \in BOOLEAN
                    /\ old.redacted \in BOOLEAN /\ old.successor \in Ids \cup {NoId}
                    /\ old.kept \in {"undated", "later", "past", "naive"}
  BY DEF Row
<1> DEFINE life == IF old # NoId /\ (old.archived \/ old.life \in {"consumed", "consumed_by_child"})
                     THEN old.life
                   ELSE IF ~result.accepted THEN "rejected"
                   ELSE IF o.type = "cart" THEN "consumed" ELSE "active"
           family == IF result.family = NoId THEN o.id ELSE result.family
           successor == IF old = NoId THEN NoId ELSE old.successor
           kept == IF old = NoId THEN "undated" ELSE old.kept
           archived == old # NoId /\ old.archived
           redacted == old # NoId /\ old.redacted
<1>4. new = [type |-> o.type, accepted |-> result.accepted, parent |-> o.parent,
             life |-> life, family |-> family, successor |-> successor, kept |-> kept,
             archived |-> archived, redacted |-> redacted, offer |-> o]
  BY DEF Upserted
<1>5. life \in Life /\ (old # NoId => archived = old.archived /\ successor = old.successor)
      /\ (old = NoId => ~archived)
  BY <1>3 DEF Life
<1>6. /\ family \in Ids /\ successor \in Ids \cup {NoId} /\ kept \in {"undated", "later", "past", "naive"}
      /\ archived \in BOOLEAN /\ redacted \in BOOLEAN
  BY <1>1, <1>2, <1>3
<1>7. archived => life \in {"archived", "consumed_by_child"}
  BY DEF RowOK
<1>8. life = "archived" => archived
  BY DEF RowOK
<1>9. old # NoId /\ old.life \in Terminal => life = old.life
  BY DEF RowOK, Terminal
<1>10. result.accepted /\ o.type = "cart" => life \in Terminal
  BY DEF RowOK, Terminal
<1> HIDE DEF life, family, successor, kept, archived, redacted
<1>11. new \in Row
  BY <1>1, <1>2, <1>4, <1>5, <1>6 DEF Row
<1>12. new # NoId /\ RowOK(new)
  BY <1>4, <1>7, <1>8, <1>11, MandatesTyped DEF RowOK
<1> QED
  BY <1>4, <1>5, <1>9, <1>10, <1>11, <1>12 DEF family

LEMMA UpsertKeeps ==
  ASSUME MandateInv, NEW c \in Cases, Upsert(c)
  PROVE  MandateInv'
<1> DEFINE fields == To(c, "reread")
           i == run[c].id
           old == mandate[i]
           new == Upserted(run[c].offer, run[c].result, old)
<1>1. /\ run[c].step = "upsert" /\ done' = done /\ Stepping(c, "upsert", fields)
      /\ run[c] \in RunRow /\ Formed(mandate, run[c]) /\ MandateRows(mandate)
      /\ mandate' = [mandate EXCEPT ![i] = new]
  BY Known DEF Upsert, Stepping
<1>2. /\ fields.id = run[c].id /\ fields.offer = run[c].offer /\ fields.parent = run[c].parent
      /\ fields.result = run[c].result /\ fields.row = run[c].row
      /\ fields.step = "reread" /\ fields \in RunRow
  BY <1>1 DEF To, RunRow, RunSteps, Payments, Judging
<1>3. /\ run[c].offer \in Offers /\ i = run[c].offer.id /\ run[c].parent = run[c].offer.parent
      /\ i \in Ids /\ run[c].result \in ResultRow
      /\ old \in Row \cup {NoId} /\ (old # NoId => RowOK(old))
  BY <1>1, OffersAreTyped DEF Formed, Payments, Judging, MandateRows, RunRow
<1> HIDE DEF fields
<1>4. /\ new \in Row /\ new # NoId /\ RowOK(new)
      /\ new.type = run[c].offer.type /\ new.accepted = run[c].result.accepted
      /\ new.parent = run[c].parent
      /\ new.family = IF run[c].result.family = NoId THEN i ELSE run[c].result.family
      /\ old # NoId => new.archived = old.archived /\ new.successor = old.successor
      /\ old = NoId => ~new.archived
      /\ old # NoId /\ old.life \in Terminal => new.life = old.life
      /\ Won(run[c]) => new.life \in Terminal
  BY <1>3, UpsertingDoes DEF Won
<1> HIDE DEF new
<1>5. /\ MandateRows(mandate') /\ mandate'[i] = new
      /\ \A k \in Ids : k # i => mandate'[k] = mandate[k]
      /\ \A k \in Ids : mandate[k] # NoId => mandate'[k] # NoId
  BY <1>1, <1>3, <1>4 DEF MandateRows
<1>6. Won(fields) <=> Won(run[c])
  BY <1>2 DEF Won
<1>7. Won(run[c]) => run[c].parent \in Ids /\ mandate[run[c].parent] # NoId
  BY <1>1 DEF Formed, Judging
<1>8. Formed(mandate', fields)
  BY <1>1, <1>2, <1>3, <1>4, <1>5, <1>6, <1>7 DEF Formed, RowUsers, Judging, Payments
<1>9. Private(mandate', fields)
  BY <1>2, <1>4, <1>5, <1>6 DEF Private
<1>10. ASSUME NEW k \in Ids, NEW j \in Ids, Shut(mandate, k, j), Resigned(run[c], k, j)
       PROVE  Shut(mandate', k, j) /\ Resigned(fields, k, j)
  <2>1. j = i => new.life \in Terminal
    BY <1>4, <1>10 DEF Shut
  <2>2. k = i => Spent(new, j)
    BY <1>4, <1>10 DEF Shut, Spent, Terminal
  <2>3. Resigned(fields, k, j)
    BY <1>1, <1>2, <1>6, <1>10 DEF Resigned, RowUsers, Judging
  <2> HIDE DEF i, old
  <2>4. Shut(mandate', k, j)
    BY <1>4, <1>5, <1>10, <2>1, <2>2 DEF Shut
  <2> QED
    BY <2>3, <2>4
<1>11. ASSUME met' = {} PROVE UpToDate(mandate', fields) /\ Orderly(mandate', fields)
  <2>1. Orderly(mandate, run[c]) /\ UpToDate(mandate, run[c])
    BY <1>1, <1>2, <1>11, KnownAlone DEF RunSteps, Payments, Judging
  <2>2. \A k \in Ids : Leaf(mandate, k) /\ ~Pending(mandate, k)
    BY <1>1, <2>1 DEF Orderly, Consuming
  <2>3. old = NoId \/ old.life \notin Terminal
    BY <1>1, <2>1 DEF UpToDate
  <2>4. Won(run[c]) => /\ ~mandate[run[c].parent].archived
                       /\ run[c].result.family = mandate[run[c].parent].family
                       /\ run[c].result.family \in Ids
    BY <1>1, <1>7, <2>1, MandatesTyped DEF UpToDate, Judging, MandateRows, Row
  <2>5. Won(run[c]) => /\ ~mandate'[run[c].parent].archived
                       /\ run[c].result.family = mandate'[run[c].parent].family
                       /\ new.family = run[c].result.family
    <3>1. Won(run[c]) => new.family = run[c].result.family
      BY <1>4, <2>4, MandatesTyped
    <3>2. CASE run[c].parent = i
      BY <1>4, <1>5, <1>7, <2>4, <3>1, <3>2
    <3>3. CASE run[c].parent # i
      BY <1>5, <1>7, <2>4, <3>1, <3>3
    <3> QED
      BY <3>2, <3>3
  <2>6. UpToDate(mandate', fields)
    BY <1>2, <1>6, <2>5 DEF UpToDate, RowUsers, Judging
  <2>7. ASSUME NEW k \in Ids, k # i, AcceptedCart(mandate', k)
        PROVE  Leaf(mandate', k) /\ ~Pending(mandate', k)
    <3>1. AcceptedCart(mandate, k) /\ mandate'[k] = mandate[k]
      BY <1>5, <2>7 DEF AcceptedCart
    <3>2. /\ mandate[k].parent \in Ids /\ mandate[mandate[k].parent] # NoId
          /\ mandate[mandate[k].parent].life \in Terminal
      BY <2>2, <3>1 DEF Leaf, Pending
    <3>3. mandate[k].parent # i
      BY <2>3, <3>2
    <3>4. mandate'[mandate[k].parent] = mandate[mandate[k].parent]
      BY <1>5, <3>2, <3>3
    <3>5. mandate'[mandate'[k].parent] = mandate[mandate[k].parent]
      BY <3>1, <3>4
    <3>6. Leaf(mandate, k)
      BY <2>2
    <3>7. Leaf(mandate', k)
      BY <3>1, <3>5, <3>6 DEF Leaf
    <3>8. ~Pending(mandate', k)
      BY <3>2, <3>5 DEF Pending
    <3> QED
      BY <3>7, <3>8
  <2>8. AcceptedCart(mandate', i) => Won(run[c])
    BY <1>4, <1>5 DEF AcceptedCart, Won
  <2>9. Leaf(mandate', i)
    <3> SUFFICES ASSUME AcceptedCart(mandate', i) PROVE Leaf(mandate', i)
      BY DEF Leaf
    <3>1. Won(run[c]) /\ run[c].parent \in Ids
      BY <1>7, <2>8
    <3>2. mandate'[run[c].parent] # NoId
      BY <1>5, <1>7, <3>1
    <3> HIDE DEF i
    <3> QED
      BY <1>4, <1>5, <2>5, <3>1, <3>2 DEF Leaf
  <2>10. Pending(mandate', i) => Consuming(mandate', fields, i)
    BY <1>2, <1>4, <1>5, <1>6, <2>8 DEF Pending, Consuming
  <2>11. ASSUME NEW k \in Ids
         PROVE  Leaf(mandate', k) /\ (Pending(mandate', k) => Consuming(mandate', fields, k))
    BY <2>7, <2>9, <2>10 DEF Leaf, Pending
  <2> QED
    BY <2>6, <2>11 DEF Orderly
<1> QED
  BY <1>1, <1>2, <1>5, <1>8, <1>9, <1>10, <1>11, CallStep DEF RunSteps, Payments, Judging


\* An answer is added to the history.
LEMMA HistoryGrows ==
  ASSUME MandateInv, NEW c \in Cases, NEW entry \in Entry, entry.call = c,
         done' = Append(done, entry), met \subseteq met',
         \A d \in Cases : run[d].step = "over" => run'[d].step = "over",
         run'[c].step = "over",
         \A i, j \in Ids : Closed(mandate, run, i, j) => Closed(mandate', run', i, j),
         entry.offer.type = "cart" =>
           /\ entry.offer.parent \in Ids
           /\ c \notin met' => Closed(mandate', run', entry.offer.parent, entry.offer.id)
           /\ \A j \in Ids : ~Closed(mandate, run, entry.offer.parent, j)
  PROVE  History'
<1> DEFINE last == Len(done) + 1
<1>1. done \in Seq(Entry)
  BY DEF MandateInv, History
<1> HIDE DEF Entry
<1>2. /\ done' \in Seq(Entry) /\ Len(done) \in Nat
      /\ DOMAIN done = 1 .. Len(done) /\ DOMAIN done' = 1 .. last
      /\ \A n \in 1 .. Len(done) : done'[n] = done[n]
      /\ done'[last] = entry
  BY <1>1
<1>3. \A n \in 1 .. Len(done) : done[n] \in Entry
  BY <1>1
<1> USE DEF Entry
<1>4. \A n \in 1 .. Len(done) : /\ done[n].call \in Cases /\ done[n].offer \in Offers
                                /\ done[n].offer.id \in Ids
  BY <1>3, OffersAreTyped
<1>5. \A n \in DOMAIN done' : n = last \/ n \in 1 .. Len(done)
  BY <1>2
<1>6. ASSUME NEW n \in DOMAIN done' PROVE run'[done'[n].call].step = "over"
  <2>1. CASE n = last
    BY <1>2, <2>1
  <2>2. CASE n \in 1 .. Len(done)
    <3>1. run[done[n].call].step = "over"
      BY <1>2, <2>2 DEF MandateInv, History
    <3> QED
      BY <1>2, <1>4, <2>2, <3>1
  <2> QED
    BY <1>5, <2>1, <2>2
<1>7. ASSUME NEW n \in Carts', n \in 1 .. Len(done)
      PROVE  n \in Carts /\ done'[n] = done[n]
  BY <1>2, <1>7 DEF Carts
<1>8. \A n \in Carts' : n = last \/ n \in 1 .. Len(done)
  BY <1>5 DEF Carts
<1>9. ASSUME NEW n \in Carts', done'[n].call \notin met'
      PROVE  done'[n].offer.parent \in Ids /\ Closed(mandate', run', done'[n].offer.parent, done'[n].offer.id)
  <2>1. CASE n = last
    <3>1. entry.offer.type = "cart"
      BY <1>2, <2>1 DEF Carts
    <3> QED
      BY <1>2, <1>9, <2>1, <3>1
  <2>2. CASE n \in 1 .. Len(done)
    <3>1. n \in Carts /\ done'[n] = done[n]
      BY <1>7, <2>2
    <3>2. done[n].offer.parent \in Ids /\ Closed(mandate, run, done[n].offer.parent, done[n].offer.id)
      BY <1>9, <3>1 DEF MandateInv, History
    <3> QED
      BY <1>4, <2>2, <3>1, <3>2
  <2> QED
    BY <1>8, <2>1, <2>2
<1>10. ASSUME NEW m \in Carts', NEW n \in Carts', m < n,
              done'[m].offer.parent = done'[n].offer.parent
       PROVE  done'[m].call \in met'
  <2>1. m \in 1 .. Len(done)
    <3>1. m \in 1 .. last /\ n \in 1 .. last
      BY <1>2 DEF Carts
    <3> QED
      BY <1>2, <1>10, <3>1
  <2>2. m \in Carts /\ done'[m] = done[m]
    BY <1>7, <2>1
  <2>3. CASE n = last
    <3>1. entry.offer.type = "cart" /\ done[m].offer.parent = entry.offer.parent
      BY <1>2, <1>10, <2>2, <2>3 DEF Carts
    <3>2. ~Closed(mandate, run, done[m].offer.parent, done[m].offer.id)
      BY <1>4, <2>1, <3>1
    <3>3. done[m].call \in met
      BY <2>2, <3>2 DEF MandateInv, History
    <3> QED
      BY <2>2, <3>3
  <2>4. CASE n \in 1 .. Len(done)
    <3>1. n \in Carts /\ done'[n] = done[n]
      BY <1>7, <2>4
    <3>2. UsedOnceUnlessRaced
      BY DEF MandateInv, History
    <3>3. done[m].call \in met
      BY <1>10, <2>2, <3>1, <3>2 DEF UsedOnceUnlessRaced
    <3> QED
      BY <2>2, <3>3
  <2> QED
    BY <1>8, <2>3, <2>4
<1>11. UsedOnceUnlessRaced'
  BY <1>10 DEF UsedOnceUnlessRaced
<1>12. (\A n \in Carts : done[n].call \notin met =>
          done[n].offer.parent \in Ids /\ Closed(mandate, run, done[n].offer.parent, done[n].offer.id))'
  BY <1>9
<1> QED
  BY <1>2, <1>6, <1>11, <1>12 DEF History

LEMMA SettleKeeps ==
  ASSUME MandateInv, NEW c \in Cases, Settle(c)
  PROVE  MandateInv'
<1>1. /\ run[c].step = "settle" /\ mandate' = mandate
      /\ run[c] \in RunRow /\ Formed(mandate, run[c]) /\ MandateRows(mandate)
  BY Known DEF Settle, Stepping
<1>2. /\ run[c].offer \in Offers /\ run[c].id = run[c].offer.id
      /\ run[c].parent = run[c].offer.parent
  BY <1>1 DEF Formed, Payments, Judging
<1>3. CASE Won(run[c])
  <2> DEFINE p == mandate[run[c].parent]
             fields == [To(c, "consume") EXCEPT !.row = p]
  <2>1. Stepping(c, "settle", fields) /\ done' = done
    BY <1>3 DEF Settle, Won
  <2>2. run[c].parent \in Ids /\ p \in Row /\ p # NoId /\ RowOK(p)
    BY <1>1, <1>3 DEF Formed, Judging, MandateRows
  <2>3. /\ fields \in RunRow /\ fields.step = "consume" /\ fields.id = run[c].id
        /\ fields.offer = run[c].offer /\ fields.parent = run[c].parent
        /\ fields.result = run[c].result /\ fields.row = p
    BY <1>1, <2>2 DEF To, RunRow, RunSteps, Payments, Judging
  <2>4. p = mandate[fields.parent]
    BY <2>3
  <2> HIDE DEF fields, p
  <2>5. Formed(mandate, fields)
    BY <1>1, <1>3, <2>2, <2>3, <2>4 DEF Formed, RowUsers, Judging, Payments, Won
  <2>6. c \notin met' => Private(mandate, fields)
    <3>1. c \notin met' => Private(mandate, run[c])
      BY <2>1, Known DEF Stepping
    <3> QED
      BY <1>1, <2>3, <3>1 DEF Private, Won
  <2>7. \A i, j \in Ids : Resigned(run[c], i, j) => Resigned(fields, i, j)
    BY <1>1, <2>3 DEF Resigned, RowUsers, Judging, Won
  <2>8. met' = {} => UpToDate(mandate, fields)
    <3> SUFFICES ASSUME met' = {} PROVE UpToDate(mandate, fields)
      OBVIOUS
    <3>1. UpToDate(mandate, run[c])
      BY <1>1, <2>1, <2>3, KnownAlone DEF RunSteps, Payments, Judging
    <3> QED
      BY <1>1, <2>3, <2>4, <3>1 DEF UpToDate, RowUsers, Judging, Won
  <2>9. \A i \in Ids : Consuming(mandate, run[c], i) => Consuming(mandate, fields, i)
    BY <2>3 DEF Consuming, Won
  <2> QED
    BY <1>1, <2>1, <2>3, <2>5, <2>6, <2>7, <2>8, <2>9, ReadStep DEF RunSteps, Payments, Judging
<1>4. CASE ~Won(run[c])
  <2> DEFINE fields == [Resting EXCEPT !.step = "over"]
             entry == [call |-> c, offer |-> run[c].offer]
  <2>1. /\ Stepping(c, "settle", fields)
        /\ IF run[c].result.accepted THEN done' = Append(done, entry) ELSE done' = done
    BY <1>4 DEF Settle, Won, Accept
  <2>2. /\ fields \in RunRow /\ Formed(mandate, fields) /\ Private(mandate, fields)
        /\ UpToDate(mandate, fields) /\ \A i, j \in Ids : Resigned(fields, i, j)
    BY Rests
  <2>3. fields.step = "over"
    BY DEF Resting
  <2>4. \A i \in Ids : ~Consuming(mandate, run[c], i)
    BY <1>4 DEF Consuming
  <2> HIDE DEF fields
  <2>5. CASE done' = done
    BY <1>1, <2>1, <2>2, <2>4, <2>5, ReadStep DEF RunSteps, Payments, Judging
  <2>6. CASE done' = Append(done, entry) /\ run[c].result.accepted
    <3>1. /\ run'[c] = fields /\ met \subseteq met' /\ met' \subseteq Cases
          /\ \A d \in Cases \ {c} : run'[d] = run[d]
      BY <2>1, OneCall DEF RunSteps, Payments, Judging
    <3>2. entry \in Entry /\ entry.call = c /\ entry.offer.type # "cart"
      BY <1>2, <1>4, <2>6 DEF Entry, Won
    <3>3. ASSUME NEW i \in Ids, NEW j \in Ids, Closed(mandate, run, i, j) PROVE Closed(mandate', run', i, j)
      <4>1. Shut(mandate', i, j)
        BY <1>1, <3>3 DEF Closed
      <4>2. \A d \in Cases : Resigned(run'[d], i, j)
        BY <2>2, <3>1, <3>3 DEF Closed
      <4> QED
        BY <4>1, <4>2 DEF Closed
    <3>4. \A d \in Cases : run[d].step = "over" => run'[d].step = "over"
      BY <2>3, <3>1
    <3>5. History'
      <4> HIDE DEF entry
      <4> QED
        BY <2>3, <2>6, <3>1, <3>2, <3>3, <3>4, HistoryGrows
    <3>6. met' = {} => UpToDate(mandate', fields) /\ Orderly(mandate', fields)
      <4> SUFFICES ASSUME met' = {} PROVE UpToDate(mandate', fields) /\ Orderly(mandate', fields)
        OBVIOUS
      <4>1. Orderly(mandate, run[c])
        BY <2>1, <2>2, KnownAlone DEF RunSteps, Payments, Judging
      <4> QED
        BY <1>1, <2>2, <2>4, <4>1 DEF Orderly
    <3>7. /\ MandateRows(mandate') /\ Formed(mandate', fields) /\ Private(mandate', fields)
          /\ \A i, j \in Ids : Shut(mandate, i, j) => Shut(mandate', i, j)
          /\ \A i \in Ids : mandate[i] # NoId => mandate'[i] # NoId
      BY <1>1, <2>2
    <3> QED
      BY <2>1, <2>2, <3>5, <3>6, <3>7, CallStep DEF RunSteps, Payments, Judging
  <2> QED
    BY <2>1, <2>5, <2>6
<1> QED
  BY <1>3, <1>4

LEMMA ConsumeParentKeeps ==
  ASSUME MandateInv, NEW c \in Cases, ConsumeParent(c)
  PROVE  MandateInv'
<1> DEFINE fields == [Resting EXCEPT !.step = "over"]
           i == run[c].parent
           own == run[c].id
           row == [run[c].row EXCEPT !.life = "consumed_by_child", !.successor = own]
           entry == [call |-> c, offer |-> run[c].offer]
<1>1. /\ run[c].step = "consume" /\ Stepping(c, "consume", fields)
      /\ done' = Append(done, entry) /\ Rewritten(i, row)
      /\ run[c] \in RunRow /\ Formed(mandate, run[c])
  BY Known DEF ConsumeParent, Stepping, Accept
<1>2. /\ \A m : Formed(m, fields) /\ Private(m, fields) /\ UpToDate(m, fields)
      /\ fields \in RunRow /\ \A k, j \in Ids : Resigned(fields, k, j)
  BY Rests
<1>3. /\ Won(run[c]) /\ i \in Ids /\ mandate[i] # NoId /\ run[c].row \in Row
      /\ run[c].offer \in Offers /\ own = run[c].offer.id /\ i = run[c].offer.parent
      /\ own \in Ids
  BY <1>1, OffersAreTyped DEF Formed, Judging, Payments
<1>4. /\ row \in Row /\ row.life = "consumed_by_child" /\ row.archived = run[c].row.archived
      /\ row.successor = own
  BY <1>3 DEF Row, Life
<1>5. RowOK(row)
  BY <1>4 DEF RowOK
<1>6. fields.step = "over" /\ \A k, j \in Ids : \A r : r.step \in Ended => Resigned(r, k, j)
  BY DEF Resting, Ended, Resigned, Judging, RowUsers
<1> HIDE DEF fields, row
<1>7. /\ MandateRows(mandate')
      /\ mandate'[i].life = row.life /\ mandate'[i].archived = row.archived
      /\ mandate'[i].successor = row.successor
      /\ mandate'[i].type = mandate[i].type /\ mandate'[i].accepted = mandate[i].accepted
      /\ mandate'[i].parent = mandate[i].parent /\ mandate'[i].family = mandate[i].family
      /\ mandate'[i] # NoId
      /\ \A k \in Ids : k # i => mandate'[k] = mandate[k]
      /\ \A k \in Ids : mandate[k] # NoId => mandate'[k] # NoId
  BY <1>1, <1>3, <1>4, <1>5, RewritingDoes
<1>8. \A j \in Ids : ~Resigned(run[c], i, j)
  BY <1>1, <1>3 DEF Resigned, Judging
<1>9. ASSUME NEW k \in Ids, NEW j \in Ids, Shut(mandate, k, j), Resigned(run[c], k, j)
      PROVE  Shut(mandate', k, j)
  <2>1. k # i
    BY <1>8, <1>9
  <2> HIDE DEF i
  <2>2. mandate'[j] # NoId /\ mandate'[j].life \in Terminal
    BY <1>4, <1>7, <1>9 DEF Shut, Terminal
  <2> QED
    BY <1>7, <1>9, <2>1, <2>2 DEF Shut
<1>10. /\ run'[c] = fields /\ met \subseteq met' /\ met' \subseteq Cases
       /\ \A d \in Cases \ {c} : run'[d] = run[d] /\ (Active(d) => c \in met')
  BY <1>1, OneCall DEF RunSteps, Payments, Judging
<1>11. ASSUME NEW k \in Ids, NEW j \in Ids, Closed(mandate, run, k, j) PROVE Closed(mandate', run', k, j)
  <2>1. Shut(mandate, k, j) /\ \A d \in Cases : Resigned(run[d], k, j)
    BY <1>11 DEF Closed
  <2>2. Shut(mandate', k, j)
    BY <1>9, <2>1
  <2>3. \A d \in Cases : Resigned(run'[d], k, j)
    BY <1>2, <1>10, <2>1
  <2> QED
    BY <2>2, <2>3 DEF Closed
<1>12. entry \in Entry /\ entry.call = c /\ entry.offer.parent = i /\ entry.offer.id = own
  BY <1>3 DEF Entry
<1>13. ASSUME c \notin met' PROVE Closed(mandate', run', i, own)
  <2>1. Private(mandate, run[c])
    BY <1>10, <1>13, Known
  <2>2. mandate[own] # NoId /\ mandate[own].life \in Terminal
    BY <1>1, <1>3, <2>1 DEF Private
  <2>3. \A d \in Cases : Resigned(run'[d], i, own)
    <3>1. \A d \in Cases : run'[d].step \in Ended
      BY <1>6, <1>10, <1>13 DEF Active, Ended
    <3> QED
      BY <1>3, <1>6, <3>1
  <2> HIDE DEF i, own
  <2>4. mandate'[own] # NoId /\ mandate'[own].life \in Terminal
    BY <1>3, <1>4, <1>7, <2>2 DEF Terminal
  <2>5. Shut(mandate', i, own)
    BY <1>4, <1>7, <2>4 DEF Shut, Spent
  <2> QED
    BY <2>3, <2>5 DEF Closed
<1>14. \A j \in Ids : ~Closed(mandate, run, i, j)
  BY <1>8 DEF Closed
<1>15. \A d \in Cases : run[d].step = "over" => run'[d].step = "over"
  BY <1>6, <1>10
<1>16. c \notin met' => Closed(mandate', run', entry.offer.parent, entry.offer.id)
  BY <1>12, <1>13
<1>17. entry.offer.parent \in Ids /\ \A j \in Ids : ~Closed(mandate, run, entry.offer.parent, j)
  BY <1>3, <1>12, <1>14
<1>18. History'
  <2> HIDE DEF entry, i, own
  <2> QED
    BY <1>1, <1>6, <1>10, <1>11, <1>12, <1>15, <1>16, <1>17, HistoryGrows
<1>19. ASSUME met' = {} PROVE Orderly(mandate', fields)
  <2>1. Orderly(mandate, run[c]) /\ UpToDate(mandate, run[c])
    BY <1>1, <1>19, KnownAlone DEF RunSteps, Payments, Judging
  <2>2. row.archived = mandate[i].archived
    BY <1>1, <1>4, <2>1 DEF UpToDate
  <2>3. \A k \in Ids : Leaf(mandate, k) /\ (Pending(mandate, k) => mandate[k].parent = i)
    BY <2>1 DEF Orderly, Consuming
  <2> HIDE DEF i
  <2>4. ASSUME NEW k \in Ids PROVE Leaf(mandate', k) /\ ~Pending(mandate', k)
    <3> SUFFICES ASSUME AcceptedCart(mandate', k)
                 PROVE  Leaf(mandate', k) /\ ~Pending(mandate', k)
      BY DEF Leaf, Pending
    <3>1. /\ AcceptedCart(mandate, k) /\ mandate'[k].parent = mandate[k].parent
          /\ mandate'[k].family = mandate[k].family
          /\ mandate'[k].archived = mandate[k].archived
      BY <1>3, <1>7, <2>2 DEF AcceptedCart
    <3> DEFINE p == mandate[k].parent
    <3>2. /\ p \in Ids /\ mandate[p] # NoId /\ mandate[k].life \in Terminal
          /\ mandate[k].family = mandate[p].family
          /\ ~mandate[k].archived => ~mandate[p].archived
      BY <2>3, <3>1 DEF Leaf
    <3>3. p # i => mandate[p].life \in Terminal
      BY <2>3, <3>1 DEF Pending
    <3> HIDE DEF p
    <3>4. mandate'[k].life \in Terminal
      BY <1>4, <1>7, <3>2 DEF Terminal
    <3>5. /\ mandate'[p] # NoId /\ mandate'[p].life \in Terminal
          /\ mandate'[p].family = mandate[p].family /\ mandate'[p].archived = mandate[p].archived
      BY <1>4, <1>7, <2>2, <3>2, <3>3 DEF Terminal
    <3> QED
      BY <3>1, <3>2, <3>4, <3>5 DEF Leaf, Pending, p
  <2> QED
    BY <2>4 DEF Orderly
<1>20. /\ Formed(mandate', fields) /\ Private(mandate', fields) /\ UpToDate(mandate', fields)
       /\ \A k, j \in Ids : Resigned(fields, k, j)
  BY <1>2
<1> QED
  BY <1>1, <1>2, <1>7, <1>9, <1>18, <1>19, <1>20, CallStep DEF RunSteps, Payments, Judging

----------------------------------------------------------------------------
\* The invariant holds of no mandates and is kept by every step.
LEMMA MandatesBegin ==
  MandatesInit => MandateInv
<1> SUFFICES ASSUME MandatesInit PROVE MandateInv
  OBVIOUS
<1>1. /\ mandate \in [Ids -> Row \cup {NoId}] /\ \A i \in Ids : mandate[i] = NoId
      /\ run = [c \in Cases |-> Resting] /\ done = <<>> /\ met = {}
  BY DEF MandatesInit
<1>2. MandateRows(mandate)
  BY <1>1 DEF MandateRows
<1>3. Resting \in RunRow
  BY DEF Resting, NoResult, RunRow, RunSteps, ResultRow
<1>4. Resting.step = "idle" /\ Resting.row = NoId /\ ~Resting.result.accepted
  BY DEF Resting, NoResult
<1>5. /\ run \in [Cases -> RunRow]
      /\ \A c \in Cases : run[c] = Resting
  BY <1>1, <1>3
<1>6. \A c \in Cases : Formed(mandate, run[c]) /\ ~Active(c)
  BY <1>4, <1>5 DEF Formed, Active, Ended, Payments, Judging, RowUsers, Won
<1>7. \A c \in Cases : Private(mandate, run[c]) /\ UpToDate(mandate, run[c])
  BY <1>4, <1>5 DEF Private, UpToDate, RowUsers, Judging
<1>8. \A i \in Ids : Leaf(mandate, i) /\ ~Pending(mandate, i)
  BY <1>1 DEF Leaf, Pending, AcceptedCart
<1>9. History
  <2>1. done \in Seq(Entry) /\ DOMAIN done = {}
    BY <1>1
  <2>2. Carts = {}
    BY <2>1 DEF Carts
  <2> QED
    BY <2>1, <2>2 DEF History, UsedOnceUnlessRaced
<1> QED
  BY <1>1, <1>2, <1>5, <1>6, <1>7, <1>8, <1>9 DEF MandateInv

LEMMA MandatesMove ==
  MandateInv /\ [MandatesNext]_mandateVars => MandateInv'
<1> SUFFICES ASSUME MandateInv, [MandatesNext]_mandateVars PROVE MandateInv'
  OBVIOUS
<1>1. CASE UNCHANGED mandateVars
  <2>1. mandate' = mandate /\ run' = run /\ done' = done /\ met' = met
    BY <1>1 DEF mandateVars
  <2>2. History'
    BY <2>1, HistoryKept DEF MandateInv, History, Closed
  <2> QED
    BY <2>1, <2>2 DEF MandateInv, Active
<1>2. ASSUME NEW i \in Ids, Expire(i) PROVE MandateInv'
  BY <1>2, ExpireKeeps
<1>3. ASSUME NEW c \in Cases,
             \/ Present(c) \/ CheckLifecycle(c) \/ ReadParent(c) \/ CheckFamily(c)
             \/ ReadExisting(c) \/ CheckSnapshot(c) \/ Upsert(c) \/ Reread(c) \/ Retain(c)
             \/ Settle(c) \/ ConsumeParent(c) \/ SetRetention(c) \/ CheckArchive(c) \/ Archive(c)
             \/ FailSweep(c) \/ Sweep(c) \/ Redact(c)
      PROVE  MandateInv'
  BY <1>3, PresentKeeps, CheckLifecycleKeeps, ReadParentKeeps, CheckFamilyKeeps,
     ReadExistingKeeps, CheckSnapshotKeeps, UpsertKeeps, RereadKeeps, RetainKeeps, SettleKeeps,
     ConsumeParentKeeps, SetRetentionKeeps, CheckArchiveKeeps, ArchiveKeeps, SweepKeeps,
     FailSweepKeeps, RedactKeeps
<1>4. ASSUME NEW c \in Cases, NEW i \in Ids,
             Open(c, i, "retention") \/ Open(c, i, "archive")
      PROVE  MandateInv'
  BY <1>4, OpenKeeps
<1> QED
  BY <1>1, <1>2, <1>3, <1>4 DEF MandatesNext

LEMMA MandatesInvariant ==
  MandatesSpec => []MandateInv
<1> QED
  BY MandatesBegin, MandatesMove, PTL DEF MandatesSpec

\* Of two carts accepted under one intent, the first was not verified and stored undisturbed, for any
\* number of calls, mandates and offers (_validate_parent_mandate_lifecycle, enforce_ap2_policy).
THEOREM IntentsAreUsedOnce ==
  MandatesSpec => []UsedOnceUnlessRaced
<1>1. MandateInv => UsedOnceUnlessRaced
  BY DEF MandateInv, History
<1> QED
  BY <1>1, MandatesInvariant, PTL

\* While calls do not meet, no accepted cart is left unarchived under an archived intent, by whatever
\* mix of archiving, retention, sweep and presentation (archive_expired_ap2_mandates,
\* _assert_ap2_mandate_can_archive).
THEOREM RetirementIsBottomUp ==
  MandatesSpec => []ArchivedBottomUp
<1>1. MandateInv => ArchivedBottomUp
  BY DEF MandateInv, ArchivedBottomUp, Leaf, AcceptedCart, Stored
<1> QED
  BY <1>1, MandatesInvariant, PTL

\* The rows of mandates and the locals of the calls stay typed (app/protocols/ap2.py).
THEOREM MandatesTypesHold ==
  MandatesSpec => []MandatesTypeOK
<1>1. MandateInv => MandatesTypeOK
  <2> SUFFICES ASSUME MandateInv PROVE MandatesTypeOK
    OBVIOUS
  <2>1. \A i \in Ids : Stored(i) => mandate[i] \in Row
    BY DEF MandateInv, MandateRows, Stored
  <2>2. ASSUME NEW c \in Cases
        PROVE  /\ run[c].step \in RunSteps
               /\ run[c].existing \in Row \cup {NoId} /\ run[c].row \in Row \cup {NoId}
    <3>1. run[c] \in RunRow
      BY DEF MandateInv
    <3> QED
      BY <3>1 DEF RunRow
  <2> QED
    BY <2>1, <2>2 DEF MandatesTypeOK, MandateInv, RunSteps, Payments, Judging
<1> QED
  BY <1>1, MandatesInvariant, PTL

----------------------------------------------------------------------------
(* The keys of the mandates' signers and the discovery cache.              *)

\* A copy of the document lists no key for longer than the age of the cache and the time of a fetch
\* after it was dropped, or the age of the cache after the process started.
CopyBounded(doc) ==
    doc # NoDoc =>
      /\ doc.at <= now /\ (~polls => doc.at = 0)
      /\ polls => doc.expires # Never /\ doc.expires <= now + CacheMaxAge
      /\ \A k \in doc.keys : polls /\ dropped[k] # Never =>
           \/ doc.expires <= dropped[k] + CacheMaxAge + FetchTime
           \/ doc.expires <= started + CacheMaxAge

\* A fetch is made by a call that looks at the documents, takes its time at most, and brings what
\* was published while it was under way.
FetchBounded ==
    fetching # NoDoc =>
      /\ polls /\ fetching.since <= now /\ now <= fetching.since + FetchTime
      /\ check[fetching.by] # NoDoc /\ check[fetching.by].step \in {"source", "evidence"}
      /\ fetching.doc # NoDoc =>
           /\ fetching.doc.at <= now
           /\ \A k \in fetching.doc.keys : dropped[k] # Never => fetching.since <= dropped[k]

\* What is published was not dropped, and nothing comes from the future.
WorldInOrder ==
    /\ started <= now
    /\ \A k \in Keys : dropped[k] # Never => dropped[k] <= now
    /\ remote # NoDoc => remote.at <= now /\ \A k \in remote.keys : dropped[k] = Never

\* The invariant of keys, cache and calls.
TrustInv ==
    /\ TrustTypeOK
    /\ WorldInOrder
    /\ CopyBounded(cached) /\ FetchBounded
    /\ \A v \in Verifiers : check[v] # NoDoc => CopyBounded(check[v].doc)
    /\ RevokedKeyDies

LEMMA TrustNumbers ==
  /\ PollInterval \in Nat /\ CacheMaxAge \in Nat /\ MaxAge \in Nat /\ FetchTime \in Nat
  /\ Horizon \in Nat /\ Never \notin Nat /\ CacheMaxAge >= 1
BY TrustTyped

\* The seed of a process, and the document of a fetch that succeeds, are bounded copies.
LEMMA DecoratedIsTyped ==
  ASSUME NEW doc \in {NoDoc} \cup Published, NEW at \in Time
  PROVE  Decorated(doc, at) \in {NoDoc} \cup Copy
BY TrustNumbers DEF Decorated, Copy, Published, Time

LEMMA FetchedIsBounded ==
  ASSUME TrustInv, fetching # NoDoc
  PROVE  CopyBounded(Decorated(fetching.doc, now))
<1>1. /\ fetching.since \in Nat /\ now \in Nat /\ fetching.doc \in {NoDoc} \cup Published /\ polls
      /\ dropped \in [Keys -> {Never} \cup Nat]
  BY TrustNumbers DEF TrustInv, TrustTypeOK, Fetch, Time, FetchBounded
<1>2. fetching.doc # NoDoc => fetching.doc.keys \subseteq Keys
  BY <1>1 DEF Published
<1> QED
  BY <1>1, <1>2, TrustNumbers DEF TrustInv, FetchBounded, CopyBounded, Decorated

\* The invariant holds at first and is kept by every step.
LEMMA TrustBegins == TrustInit => TrustInv
<1> SUFFICES ASSUME TrustInit PROVE TrustInv
  OBVIOUS
<1> USE TrustNumbers DEF TrustInit
<1>1. TrustTypeOK
  <2>1. remote \in Published /\ 0 \in Time
    BY DEF Published, Time
  <2> QED
    BY <2>1, DecoratedIsTyped DEF TrustTypeOK, Time
<1>2. CopyBounded(cached)
  BY DEF CopyBounded, Decorated
<1>3. WorldInOrder /\ FetchBounded /\ RevokedKeyDies
  BY DEF WorldInOrder, FetchBounded, RevokedKeyDies
<1> QED
  BY <1>1, <1>2, <1>3 DEF TrustInv

\* A call goes on, while the world and the cache stand still.
LEMMA CallGoesOn ==
  ASSUME TrustInv, NEW v \in Verifiers, NEW new \in {NoDoc} \cup Check,
         check' = [check EXCEPT ![v] = new], new # NoDoc => CopyBounded(new.doc),
         UNCHANGED <<worldVars, cacheVars>>,
         fetching # NoDoc => fetching.by # v,
         outlived' \in Time, RevokedKeyDies'
  PROVE  TrustInv'
<1>1. UNCHANGED <<now, polls, remote, signer, dropped, started, cached, nextPoll, fetching>>
  BY DEF worldVars, cacheVars
<1>2. check \in [Verifiers -> {NoDoc} \cup Check] /\ check'[v] = new
      /\ \A u \in Verifiers \ {v} : check'[u] = check[u]
  BY DEF TrustInv, TrustTypeOK
<1>3. TrustTypeOK'
  BY <1>1, <1>2 DEF TrustInv, TrustTypeOK
<1>4. WorldInOrder' /\ CopyBounded(cached)'
  BY <1>1 DEF TrustInv, WorldInOrder, CopyBounded
<1>5. FetchBounded'
  <2>1. fetching # NoDoc => fetching.by \in Verifiers
    BY DEF TrustInv, TrustTypeOK, Fetch
  <2> QED
    BY <1>1, <1>2, <2>1 DEF TrustInv, FetchBounded
<1>6. ASSUME NEW u \in Verifiers, check'[u] # NoDoc
      PROVE  CopyBounded(check[u].doc)'
  BY <1>1, <1>2, <1>6 DEF TrustInv, CopyBounded
<1> QED
  BY <1>3, <1>4, <1>5, <1>6 DEF TrustInv

\* A copy that agrees lists a key only for its bounded time.
LEMMA AgreedIsYoung ==
  ASSUME TrustInv, NEW k \in Keys, NEW doc \in Copy, doc # NoDoc, CopyBounded(doc),
         SourceAgrees(k, doc), Afterlife(k) > outlived
  PROVE  /\ Afterlife(k) \in Time
         /\ IF polls THEN Afterlife(k) < CacheMaxAge + FetchTime ELSE Afterlife(k) <= MaxAge
<1>1. /\ now \in 0..Horizon /\ started \in Nat /\ started <= now /\ outlived \in Nat /\ polls \in BOOLEAN
      /\ dropped \in [Keys -> {Never} \cup Nat]
      /\ dropped[k] # Never => dropped[k] <= now
  BY TrustNumbers DEF TrustInv, TrustTypeOK, Time, WorldInOrder
<1>2. dropped[k] \in Nat
  BY <1>1 DEF Afterlife
<1>3. doc.at \in Nat /\ doc.expires \in {Never} \cup Nat /\ k \in doc.keys /\ now - doc.at <= MaxAge
      /\ (doc.expires # Never => now < doc.expires)
  BY TrustNumbers DEF Copy, Time, SourceAgrees
<1>4. Afterlife(k) \in Time
  BY <1>1, <1>2, TrustNumbers DEF Afterlife, Time
<1>5. CASE polls
  <2>1. /\ doc.expires \in Nat /\ now < doc.expires
        /\ doc.expires <= dropped[k] + CacheMaxAge + FetchTime \/ doc.expires <= started + CacheMaxAge
    BY <1>2, <1>3, <1>5, TrustNumbers DEF CopyBounded
  <2> QED
    BY <1>1, <1>2, <1>4, <1>5, <2>1, TrustNumbers DEF Afterlife
<1>6. CASE ~polls
  <2>1. doc.at = 0
    BY <1>6 DEF CopyBounded
  <2> QED
    BY <1>1, <1>2, <1>3, <1>4, <1>6, <2>1, TrustNumbers DEF Afterlife
<1> QED
  BY <1>1, <1>5, <1>6

\* What a caller is handed is a bounded copy of what the cache gives.
LEMMA HandedIsBounded ==
  ASSUME TrustInv, NEW v \in Verifiers, check[v] # NoDoc,
         NEW docs \in {NoDoc} \cup Copy, CopyBounded(docs)
  PROVE  /\ Handed(v, docs) \in {NoDoc} \cup Check
         /\ Handed(v, docs) # NoDoc => CopyBounded(Handed(v, docs).doc)
<1>1. check[v] \in Check
  BY DEF TrustInv, TrustTypeOK
<1> DEFINE doc == IF Binding(check[v].key) = Issuer THEN docs ELSE NoDoc
           new == [check[v] EXCEPT !.step = "judge", !.doc = doc]
<1>2. doc \in {NoDoc} \cup Copy /\ CopyBounded(doc)
  BY DEF CopyBounded
<1>3. Handed(v, docs) = NoDoc \/ Handed(v, docs) = new
  BY DEF Handed
<1> HIDE DEF doc
<1>4. new \in Check /\ new.doc = doc
  BY <1>1, <1>2 DEF Check
<1> HIDE DEF new
<1> QED
  BY <1>2, <1>3, <1>4

LEMMA TrustMoves == TrustInv /\ [TrustNext]_trustVars => TrustInv'
<1> SUFFICES ASSUME TrustInv, [TrustNext]_trustVars PROVE TrustInv'
  OBVIOUS
<1>0. /\ now \in Nat /\ started \in Nat /\ dropped \in [Keys -> {Never} \cup Nat]
      /\ \A k \in Keys : dropped[k] \in {Never} \cup Nat
  BY TrustNumbers DEF TrustInv, TrustTypeOK, Time
<1>00. ASSUME NEW v \in Verifiers PROVE check[v] # NoDoc => check[v] \in Check
  BY DEF TrustInv, TrustTypeOK
<1>1. CASE Tick
  <2>1. /\ now' = now + 1 /\ now' \in Time
        /\ UNCHANGED <<polls, remote, signer, check, dropped, started, outlived, cached, nextPoll,
                       fetching>>
    BY <1>1, TrustNumbers DEF Tick, cacheVars, TrustInv, TrustTypeOK, Time
  <2>2. TrustTypeOK'
    BY <2>1 DEF TrustInv, TrustTypeOK
  <2>3. WorldInOrder'
    <3>1. remote # NoDoc => remote.at \in Nat
      BY DEF TrustInv, TrustTypeOK, Published
    <3> QED
      BY <1>0, <2>1, <3>1 DEF TrustInv, WorldInOrder
  <2>4. ASSUME NEW doc \in {NoDoc} \cup Copy, CopyBounded(doc), NEW same, same = doc
        PROVE  doc # NoDoc =>
                 /\ doc.at <= now' /\ (~polls => doc.at = 0)
                 /\ polls => doc.expires # Never /\ doc.expires <= now' + CacheMaxAge
    <3>1. doc # NoDoc => doc.at \in Nat /\ doc.expires \in {Never} \cup Nat
      BY TrustNumbers DEF Copy, Time
    <3> QED
      BY <1>0, <2>1, <2>4, <3>1, TrustNumbers DEF CopyBounded
  <2>5. CopyBounded(cached)'
    <3>1. cached \in {NoDoc} \cup Copy /\ CopyBounded(cached)
      BY DEF TrustInv, TrustTypeOK
    <3> QED
      BY <2>1, <2>4, <3>1 DEF CopyBounded
  <2>6. ASSUME NEW u \in Verifiers, check'[u] # NoDoc PROVE CopyBounded(check[u].doc)'
    <3>1. check[u].doc \in {NoDoc} \cup Copy /\ CopyBounded(check[u].doc)
      BY <1>00, <2>1, <2>6 DEF TrustInv, Check
    <3> QED
      BY <2>1, <2>4, <3>1 DEF CopyBounded
  <2>7. FetchBounded'
    <3>1. fetching # NoDoc => /\ fetching.since \in Nat
                              /\ fetching.doc # NoDoc => fetching.doc.at \in Nat
      BY TrustNumbers DEF TrustInv, TrustTypeOK, Fetch, Published, Time
    <3>2. fetching # NoDoc => now < fetching.since + FetchTime
      BY <1>1 DEF Tick
    <3> QED
      BY <1>0, <2>1, <3>1, <3>2, TrustNumbers DEF TrustInv, FetchBounded
  <2>8. RevokedKeyDies'
    BY <2>1 DEF TrustInv, RevokedKeyDies
  <2> QED
    BY <2>2, <2>3, <2>5, <2>6, <2>7, <2>8 DEF TrustInv
<1>2. CASE Publish
  <2>1. UNCHANGED <<cached, nextPoll, fetching, now, polls, signer, check, started, outlived>>
    BY <1>2 DEF Publish, cacheVars
  <2>2. /\ remote' \in {NoDoc} \cup Published
        /\ dropped' \in [Keys -> {Never} \cup Time] /\ WorldInOrder'
        /\ \A k \in Keys : dropped'[k] # Never => dropped'[k] = dropped[k] \/ dropped'[k] = now
    <3>1. CASE remote' = NoDoc /\ UNCHANGED dropped
      BY <2>1, <3>1 DEF TrustInv, TrustTypeOK, WorldInOrder
    <3>2. CASE \E keys \in SUBSET Keys :
                 /\ remote' = [keys |-> keys, at |-> now]
                 /\ dropped' = [k \in Keys |-> IF k \in keys THEN Never
                                   ELSE IF dropped[k] = Never THEN now ELSE dropped[k]]
      <4>1. PICK keys \in SUBSET Keys :
              /\ remote' = [keys |-> keys, at |-> now]
              /\ dropped' = [k \in Keys |-> IF k \in keys THEN Never
                                ELSE IF dropped[k] = Never THEN now ELSE dropped[k]]
        BY <3>2
      <4>2. remote' \in Published /\ dropped' \in [Keys -> {Never} \cup Time]
        BY <4>1 DEF TrustInv, TrustTypeOK, Published, Time
      <4>3. \A k \in Keys : dropped'[k] # Never => dropped'[k] = dropped[k] \/ dropped'[k] = now
        BY <4>1
      <4>4. WorldInOrder'
        BY <1>0, <2>1, <4>1 DEF TrustInv, WorldInOrder
      <4> QED
        BY <4>2, <4>3, <4>4
    <3> QED
      BY <1>2, <3>1, <3>2 DEF Publish
  <2>3. TrustTypeOK'
    BY <2>1, <2>2 DEF TrustInv, TrustTypeOK
  <2>4. ASSUME NEW doc \in {NoDoc} \cup Copy, CopyBounded(doc), doc # NoDoc, NEW k \in doc.keys,
               polls, dropped'[k] # Never
        PROVE  \/ doc.expires <= dropped'[k] + CacheMaxAge + FetchTime
               \/ doc.expires <= started + CacheMaxAge
    <3>1. k \in Keys /\ doc.expires \in {Never} \cup Nat
      BY <2>4, TrustNumbers DEF Copy, Time
    <3>2. doc.expires \in Nat /\ doc.expires <= now + CacheMaxAge
      BY <2>4, <3>1 DEF CopyBounded
    <3>3. CASE dropped'[k] = dropped[k]
      BY <2>4, <3>3 DEF CopyBounded
    <3>4. CASE dropped'[k] = now
      BY <1>0, <3>2, <3>4, TrustNumbers
    <3> QED
      BY <2>2, <2>4, <3>1, <3>3, <3>4
  <2>5. CopyBounded(cached)'
    <3>1. cached \in {NoDoc} \cup Copy /\ CopyBounded(cached)
      BY DEF TrustInv, TrustTypeOK
    <3> QED
      BY <2>1, <2>4, <3>1 DEF CopyBounded
  <2>6. ASSUME NEW u \in Verifiers, check'[u] # NoDoc PROVE CopyBounded(check[u].doc)'
    <3>1. check[u].doc \in {NoDoc} \cup Copy /\ CopyBounded(check[u].doc)
      BY <1>00, <2>1, <2>6 DEF TrustInv, Check
    <3> QED
      BY <2>1, <2>4, <3>1 DEF CopyBounded
  <2>7. FetchBounded'
    <3>1. fetching # NoDoc /\ fetching.doc # NoDoc => fetching.doc.keys \subseteq Keys
      BY DEF TrustInv, TrustTypeOK, Fetch, Published
    <3> QED
      BY <2>1, <2>2, <3>1 DEF TrustInv, FetchBounded
  <2>8. RevokedKeyDies'
    BY <2>1 DEF TrustInv, RevokedKeyDies
  <2> QED
    BY <2>2, <2>3, <2>5, <2>6, <2>7, <2>8 DEF TrustInv
<1>3. CASE Restart
  <2> DEFINE seed == [keys |-> Keys, at |-> 0]
  <2>1. /\ cached' = Decorated(seed, now) /\ nextPoll' = now /\ started' = now /\ fetching' = NoDoc
        /\ check' = [v \in Verifiers |-> NoDoc]
        /\ UNCHANGED <<now, polls, remote, signer, dropped, outlived>>
    BY <1>3 DEF Restart
  <2>2. seed \in Published /\ now \in Time /\ nextPoll' \in 0..Horizon + PollInterval
    BY <2>1, TrustNumbers DEF TrustInv, TrustTypeOK, Published, Time
  <2>3. TrustTypeOK'
    <3>1. cached' \in {NoDoc} \cup Copy
      BY <2>1, <2>2, DecoratedIsTyped
    <3> QED
      BY <2>1, <2>2, <3>1 DEF TrustInv, TrustTypeOK
  <2>4. CopyBounded(cached)'
    BY <1>0, <2>1, TrustNumbers DEF CopyBounded, Decorated
  <2>5. WorldInOrder' /\ FetchBounded' /\ RevokedKeyDies'
    BY <1>0, <2>1 DEF TrustInv, WorldInOrder, FetchBounded, RevokedKeyDies
  <2> QED
    BY <2>1, <2>3, <2>4, <2>5 DEF TrustInv
<1>4. CASE \E s \in Signers : ConfigureSigner(s)
  <2>1. UNCHANGED <<cached, nextPoll, fetching, now, polls, remote, check, dropped, started, outlived>>
    BY <1>4 DEF ConfigureSigner, cacheVars
  <2> QED
    BY <2>1 DEF TrustInv, TrustTypeOK, WorldInOrder, CopyBounded, FetchBounded, RevokedKeyDies
<1>5. ASSUME NEW v \in Verifiers, ReadSigner(v)
      PROVE  TrustInv'
  <2>1. PICK s \in Signers, k \in Keys :
          check' = [check EXCEPT ![v] = [step |-> "key", signer |-> s, key |-> k, doc |-> NoDoc]]
    BY <1>5 DEF ReadSigner
  <2>2. check[v] = NoDoc /\ UNCHANGED <<worldVars, cacheVars>> /\ outlived' = outlived /\ polls' = polls
    BY <1>5 DEF ReadSigner, worldVars
  <2> DEFINE new == [step |-> "key", signer |-> s, key |-> k, doc |-> NoDoc]
  <2>3. new \in Check /\ new.doc = NoDoc
    BY DEF Check
  <2>4. check' = [check EXCEPT ![v] = new]
    BY <2>1
  <2> HIDE DEF new
  <2>5. CopyBounded(new.doc) /\ (fetching # NoDoc => fetching.by # v)
    BY <2>2, <2>3 DEF CopyBounded, FetchBounded, TrustInv
  <2>6. outlived' \in Time /\ RevokedKeyDies'
    BY <2>2 DEF TrustInv, TrustTypeOK, RevokedKeyDies
  <2> QED
    BY <2>2, <2>3, <2>4, <2>5, <2>6, CallGoesOn
<1>6. ASSUME NEW v \in Verifiers, CheckKey(v)
      PROVE  TrustInv'
  <2> DEFINE old == check[v]
             next == [old EXCEPT !.step = "source"]
  <2>1. old # NoDoc /\ old.step = "key" /\ old \in Check /\ CopyBounded(old.doc)
    BY <1>00, <1>6 DEF CheckKey, TrustInv
  <2>2. UNCHANGED <<worldVars, cacheVars>> /\ outlived' = outlived /\ polls' = polls
    BY <1>6 DEF CheckKey, worldVars
  <2>3. PICK new \in {NoDoc, next} : check' = [check EXCEPT ![v] = new]
    <3>1. check' = [check EXCEPT ![v] = next] \/ check' = [check EXCEPT ![v] = NoDoc]
      BY <1>6 DEF CheckKey
    <3> QED
      BY <3>1
  <2>4. next \in Check /\ next.doc = old.doc
    BY <2>1 DEF Check
  <2> HIDE DEF next
  <2>5. new \in {NoDoc} \cup Check /\ (new # NoDoc => CopyBounded(new.doc))
    BY <2>1, <2>3, <2>4
  <2>6. fetching # NoDoc => fetching.by # v
    BY <2>1 DEF FetchBounded, TrustInv
  <2>7. outlived' \in Time /\ RevokedKeyDies'
    BY <2>2 DEF TrustInv, TrustTypeOK, RevokedKeyDies
  <2> QED
    BY <2>2, <2>3, <2>5, <2>6, <2>7, CallGoesOn
<1>7. ASSUME NEW v \in Verifiers, JudgeKey(v)
      PROVE  TrustInv'
  <2> DEFINE old == check[v]
             k == check[v].key
             doc == check[v].doc
             next == [old EXCEPT !.step = "evidence", !.doc = NoDoc]
  <2>1. /\ old # NoDoc /\ old.step = "judge" /\ old \in Check /\ CopyBounded(doc)
        /\ k \in Keys /\ doc \in {NoDoc} \cup Copy
    <3>1. old # NoDoc /\ old.step = "judge"
      BY <1>7 DEF JudgeKey
    <3>2. old \in Check /\ CopyBounded(doc)
      BY <1>00, <3>1 DEF TrustInv
    <3> QED
      BY <3>1, <3>2 DEF Check
  <2>2. UNCHANGED <<worldVars, cacheVars>> /\ polls' = polls
    BY <1>7 DEF JudgeKey, worldVars
  <2>3. PICK new \in {NoDoc, next} : check' = [check EXCEPT ![v] = new]
    <3>1. check' = [check EXCEPT ![v] = next] \/ check' = [check EXCEPT ![v] = NoDoc]
      BY <1>7 DEF JudgeKey
    <3> QED
      BY <3>1
  <2>4. \/ outlived' = outlived
        \/ outlived' = Afterlife(k) /\ Afterlife(k) > outlived /\ doc # NoDoc /\ SourceAgrees(k, doc)
    BY <1>7 DEF JudgeKey
  <2>5. next \in Check /\ next.doc = NoDoc
    BY <2>1 DEF Check
  <2> HIDE DEF next
  <2>6. new \in {NoDoc} \cup Check /\ (new # NoDoc => CopyBounded(new.doc))
    BY <2>3, <2>5 DEF CopyBounded
  <2>7. fetching # NoDoc => fetching.by # v
    BY <2>1 DEF FetchBounded, TrustInv
  <2>8. outlived' \in Time /\ RevokedKeyDies'
    <3>1. CASE outlived' = outlived
      BY <2>2, <3>1 DEF TrustInv, TrustTypeOK, RevokedKeyDies
    <3>2. CASE outlived' = Afterlife(k) /\ Afterlife(k) > outlived /\ doc # NoDoc /\ SourceAgrees(k, doc)
      <4> HIDE DEF k, doc
      <4>1. /\ Afterlife(k) \in Time
            /\ IF polls THEN Afterlife(k) < CacheMaxAge + FetchTime ELSE Afterlife(k) <= MaxAge
        BY <2>1, <3>2, AgreedIsYoung
      <4> QED
        BY <2>2, <3>2, <4>1 DEF RevokedKeyDies
    <3> QED
      BY <2>4, <3>1, <3>2
  <2> QED
    BY <2>2, <2>3, <2>6, <2>7, <2>8, CallGoesOn
<1>8. ASSUME NEW v \in Verifiers, Look(v)
      PROVE  TrustInv'
  <2>1. /\ check[v] # NoDoc /\ fetching = NoDoc /\ check' = [check EXCEPT ![v] = Handed(v, cached)]
        /\ UNCHANGED <<worldVars, cacheVars>> /\ outlived' = outlived /\ polls' = polls
    BY <1>8 DEF Look, Asks, worldVars
  <2>2. cached \in {NoDoc} \cup Copy /\ CopyBounded(cached)
    BY DEF TrustInv, TrustTypeOK
  <2>3. /\ Handed(v, cached) \in {NoDoc} \cup Check
        /\ Handed(v, cached) # NoDoc => CopyBounded(Handed(v, cached).doc)
    BY <2>1, <2>2, HandedIsBounded
  <2>4. outlived' \in Time /\ RevokedKeyDies'
    BY <2>1 DEF TrustInv, TrustTypeOK, RevokedKeyDies
  <2> QED
    BY <2>1, <2>3, <2>4, CallGoesOn
<1>9. ASSUME NEW v \in Verifiers, StartFetch(v)
      PROVE  TrustInv'
  <2>1. /\ check[v] # NoDoc /\ check[v].step \in {"source", "evidence"} /\ polls
        /\ fetching' = [by |-> v, since |-> now, answered |-> FALSE, doc |-> NoDoc]
        /\ UNCHANGED <<now, polls, remote, signer, dropped, started, cached, nextPoll, check, outlived>>
    BY <1>9 DEF StartFetch, Asks, PollDue, worldVars
  <2>2. TrustTypeOK'
    <3>1. fetching' \in Fetch
      BY <2>1 DEF TrustInv, TrustTypeOK, Fetch
    <3> QED
      BY <2>1, <3>1 DEF TrustInv, TrustTypeOK
  <2>3. FetchBounded'
    BY <1>0, <2>1, TrustNumbers DEF FetchBounded
  <2> QED
    BY <2>1, <2>2, <2>3 DEF TrustInv, WorldInOrder, CopyBounded, RevokedKeyDies
<1>10. CASE Answer
  <2>1. /\ fetching # NoDoc /\ fetching' = [fetching EXCEPT !.answered = TRUE, !.doc = remote]
        /\ UNCHANGED <<now, polls, remote, signer, dropped, started, cached, nextPoll, check, outlived>>
    BY <1>10 DEF Answer, worldVars
  <2>2. fetching \in Fetch
    BY <2>1 DEF TrustInv, TrustTypeOK
  <2>3. /\ fetching' \in Fetch /\ fetching'.by = fetching.by /\ fetching'.since = fetching.since
        /\ fetching'.doc = remote
    BY <2>1, <2>2 DEF TrustInv, TrustTypeOK, Fetch
  <2>4. TrustTypeOK'
    BY <2>1, <2>3 DEF TrustInv, TrustTypeOK
  <2>5. FetchBounded'
    BY <2>1, <2>3 DEF TrustInv, FetchBounded, WorldInOrder
  <2> QED
    BY <2>1, <2>4, <2>5 DEF TrustInv, WorldInOrder, CopyBounded, RevokedKeyDies
<1>11. ASSUME NEW v \in Verifiers, EndFetch(v)
      PROVE  TrustInv'
  <2>1. PICK docs \in {Decorated(fetching.doc, now), cached} :
          cached' = docs /\ check' = [check EXCEPT ![v] = Handed(v, docs)]
    BY <1>11 DEF EndFetch, Renewed
  <2>2. /\ fetching # NoDoc /\ fetching.by = v /\ nextPoll' = fetching.since + PollInterval
        /\ fetching' = NoDoc
        /\ UNCHANGED <<now, polls, remote, signer, dropped, started, outlived>>
    BY <1>11 DEF EndFetch, worldVars
  <2>3. /\ fetching.since \in 0..Horizon /\ fetching.doc \in {NoDoc} \cup Published /\ now \in Time
        /\ check[v] # NoDoc
    BY <2>2 DEF TrustInv, TrustTypeOK, Fetch, FetchBounded, Time
  <2>4. docs \in {NoDoc} \cup Copy /\ CopyBounded(docs)
    BY <2>1, <2>2, <2>3, DecoratedIsTyped, FetchedIsBounded DEF TrustInv, TrustTypeOK
  <2>5. /\ Handed(v, docs) \in {NoDoc} \cup Check
        /\ Handed(v, docs) # NoDoc => CopyBounded(Handed(v, docs).doc)
    BY <2>3, <2>4, HandedIsBounded
  <2>6. check \in [Verifiers -> {NoDoc} \cup Check] /\ check'[v] = Handed(v, docs)
        /\ \A u \in Verifiers \ {v} : check'[u] = check[u]
    BY <2>1 DEF TrustInv, TrustTypeOK
  <2>7. TrustTypeOK'
    <3>1. nextPoll' \in 0..Horizon + PollInterval
      BY <2>2, <2>3, TrustNumbers
    <3>2. check' \in [Verifiers -> {NoDoc} \cup Check]
      BY <2>1, <2>5, <2>6
    <3> QED
      BY <2>1, <2>2, <2>4, <3>1, <3>2 DEF TrustInv, TrustTypeOK
  <2>8. CopyBounded(cached)'
    BY <2>1, <2>2, <2>4 DEF CopyBounded
  <2>9. ASSUME NEW u \in Verifiers, check'[u] # NoDoc PROVE CopyBounded(check[u].doc)'
    BY <2>2, <2>5, <2>6, <2>9 DEF TrustInv, CopyBounded
  <2>10. WorldInOrder' /\ FetchBounded' /\ RevokedKeyDies'
    BY <2>2 DEF TrustInv, WorldInOrder, FetchBounded, RevokedKeyDies
  <2> QED
    BY <2>7, <2>8, <2>9, <2>10 DEF TrustInv
<1>12. CASE UNCHANGED trustVars
  <2>1. UNCHANGED <<cached, nextPoll, fetching, now, polls, remote, signer, check, dropped, started,
                    outlived>>
    BY <1>12 DEF trustVars
  <2> QED
    BY <2>1 DEF TrustInv, TrustTypeOK, WorldInOrder, CopyBounded, FetchBounded, RevokedKeyDies
<1> QED
  BY <1>1, <1>2, <1>3, <1>4, <1>5, <1>6, <1>7, <1>8, <1>9, <1>10, <1>11, <1>12 DEF TrustNext

LEMMA TrustInvariant == TrustSpec => []TrustInv
<1> QED
  BY TrustBegins, TrustMoves, PTL DEF TrustSpec

\* A key the issuer no longer publishes is accepted for less than the age of the cache and the time of
\* a fetch after it was dropped or the process started, whatever number of calls share the cache, and
\* without polling no longer than a document may be old (AP2FederationDiscoveryCache,
\* _validate_rs256_signing_key_federation_source).
THEOREM RevokedKeysDie == TrustSpec => []RevokedKeyDies
<1>1. TrustInv => RevokedKeyDies
  BY DEF TrustInv
<1> QED
  BY <1>1, TrustInvariant, PTL

\* The clock, the published and the cached document, the fetch and the checks under way stay typed,
\* for any number of keys and verifiers (AP2FederationDiscoveryCache).
THEOREM TrustTypes == TrustSpec => []TrustTypeOK
<1>1. TrustInv => TrustTypeOK
  BY DEF TrustInv
<1> QED
  BY <1>1, TrustInvariant, PTL

----------------------------------------------------------------------------
(* The receipts of payment providers.                                      *)

\* A presentation on its way, and its locals.
Visiting(v) == visit[v].step \notin {"idle", "over"}

VisitRow == [step : {"idle", "reject", "store", "judge", "decide", "payment", "over"},
             token : Tokens \cup {NoToken}, setting : Settings \cup {NoSetting},
             sound : BOOLEAN]

\* What the verdict says of a presentation.
SoundClaim(t) ==
    /\ t.signer # Nobody /\ t.settled /\ t.ours /\ t.network \in Networks
    /\ \E s \in Settings \ {NoSetting} : IssuerAllowed(t, s)

\* What one that nobody disturbs knows at each of its steps.
Undisturbed(v) ==
    LET t == visit[v].token IN
    /\ visit[v].step \in {"store", "judge"} => visit[v].setting \in Settings \ {NoSetting}
    /\ visit[v].step = "judge" => claim[t.receipt].token = t
    /\ visit[v].step = "payment" => visit[v].sound
    /\ visit[v].step \in {"decide", "payment"} /\ visit[v].sound
         => SoundClaim(t) /\ ~claim[t.receipt].used

\* The row of a receipt that has paid says so for ever.
PaidIsUsed ==
    \A n \in DOMAIN paid :
      LET r == paid[n].token.receipt IN claim[r] \in ClaimRow /\ claim[r].used

\* The invariant of the receipts.
ReceiptInv ==
    /\ claim \in [Receipts -> ClaimRow \cup {NoToken}]
    /\ visit \in [Visits -> VisitRow]
    /\ \A v \in Visits : Visiting(v) =>
         /\ visit[v].token \in Tokens
         /\ visit[v].step \notin {"reject", "store"} => claim[visit[v].token.receipt] \in ClaimRow
    /\ setting \in Settings
    /\ \A v, u \in Visits : v # u /\ Visiting(v) /\ Visiting(u) => v \in crowded
    /\ \A v \in Visits : v \notin crowded => Undisturbed(v)
    /\ paid \in Seq([visit : Visits, token : Tokens])
    /\ PaidIsUsed
    /\ UndisturbedIsSound

\* The invariant holds of no receipts.
LEMMA ReceiptsBegin == ReceiptsInit => ReceiptInv
<1> SUFFICES ASSUME ReceiptsInit PROVE ReceiptInv
  OBVIOUS
<1> USE DEF VisitRow
<1>1. \A v \in Visits : ~Visiting(v) /\ Undisturbed(v)
  BY DEF ReceiptsInit, Waiting, Visiting, Undisturbed
<1>2. PaidIsUsed /\ UndisturbedIsSound
  BY DEF ReceiptsInit, PaidIsUsed, UndisturbedIsSound
<1> QED
  BY <1>1, <1>2 DEF ReceiptsInit, Waiting, ReceiptInv

\* What a step of one presentation does to the others.
LEMMA OneVisit ==
  ASSUME ReceiptInv, NEW v \in Visits, NEW from \in {"idle", "reject", "store", "judge", "decide", "payment"},
         NEW fields, Takes(v, from, fields)
  PROVE  /\ visit[v].step = from /\ visit'[v] = fields
         /\ \A u \in Visits \ {v} : visit'[u] = visit[u] /\ (Visiting(u) => u \in crowded')
         /\ crowded \subseteq crowded'
         /\ \A u \in Visits \ {v} : Visiting(u) => v \in crowded'
<1> QED
  BY DEF ReceiptInv, Takes, Visiting

\* The presentations stay apart, or know of one another.
LEMMA CrowdsAreKnown ==
  ASSUME ReceiptInv, NEW v \in Visits,
         \A u \in Visits \ {v} : visit'[u] = visit[u] /\ (Visiting(u) => u \in crowded'),
         \A u \in Visits \ {v} : Visiting(u) => v \in crowded'
  PROVE  \A w, u \in Visits : w # u /\ Visiting(w)' /\ Visiting(u)' => w \in crowded'
<1> QED
  BY DEF ReceiptInv, Visiting

\* A claim that an adapter takes has a signer.
LEMMA AdapterWantsSigner ==
  ASSUME NEW t \in Tokens, NEW s \in Settings \ {NoSetting}, Adapter(t, s)
  PROVE  t.signer # Nobody
<1>1. t \in Token /\ s \in Setting /\ Nobody \notin DOMAIN Ring
  BY ReceiptsTyped
<1>2. t.key \in DOMAIN Ring /\ t.kid \in DOMAIN Ring \cup {Nobody} /\ s.adapter \in Adapters
  BY <1>1 DEF Token, Setting
<1>3. CASE s.adapter = "shared_secret"
  BY <1>1, <1>2, <1>3 DEF Adapter, SharedSecret
<1>4. CASE s.adapter = "rs256"
  BY <1>1, <1>2, <1>4 DEF Adapter, Rs256, SignedWith
<1>5. CASE s.adapter = "jwt"
  BY <1>1, <1>2, <1>5 DEF Adapter, JwtRs256, SignedWith
<1> QED
  BY <1>2, <1>3, <1>4, <1>5 DEF Adapters

\* Every write of a receipt's row keeps its date of use.
Writes(r, row) ==
    /\ claim' = [claim EXCEPT ![r] = row]
    /\ row \in ClaimRow /\ (claim[r] \in ClaimRow /\ claim[r].used => row.used)

\* A row is written by storing a claim or by marking it used; neither takes a use back.
LEMMA WritesKeepUse ==
  ASSUME ReceiptInv, NEW r \in Receipts, NEW row, Writes(r, row)
  PROVE  /\ claim' \in [Receipts -> ClaimRow \cup {NoToken}]
         /\ claim'[r] = row
         /\ \A q \in Receipts : claim[q] \in ClaimRow =>
               claim'[q] \in ClaimRow /\ (claim[q].used => claim'[q].used)
<1>1. claim \in [Receipts -> ClaimRow \cup {NoToken}]
  BY DEF ReceiptInv
<1> QED
  BY <1>1 DEF Writes

LEMMA StoringWrites ==
  ASSUME ReceiptInv, NEW t \in Tokens, NEW verdict \in Verdicts,
         claim' = [claim EXCEPT ![t.receipt] = Claimed(t, @, verdict)]
  PROVE  t.receipt \in Receipts /\ Writes(t.receipt, Claimed(t, claim[t.receipt], verdict))
<1>1. t.receipt \in Receipts
  BY DEF Receipts
<1>2. claim[t.receipt] \in ClaimRow \cup {NoToken}
  BY <1>1 DEF ReceiptInv
<1>3. Claimed(t, claim[t.receipt], verdict) \in ClaimRow
  BY <1>2 DEF Claimed, ClaimRow
<1>4. claim[t.receipt] \in ClaimRow => claim[t.receipt] # NoToken
  BY ReceiptsTyped
<1> QED
  BY <1>1, <1>3, <1>4 DEF Claimed, Writes

LEMMA MarkingWrites ==
  ASSUME ReceiptInv, NEW t \in Tokens, claim[t.receipt] \in ClaimRow,
         \/ Used(t.receipt)
         \/ \E verdict \in Verdicts : claim' = [claim EXCEPT ![t.receipt].verdict = verdict]
  PROVE  /\ t.receipt \in Receipts
         /\ \E row : /\ Writes(t.receipt, row) /\ row.token = claim[t.receipt].token
                    /\ IF Used(t.receipt) THEN row.used ELSE row.used = claim[t.receipt].used
<1>1. t.receipt \in Receipts
  BY DEF Receipts
<1> DEFINE old == claim[t.receipt]
<1>2. CASE Used(t.receipt)
  <2> DEFINE row == [old EXCEPT !.used = TRUE]
  <2>1. row \in ClaimRow /\ row.token = old.token /\ row.used
    BY DEF ClaimRow
  <2>2. claim' = [claim EXCEPT ![t.receipt] = row]
    BY <1>2 DEF Used
  <2>3. Writes(t.receipt, row)
    BY <2>1, <2>2 DEF Writes
  <2> HIDE DEF row
  <2> QED
    BY <1>1, <1>2, <2>1, <2>3
<1>3. CASE ~Used(t.receipt)
  <2>1. PICK verdict \in Verdicts : claim' = [claim EXCEPT ![t.receipt].verdict = verdict]
    BY <1>3
  <2> DEFINE row == [old EXCEPT !.verdict = verdict]
  <2>2. row \in ClaimRow /\ row.token = old.token /\ row.used = old.used
    BY DEF ClaimRow
  <2>3. claim' = [claim EXCEPT ![t.receipt] = row]
    BY <2>1
  <2>4. Writes(t.receipt, row)
    BY <2>2, <2>3 DEF Writes
  <2> HIDE DEF row
  <2> QED
    BY <1>1, <1>3, <2>2, <2>4
<1> QED
  BY <1>2, <1>3

\* Steps that leave what has been paid alone.
LEMMA HistoryStands ==
  ASSUME ReceiptInv, paid' = paid, crowded \subseteq crowded',
         \A q \in Receipts : claim[q] \in ClaimRow =>
               claim'[q] \in ClaimRow /\ (claim[q].used => claim'[q].used)
  PROVE  PaidIsUsed' /\ UndisturbedIsSound'
<1>1. ASSUME NEW n \in DOMAIN paid
      PROVE  paid[n].token.receipt \in Receipts
  <2> DEFINE Paid == [visit : Visits, token : Tokens]
  <2>1. paid \in Seq(Paid)
    BY DEF ReceiptInv
  <2>2. paid[n] \in Paid
    <3> HIDE DEF Paid
    <3> QED
      BY <2>1
  <2>3. paid[n].token \in Tokens
    BY <2>2
  <2> QED
    BY <2>3 DEF Receipts
<1>2. PaidIsUsed'
  BY <1>1 DEF ReceiptInv, PaidIsUsed
<1>3. UndisturbedIsSound'
  BY DEF ReceiptInv, UndisturbedIsSound
<1> QED
  BY <1>2, <1>3

\* One step of a presentation, and what is left to show for it.
LEMMA VisitStep ==
  ASSUME ReceiptInv, NEW v \in Visits,
         NEW from \in {"idle", "reject", "store", "judge", "decide", "payment"},
         NEW fields, Takes(v, from, fields),
         fields \in VisitRow,
         claim' \in [Receipts -> ClaimRow \cup {NoToken}],
         \A q \in Receipts : claim[q] \in ClaimRow =>
               claim'[q] \in ClaimRow /\ (claim[q].used => claim'[q].used),
         paid' \in Seq([visit : Visits, token : Tokens]),
         fields.step \notin {"idle", "over"} =>
            /\ fields.token \in Tokens
            /\ fields.step \notin {"reject", "store"} => claim'[fields.token.receipt] \in ClaimRow,
         setting' \in Settings, v \notin crowded' => Undisturbed(v)',
         PaidIsUsed', UndisturbedIsSound'
  PROVE  ReceiptInv'
<1>1. /\ visit[v].step = from /\ visit'[v] = fields
      /\ \A u \in Visits \ {v} : visit'[u] = visit[u] /\ (Visiting(u) => u \in crowded')
      /\ crowded \subseteq crowded'
      /\ \A u \in Visits \ {v} : Visiting(u) => v \in crowded'
  BY OneVisit
<1>2. visit' \in [Visits -> VisitRow]
  BY DEF Takes, ReceiptInv
<1>3. \A u \in Visits : Visiting(u)' =>
         /\ visit'[u].token \in Tokens
         /\ visit'[u].step \notin {"reject", "store"} => claim'[visit'[u].token.receipt] \in ClaimRow
  <2> SUFFICES ASSUME NEW u \in Visits, Visiting(u)'
               PROVE  /\ visit'[u].token \in Tokens
                      /\ visit'[u].step \notin {"reject", "store"} => claim'[visit'[u].token.receipt] \in ClaimRow
    OBVIOUS
  <2>1. CASE u = v
    BY <1>1, <2>1 DEF Visiting
  <2>2. CASE u # v
    <3>1. visit'[u] = visit[u] /\ Visiting(u)
      BY <1>1, <2>2 DEF Visiting
    <3>2. /\ visit[u].token \in Tokens
          /\ visit[u].step \notin {"reject", "store"} => claim[visit[u].token.receipt] \in ClaimRow
      BY <3>1 DEF ReceiptInv
    <3>3. visit[u].token.receipt \in Receipts
      BY <3>2 DEF Receipts
    <3> QED
      BY <3>1, <3>2, <3>3
  <2> QED
    BY <2>1, <2>2
<1>4. \A w, u \in Visits : w # u /\ Visiting(w)' /\ Visiting(u)' => w \in crowded'
  BY <1>1, CrowdsAreKnown
<1>5. \A u \in Visits : u \notin crowded' => Undisturbed(u)'
  <2> SUFFICES ASSUME NEW u \in Visits, u \notin crowded', u # v
               PROVE  Undisturbed(u)'
    OBVIOUS
  <2>1. visit'[u] = visit[u] /\ ~Visiting(u)
    BY <1>1
  <2> QED
    BY <2>1 DEF Visiting, Undisturbed
<1> QED
  BY <1>2, <1>3, <1>4, <1>5 DEF ReceiptInv

\* Every step keeps the invariant.
LEMMA ReceiptsMove == ReceiptInv /\ [ReceiptsNext]_receiptVars => ReceiptInv'
<1> SUFFICES ASSUME ReceiptInv, [ReceiptsNext]_receiptVars PROVE ReceiptInv'
  OBVIOUS
<1> USE DEF VisitRow
<1>0. /\ visit \in [Visits -> VisitRow]
      /\ claim \in [Receipts -> ClaimRow \cup {NoToken}]
      /\ paid \in Seq([visit : Visits, token : Tokens]) /\ setting \in Settings
  BY DEF ReceiptInv
<1>1. CASE Configure
  BY <1>1 DEF Configure, ReceiptInv, Visiting, Undisturbed, SoundClaim, PaidIsUsed, UndisturbedIsSound
<1>2. CASE UNCHANGED receiptVars
  BY <1>2 DEF receiptVars, ReceiptInv, Visiting, Undisturbed, SoundClaim, PaidIsUsed, UndisturbedIsSound
<1>3. ASSUME NEW v \in Visits, Arrive(v)
      PROVE  ReceiptInv'
  <2>1. PICK t \in Tokens :
          Takes(v, "idle", [token |-> t, setting |-> setting, sound |-> FALSE,
                            step |-> IF setting # NoSetting /\ setting.enabled /\ t.priced
                                       THEN "store" ELSE "reject"])
    BY <1>3 DEF Arrive
  <2> DEFINE fields == [token |-> t, setting |-> setting, sound |-> FALSE,
                        step |-> IF setting # NoSetting /\ setting.enabled /\ t.priced
                                   THEN "store" ELSE "reject"]
  <2>2. paid' = paid /\ setting' = setting /\ claim' = claim
    BY <1>3 DEF Arrive
  <2>3. /\ fields \in VisitRow /\ fields.step \in {"store", "reject"} /\ fields.token = t
        /\ fields.setting = setting
        /\ fields.step = "store" => setting \in Settings \ {NoSetting}
    BY <1>0
  <2>4. Takes(v, "idle", fields)
    BY <2>1
  <2> HIDE DEF fields
  <2>5. crowded \subseteq crowded' /\ visit'[v] = fields
    BY <2>4, OneVisit
  <2>6. PaidIsUsed' /\ UndisturbedIsSound'
    BY <2>2, <2>5, HistoryStands
  <2>7. Undisturbed(v)'
    BY <2>3, <2>5 DEF Undisturbed
  <2> QED
    BY <1>0, <2>2, <2>3, <2>4, <2>6, <2>7, VisitStep
<1>8. ASSUME NEW v \in Visits, Reject(v)
      PROVE  ReceiptInv'
  <2> DEFINE t == visit[v].token
             fields == [Waiting EXCEPT !.step = "over"]
  <2>1. /\ Takes(v, "reject", fields) /\ visit[v].step = "reject"
        /\ claim' = [claim EXCEPT ![t.receipt] = Claimed(t, @, "rejected")]
        /\ setting' = setting /\ paid' = paid
    BY <1>8 DEF Reject, Takes
  <2>2. t \in Tokens
    BY <2>1 DEF ReceiptInv, Visiting
  <2>3. t.receipt \in Receipts /\ Writes(t.receipt, Claimed(t, claim[t.receipt], "rejected"))
    BY <2>1, <2>2, StoringWrites DEF Verdicts
  <2>4. fields \in VisitRow /\ fields.step = "over"
    BY DEF Waiting
  <2> HIDE DEF fields, t
  <2>5. /\ claim' \in [Receipts -> ClaimRow \cup {NoToken}]
        /\ \A q \in Receipts : claim[q] \in ClaimRow =>
             claim'[q] \in ClaimRow /\ (claim[q].used => claim'[q].used)
    BY <2>3, WritesKeepUse
  <2>6. crowded \subseteq crowded' /\ visit'[v] = fields
    BY <2>1, OneVisit
  <2>7. PaidIsUsed' /\ UndisturbedIsSound'
    BY <2>1, <2>5, <2>6, HistoryStands
  <2>8. Undisturbed(v)'
    BY <2>4, <2>6 DEF Undisturbed
  <2> QED
    BY <1>0, <2>1, <2>4, <2>5, <2>7, <2>8, VisitStep
<1>4. ASSUME NEW v \in Visits, Store(v)
      PROVE  ReceiptInv'
  <2> DEFINE t == visit[v].token
             fields == [visit[v] EXCEPT !.step = "judge"]
  <2>1. /\ Takes(v, "store", fields) /\ visit[v].step = "store"
        /\ claim' = [claim EXCEPT ![t.receipt] = Claimed(t, @, "pending")]
        /\ setting' = setting /\ paid' = paid
    BY <1>4 DEF Store, Takes
  <2>2. t \in Tokens
    BY <2>1 DEF ReceiptInv, Visiting
  <2>3. t.receipt \in Receipts /\ Writes(t.receipt, Claimed(t, claim[t.receipt], "pending"))
    BY <2>1, <2>2, StoringWrites DEF Verdicts
  <2>4. /\ claim' \in [Receipts -> ClaimRow \cup {NoToken}]
        /\ claim'[t.receipt] = Claimed(t, claim[t.receipt], "pending")
        /\ \A q \in Receipts : claim[q] \in ClaimRow =>
               claim'[q] \in ClaimRow /\ (claim[q].used => claim'[q].used)
    BY <2>3, WritesKeepUse
  <2>5. Claimed(t, claim[t.receipt], "pending") \in ClaimRow
    BY <2>3 DEF Writes
  <2>6. fields \in VisitRow
        /\ fields.step = "judge" /\ fields.token = t
        /\ fields.setting = visit[v].setting
    BY <1>0
  <2>7. Claimed(t, claim[t.receipt], "pending").token = t
    BY DEF Claimed
  <2>8. v \notin crowded => visit[v].setting \in Settings \ {NoSetting}
    BY <2>1 DEF ReceiptInv, Undisturbed
  <2> HIDE DEF fields, t
  <2>9. crowded \subseteq crowded' /\ visit'[v] = fields
    BY <2>1, OneVisit
  <2>10. PaidIsUsed' /\ UndisturbedIsSound'
    BY <2>1, <2>4, <2>9, HistoryStands
  <2>11. v \notin crowded' => Undisturbed(v)'
    BY <2>4, <2>6, <2>7, <2>8, <2>9 DEF Undisturbed
  <2> QED
    BY <1>0, <2>1, <2>2, <2>4, <2>5, <2>6, <2>10, <2>11, VisitStep
<1>5. ASSUME NEW v \in Visits, Judge(v)
      PROVE  ReceiptInv'
  <2> DEFINE t == visit[v].token
             s == visit[v].setting
             sound == /\ Adapter(t, s) /\ SoundToken(t, s)
                      /\ SoundRow(claim[t.receipt], s)
                      /\ IssuerAllowed(t, s)
                      /\ Matches(t, claim[t.receipt], s)
             fields == [visit[v] EXCEPT !.step = "decide", !.sound = sound]
  <2>1. /\ Takes(v, "judge", fields) /\ visit[v].step = "judge"
        /\ setting' = setting /\ paid' = paid /\ claim' = claim
    BY <1>5 DEF Judge, Takes
  <2>2. t \in Tokens /\ claim[t.receipt] \in ClaimRow
    BY <2>1 DEF ReceiptInv, Visiting
  <2>3. fields \in VisitRow
    <3>1. sound \in BOOLEAN
      OBVIOUS
    <3> HIDE DEF sound
    <3> QED
      BY <1>0, <3>1
  <2>4. fields.step = "decide" /\ fields.token = t /\ fields.sound = sound
    <3> HIDE DEF sound
    <3> QED
      BY <1>0
  <2>5. v \notin crowded /\ sound => SoundClaim(t) /\ ~claim[t.receipt].used
    <3> SUFFICES ASSUME v \notin crowded, sound
                 PROVE  SoundClaim(t) /\ ~claim[t.receipt].used
      OBVIOUS
    <3>1. s \in Settings \ {NoSetting} /\ claim[t.receipt].token = t
      BY <2>1 DEF ReceiptInv, Undisturbed
    <3>2. t.signer # Nobody
      BY <2>2, <3>1, AdapterWantsSigner
    <3>3. IssuerAllowed(t, s) /\ SoundRow(claim[t.receipt], s) /\ Matches(t, claim[t.receipt], s)
      OBVIOUS
    <3>4. ~claim[t.receipt].used /\ t.settled /\ t.network \in Networks /\ t.ours
      BY <3>1, <3>3 DEF SoundRow, Matches
    <3> HIDE DEF sound, t, s
    <3> QED
      BY <3>1, <3>2, <3>3, <3>4 DEF SoundClaim
  <2> HIDE DEF fields, sound, t, s
  <2>6. crowded \subseteq crowded' /\ visit'[v] = fields
    BY <2>1, OneVisit
  <2>7. PaidIsUsed' /\ UndisturbedIsSound'
    BY <2>1, <2>6, HistoryStands
  <2>8. v \notin crowded' => Undisturbed(v)'
    <3> SUFFICES ASSUME v \notin crowded' PROVE Undisturbed(v)'
      OBVIOUS
    <3>1. v \notin crowded
      BY <2>6
    <3>2. sound => SoundClaim(t) /\ ~claim'[t.receipt].used
      BY <2>1, <2>5, <3>1
    <3> QED
      BY <2>4, <2>6, <3>2 DEF Undisturbed
  <2> QED
    BY <1>0, <2>1, <2>2, <2>3, <2>4, <2>7, <2>8, VisitStep
<1>6. ASSUME NEW v \in Visits, Decide(v)
      PROVE  ReceiptInv'
  <2> DEFINE t == visit[v].token
             verdict == IF visit[v].sound THEN "accepted" ELSE "rejected"
             fields == IF visit[v].sound THEN [visit[v] EXCEPT !.step = "payment"]
                       ELSE [Waiting EXCEPT !.step = "over"]
  <2>1. /\ Takes(v, "decide", fields) /\ visit[v].step = "decide"
        /\ setting' = setting /\ paid' = paid
        /\ claim' = [claim EXCEPT ![t.receipt].verdict = verdict]
    BY <1>6 DEF Decide, Takes
  <2>2. t \in Tokens /\ claim[t.receipt] \in ClaimRow /\ verdict \in Verdicts
    BY <2>1 DEF ReceiptInv, Visiting, Verdicts
  <2>3. t.receipt \in Receipts /\ claim'[t.receipt].used = claim[t.receipt].used
    <3>1. t.receipt \in Receipts
      BY <2>2 DEF Receipts
    <3> HIDE DEF t, verdict
    <3> QED
      BY <1>0, <2>1, <2>2, <3>1 DEF ClaimRow
  <2>4. PICK row : Writes(t.receipt, row)
    <3> HIDE DEF t, verdict, fields
    <3> QED
      BY <2>1, <2>2, MarkingWrites
  <2>5. /\ claim' \in [Receipts -> ClaimRow \cup {NoToken}]
        /\ claim'[t.receipt] \in ClaimRow
        /\ \A q \in Receipts : claim[q] \in ClaimRow =>
               claim'[q] \in ClaimRow /\ (claim[q].used => claim'[q].used)
    <3> HIDE DEF t, verdict, fields
    <3> QED
      BY <2>3, <2>4, WritesKeepUse DEF Writes
  <2>6. /\ fields \in VisitRow
        /\ fields.step \in {"payment", "over"}
        /\ fields.step = "payment" => fields.token = t /\ visit[v].sound /\ fields.sound
    BY <1>0 DEF Waiting
  <2>7. v \notin crowded /\ visit[v].sound => SoundClaim(t) /\ ~claim[t.receipt].used
    BY <2>1 DEF ReceiptInv, Undisturbed
  <2> HIDE DEF fields, t, verdict
  <2>8. crowded \subseteq crowded' /\ visit'[v] = fields
    BY <2>1, OneVisit
  <2>9. PaidIsUsed' /\ UndisturbedIsSound'
    BY <2>1, <2>5, <2>8, HistoryStands
  <2>10. v \notin crowded' => Undisturbed(v)'
    <3> SUFFICES ASSUME v \notin crowded' PROVE Undisturbed(v)'
      OBVIOUS
    <3>1. v \notin crowded
      BY <2>8
    <3>2. visit[v].sound => SoundClaim(t) /\ ~claim'[t.receipt].used
      BY <2>3, <2>7, <3>1
    <3>3. CASE fields.step = "over"
      BY <2>8, <3>3 DEF Undisturbed
    <3>4. CASE fields.step = "payment"
      <4>1. visit'[v].token = t /\ visit'[v].step = "payment" /\ visit'[v].sound
        BY <2>6, <2>8, <3>4
      <4>2. SoundClaim(visit'[v].token) /\ ~claim'[visit'[v].token.receipt].used
        BY <2>6, <3>2, <3>4, <4>1
      <4> QED
        BY <4>1, <4>2 DEF Undisturbed
    <3> QED
      BY <2>6, <3>3, <3>4
  <2> QED
    BY <1>0, <2>1, <2>2, <2>5, <2>6, <2>9, <2>10, VisitStep
<1>7. ASSUME NEW v \in Visits, Deny(v) \/ Authorize(v)
      PROVE  ReceiptInv'
  <2> DEFINE t == visit[v].token
             fields == [Waiting EXCEPT !.step = "over"]
             Paid == [visit : Visits, token : Tokens]
  <2>1. /\ Takes(v, "payment", fields) /\ visit[v].step = "payment"
        /\ setting' = setting
        /\ claim' = claim \/ Used(t.receipt)
        /\ \/ paid' = paid
           \/ Used(t.receipt) /\ paid' = Append(paid, [visit |-> v, token |-> t])
    BY <1>7 DEF Deny, Authorize, Takes
  <2>2. t \in Tokens /\ claim[t.receipt] \in ClaimRow
    BY <2>1 DEF ReceiptInv, Visiting
  <2>3. t.receipt \in Receipts
    BY <2>2 DEF Receipts
  <2>4. /\ fields \in VisitRow
        /\ fields.step = "over"
    BY DEF Waiting
  <2>5. v \notin crowded => SoundClaim(t) /\ ~claim[t.receipt].used
    BY <2>1 DEF ReceiptInv, Undisturbed
  <2> HIDE DEF fields, t
  <2>6. /\ claim' \in [Receipts -> ClaimRow \cup {NoToken}]
        /\ claim'[t.receipt] \in ClaimRow /\ (Used(t.receipt) => claim'[t.receipt].used)
        /\ \A q \in Receipts : claim[q] \in ClaimRow =>
               claim'[q] \in ClaimRow /\ (claim[q].used => claim'[q].used)
    <3>1. CASE claim' = claim /\ ~Used(t.receipt)
      BY <1>0, <2>2, <3>1
    <3>2. CASE Used(t.receipt)
      <4>1. PICK row : Writes(t.receipt, row) /\ row.used
        BY <2>2, <3>2, MarkingWrites
      <4> QED
        BY <2>3, <4>1, WritesKeepUse DEF Writes
    <3> QED
      BY <2>1, <3>1, <3>2
  <2>7. crowded \subseteq crowded' /\ visit'[v] = fields
    BY <2>1, OneVisit
  <2>8. Undisturbed(v)'
    BY <2>4, <2>7 DEF Undisturbed
  <2>9. /\ paid' \in Seq([visit : Visits, token : Tokens])
        /\ PaidIsUsed' /\ UndisturbedIsSound'
    <3>1. CASE paid' = paid
      BY <1>0, <2>6, <2>7, <3>1, HistoryStands
    <3>2. CASE Used(t.receipt) /\ paid' = Append(paid, [visit |-> v, token |-> t])
      <4> DEFINE new == [visit |-> v, token |-> t]
      <4>1. new \in Paid /\ new.visit = v /\ new.token = t /\ paid \in Seq(Paid)
        BY <1>0, <2>2
      <4> HIDE DEF new, Paid
      <4>2. /\ paid' \in Seq(Paid) /\ Len(paid') = Len(paid) + 1
            /\ DOMAIN paid' = 1..Len(paid) + 1 /\ DOMAIN paid = 1..Len(paid)
            /\ paid'[Len(paid) + 1] = new
            /\ \A n \in DOMAIN paid : paid'[n] = paid[n] /\ paid[n] \in Paid
            /\ Len(paid) \in Nat
        BY <3>2, <4>1 DEF new
      <4>3. \A n \in DOMAIN paid :
              /\ paid[n].token.receipt \in Receipts
              /\ claim[paid[n].token.receipt] \in ClaimRow /\ claim[paid[n].token.receipt].used
        <5>1. \A n \in DOMAIN paid : paid[n].token \in Tokens
          BY <4>2 DEF Paid
        <5> QED
          BY <5>1 DEF ReceiptInv, PaidIsUsed, Receipts
      <4>4. PaidIsUsed'
        <5> SUFFICES ASSUME NEW n \in DOMAIN paid'
                     PROVE  /\ claim'[paid'[n].token.receipt] \in ClaimRow
                            /\ claim'[paid'[n].token.receipt].used
          BY DEF PaidIsUsed
        <5>1. CASE n \in DOMAIN paid
          BY <2>6, <4>2, <4>3, <5>1
        <5>2. CASE n = Len(paid) + 1
          BY <2>6, <3>2, <4>1, <4>2, <5>2
        <5> QED
          BY <4>2, <5>1, <5>2
      <4>5. UndisturbedIsSound'
        <5> SUFFICES ASSUME NEW n \in DOMAIN paid', paid'[n].visit \notin crowded'
                     PROVE  /\ SoundClaim(paid'[n].token)
                            /\ \A m \in 1..n - 1 : paid'[m].token.receipt # paid'[n].token.receipt
          BY DEF UndisturbedIsSound, SoundClaim
        <5>1. CASE n \in DOMAIN paid
          <6>1. paid[n].visit \notin crowded /\ paid'[n] = paid[n]
            BY <2>7, <4>2, <5>1
          <6>2. /\ SoundClaim(paid[n].token)
                /\ \A m \in 1..n - 1 : paid[m].token.receipt # paid[n].token.receipt
            BY <5>1, <6>1 DEF ReceiptInv, UndisturbedIsSound, SoundClaim
          <6>3. \A m \in 1..n - 1 : m \in DOMAIN paid
            BY <4>2, <5>1
          <6> QED
            BY <4>2, <6>1, <6>2, <6>3
        <5>2. CASE n = Len(paid) + 1
          <6>1. paid'[n].token = t /\ v \notin crowded
            BY <2>7, <4>1, <4>2, <5>2
          <6>2. \A m \in 1..n - 1 : m \in DOMAIN paid
            BY <4>2, <5>2
          <6> QED
            BY <2>5, <4>2, <4>3, <6>1, <6>2
        <5> QED
          BY <4>2, <5>1, <5>2
      <4> QED
        BY <4>2, <4>4, <4>5 DEF Paid
    <3> QED
      BY <2>1, <3>1, <3>2
  <2> QED
    BY <1>0, <2>1, <2>4, <2>6, <2>8, <2>9, VisitStep
<1> QED
  BY <1>1, <1>2, <1>3, <1>4, <1>5, <1>6, <1>7, <1>8 DEF ReceiptsNext

\* A payment whose presentation nobody disturbed rests on a receipt that was settled, on a supported
\* network, in its currency, of an allowed issuer, and had paid for nothing before (verify,
\* upsert_x402_provider_receipt, finalize_authorized_payment).
THEOREM UndisturbedReceiptsAreSound == ReceiptsSpec => []UndisturbedIsSound
<1>1. ReceiptsInit => ReceiptInv
  BY ReceiptsBegin
<1>2. ReceiptInv /\ [ReceiptsNext]_receiptVars => ReceiptInv'
  BY ReceiptsMove
<1>3. ReceiptInv => UndisturbedIsSound
  BY DEF ReceiptInv
<1> QED
  BY <1>1, <1>2, <1>3, PTL DEF ReceiptsSpec

\* The rows of receipts and the locals of presentations stay typed (app/protocols/x402.py).
THEOREM ReceiptTypes == ReceiptsSpec => []ReceiptsTypeOK
<1>1. ReceiptsInit => ReceiptInv /\ crowded \subseteq Visits
  BY ReceiptsBegin DEF ReceiptsInit
<1>2. ReceiptInv /\ crowded \subseteq Visits /\ [ReceiptsNext]_receiptVars
        => (ReceiptInv /\ crowded \subseteq Visits)'
  <2> SUFFICES ASSUME ReceiptInv, crowded \subseteq Visits, [ReceiptsNext]_receiptVars
               PROVE  crowded' \subseteq Visits
    BY ReceiptsMove
  <2> QED
    BY DEF ReceiptsNext, receiptVars, Configure, Arrive, Reject, Store, Judge, Decide, Deny, Authorize, Takes
<1>3. ReceiptInv /\ crowded \subseteq Visits => ReceiptsTypeOK
  <2> SUFFICES ASSUME ReceiptInv, crowded \subseteq Visits PROVE ReceiptsTypeOK
    OBVIOUS
  <2> USE DEF VisitRow
  <2>1. \A r \in Receipts : claim[r] # NoToken => claim[r] \in ClaimRow
    BY DEF ReceiptInv
  <2> HIDE DEF ReceiptInv
  <2>2. \A v \in Visits :
         /\ visit[v].step \in {"idle", "reject", "store", "judge", "decide", "payment", "over"}
         /\ visit[v].token \in Tokens \cup {NoToken}
         /\ visit[v].setting \in Settings \cup {NoSetting}
    BY DEF ReceiptInv
  <2> QED
    BY <2>1, <2>2 DEF ReceiptsTypeOK, ReceiptInv
<1> QED
  BY <1>1, <1>2, <1>3, PTL DEF ReceiptsSpec

----------------------------------------------------------------------------
(* The daily ceiling of the live settlement demo.                          *)

\* The requests that reserved on a day and have not given back.
Holders(d) == {s \in Settlers : reserved[s] = d /\ settler[s].step # "failed"}
\* Steps of a request that has not reserved.
Early == {"idle", "dated", "refused"}

\* While no date was out of date, the total is what the holders of its day reserved, and
\* the holders of no day have more than the cap.
TotalIsHeld ==
    /\ spendDay <= today
    /\ \A s \in Settlers : reserved[s] <= spendDay
    /\ spendDay > 0 => spendTotal = SumFunctionOnSet(Amount, Holders(spendDay))
    /\ \A d \in 1..Days : SumFunctionOnSet(Amount, Holders(d)) <= PerDay

\* The invariant of the ceiling.
SettleInv ==
    /\ SettleTypeOK
    /\ \A s \in Settlers : settler[s].step \in Early <=> reserved[s] = 0
    /\ \A s \in Settlers : settler[s].step = "dated" => settler[s].day > 0
    /\ late = {} => TotalIsHeld

\* A step of a request that neither takes nor gives back.
Quiet(a, b) ==
    \/ b = a
    \/ /\ a.step # "failed" /\ b.step \notin {"failed", "dated"}
       /\ a.step \in Early <=> b.step \in Early
    \/ a.step = "idle" /\ b.step = "dated" /\ b.day > 0

\* Sums of amounts are numbers.
LEMMA AmountsAreNat == \A T \in SUBSET Settlers :
    /\ IsFiniteSet(T) /\ \A s \in T : Amount[s] \in Nat
    /\ SumFunctionOnSet(Amount, T) \in Nat
<1> SUFFICES ASSUME NEW T \in SUBSET Settlers
             PROVE  /\ IsFiniteSet(T) /\ \A s \in T : Amount[s] \in Nat
                    /\ SumFunctionOnSet(Amount, T) \in Nat
  OBVIOUS
<1>1. IsFiniteSet(T)
  BY SettleTyped, FS_Subset
<1>2. \A s \in T : Amount[s] \in Nat
  BY SettleTyped
<1> QED
  BY <1>1, <1>2, SumNat

LEMMA SettleBegins == SettleInit => SettleInv
<1> SUFFICES ASSUME SettleInit PROVE SettleInv
  OBVIOUS
<1>1. Cardinality(Settlers) \in Nat
  BY SettleTyped, FS_CardinalityType
<1>2. SettleTypeOK
  BY <1>1, SettleTyped DEF SettleInit, SettleTypeOK, Locals
<1>3. \A d \in 1..Days : Holders(d) = {}
  BY DEF SettleInit, Holders
<1>4. TotalIsHeld
  BY <1>3, SumEmpty, SettleTyped DEF SettleInit, TotalIsHeld
<1> QED
  BY <1>2, <1>4 DEF SettleInit, SettleInv, Early

\* Steps that touch neither the total nor the reservations, and fail nobody.
LEMMA SettleQuiet ==
  ASSUME SettleInv, SettleTypeOK', UNCHANGED <<spendDay, spendTotal, reserved, late>>,
         today <= today',
         \A s \in Settlers : Quiet(settler[s], settler'[s])
  PROVE  SettleInv'
<1>1. \A d : Holders(d)' = Holders(d)
  BY DEF Holders, Quiet
<1>2. TotalIsHeld => TotalIsHeld'
  BY <1>1 DEF TotalIsHeld, SettleInv, SettleTypeOK
<1>3. \A s \in Settlers : settler'[s].step \in Early <=> reserved'[s] = 0
  BY DEF SettleInv, Early, Quiet
<1>4. \A s \in Settlers : settler'[s].step = "dated" => settler'[s].day > 0
  BY DEF SettleInv, Quiet
<1> QED
  BY <1>2, <1>3, <1>4 DEF SettleInv

\* Types are kept by every step.
LEMMA SettleTypes ==
  ASSUME SettleTypeOK, \A s \in Settlers : settler[s].step = "dated" => settler[s].day > 0,
         [SettleNext]_settleVars
  PROVE  SettleTypeOK'
<1>0. /\ Cardinality(Settlers) \in Nat
      /\ Cardinality(chain) \in 0..Cardinality(Settlers)
  <2>1. IsFiniteSet(chain) /\ Cardinality(chain) <= Cardinality(Settlers)
    BY SettleTyped, FS_Subset DEF SettleTypeOK
  <2> QED
    BY <2>1, SettleTyped, FS_CardinalityType
<1> USE SettleTyped DEF SettleTypeOK, Locals
<1>1. CASE Midnight
  BY <1>1 DEF Midnight
<1>2. ASSUME NEW s \in Settlers, Turned(s) \/ CheckFunds(s)
      PROVE  SettleTypeOK'
  <2>1. \E to \in {"refused", "nonce", "failing"} : settler' = [settler EXCEPT ![s].step = to]
    BY <1>2 DEF Turned, CheckFunds, Goes
  <2>2. UNCHANGED <<today, spendDay, spendTotal, pending, chain, seen, reserved, late>>
    BY <1>2 DEF Turned, CheckFunds
  <2>3. settler' \in [Settlers -> Locals]
    BY <2>1
  <2> QED
    BY <2>2, <2>3
<1>3. ASSUME NEW s \in Settlers, ReadDate(s) \/ ReadNonce(s)
      PROVE  SettleTypeOK'
  BY <1>0, <1>3 DEF ReadDate, ReadNonce
<1>4. ASSUME NEW s \in Settlers, Reserve(s)
      PROVE  SettleTypeOK'
  <2>1. SpentOn(s) \in Nat /\ Amount[s] \in Nat
    BY DEF SpentOn
  <2>2. PICK step \in {"leaked", "funded", "refused"} :
          settler' = [settler EXCEPT ![s].step = step, ![s].day = 0]
    BY <1>4 DEF Reserve, Reserving
  <2>3. settler' \in [Settlers -> Locals]
    <3>1. [settler[s] EXCEPT !.step = step, !.day = 0] \in Locals
      <4>1. settler[s] \in Locals /\ 0 \in 0..Days
        <5>1. settler \in [Settlers -> Locals] /\ Days \in Nat
          BY SettleTyped
        <5> HIDE DEF Locals, SettleTypeOK
        <5> QED
          BY <5>1
      <4> HIDE DEF SettleTypeOK
      <4> QED
        BY <4>1
    <3>2. settler' = [settler EXCEPT ![s] = [settler[s] EXCEPT !.step = step, !.day = 0]]
      BY <2>2
    <3>3. settler \in [Settlers -> Locals]
      OBVIOUS
    <3> HIDE DEF Locals, SettleTypeOK
    <3> QED
      BY <3>1, <3>2, <3>3
  <2>4. spendDay' \in 0..Days /\ late' \subseteq Settlers
    BY <1>4 DEF Reserve
  <2>5. spendTotal' \in Nat
    BY <1>4, <2>1 DEF Reserve
  <2>6. reserved' \in [Settlers -> 0..Days]
    BY <1>4 DEF Reserve
  <2>7. UNCHANGED <<today, pending, chain, seen>>
    BY <1>4 DEF Reserve
  <2> QED
    BY <2>3, <2>4, <2>5, <2>6, <2>7
<1>5. ASSUME NEW s \in Settlers, Release(s)
      PROVE  SettleTypeOK'
  BY <1>5 DEF Release, GivenBack
<1>6. ASSUME NEW s \in Settlers, Broadcast(s)
      PROVE  SettleTypeOK'
  BY <1>6 DEF Broadcast, Goes
<1>7. ASSUME NEW s \in Settlers, Remember(s) \/ Status(s)
      PROVE  SettleTypeOK'
  BY <1>7 DEF Remember, Status, Goes
<1>8. CASE UNCHANGED settleVars
  BY <1>8 DEF settleVars
<1> QED
  BY <1>1, <1>2, <1>3, <1>4, <1>5, <1>6, <1>7, <1>8 DEF SettleNext

LEMMA SettleTyping ==
  ASSUME SettleInv
  PROVE  /\ today \in Nat /\ spendDay \in Nat /\ spendTotal \in Nat
         /\ spendDay <= Days /\ Days \in Nat /\ PerDay \in Nat
         /\ reserved \in [Settlers -> 0..Days] /\ \A u \in Settlers : reserved[u] \in Nat
         /\ settler \in [Settlers -> Locals]
<1> QED
  BY SettleTyped DEF SettleInv, SettleTypeOK

\* A reservation adds its amount to its day, a return takes it away.
LEMMA ReservingDoes ==
  ASSUME SettleInv, NEW s \in Settlers, NEW step, Reserving(s, step)
  PROVE  /\ settler[s].step = "dated" /\ settler'[s].step = step
         /\ \A u \in Settlers \ {s} : settler'[u] = settler[u]
<1> QED
  BY SettleTyping DEF Reserving

LEMMA SettleReserves ==
  ASSUME SettleInv, SettleTypeOK', NEW s \in Settlers, Reserve(s)
  PROVE  SettleInv'
<1>d. PICK d \in 0..Days : d = settler[s].day
  BY SettleTyping DEF Locals
<1>0. /\ today \in Nat /\ spendDay \in Nat /\ spendTotal \in Nat
      /\ spendDay <= Days /\ Days \in Nat /\ PerDay \in Nat
      /\ reserved \in [Settlers -> 0..Days] /\ \A u \in Settlers : reserved[u] \in Nat
  BY SettleTyping
<1>a. PICK step \in {"leaked", "funded", "refused"} :
          Reserving(s, step) /\ (step = "refused" <=> ~Fits(s))
  BY DEF Reserve
<1>b. /\ settler[s].step = "dated" /\ settler'[s].step = step
      /\ \A u \in Settlers \ {s} : settler'[u] = settler[u]
  BY <1>a, ReservingDoes
<1>1. /\ settler[s].step = "dated" /\ d > 0 /\ d \in 1..Days /\ reserved[s] = 0
      /\ Amount[s] \in Nat /\ s \notin Holders(d)
  <2>1. d > 0 /\ d \in 0..Days
    BY <1>b, <1>d DEF SettleInv
  <2>2. reserved[s] = 0
    BY <1>b DEF SettleInv, Early
  <2>3. Amount[s] \in Nat
    BY SettleTyped
  <2> QED
    BY <1>b, <2>1, <2>2, <2>3, <1>0 DEF Holders
<1>c. /\ reserved' = IF Fits(s) THEN [reserved EXCEPT ![s] = d] ELSE reserved
      /\ spendDay' = d /\ today' = today /\ (late' = {} => late = {} /\ d = today)
      /\ SpentOn(s) = IF spendDay = d THEN spendTotal ELSE 0
      /\ spendTotal' = IF Fits(s) THEN SpentOn(s) + Amount[s] ELSE SpentOn(s)
      /\ Fits(s) <=> SpentOn(s) + Amount[s] <= PerDay
  BY <1>d DEF Reserve, SpentOn, Fits
<1>2. \A u \in Settlers : settler'[u].step \in Early <=> reserved'[u] = 0
  <2> SUFFICES ASSUME NEW u \in Settlers
               PROVE  settler'[u].step \in Early <=> reserved'[u] = 0
    OBVIOUS
  <2>1. CASE u # s
    BY <1>0, <1>b, <1>c, <2>1 DEF SettleInv
  <2>2. CASE u = s
    BY <1>0, <1>1, <1>a, <1>b, <1>c, <2>2 DEF Early
  <2> QED
    BY <2>1, <2>2
<1>3. \A u \in Settlers : settler'[u].step = "dated" => settler'[u].day > 0
  BY <1>a, <1>b DEF SettleInv
<1>4. ASSUME late' = {}
      PROVE  TotalIsHeld'
  <2>1. late = {} /\ d = today /\ TotalIsHeld
    BY <1>4, <1>c DEF SettleInv
  <2>2. spendDay' = d /\ today' = today
    BY <1>c
  <2>3. SpentOn(s) = SumFunctionOnSet(Amount, Holders(d))
    <3>1. CASE spendDay = d
      BY <1>1, <1>c, <2>1, <3>1 DEF TotalIsHeld
    <3>2. CASE spendDay # d
      <4>1. Holders(d) = {}
        <5>1. \A u \in Settlers : reserved[u] # d
          BY <1>0, <1>1, <2>1, <3>2 DEF TotalIsHeld
        <5> QED
          BY <5>1 DEF Holders
      <4> QED
        BY <1>c, <3>2, <4>1, SumEmpty
    <3> QED
      BY <3>1, <3>2
  <2>4. CASE Fits(s)
    <3>1. /\ spendTotal' = SpentOn(s) + Amount[s] /\ SpentOn(s) + Amount[s] <= PerDay
          /\ reserved' = [reserved EXCEPT ![s] = d]
          /\ settler'[s].step # "failed" /\ \A u \in Settlers \ {s} : settler'[u] = settler[u]
      BY <1>a, <1>b, <1>c, <2>4
    <3>2. Holders(d)' = Holders(d) \cup {s}
      BY <1>0, <1>1, <1>b, <3>1 DEF Holders
    <3>3. \A e \in 1..Days : e # d => Holders(e)' = Holders(e)
      BY <1>0, <1>1, <1>b, <3>1 DEF Holders
    <3>4. SumFunctionOnSet(Amount, Holders(d) \cup {s})
            = Amount[s] + SumFunctionOnSet(Amount, Holders(d))
      <4>1. IsFiniteSet(Holders(d)) /\ \A x \in Holders(d) \cup {s} : Amount[x] \in Nat
        BY <1>1, AmountsAreNat DEF Holders
      <4> QED
        BY <1>1, <4>1, SumAdd
    <3>5. SumFunctionOnSet(Amount, Holders(d)) \in Nat
      BY AmountsAreNat DEF Holders
    <3>6. spendTotal' = SumFunctionOnSet(Amount, Holders(d)') /\ spendTotal' <= PerDay
      BY <1>1, <2>3, <3>1, <3>2, <3>4, <3>5
    <3>7. \A e \in 1..Days : SumFunctionOnSet(Amount, Holders(e)') <= PerDay
      BY <2>1, <3>3, <3>6 DEF TotalIsHeld
    <3>8. \A u \in Settlers : reserved'[u] <= d
      BY <1>0, <1>1, <2>1, <3>1 DEF TotalIsHeld
    <3>9. Holders(spendDay)' = Holders(d)'
      BY <2>2 DEF Holders
    <3> QED
      BY <1>0, <2>1, <2>2, <3>6, <3>7, <3>8, <3>9 DEF TotalIsHeld
  <2>5. CASE ~Fits(s)
    <3>1. /\ spendTotal' = SpentOn(s) /\ reserved' = reserved
          /\ settler'[s].step # "failed" /\ \A u \in Settlers \ {s} : settler'[u] = settler[u]
      BY <1>a, <1>b, <1>c, <2>5
    <3>2. \A e : Holders(e)' = Holders(e)
      BY <1>b, <3>1 DEF Holders
    <3>3. \A u \in Settlers : reserved'[u] <= d
      BY <1>0, <1>1, <2>1, <3>1 DEF TotalIsHeld
    <3>4. Holders(spendDay)' = Holders(d)
      BY <2>2, <3>2 DEF Holders
    <3> QED
      <4>1. \A e \in 1..Days : SumFunctionOnSet(Amount, Holders(e)') <= PerDay
        BY <2>1, <3>2 DEF TotalIsHeld
      <4> QED
        BY <1>0, <2>1, <2>2, <2>3, <3>1, <3>3, <3>4, <4>1 DEF TotalIsHeld
  <2> QED
    BY <2>4, <2>5
<1> QED
  BY <1>2, <1>3, <1>4 DEF SettleInv

LEMMA SettleReleases ==
  ASSUME SettleInv, SettleTypeOK', NEW s \in Settlers, Release(s)
  PROVE  SettleInv'
<1>1. /\ settler[s].step = "failing" /\ reserved[s] # 0 /\ Amount[s] \in Nat
      /\ settler'[s].step = "failed" /\ \A u \in Settlers \ {s} : settler'[u] = settler[u]
      /\ UNCHANGED <<today, spendDay, reserved>>
  <2>1. settler[s].step = "failing" /\ settler' = [settler EXCEPT ![s].step = "failed"]
    BY DEF Release
  <2>2. reserved[s] # 0
    BY <2>1 DEF SettleInv, Early
  <2>3. settler'[s].step = "failed" /\ \A u \in Settlers \ {s} : settler'[u] = settler[u]
    BY <2>1, SettleTyping
  <2> QED
    BY <2>1, <2>2, <2>3, SettleTyped DEF Release
<1>0. /\ today \in Nat /\ spendDay \in Nat /\ spendTotal \in Nat
      /\ spendDay <= Days /\ Days \in Nat /\ PerDay \in Nat
      /\ reserved \in [Settlers -> 0..Days] /\ \A u \in Settlers : reserved[u] \in Nat
  BY SettleTyping
<1>2. \A u \in Settlers : settler'[u].step \in Early <=> reserved'[u] = 0
  BY <1>1 DEF SettleInv, Early
<1>3. \A u \in Settlers : settler'[u].step = "dated" => settler'[u].day > 0
  BY <1>1 DEF SettleInv
<1>k. PICK k \in 0..Days : k = spendDay
  BY <1>0
<1>4. ASSUME late' = {}
      PROVE  TotalIsHeld'
  <2>1. late = {} /\ k = reserved[s] /\ TotalIsHeld /\ k \in 1..Days
    <3>1. late = {} /\ k = reserved[s]
      BY <1>4, <1>k DEF Release
    <3> QED
      BY <1>0, <1>1, <3>1, <1>k DEF SettleInv
  <2>2. s \in Holders(k)
    BY <1>1, <2>1 DEF Holders
  <2>3. Holders(k)' = Holders(k) \ {s}
    BY <1>1, <2>1 DEF Holders
  <2>4. \A e \in 1..Days : e # k => Holders(e)' = Holders(e)
    BY <1>1, <2>1 DEF Holders
  <2>5. SumFunctionOnSet(Amount, Holders(k))
          = Amount[s] + SumFunctionOnSet(Amount, Holders(k) \ {s})
    <3>1. IsFiniteSet(Holders(k)) /\ \A x \in Holders(k) : Amount[x] \in Nat
      BY AmountsAreNat DEF Holders
    <3> QED
      BY <2>2, <3>1, SumRemove
  <2>6. SumFunctionOnSet(Amount, Holders(k) \ {s}) \in Nat
    BY AmountsAreNat DEF Holders
  <2>7. spendTotal = SumFunctionOnSet(Amount, Holders(k)) /\ spendTotal <= PerDay
    BY <1>k, <2>1 DEF TotalIsHeld
  <2>8. spendTotal' = SumFunctionOnSet(Amount, Holders(k)')
        /\ spendTotal' <= PerDay
    <3>1. spendTotal' = IF Amount[s] > spendTotal THEN 0 ELSE spendTotal - Amount[s]
      BY DEF Release, GivenBack
    <3> QED
      BY <1>1, <2>3, <2>5, <2>6, <2>7, <3>1, SettleTyped
  <2>9. \A e \in 1..Days : SumFunctionOnSet(Amount, Holders(e)') <= PerDay
    BY <2>1, <2>4, <2>8 DEF TotalIsHeld
  <2>10. Holders(spendDay)' = Holders(k)'
    BY <1>1, <1>k DEF Holders
  <2> QED
    BY <1>1, <1>k, <2>1, <2>8, <2>9, <2>10 DEF TotalIsHeld
<1> QED
  BY <1>2, <1>3, <1>4 DEF SettleInv

\* Every step keeps the invariant.
LEMMA SettleMoves == SettleInv /\ [SettleNext]_settleVars => SettleInv'
<1> SUFFICES ASSUME SettleInv, [SettleNext]_settleVars PROVE SettleInv'
  OBVIOUS
<1>0. SettleTypeOK /\ SettleTypeOK'
  BY SettleTypes DEF SettleInv
<1>a. /\ today <= today /\ today <= today + 1
      /\ settler \in [Settlers -> Locals]
  BY <1>0 DEF SettleTypeOK
<1>1. CASE Midnight
  <2>1. \A s \in Settlers : Quiet(settler[s], settler'[s])
    BY <1>1 DEF Midnight, Quiet
  <2> QED
    BY <1>0, <1>a, <1>1, <2>1, SettleQuiet DEF Midnight
<1>2. ASSUME NEW s \in Settlers, Turned(s) \/ CheckFunds(s) \/ Broadcast(s) \/ Remember(s)
      PROVE  SettleInv'
  <2>1. UNCHANGED <<today, spendDay, spendTotal, reserved, late>>
    BY <1>2 DEF Turned, CheckFunds, Broadcast, Remember
  <2>2. \/ Goes(s, "idle", "refused") \/ Goes(s, "funded", "nonce") \/ Goes(s, "funded", "failing")
        \/ Goes(s, "send", "sent") \/ Goes(s, "send", "failing") \/ Goes(s, "sent", "settled")
    BY <1>2 DEF Turned, CheckFunds, Broadcast, Remember
  <2>3. \A u \in Settlers : Quiet(settler[u], settler'[u])
    <3> SUFFICES ASSUME NEW u \in Settlers PROVE Quiet(settler[u], settler'[u])
      OBVIOUS
    <3>1. CASE u # s
      <4>1. settler'[u] = settler[u]
        BY <1>a, <2>2, <3>1 DEF Goes
      <4> QED
        BY <4>1 DEF Quiet
    <3>2. CASE u = s
      <4>1. \/ settler[s].step = "idle" /\ settler'[s].step = "refused"
            \/ settler[s].step \in {"funded", "send", "sent"}
               /\ settler'[s].step \in {"nonce", "failing", "sent", "settled"}
        BY <1>a, <2>2 DEF Goes, Locals
      <4> QED
        BY <3>2, <4>1 DEF Quiet, Early
    <3> QED
      BY <3>1, <3>2
  <2> QED
    BY <1>0, <1>a, <2>1, <2>3, SettleQuiet
<1>3. ASSUME NEW s \in Settlers, ReadDate(s)
      PROVE  SettleInv'
  <2>1. \A u \in Settlers : Quiet(settler[u], settler'[u])
    BY <1>0, <1>3 DEF ReadDate, SettleTypeOK, Quiet
  <2> QED
    BY <1>0, <1>a, <1>3, <2>1, SettleQuiet DEF ReadDate
<1>4. ASSUME NEW s \in Settlers, ReadNonce(s)
      PROVE  SettleInv'
  <2>1. \A u \in Settlers : Quiet(settler[u], settler'[u])
    BY <1>a, <1>4 DEF ReadNonce, Early, Quiet
  <2> QED
    BY <1>0, <1>a, <1>4, <2>1, SettleQuiet DEF ReadNonce
<1>5. ASSUME NEW s \in Settlers, Status(s)
      PROVE  SettleInv'
  <2>1. \A u \in Settlers : Quiet(settler[u], settler'[u])
    BY <1>5 DEF Status, Quiet
  <2> QED
    BY <1>0, <1>a, <1>5, <2>1, SettleQuiet DEF Status
<1>6. ASSUME NEW s \in Settlers, Reserve(s)
      PROVE  SettleInv'
  BY <1>0, <1>6, SettleReserves
<1>7. ASSUME NEW s \in Settlers, Release(s)
      PROVE  SettleInv'
  BY <1>0, <1>7, SettleReleases
<1>8. CASE UNCHANGED settleVars
  <2>1. \A u \in Settlers : Quiet(settler[u], settler'[u])
    BY <1>8 DEF settleVars, Quiet
  <2> QED
    BY <1>0, <1>a, <1>8, <2>1, SettleQuiet DEF settleVars
<1> QED
  BY <1>1, <1>2, <1>3, <1>4, <1>5, <1>6, <1>7, <1>8 DEF SettleNext

\* Whoever has money on the chain, unless its answer was lost, still holds a reservation.
LEMMA HeldCoversSent == SettleInv => CapHeldUnlessLost
<1> SUFFICES ASSUME SettleInv, late = {}, NEW d \in 1..Days
             PROVE  SumFunctionOnSet(Amount, {s \in chain \ Lost : reserved[s] = d}) <= PerDay
  BY DEF CapHeldUnlessLost
<1> DEFINE T == {s \in chain \ Lost : reserved[s] = d}
<1>1. T \subseteq Holders(d)
  BY DEF Holders, Lost, SettleInv, SettleTypeOK
<1>2. /\ IsFiniteSet(Holders(d)) /\ \A s \in Holders(d) : Amount[s] \in Nat
      /\ SumFunctionOnSet(Amount, Holders(d)) \in Nat
  BY AmountsAreNat DEF Holders
<1>3. SumFunctionOnSet(Amount, T) \in Nat
  BY <1>1, AmountsAreNat DEF Holders
<1> HIDE DEF T
<1>4. SumFunctionOnSet(Amount, T) <= SumFunctionOnSet(Amount, Holders(d))
  BY <1>1, <1>2, SumMonotone
<1>5. SumFunctionOnSet(Amount, Holders(d)) <= PerDay
  BY DEF SettleInv, TotalIsHeld
<1> QED
  BY <1>2, <1>3, <1>4, <1>5, SettleTyped DEF T

\* The amounts on the chain of the requests that reserved on a day stay within the ceiling, except for
\* those whose answer was lost and for days on which a date was out of date, for any number of requests
\* (_reserve_daily_budget, _release_daily_budget).
THEOREM DailyCapHeld == SettleSpec => []CapHeldUnlessLost
<1>1. SettleInit => SettleInv
  BY SettleBegins
<1>2. SettleInv /\ [SettleNext]_settleVars => SettleInv'
  BY SettleMoves
<1>3. SettleInv => CapHeldUnlessLost
  BY HeldCoversSent
<1> QED
  BY <1>1, <1>2, <1>3, PTL DEF SettleSpec

\* The reservations, nonces and locals of the live settlement stay typed (app/api/demo_live.py).
THEOREM SettleTypesHold == SettleSpec => []SettleTypeOK
<1>1. SettleInit => SettleInv
  BY SettleBegins
<1>2. SettleInv /\ [SettleNext]_settleVars => SettleInv'
  BY SettleMoves
<1>3. SettleInv => SettleTypeOK
  BY DEF SettleInv
<1> QED
  BY <1>1, <1>2, <1>3, PTL DEF SettleSpec

----------------------------------------------------------------------------
(* The journal of a batch of settlements.                                  *)

\* Where a launch is before its first item, at work on one, and behind the lock.
Before == {"prepare", "configure", "start", "runtime", "wallet", "balances", "preflight"}
Working == {"port", "call", "answered"}
Writing == Before \cup Working \cup {"finish", "abort"}
BatchSteps == {"idle", "sourced", "out", "locked", "leaving"} \cup Writing

LaunchType == [step : BatchSteps, item : Items, port : Ports,
               answer : {"none", "good", "reused", "bad", "raised"},
               healthy : BOOLEAN, progress : [Items -> Phase]]

Typed ==
    /\ lock \in BOOLEAN /\ remnant \in BOOLEAN
    /\ journal \in {NoFile} \cup File
    /\ launch \in [Launches -> LaunchType]
    /\ moved \in [Items -> Nat]

\* Behind the lock.
Inside(l) == launch[l].step \in Writing \cup {"locked", "leaving"}

Exclusive ==
    /\ \A l \in Launches : Inside(l) => lock
    /\ \A l, k \in Launches : Inside(l) /\ Inside(k) => l = k

\* A record of progress that owns up to every transfer.
OwnsUp(progress) == \A i \in Items : moved[i] > 0 => progress[i].port >= 2

\* What the launch behind the lock knows of the money.
Accounts(l) ==
    /\ launch[l].step \in Before => \A i \in Items : moved[i] = 0
    /\ launch[l].step \in Writing => OwnsUp(launch[l].progress)
    /\ launch[l].step \in Working =>
         /\ \A i \in Items : i > launch[l].item => moved[i] = 0
         /\ launch[l].port = 1 => moved[launch[l].item] = 0
         /\ launch[l].port = 2 /\ launch[l].step # "answered" => moved[launch[l].item] = 0
    /\ launch[l].step = "call" =>
         /\ journal # NoFile /\ journal.phase[launch[l].item].port >= launch[l].port
         /\ launch[l].progress[launch[l].item].port >= launch[l].port

BatchInv ==
    /\ Typed
    /\ Exclusive
    /\ \A l \in Launches : Accounts(l)
    /\ OneTransferPerItem
    /\ JournalBeforeMoney

----------------------------------------------------------------------------
(* What a step of one launch leaves alone.                                 *)

\* Only the launch behind the lock touches journal and money: for the invariant
\* it is enough to follow that launch.
LEMMA OneMoves ==
    ASSUME BatchInv, NEW l \in Launches, NEW new \in LaunchType,
           launch' = [launch EXCEPT ![l] = new],
           lock' \in BOOLEAN, remnant' \in BOOLEAN, journal' \in {NoFile} \cup File,
           moved' \in [Items -> Nat],
           Inside(l), lock' = lock \/ new.step = "out",
           Accounts(l)', OneTransferPerItem', JournalBeforeMoney'
    PROVE  BatchInv'
<1>1. launch \in [Launches -> LaunchType]
  BY DEF BatchInv, Typed
<1>2. Typed'
  BY <1>1 DEF Typed
<1>3. \A k \in Launches \ {l} : launch'[k] = launch[k] /\ ~Inside(k)
  BY <1>1 DEF BatchInv, Exclusive
<1>4. launch'[l] = new
  BY <1>1
<1>5. \A k \in Launches \ {l} : ~Inside(k)'
  BY <1>3 DEF Inside
<1>6. Exclusive'
  BY <1>4, <1>5 DEF Exclusive, Inside, BatchInv, Writing, Before, Working
<1>7. \A k \in Launches \ {l} : Accounts(k)'
  <2>1. \A k \in Launches \ {l} :
          launch'[k].step \notin Before \cup Working \cup Writing \cup {"call"}
    BY <1>5 DEF Inside, Writing, Working
  <2> QED
    BY <2>1 DEF Accounts
<1> QED
  BY <1>2, <1>6, <1>7 DEF BatchInv

\* A write leaves the journal as it was or puts down what the process knows.
LEMMA Written ==
    ASSUME BatchInv, NEW l \in Launches, NEW status \in JournalStatus,
           NEW ok \in LaunchType, NEW bad \in LaunchType, Write(l, status, ok, bad),
           OwnsUp(ok.progress), moved' = moved
    PROVE  /\ journal' \in {NoFile} \cup File /\ remnant' \in BOOLEAN
           /\ JournalBeforeMoney' /\ OneTransferPerItem' /\ moved' \in [Items -> Nat]
           /\ \/ journal' = [status |-> status, phase |-> ok.progress]
                 /\ launch' = [launch EXCEPT ![l] = ok]
              \/ launch' = [launch EXCEPT ![l] = bad]
<1> DEFINE file == [status |-> status, phase |-> ok.progress]
<1>1. file \in File /\ file.phase = ok.progress
  BY DEF File, LaunchType
<1>2. file # NoFile
  BY <1>1, NoFileIsNone
<1>3. /\ journal' \in {journal, file} /\ remnant' \in {remnant, TRUE}
      /\ \/ journal' = file /\ launch' = [launch EXCEPT ![l] = ok]
         \/ launch' = [launch EXCEPT ![l] = bad]
  BY DEF Write, Moves
<1> HIDE DEF file
<1>4. JournalBeforeMoney'
  BY <1>1, <1>2, <1>3 DEF JournalBeforeMoney, OwnsUp, BatchInv
<1>5. journal' \in {NoFile} \cup File /\ remnant' \in BOOLEAN
  BY <1>1, <1>3 DEF BatchInv, Typed
<1>6. OneTransferPerItem' /\ moved' \in [Items -> Nat]
  BY DEF BatchInv, OneTransferPerItem, Typed
<1> QED
  BY <1>3, <1>4, <1>5, <1>6 DEF file

\* A launch that touches nothing else, and goes where it need not account for more.
LEMMA Walks ==
    ASSUME BatchInv, NEW l \in Launches, NEW step \in BatchSteps, Enters(l, step), Inside(l),
           lock' \in BOOLEAN, lock' = lock \/ step = "out", remnant' \in BOOLEAN,
           UNCHANGED <<journal, moved>>,
           \/ step \in {"leaving", "out"}
           \/ launch[l].step \in Before /\ step \in Before \cup {"abort"}
           \/ launch[l].step = "locked" /\ journal = NoFile /\ step = "prepare"
           \/ launch[l].step = "finish" /\ step = "abort"
    PROVE  BatchInv'
<1>1. launch[l] \in LaunchType /\ launch \in [Launches -> LaunchType]
  BY DEF BatchInv, Typed
<1> DEFINE new == [launch[l] EXCEPT !.step = step]
<1>2. /\ new \in LaunchType /\ new.step = step /\ new.item = launch[l].item
      /\ new.port = launch[l].port /\ new.progress = launch[l].progress
  BY <1>1 DEF LaunchType
<1>3. launch' = [launch EXCEPT ![l] = new] /\ launch'[l] = new
  BY <1>1 DEF Enters, Moves
<1> HIDE DEF new
<1>4. moved' = moved /\ journal' = journal
  OBVIOUS
<1>5. step = "prepare" /\ journal = NoFile => \A i \in Items : moved[i] = 0
  BY DEF BatchInv, JournalBeforeMoney, Typed
<1>6. Accounts(l)
  BY DEF BatchInv
<1>7. step \in Before \cup {"abort"} => OwnsUp(launch[l].progress)
  BY <1>5, <1>6 DEF Accounts, OwnsUp, Writing, Before
<1>8. Accounts(l)'
  BY <1>2, <1>3, <1>4, <1>5, <1>6, <1>7 DEF Accounts, OwnsUp, Before, Working, Writing
<1>9. OneTransferPerItem' /\ JournalBeforeMoney'
  BY <1>4 DEF BatchInv, OneTransferPerItem, JournalBeforeMoney
<1> QED
  BY <1>2, <1>3, <1>4, <1>8, <1>9, OneMoves DEF BatchInv, Typed

----------------------------------------------------------------------------
(* The steps that write the journal or move money.                         *)

\* A write before the first port: there is nothing to account for.
LEMMA EarlyWrite ==
    ASSUME BatchInv, NEW l \in Launches, NEW status \in JournalStatus,
           NEW from \in Before, NEW to \in Before \cup {"port"},
           NEW otherwise \in {"leaving", "abort"}, At(l, from),
           Write(l, status, [launch[l] EXCEPT !.step = to], [launch[l] EXCEPT !.step = otherwise]),
           UNCHANGED <<lock, moved>>
    PROVE  BatchInv'
<1> DEFINE ok == [launch[l] EXCEPT !.step = to]
           bad == [launch[l] EXCEPT !.step = otherwise]
<1>1. launch[l] \in LaunchType /\ launch \in [Launches -> LaunchType] /\ launch[l].step = from
  BY DEF BatchInv, Typed, At
<1>2. /\ ok \in LaunchType /\ ok.step = to /\ ok.progress = launch[l].progress /\ ok.item \in Items
      /\ bad \in LaunchType /\ bad.step = otherwise /\ bad.progress = launch[l].progress
  BY <1>1 DEF LaunchType, BatchSteps, Writing, Working
<1>3. Write(l, status, ok, bad)
  OBVIOUS
<1> HIDE DEF ok, bad
<1>4. (\A i \in Items : moved[i] = 0) /\ OwnsUp(launch[l].progress) /\ Inside(l)
  BY <1>1 DEF BatchInv, Accounts, Writing, Inside
<1>5. /\ journal' \in {NoFile} \cup File /\ remnant' \in BOOLEAN
      /\ JournalBeforeMoney' /\ OneTransferPerItem' /\ moved' \in [Items -> Nat]
      /\ launch' \in {[launch EXCEPT ![l] = ok], [launch EXCEPT ![l] = bad]}
  BY <1>2, <1>3, <1>4, Written
<1>6. ASSUME NEW new \in {ok, bad}, launch' = [launch EXCEPT ![l] = new]
      PROVE  BatchInv'
  <2>1. launch'[l] = new /\ moved' = moved
    BY <1>1, <1>6
  <2>2. /\ new \in LaunchType /\ new.step \in Before \cup {"port", "leaving", "abort"}
        /\ new.progress = launch[l].progress
        /\ new.item \in Items
    BY <1>2 DEF LaunchType
  <2>3. Accounts(l)'
    BY <1>4, <2>1, <2>2 DEF Accounts, OwnsUp, Working, Before
  <2> QED
    BY <1>4, <1>5, <1>6, <2>2, <2>3, OneMoves DEF BatchInv, Typed
<1> QED
  BY <1>5, <1>6

\* The journaled call of a port, from the record of its start to the record of its answer.
LEMMA StartCallKeeps ==
    ASSUME BatchInv, NEW l \in Launches, StartCall(l)
    PROVE  BatchInv'
<1> DEFINE item == launch[l].item
           ok == [Recorded(l, "started") EXCEPT !.step = "call"]
           bad == Unrecorded(l, "started")
<1>1. launch[l] \in LaunchType /\ launch \in [Launches -> LaunchType] /\ launch[l].step = "port"
  BY DEF BatchInv, Typed, StartCall, At
<1>2. item \in Items /\ launch[l].port \in Ports /\ launch[l].progress \in [Items -> Phase]
  BY <1>1 DEF LaunchType
<1>3. [port |-> launch[l].port, kind |-> "started"] \in Phase
  BY <1>2 DEF Phase
<1>4. [launch[l].progress EXCEPT ![item] = [port |-> launch[l].port, kind |-> "started"]]
         \in [Items -> Phase]
  BY <1>2, <1>3
<1>5. /\ ok \in LaunchType /\ ok.step = "call" /\ ok.item = item /\ ok.port = launch[l].port
      /\ bad \in LaunchType /\ bad.step = "finish" /\ bad.progress = ok.progress
      /\ ok.progress = [launch[l].progress EXCEPT ![item] =
                          [port |-> launch[l].port, kind |-> "started"]]
  BY <1>1, <1>4 DEF LaunchType, BatchSteps, Writing, Working, Recorded, Unrecorded
<1>6. Write(l, "started", ok, bad) /\ moved' = moved /\ lock' = lock
  BY DEF StartCall
<1> HIDE DEF ok, bad
<1>7. Accounts(l) /\ Inside(l) /\ moved \in [Items -> Nat]
  BY <1>1 DEF BatchInv, Inside, Typed, Writing, Working
<1>8. /\ ok.progress[item].port = launch[l].port
      /\ \A i \in Items \ {item} : ok.progress[i] = launch[l].progress[i]
  BY <1>2, <1>5
<1>9. OwnsUp(ok.progress)
  BY <1>1, <1>2, <1>7, <1>8 DEF Accounts, OwnsUp, Writing, Working, Ports
<1>10. /\ journal' \in {NoFile} \cup File /\ remnant' \in BOOLEAN
       /\ JournalBeforeMoney' /\ OneTransferPerItem' /\ moved' \in [Items -> Nat]
       /\ \/ /\ journal' = [status |-> "started", phase |-> ok.progress]
             /\ launch' = [launch EXCEPT ![l] = ok]
          \/ launch' = [launch EXCEPT ![l] = bad]
  BY <1>5, <1>6, <1>9, Written DEF JournalStatus
<1>11. CASE launch' = [launch EXCEPT ![l] = ok] /\ journal' = [status |-> "started", phase |-> ok.progress]
  <2>1. launch'[l] = ok /\ journal'.phase = ok.progress /\ journal' \in File
    BY <1>1, <1>5, <1>11 DEF File, JournalStatus, LaunchType
  <2>2. journal' # NoFile
    BY <2>1, NoFileIsNone
  <2>3. Accounts(l)'
    BY <1>1, <1>2, <1>5, <1>6, <1>7, <1>8, <1>9, <2>1, <2>2
       DEF Accounts, OwnsUp, Before, Working, Ports
  <2> QED
    BY <1>5, <1>6, <1>7, <1>10, <1>11, <2>3, OneMoves DEF BatchInv, Typed
<1>12. CASE launch' = [launch EXCEPT ![l] = bad]
  <2>1. launch'[l] = bad
    BY <1>1, <1>12
  <2>2. Accounts(l)'
    BY <1>5, <1>6, <1>9, <2>1 DEF Accounts, OwnsUp, Before, Working
  <2> QED
    BY <1>5, <1>6, <1>7, <1>10, <1>12, <2>2, OneMoves DEF BatchInv, Typed
<1> QED
  BY <1>10, <1>11, <1>12

\* A port has answered; only the submission moves money, once, and it is on record.
LEMMA CallKeeps ==
    ASSUME BatchInv, NEW l \in Launches, AskSafe4(l) \/ Submit(l) \/ Observe(l)
    PROVE  BatchInv'
<1> DEFINE item == launch[l].item
<1>1. /\ launch[l] \in LaunchType /\ launch \in [Launches -> LaunchType] /\ launch[l].step = "call"
      /\ moved \in [Items -> Nat] /\ item \in Items /\ launch[l].port \in Ports
  BY DEF BatchInv, Typed, LaunchType, AskSafe4, Submit, Observe, At
<1>2. PICK answer \in {"good", "reused", "bad", "raised"} : Answered(l, answer)
  BY DEF AskSafe4, Submit, Observe
<1> DEFINE new == [launch[l] EXCEPT !.step = "answered", !.answer = answer]
<1>3. /\ new \in LaunchType /\ new.step = "answered" /\ new.item = item
      /\ new.port = launch[l].port /\ new.progress = launch[l].progress
  BY <1>1 DEF LaunchType, BatchSteps, Writing, Working
<1>4. launch' = [launch EXCEPT ![l] = new] /\ launch'[l] = new
  BY <1>1, <1>2 DEF Answered, Moves
<1> HIDE DEF new
<1>5. /\ lock' = lock /\ journal' = journal /\ remnant' = remnant
      /\ \/ moved' = moved
         \/ /\ launch[l].port = 2 /\ moved' = [moved EXCEPT ![item] = @ + 1]
  BY <1>1 DEF AskSafe4, Submit, Observe
<1>6. /\ Accounts(l) /\ Inside(l) /\ OneTransferPerItem /\ JournalBeforeMoney
  BY <1>1 DEF BatchInv, Inside, Writing, Working
<1>7. /\ journal # NoFile /\ journal.phase[item].port >= launch[l].port
      /\ launch[l].port = 2 => moved[item] = 0
      /\ launch[l].port = 1 => moved[item] = 0
      /\ \A i \in Items : i > item => moved[i] = 0
      /\ OwnsUp(launch[l].progress)
      /\ launch[l].progress[item].port >= launch[l].port
  BY <1>1, <1>6 DEF Accounts, Working, Writing
<1>8. moved' \in [Items -> Nat] /\ \A i \in Items \ {item} : moved'[i] = moved[i]
  BY <1>1, <1>5
<1>9. OneTransferPerItem'
  BY <1>1, <1>5, <1>6, <1>7 DEF OneTransferPerItem
<1>10. JournalBeforeMoney'
  BY <1>1, <1>5, <1>6, <1>7, <1>8 DEF JournalBeforeMoney
<1>11. launch[l].port = 1 => moved'[item] = 0
  BY <1>5, <1>7
<1>12. OwnsUp(launch[l].progress)'
  <2>1. \A i \in Items : moved'[i] > 0 => launch[l].progress[i].port >= 2
    BY <1>1, <1>5, <1>7, <1>8 DEF OwnsUp
  <2> QED
    BY <1>3, <1>4, <2>1 DEF OwnsUp
<1>13. Accounts(l)'
  BY <1>1, <1>3, <1>4, <1>7, <1>8, <1>11, <1>12 DEF Accounts, Before, Working, Items
<1> QED
  BY <1>3, <1>4, <1>5, <1>6, <1>8, <1>9, <1>10, <1>13, OneMoves DEF BatchInv, Typed

LEMMA RecordAnswerKeeps ==
    ASSUME BatchInv, NEW l \in Launches, RecordAnswer(l)
    PROVE  BatchInv'
<1> DEFINE item == launch[l].item
           port == launch[l].port
<1>1. /\ launch[l] \in LaunchType /\ launch \in [Launches -> LaunchType]
      /\ launch[l].step = "answered" /\ moved \in [Items -> Nat]
      /\ item \in Items /\ port \in Ports /\ launch[l].progress \in [Items -> Phase]
  BY DEF BatchInv, Typed, RecordAnswer, At, LaunchType
<1>2. PICK kind \in {"exception", "result"} :
        Write(l, "started", [Onward(l) EXCEPT !.progress = Recorded(l, kind).progress],
              Unrecorded(l, kind))
  BY DEF RecordAnswer
<1> DEFINE told == [launch[l].progress EXCEPT ![item] = [port |-> port, kind |-> kind]]
           ok == [Onward(l) EXCEPT !.progress = Recorded(l, kind).progress]
           bad == Unrecorded(l, kind)
<1>3. told \in [Items -> Phase]
  BY <1>1 DEF Phase
<1>4. Recorded(l, kind).progress = told
  BY <1>1 DEF Recorded, LaunchType
<1>5. /\ bad \in LaunchType /\ bad.step = "finish" /\ bad.progress = told
  BY <1>1, <1>3, <1>4 DEF Unrecorded, Recorded, LaunchType, BatchSteps, Writing
<1>6. /\ Onward(l) \in LaunchType
      /\ \/ Onward(l).step = "finish"
         \/ Onward(l).step = "port" /\ Onward(l).item = item /\ Onward(l).port = port + 1
         \/ /\ Onward(l).step = "port" /\ Onward(l).port = 1
            /\ Onward(l).item = item + 1 /\ item + 1 \in Items
  <2> DEFINE cleared == [launch[l] EXCEPT !.answer = "none"]
  <2>1. cleared \in LaunchType
    BY <1>1 DEF LaunchType
  <2>2. port < 3 => port + 1 \in Ports
    BY <1>1 DEF Ports
  <2>3. item # ItemCount => item + 1 \in Items
    BY <1>1, BatchTyped DEF Items
  <2>4. CASE launch[l].answer # "good" \/ (port = 3 /\ item = ItemCount)
    <3>1. Onward(l) \in {[launch[l] EXCEPT !.step = "finish"], [cleared EXCEPT !.step = "finish"]}
      BY <2>4 DEF Onward
    <3> HIDE DEF cleared
    <3>2. \A r \in {launch[l], cleared} :
            [r EXCEPT !.step = "finish"] \in LaunchType /\ [r EXCEPT !.step = "finish"].step = "finish"
      BY <1>1, <2>1 DEF LaunchType, BatchSteps, Writing
    <3> QED
      BY <3>1, <3>2
  <2>5. CASE launch[l].answer = "good" /\ port < 3
    BY <1>1, <2>1, <2>2, <2>5 DEF Onward, LaunchType, BatchSteps, Writing, Working
  <2>6. CASE launch[l].answer = "good" /\ port = 3 /\ item # ItemCount
    <3>1. Onward(l) = [cleared EXCEPT !.step = "port", !.port = 1, !.item = cleared.item + 1]
      BY <2>6 DEF Onward
    <3>2. cleared.item = item /\ 1 \in Ports
      BY <1>1 DEF LaunchType, Ports
    <3>3. item + 1 \in Items /\ cleared.item + 1 = item + 1
      BY <2>3, <2>6, <3>2
    <3> HIDE DEF cleared
    <3> PICK i \in Items : i = item + 1
      BY <3>3
    <3>4. Onward(l) = [cleared EXCEPT !.step = "port", !.port = 1, !.item = i]
      BY <3>1, <3>3
    <3>5. Onward(l) \in LaunchType
      BY <2>1, <3>2, <3>4 DEF LaunchType, BatchSteps, Writing, Working
    <3>6. Onward(l).step = "port" /\ Onward(l).port = 1 /\ Onward(l).item = i
      BY <2>1, <3>4 DEF LaunchType
    <3> QED
      BY <3>5, <3>6
  <2> QED
    BY <1>1, <2>4, <2>5, <2>6 DEF Ports
<1>7. /\ ok \in LaunchType /\ ok.progress = told /\ ok.step = Onward(l).step
      /\ ok.item = Onward(l).item /\ ok.port = Onward(l).port
  BY <1>3, <1>4, <1>6 DEF LaunchType
<1>8. Write(l, "started", ok, bad) /\ moved' = moved /\ lock' = lock
  BY <1>2 DEF RecordAnswer
<1> HIDE DEF ok, bad
<1>9. Accounts(l) /\ Inside(l)
  BY <1>1 DEF BatchInv, Inside, Writing, Working
<1>10. /\ told[item].port = port
       /\ \A i \in Items \ {item} : told[i] = launch[l].progress[i]
  BY <1>1
<1> HIDE DEF told
<1>11. /\ \A i \in Items : i > item => moved[i] = 0
       /\ port = 1 => moved[item] = 0
       /\ OwnsUp(launch[l].progress)
  BY <1>1, <1>9 DEF Accounts, Writing, Working
<1>12. OwnsUp(told)
  BY <1>1, <1>10, <1>11 DEF OwnsUp, Ports
<1>13. /\ journal' \in {NoFile} \cup File /\ remnant' \in BOOLEAN
       /\ JournalBeforeMoney' /\ OneTransferPerItem' /\ moved' \in [Items -> Nat]
       /\ launch' \in {[launch EXCEPT ![l] = ok], [launch EXCEPT ![l] = bad]}
  BY <1>5, <1>7, <1>8, <1>12, Written DEF JournalStatus
<1>14. CASE launch' = [launch EXCEPT ![l] = ok]
  <2>1. launch'[l] = ok
    BY <1>1, <1>14
  <2>2. \A i \in Items : moved'[i] > 0 => launch'[l].progress[i].port >= 2
    BY <1>7, <1>8, <1>12, <2>1 DEF OwnsUp
  <2>3. /\ launch'[l].step \notin Before \cup {"call", "answered"}
        /\ launch'[l].step \in Working =>
             /\ \A i \in Items : i > launch'[l].item => moved'[i] = 0
             /\ launch'[l].port \in {1, 2} => moved'[launch'[l].item] = 0
    BY <1>1, <1>6, <1>7, <1>8, <1>11, <2>1 DEF Before, Working, Ports, Items
  <2>4. Accounts(l)'
    BY <2>2, <2>3 DEF Accounts, OwnsUp, Working
  <2> QED
    BY <1>7, <1>8, <1>9, <1>13, <1>14, <2>4, OneMoves DEF BatchInv, Typed
<1>15. CASE launch' = [launch EXCEPT ![l] = bad]
  <2>1. launch'[l] = bad
    BY <1>1, <1>15
  <2>2. Accounts(l)'
    BY <1>5, <1>8, <1>12, <2>1 DEF Accounts, OwnsUp, Before, Working
  <2> QED
    BY <1>5, <1>8, <1>9, <1>13, <1>15, <2>2, OneMoves DEF BatchInv, Typed
<1> QED
  BY <1>13, <1>14, <1>15

\* The last journal tells what the process knows.
LEMMA EndKeeps ==
    ASSUME BatchInv, NEW l \in Launches, NEW status \in JournalStatus,
           NEW otherwise \in {"leaving", "abort"}, launch[l].step \in {"finish", "abort"},
           Write(l, status, [launch[l] EXCEPT !.step = "leaving"],
                            [launch[l] EXCEPT !.step = otherwise]),
           UNCHANGED <<lock, moved>>
    PROVE  BatchInv'
<1> DEFINE ok == [launch[l] EXCEPT !.step = "leaving"]
           bad == [launch[l] EXCEPT !.step = otherwise]
<1>1. launch[l] \in LaunchType /\ launch \in [Launches -> LaunchType]
  BY DEF BatchInv, Typed
<1>2. /\ ok \in LaunchType /\ ok.step = "leaving" /\ ok.progress = launch[l].progress
      /\ bad \in LaunchType /\ bad.step = otherwise /\ bad.progress = launch[l].progress
  BY <1>1 DEF LaunchType, BatchSteps, Writing
<1>3. Write(l, status, ok, bad)
  OBVIOUS
<1> HIDE DEF ok, bad
<1>4. OwnsUp(launch[l].progress) /\ Inside(l)
  BY DEF BatchInv, Accounts, Writing, Inside
<1>5. /\ journal' \in {NoFile} \cup File /\ remnant' \in BOOLEAN
      /\ JournalBeforeMoney' /\ OneTransferPerItem' /\ moved' \in [Items -> Nat]
      /\ launch' \in {[launch EXCEPT ![l] = ok], [launch EXCEPT ![l] = bad]}
  BY <1>2, <1>3, <1>4, Written
<1>6. ASSUME NEW new \in {ok, bad}, launch' = [launch EXCEPT ![l] = new]
      PROVE  BatchInv'
  <2>1. launch'[l] = new /\ moved' = moved
    BY <1>1, <1>6
  <2>2. /\ new \in LaunchType /\ new.step \in {"leaving", "abort"}
        /\ new.progress = launch[l].progress
    BY <1>2
  <2>3. Accounts(l)'
    BY <1>4, <2>1, <2>2 DEF Accounts, OwnsUp, Working, Before
  <2> QED
    BY <1>4, <1>5, <1>6, <2>2, <2>3, OneMoves DEF BatchInv, Typed
<1> QED
  BY <1>5, <1>6

----------------------------------------------------------------------------
(* Outside the lock.                                                       *)

\* Steps before the lock is taken and after it is given back.
LEMMA OutsideKeeps ==
    ASSUME BatchInv, NEW l \in Launches, CheckSource(l) \/ TakeLock(l)
    PROVE  BatchInv'
<1>1. launch[l] \in LaunchType /\ launch \in [Launches -> LaunchType]
  BY DEF BatchInv, Typed
<1>2. PICK step \in {"sourced", "out", "locked"} :
        /\ Enters(l, step) /\ lock' \in {lock, TRUE}
        /\ step = "locked" => lock = FALSE /\ lock' = TRUE
  BY DEF CheckSource, TakeLock, Passes, BatchInv, Typed
<1>3. /\ journal' = journal /\ remnant' = remnant /\ moved' = moved
      /\ ~Inside(l)
  BY DEF CheckSource, TakeLock, Passes, Inside, At, Writing, Before, Working
<1> DEFINE new == [launch[l] EXCEPT !.step = step]
<1>4. new \in LaunchType /\ new.step = step
  BY <1>1, <1>2 DEF LaunchType, BatchSteps
<1>5. launch' = [launch EXCEPT ![l] = new] /\ launch'[l] = new
  BY <1>1, <1>2 DEF Enters, Moves
<1> HIDE DEF new
<1>6. \A k \in Launches \ {l} : launch'[k] = launch[k]
  BY <1>1, <1>5
<1>7. Typed'
  BY <1>2, <1>3, <1>4, <1>5 DEF BatchInv, Typed
<1>8. Exclusive'
  <2>1. \A k \in Launches \ {l} : Inside(k)' <=> Inside(k)
    BY <1>6 DEF Inside
  <2>2. Inside(l)' => lock = FALSE /\ lock' = TRUE
    BY <1>2, <1>4, <1>5 DEF Inside, Writing, Before, Working
  <2>3. lock => lock'
    BY <1>2 DEF BatchInv, Typed
  <2> QED
    BY <2>1, <2>2, <2>3 DEF BatchInv, Exclusive
<1>9. ASSUME NEW k \in Launches
      PROVE  Accounts(k)'
  <2>1. CASE k = l
    BY <1>2, <1>4, <1>5, <2>1 DEF Accounts, Writing, Before, Working
  <2>2. CASE k # l
    BY <1>3, <1>6, <2>2 DEF BatchInv, Accounts, OwnsUp
  <2> QED
    BY <2>1, <2>2
<1>10. OneTransferPerItem' /\ JournalBeforeMoney'
  BY <1>3 DEF BatchInv, OneTransferPerItem, JournalBeforeMoney
<1> QED
  BY <1>7, <1>8, <1>9, <1>10 DEF BatchInv

----------------------------------------------------------------------------
\* The invariant holds of a clean directory and is kept by every step.
LEMMA BatchInvInit == BatchInit => BatchInv
<1> SUFFICES ASSUME BatchInit
             PROVE  BatchInv
  OBVIOUS
<1>1. Unborn \in LaunchType /\ Unborn.step = "idle"
  BY BatchTyped DEF Unborn, LaunchType, BatchSteps, Items, Ports, Phase
<1>2. Typed
  BY <1>1 DEF BatchInit, Typed
<1>3. \A l \in Launches : launch[l].step = "idle"
  BY <1>1 DEF BatchInit
<1>4. Exclusive /\ \A l \in Launches : Accounts(l)
  BY <1>3 DEF Exclusive, Accounts, Inside, Writing, Before, Working
<1>5. OneTransferPerItem /\ JournalBeforeMoney
  BY DEF BatchInit, OneTransferPerItem, JournalBeforeMoney
<1> QED
  BY <1>2, <1>4, <1>5 DEF BatchInv

LEMMA BatchInvStep == BatchInv /\ [BatchNext]_batchVars => BatchInv'
<1> SUFFICES ASSUME BatchInv, [BatchNext]_batchVars
             PROVE  BatchInv'
  OBVIOUS
<1>1. CASE UNCHANGED batchVars
  BY <1>1 DEF batchVars, BatchInv, Typed, Exclusive, Inside, Accounts, OwnsUp,
     OneTransferPerItem, JournalBeforeMoney
<1>2. ASSUME NEW l \in Launches, CheckSource(l) \/ TakeLock(l)
      PROVE  BatchInv'
  BY <1>2, OutsideKeeps
<1>3. ASSUME NEW l \in Launches,
             \/ LookAround(l) \/ Isolate(l) \/ OpenRuntime(l) \/ CheckWallet(l) \/ ReadBalances(l)
             \/ Leave(l) \/ Die(l)
      PROVE  BatchInv'
  <2>1. launch[l].step \in BatchSteps /\ lock \in BOOLEAN /\ remnant \in BOOLEAN
    BY DEF BatchInv, Typed, LaunchType
  <2>2. CASE LookAround(l)
    BY <2>1, <2>2, Walks DEF LookAround, At, Inside, PriorState, BatchSteps, Writing, Before
  <2>3. CASE Isolate(l) \/ OpenRuntime(l) \/ CheckWallet(l) \/ ReadBalances(l)
    <3>1. PICK to \in Before \cup {"leaving", "abort"} : Enters(l, to)
      BY <2>3 DEF Isolate, OpenRuntime, CheckWallet, ReadBalances, Passes, Before
    <3>2. launch[l].step \in Before /\ Inside(l) /\ UNCHANGED <<lock, journal, remnant, moved>>
      BY <2>3 DEF Isolate, OpenRuntime, CheckWallet, ReadBalances, Passes, Before, At, Inside, Writing
    <3> QED
      BY <2>1, <3>1, <3>2, Walks DEF BatchSteps, Writing
  <2>4. CASE Leave(l)
    BY <2>1, <2>4, Walks DEF Leave, At, Inside, BatchSteps
  <2>5. CASE Die(l) /\ launch[l].step # "sourced"
    <3>1. Inside(l)
      BY <2>1, <2>5 DEF Die, Inside, BatchSteps
    <3> QED
      BY <2>1, <2>5, <3>1, Walks DEF Die, BatchSteps
  <2>6. CASE Die(l) /\ launch[l].step = "sourced"
    <3>1. /\ launch \in [Launches -> LaunchType] /\ lock' = lock /\ journal' = journal
          /\ moved' = moved /\ remnant' \in BOOLEAN
      BY <2>1, <2>6 DEF BatchInv, Typed, Die
    <3>2. [launch[l] EXCEPT !.step = "out"] \in LaunchType
      BY <3>1 DEF LaunchType, BatchSteps
    <3>3. /\ launch' = [launch EXCEPT ![l] = [launch[l] EXCEPT !.step = "out"]]
      BY <2>6 DEF Die, Enters, Moves
    <3>4. \A k \in Launches : launch'[k] = launch[k] \/ launch'[k].step = "out"
      BY <3>1, <3>2, <3>3 DEF LaunchType
    <3>5. Typed'
      BY <3>1, <3>2, <3>3 DEF BatchInv, Typed
    <3>6. Exclusive'
      BY <3>1, <3>4 DEF BatchInv, Exclusive, Inside, Writing, Before, Working
    <3>7. ASSUME NEW k \in Launches
          PROVE  Accounts(k)'
      <4>1. CASE launch'[k] = launch[k]
        BY <3>1, <4>1 DEF BatchInv, Accounts, OwnsUp
      <4>2. CASE launch'[k].step = "out"
        BY <4>2 DEF Accounts, Writing, Before, Working
      <4> QED
        BY <3>4, <4>1, <4>2
    <3>8. OneTransferPerItem' /\ JournalBeforeMoney'
      BY <3>1 DEF BatchInv, OneTransferPerItem, JournalBeforeMoney
    <3> QED
      BY <3>5, <3>6, <3>7, <3>8 DEF BatchInv
  <2> QED
    BY <1>3, <2>2, <2>3, <2>4, <2>5, <2>6
<1>4. ASSUME NEW l \in Launches, PersistPlan(l) \/ Preflight(l)
      PROVE  BatchInv'
  BY <1>4, EarlyWrite DEF PersistPlan, Preflight, Before, JournalStatus, At
<1>5. ASSUME NEW l \in Launches, StartCall(l) \/ RecordAnswer(l)
      PROVE  BatchInv'
  BY <1>5, StartCallKeeps, RecordAnswerKeeps
<1>6. ASSUME NEW l \in Launches, AskSafe4(l) \/ Submit(l) \/ Observe(l)
      PROVE  BatchInv'
  BY <1>6, CallKeeps
<1>7. ASSUME NEW l \in Launches, Finish(l) \/ Abort(l)
      PROVE  BatchInv'
  <2>1. CASE Abort(l)
    BY <2>1, EndKeeps DEF Abort, At, JournalStatus
  <2>2. CASE Finish(l) /\ Enters(l, "abort") /\ UNCHANGED <<journal, remnant>>
    BY <2>2, Walks DEF Finish, At, Inside, BatchSteps, Writing, BatchInv, Typed
  <2>3. CASE /\ Finish(l)
             /\ Write(l, IF AllGood(l) THEN "complete" ELSE "stopped",
                      [launch[l] EXCEPT !.step = "leaving"], [launch[l] EXCEPT !.step = "abort"])
    <3>1. PICK status \in JournalStatus :
            Write(l, status, [launch[l] EXCEPT !.step = "leaving"],
                             [launch[l] EXCEPT !.step = "abort"])
      BY <2>3 DEF JournalStatus
    <3> QED
      BY <2>3, <3>1, EndKeeps DEF Finish, At
  <2> QED
    BY <1>7, <2>1, <2>2, <2>3 DEF Finish
<1> QED
  BY <1>1, <1>2, <1>3, <1>4, <1>5, <1>6, <1>7 DEF BatchNext

\* The invariant of the batch: one launch at a time is behind the lock, and what
\* it knows, and what is on disk, owns up to every transfer.
THEOREM BatchInvariant == BatchSpec => []BatchInv
  BY BatchInvInit, BatchInvStep, PTL DEF BatchSpec

\* However often, however simultaneously the script is started and wherever it
\* dies, an item is transferred at most once.
THEOREM ItemsAreTransferredOnce == BatchSpec => []OneTransferPerItem
  BY BatchInvariant, PTL DEF BatchInv

\* The journal on disk says of every transfer that its submission was started.
THEOREM MoneyFollowsTheJournal == BatchSpec => []JournalBeforeMoney
  BY BatchInvariant, PTL DEF BatchInv

\* Journal, lock, launches and transfers stay typed (demo_live_arc_batch_fixed.py).
THEOREM BatchTyping == BatchSpec => []BatchTypeOK
<1>1. BatchInv => BatchTypeOK
  BY DEF BatchInv, Typed, BatchTypeOK, LaunchType
<1> QED
  BY <1>1, BatchInvariant, PTL
=============================================================================
