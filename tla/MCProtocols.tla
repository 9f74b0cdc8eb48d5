----------------------------- MODULE MCProtocols -----------------------------
(***************************************************************************)
(* Five parts of Safe4 that share no row with one another, side by side: a *)
(* behaviour belongs to one of them, and the others stand still.           *)
(***************************************************************************)
EXTENDS Mandates, ProviderReceipts, SignerTrust, LiveSettle, BatchJournal

CONSTANTS i1, c1, c2

VARIABLE part

----------------------------------------------------------------------------
(* Mandates: an intent for two pieces, two carts under it, one of which    *)
(* also comes asking for more than the intent allows, and as its own       *)
(* parent.                                                                 *)
MCFields(amount) == [f \in Fields |-> IF f = "amount" THEN amount ELSE 1]
MCOffer(id, type, parent, amount, pieces) ==
    [id |-> id, type |-> type, parent |-> parent, signed |-> TRUE,
     says |-> [f \in Fields |-> {MCFields(amount)[f]}], pays |-> MCFields(amount),
     lists |-> {[g \in Goods |-> pieces]}, asked |-> {[g \in Goods |-> pieces]}]
TheIntent == MCOffer(i1, "intent", NoId, 2, 2)
MCOffers == {TheIntent, MCOffer(c1, "cart", i1, 2, 2), MCOffer(c2, "cart", i1, 1, 1),
             MCOffer(c2, "cart", i1, 2, 3),
             MCOffer(c2, "cart", c2, 1, 1)}

\* The store is empty, or holds the accepted intent.
Before == [i \in Ids |-> IF i # i1 THEN NoId ELSE
             [type |-> "intent", life |-> "active", accepted |-> TRUE, successor |-> NoId,
              kept |-> "undated", archived |-> FALSE, redacted |-> FALSE, family |-> i1,
              parent |-> NoId, offer |-> TheIntent]]
WithIntent == mandate = Before /\ run = [c \in Cases |-> Resting] /\ done = <<>> /\ met = {}

\* Calls begin in the order of their numbers, two at most at a time.
CasesInOrder ==
    /\ \A c, d \in Cases : c < d /\ run[c].step = "idle" => run[d].step = "idle"
    /\ Cardinality({c \in Cases : run[c].step \notin Ended}) <= 2

----------------------------------------------------------------------------
(* A settled receipt, the same not settled, unsigned, of another issuer,   *)
(* of another currency, without an amount, and one of a thin confirmation  *)
(* that is signed with a retired key.                                      *)
Good == [receipt |-> "r1", signer |-> "k", kid |-> "k", key |-> "k", issuer |-> "iss",
         dated |-> TRUE, issued |-> 1, confirmations |-> 2, proof |-> "hash", paid |-> 1,
         priced |-> TRUE, ours |-> TRUE,
         settled |-> TRUE, expired |-> FALSE, here |-> TRUE, network |-> "base"]
MCTokens == {Good, [Good EXCEPT !.settled = FALSE], [Good EXCEPT !.signer = Nobody],
             [Good EXCEPT !.issuer = "other"], [Good EXCEPT !.ours = FALSE],
             [Good EXCEPT !.priced = FALSE],
             [Good EXCEPT !.receipt = "r2", !.confirmations = 1, !.signer = "old",
                          !.kid = "old"]}
On == [enabled |-> TRUE, adapter |-> "jwt", minimum |-> 1, proofs |-> {"hash"}, networks |-> {"base"},
       issuers |-> {"listed"}, keys |-> {"old"}, anchors |-> {"a"}]
MCSettings == {NoSetting, On, [On EXCEPT !.adapter = "rs256", !.minimum = 2],
               [On EXCEPT !.adapter = "shared_secret"]}
MCRing == [k \in {"k", "old"} |->
             [status |-> IF k = "k" THEN "active" ELSE "retired", from |-> 0,
              until |-> IF k = "k" THEN Forever ELSE 1, serves |-> TRUE, anchor |-> "a",
              issuer |-> "iss"]]
MCAnchors == [a \in {"a"} |-> [active |-> TRUE, serves |-> TRUE, issuer |-> "iss"]]
MCDocument == [fresh |-> TRUE, keys |-> {"k", "old"}, issuer |-> Nobody]
VisitsInOrder ==
    /\ \A v, u \in Visits : v < u /\ visit[v].step = "idle" => visit[u].step = "idle"
    /\ Cardinality({v \in Visits : visit[v].step \notin {"idle", "over"}}) <= 2

----------------------------------------------------------------------------
(* Two keys of one anchor: one never ends, the end of the other falls      *)
(* within the horizon. The signer "default" is not configured, or with the *)
(* first key, which is the only one the issuer withdraws.                  *)
MCSignKeys == [k \in Keys |->
                 [active |-> TRUE, from |-> 0, until |-> IF k = "k1" THEN 99 ELSE 2,
                  signers |-> {}, issuer |-> Unset, anchor |-> "a"]]
MCSignAnchors == [a \in {"a"} |->
                    [active |-> TRUE, issuer |-> Issuer, signers |-> {"default"}]]
OneKeyDropped ==
    /\ signer["default"] # NoDoc => signer["default"].key = "k1"
    /\ remote = NoDoc \/ Keys \ {"k1"} \subseteq remote.keys

MCAmount == [s \in Settlers |-> IF s = 3 THEN 2 ELSE 1]

----------------------------------------------------------------------------
MCInit ==
    /\ part \in {"mandates", "receipts", "trust", "settle", "batch"}
    /\ MandatesInit \/ (part = "mandates" /\ WithIntent)
    /\ ReceiptsInit /\ (part = "receipts" \/ setting = NoSetting)
    /\ TrustInit /\ OneKeyDropped
    /\ part = "trust" \/ (~polls /\ signer = [s \in Signers |-> NoDoc])
    /\ SettleInit /\ BatchInit

MCNext ==
    /\ \/ /\ part = "mandates" /\ MandatesNext
          /\ UNCHANGED <<receiptVars, trustVars, settleVars, batchVars>>
       \/ /\ part = "receipts" /\ ReceiptsNext
          /\ UNCHANGED <<mandateVars, trustVars, settleVars, batchVars>>
       \/ /\ part = "trust" /\ TrustNext
          /\ UNCHANGED <<mandateVars, receiptVars, settleVars, batchVars>>
       \/ /\ part = "settle" /\ SettleNext
          /\ UNCHANGED <<mandateVars, receiptVars, trustVars, batchVars>>
       \/ /\ part = "batch" /\ BatchNext
          /\ UNCHANGED <<mandateVars, receiptVars, trustVars, settleVars>>
    /\ CasesInOrder' /\ VisitsInOrder' /\ OneKeyDropped'
    /\ UNCHANGED part

MCSpec == MCInit /\ [][MCNext]_<<mandateVars, receiptVars, trustVars, settleVars, batchVars, part>>

\* Every variable of the five parts has its type.
TypeOK == MandatesTypeOK /\ ReceiptsTypeOK /\ TrustTypeOK /\ SettleTypeOK /\ BatchTypeOK
=============================================================================
