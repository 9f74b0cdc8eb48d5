-------------------------- MODULE ProviderReceipts --------------------------
(***************************************************************************)
(* Receipts of x402 providers in Safe4 (app/protocols/x402.py): each        *)
(* presentation first overwrites the receipt's row with what it claims,    *)
(* then is judged, partly on the row it reads back, and marks the receipt  *)
(* used only when its payment is finalized.  Presentations and changes of  *)
(* the provider's configuration interleave.                                *)
(***************************************************************************)
EXTENDS Integers, Sequences, FiniteSets

CONSTANTS
    Visits,     \* presentations of a receipt, each made once
    Tokens,     \* what is presented: a set of Token
    Settings,   \* configurations of the provider an administrator may store
    Ring,       \* [key |-> RingKey]: the keys of PAYMENT_FIREWALL_X402_PROVIDER_JWKS
    Anchors,    \* [anchor |-> RingAnchor]: the anchors they may name
    Document,   \* a DocumentRow, what the provider published, or NoSetting
    Due,        \* amount_due
    Networks,   \* the networks the firewall supports
    NoSetting,  \* no configuration, or an adapter nobody registered
    NoToken

Forever == 99   \* an "until" that is not set
Nobody == "nobody"   \* an issuer or an anchor that is not named
\* What parse_x402_provider_jwks, _trust_anchors and _discovery let through: a window
\* is not empty, and an anchor names its issuer.  "serves" is that the provider is
\* among the names given, or none are; an issuer stands for both its urls.
RingKey == {k \in [status : {"active", "retired", "disabled"}, from : 0..Forever, until : 0..Forever,
                   serves : BOOLEAN, anchor : DOMAIN Anchors \cup {Nobody}, issuer : STRING] :
              k.from < k.until}
RingAnchor == [active : BOOLEAN, serves : BOOLEAN, issuer : STRING \ {Nobody}]
DocumentRow == [fresh : BOOLEAN, keys : SUBSET DOMAIN Ring, issuer : STRING]

Adapters == {"shared_secret", "rs256", "jwt"}

\* A presentation: "signer" is the key its signature was made with, if any, "kid" the key
\* the header of a JWT names, "key" the key it claims, "dated" that its version, dates and
\* settlement reference are in order, "priced" that its amount is a number, "ours" that
\* its currency is that of the payments, or none, which is stored as theirs.
Token == [receipt : {t.receipt : t \in Tokens}, signer : DOMAIN Ring \cup {Nobody},
          kid : DOMAIN Ring \cup {Nobody},
          key : DOMAIN Ring, issuer : STRING, dated : BOOLEAN, issued : Nat,
          confirmations : Nat, proof : {"hash", "other", "missing"}, paid : Nat,
          priced : BOOLEAN, ours : BOOLEAN,
          settled : BOOLEAN, expired : BOOLEAN, here : BOOLEAN, network : STRING]
Setting == [enabled : BOOLEAN, adapter : Adapters, minimum : Nat, proofs : SUBSET {"hash", "other"},
            networks : SUBSET Networks, issuers : SUBSET STRING, keys : SUBSET DOMAIN Ring,
            anchors : SUBSET DOMAIN Anchors]

Verdicts == {"pending", "accepted", "rejected"}
ClaimRow == [token : Tokens, verdict : Verdicts, used : BOOLEAN]

ASSUME ReceiptsTyped ==
    /\ \A t \in Tokens : t \in Token
    /\ \A s \in Settings \ {NoSetting} : s \in Setting
    /\ \A k \in DOMAIN Ring : Ring[k].from < Ring[k].until /\ Ring[k].issuer \in STRING
    /\ \A a \in DOMAIN Anchors : Anchors[a].issuer # Nobody
    /\ Document = NoSetting \/ Document.keys \subseteq DOMAIN Ring
    /\ Nobody \notin DOMAIN Ring /\ NoToken \notin ClaimRow

VARIABLES
    setting,   \* x402_provider_configs: the row of the one provider
    claim,     \* x402_provider_receipts: [token, verdict, used] of each receipt, or NoToken
    visit,     \* locals of verify and of the payment that follows it
    paid,      \* history: the authorized presentations, in order
    crowded    \* history: the presentations during which another one took a step

receiptVars == <<setting, claim, visit, paid, crowded>>

Receipts == {t.receipt : t \in Tokens}
Waiting == [step |-> "idle", token |-> NoToken, setting |-> NoSetting, sound |-> FALSE]

ReceiptsInit ==
    /\ setting \in Settings
    /\ claim = [r \in Receipts |-> NoToken]
    /\ visit = [v \in Visits |-> Waiting]
    /\ paid = <<>> /\ crowded = {}

Takes(v, from, fields) ==
    /\ visit[v].step = from
    /\ visit' = [visit EXCEPT ![v] = fields]
    /\ LET others == {u \in Visits \ {v} : visit[u].step \notin {"idle", "over"}} IN
       crowded' = crowded \cup others \cup (IF others = {} THEN {} ELSE {v})

\* upsert_x402_provider_config.
Configure ==
    /\ setting' \in Settings
    /\ UNCHANGED <<claim, visit, paid, crowded>>

----------------------------------------------------------------------------
\* _provider_key_trust_reason: the key, and the anchor it names, speak for the provider.
KeyTrusts(key) ==
    /\ key.serves
    /\ \/ key.anchor = Nobody
       \/ Anchors[key.anchor].active /\ Anchors[key.anchor].serves

\* _provider_key_disabled_reason.
KeyEnabled(key) == key.status # "disabled"

\* _provider_key_rotation_window_reason.
KeyCovers(t, key) ==
    /\ t.issued \in key.from..key.until
    /\ key.status = "retired" => key.until # Forever

Agree(a, b) == a = Nobody \/ b = Nobody \/ a = b
\* _provider_discovery_reason: no document, no objection.
Discovered(t, k, key) ==
    Document # NoSetting =>
      /\ Document.fresh
      /\ Document.keys # {} => k \in Document.keys
      /\ Agree(Document.issuer, t.issuer) /\ Agree(Document.issuer, key.issuer)
      /\ key.anchor # Nobody => Agree(Document.issuer, Anchors[key.anchor].issuer)

\* verify_payload of the three adapters.  The first knows keys by their secrets alone.
SharedSecret(t) == t.signer = t.key

SignedWith(t, k) ==
    LET key == Ring[k] IN
    KeyTrusts(key) /\ KeyEnabled(key) /\ t.signer = k /\ KeyCovers(t, key) /\ Discovered(t, k, key)

\* The second looks the key up by the claim, the third by the header if there is a kid.
Rs256(t) == SignedWith(t, t.key)
JwtRs256(t) == SignedWith(t, IF t.kid = Nobody THEN t.key ELSE t.kid)

Adapter(t, s) ==
    CASE s.adapter = "shared_secret" -> SharedSecret(t)
      [] s.adapter = "rs256" -> Rs256(t)
      [] s.adapter = "jwt" -> JwtRs256(t)

\* Mutant: a claim is stored as a new receipt, which nobody has used.
ClaimedAnew(t, old, verdict) == [token |-> t, verdict |-> verdict, used |-> FALSE]
\* upsert_x402_provider_receipt: everything is overwritten but the date of use.
Claimed(t, old, verdict) ==
    [token |-> t, verdict |-> verdict, used |-> old # NoToken /\ old.used]

\* What is judged on the presentation before the row is looked at.
SoundToken(t, s) ==
    /\ t.dated
    /\ t.proof # "missing" /\ (s.proofs # {} => t.proof \in s.proofs)
    /\ t.confirmations >= s.minimum

\* What is judged on the row as it was read back.
SoundRow(row, s) ==
    /\ ~row.used /\ ~row.token.expired /\ row.token.settled
    /\ row.token.here /\ row.token.network \in Networks

\* The anchor of the key the receipt claims may stand for the listed issuers and keys.
IssuerAllowed(t, s) ==
    LET anchor == Ring[t.key].anchor IN
    /\ s.issuers = {} \/ t.issuer \in s.issuers
         \/ (anchor \in s.anchors /\ Anchors[anchor].issuer = t.issuer)
    /\ s.keys = {} \/ t.key \in s.keys \/ anchor \in s.anchors

\* The network and the currency are the row's, the amount the presentation's.
Matches(t, row, s) == row.token.network \in s.networks /\ t.paid = Due /\ row.token.ours

\* The configuration is read, once.
Arrive(v) ==
    /\ \E t \in Tokens :
         Takes(v, "idle", [token |-> t, setting |-> setting, sound |-> FALSE,
                           step |-> IF setting # NoSetting /\ setting.enabled /\ t.priced
                                      THEN "store" ELSE "reject"])
    /\ UNCHANGED <<setting, claim, paid>>

\* What the configuration rules out, or has no amount, is stored as rejected.
Reject(v) ==
    LET t == visit[v].token IN
    /\ Takes(v, "reject", [Waiting EXCEPT !.step = "over"])
    /\ claim' = [claim EXCEPT ![t.receipt] = Claimed(t, @, "rejected")]
    /\ UNCHANGED <<setting, paid>>

\* The claim is stored as pending, whether or not it is signed.
Store(v) ==
    LET t == visit[v].token IN
    /\ Takes(v, "store", [visit[v] EXCEPT !.step = "judge"])
    /\ claim' = [claim EXCEPT ![t.receipt] = Claimed(t, @, "pending")]
    /\ UNCHANGED <<setting, paid>>

\* The upsert ends with a read of its own, on which part of the verdict rests.
Judge(v) ==
    LET t == visit[v].token
        s == visit[v].setting
    IN /\ Takes(v, "judge", [visit[v] EXCEPT !.step = "decide",
                               !.sound = /\ Adapter(t, s) /\ SoundToken(t, s)
                                         /\ SoundRow(claim[t.receipt], s)
                                         /\ IssuerAllowed(t, s)
                                         /\ Matches(t, claim[t.receipt], s)])
       /\ UNCHANGED <<setting, claim, paid>>

\* upsert_x402_provider_receipt_verification.
Decide(v) ==
    LET t == visit[v].token
        sound == visit[v].sound
    IN /\ Takes(v, "decide", IF sound THEN [visit[v] EXCEPT !.step = "payment"]
                             ELSE [Waiting EXCEPT !.step = "over"])
       /\ claim' = [claim EXCEPT ![t.receipt].verdict = IF sound THEN "accepted" ELSE "rejected"]
       /\ UNCHANGED <<setting, paid>>

\* mark_x402_provider_receipt_used does not look at who else has used it.
Used(r) == claim' = [claim EXCEPT ![r].used = TRUE]

\* A later stage of POST /pay denies; deny_payment may spend the receipt.
Deny(v) ==
    /\ Takes(v, "payment", [Waiting EXCEPT !.step = "over"])
    /\ UNCHANGED claim \/ Used(visit[v].token.receipt)
    /\ UNCHANGED <<setting, paid>>

\* finalize_authorized_payment.
Authorize(v) ==
    /\ Takes(v, "payment", [Waiting EXCEPT !.step = "over"])
    /\ Used(visit[v].token.receipt)
    /\ paid' = Append(paid, [visit |-> v, token |-> visit[v].token])
    /\ UNCHANGED setting

ReceiptsNext ==
    \/ Configure
    \/ \E v \in Visits : \/ Arrive(v) \/ Reject(v) \/ Store(v) \/ Judge(v) \/ Decide(v)
                         \/ Deny(v) \/ Authorize(v)

ReceiptsSpec == ReceiptsInit /\ [][ReceiptsNext]_receiptVars

----------------------------------------------------------------------------
ReceiptsTypeOK ==
    /\ setting \in Settings
    /\ \A r \in Receipts : claim[r] # NoToken => claim[r] \in ClaimRow
    /\ \A v \in Visits :
         /\ visit[v].step \in {"idle", "reject", "store", "judge", "decide", "payment", "over"}
         /\ visit[v].token \in Tokens \cup {NoToken}
         /\ visit[v].setting \in Settings \cup {NoSetting}
    /\ crowded \subseteq Visits

\* A payment whose presentation nobody disturbed rests on a receipt that was itself
\* settled, on a supported network, in the payment's currency, of an issuer some
\* configuration allows, and had paid for nothing before: forged and stale claims of the same receipt, though they
\* overwrite its row, lend it nothing and free nothing (verify, upsert_x402_provider_receipt, finalize_authorized_payment).
UndisturbedIsSound ==
    \A n \in DOMAIN paid : paid[n].visit \notin crowded =>
        /\ paid[n].token.signer # Nobody /\ paid[n].token.settled /\ paid[n].token.ours
        /\ paid[n].token.network \in Networks
        /\ \E s \in Settings \ {NoSetting} : IssuerAllowed(paid[n].token, s)
        /\ \A m \in 1..n - 1 : paid[m].token.receipt # paid[n].token.receipt
=============================================================================
