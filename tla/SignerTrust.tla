---------------------------- MODULE SignerTrust ----------------------------
(***************************************************************************)
(* Whose keys sign AP2 mandates (AP2FederationDiscoveryCache in            *)
(* app/main.py and the key checks of app/protocols/ap2.py): besides its    *)
(* own configuration, Safe4 asks a discovery document that an issuer       *)
(* publishes, of which it keeps a copy that is polled and grows old.  The  *)
(* poll is made by whoever looks at the copy when one is due; it takes     *)
(* time, in which the document changes and the others wait.                *)
(***************************************************************************)
EXTENDS Integers, FiniteSets

CONSTANTS
    Keys,         \* key ids
    SignKeys,     \* _signer_jwks: [Keys -> SignKey]
    SignAnchors,  \* _trust_anchors: a function from anchor names to SignAnchor
    Issuer,       \* the one that publishes a document, at its discovery url
    Signers,
    PollInterval, \* poll_interval_seconds
    CacheMaxAge,  \* cache_max_age_seconds
    MaxAge,       \* AP2_FEDERATION_DISCOVERY_MAX_AGE
    FetchTime,    \* the longest a fetch takes (timeout_seconds, if it comes in one piece)
    Verifiers,    \* calls of verify in flight
    Horizon,      \* time runs from 0 to Horizon
    Never, NoDoc, Unset

Always == {}  \* an empty list of signers admits them all

\* What parse_ap2_signer_jwks lets through; an issuer stands for its url and the
\* discovery url it comes with.
SignKey == {k \in [active : BOOLEAN, from : Nat, until : Nat, signers : SUBSET Signers,
                   anchor : STRING, issuer : {Issuer, Unset}] : k.from < k.until}

\* What parse_ap2_trust_anchors lets through: an anchor has an issuer.
SignAnchor == [active : BOOLEAN, signers : SUBSET Signers, issuer : {Issuer, "another"}]

\* AP2FederationDiscoveryCache.__init__ refuses other intervals.
ASSUME TrustTyped == /\ {PollInterval, CacheMaxAge, MaxAge, FetchTime, Horizon} \subseteq Nat
                     /\ PollInterval >= 1 /\ CacheMaxAge >= PollInterval
                     /\ \A k \in Keys : SignKeys[k] \in SignKey
                     /\ \A a \in DOMAIN SignAnchors : SignAnchors[a] \in SignAnchor
                     /\ Never \notin Nat

\* What parse_ap2_federation_discovery lets through; a document that is not active
\* vouches for no key.
Published == [keys : SUBSET Keys, at : 0..Horizon]
Time == 0..Horizon

VARIABLES
    now,
    polls,     \* whether a poll url is configured
    remote,    \* what the issuer publishes: the keys and the time, or NoDoc
    cached,    \* _documents: the document and its cache_expires_at, or NoDoc
    nextPoll,  \* _next_poll_at
    fetching,  \* the fetch that holds the lock of the cache, or NoDoc
    signer,    \* ap2_signer_configs: whether it is enabled and its key, or NoDoc
    check,     \* locals of verify and _verify_signature, or NoDoc
    dropped,   \* history: since when a key is not in the published document, or Never
    started,   \* history: when the process started
    outlived   \* history: how long a key has been accepted after its end

worldVars == <<now, polls, remote, signer, dropped, started>>
cacheVars == <<cached, nextPoll, fetching>>
trustVars == <<now, polls, remote, cached, nextPoll, fetching, signer, check, dropped,
               started, outlived>>

\* _decorate_documents: without a poll url a copy never expires.
Decorated(doc, at) ==
    IF doc = NoDoc THEN NoDoc
    ELSE [keys |-> doc.keys, at |-> doc.at, expires |-> IF polls THEN at + CacheMaxAge ELSE Never]

TrustInit ==
    /\ now = 0 /\ started = 0
    /\ polls \in BOOLEAN
    /\ remote = [keys |-> Keys, at |-> 0]
    /\ cached = Decorated(remote, 0)
    /\ nextPoll = 0 /\ fetching = NoDoc
    /\ signer \in [Signers -> {NoDoc} \cup [enabled : {TRUE}, key : Keys]]
    /\ check = [v \in Verifiers |-> NoDoc]
    /\ dropped = [k \in Keys |-> Never]
    /\ outlived = 0

----------------------------------------------------------------------------
(* The world.                                                              *)

\* A fetch is over when its time is.
Tick ==
    /\ now < Horizon
    /\ fetching # NoDoc => now < fetching.since + FetchTime
    /\ now' = now + 1
    /\ UNCHANGED <<cacheVars, polls, remote, signer, check, dropped, started, outlived>>

\* The issuer publishes another document, or withdraws it.
Publish ==
    /\ \/ remote' = NoDoc /\ UNCHANGED dropped
       \/ \E keys \in SUBSET Keys :
            /\ remote' = [keys |-> keys, at |-> now]
            /\ dropped' = [k \in Keys |-> IF k \in keys THEN Never
                                          ELSE IF dropped[k] = Never THEN now ELSE dropped[k]]
    /\ UNCHANGED <<cacheVars, now, polls, signer, check, started, outlived>>

\* A new process begins with the seed, the document of the configuration, and with
\* the first poll due at once.
Restart ==
    /\ cached' = Decorated([keys |-> Keys, at |-> 0], now)
    /\ nextPoll' = now /\ started' = now
    /\ fetching' = NoDoc /\ check' = [v \in Verifiers |-> NoDoc]
    /\ UNCHANGED <<now, polls, remote, signer, dropped, outlived>>

\* upsert_ap2_signer_config.
ConfigureSigner(s) ==
    /\ \E config \in [enabled : BOOLEAN, key : Keys] : signer' = [signer EXCEPT ![s] = config]
    /\ UNCHANGED <<cacheVars, now, polls, remote, check, dropped, started, outlived>>

----------------------------------------------------------------------------
(* AP2FederationDiscoveryCache.                                            *)

\* _effective_rs256_signing_key_binding: the anchor's word goes before the key's.
Binding(k) == IF SignKeys[k].anchor \in DOMAIN SignAnchors THEN SignAnchors[SignKeys[k].anchor].issuer
                                                          ELSE SignKeys[k].issuer

\* A caller is handed a copy of the documents, in which it finds the one of its key's
\* issuer (_resolve_rs256_federation_discovery_document).
Handed(v, docs) ==
    IF check[v].step = "evidence" THEN NoDoc
    ELSE [check[v] EXCEPT !.step = "judge", !.doc = IF Binding(check[v].key) = Issuer THEN docs
                                                                                       ELSE NoDoc]

Asks(v) ==
    /\ check[v] # NoDoc /\ check[v].step \in {"source", "evidence"}
    /\ fetching = NoDoc
PollDue == polls /\ now >= nextPoll

\* current_documents, under the lock of the cache, when no poll is due.
Look(v) ==
    /\ Asks(v) /\ ~PollDue
    /\ check' = [check EXCEPT ![v] = Handed(v, cached)]
    /\ UNCHANGED <<worldVars, cacheVars, outlived>>

\* When one is due, the lock is held until the fetch is over.
StartFetch(v) ==
    /\ Asks(v) /\ PollDue
    /\ fetching' = [by |-> v, since |-> now, answered |-> FALSE, doc |-> NoDoc]
    /\ UNCHANGED <<worldVars, cached, nextPoll, check, outlived>>

\* The issuer answers with what it publishes at that moment.
Answer ==
    /\ fetching # NoDoc /\ ~fetching.answered
    /\ fetching' = [fetching EXCEPT !.answered = TRUE, !.doc = remote]
    /\ UNCHANGED <<worldVars, cached, nextPoll, check, outlived>>

\* Mutant: a copy that could not be renewed is taken for renewed.
RenewedAnyway(fetched) == IF fetched THEN Decorated(fetching.doc, now)
                          ELSE IF cached = NoDoc THEN NoDoc ELSE Decorated(cached, now)
\* _refresh_locked: the age of a copy counts from the end of its fetch; a failed fetch
\* leaves the copy, and its expiry, alone.
Renewed(fetched) == IF fetched THEN Decorated(fetching.doc, now) ELSE cached

\* The fetch succeeds, if it was answered, or fails; the one that made it goes on.
EndFetch(v) ==
    /\ fetching # NoDoc /\ fetching.by = v
    /\ \E fetched \in {FALSE, fetching.answered} :
         /\ cached' = Renewed(fetched)
         /\ check' = [check EXCEPT ![v] = Handed(v, Renewed(fetched))]
    /\ nextPoll' = fetching.since + PollInterval
    /\ fetching' = NoDoc
    /\ UNCHANGED <<worldVars, outlived>>

----------------------------------------------------------------------------
(* Rs256PublicKeyAP2Verifier._verify_signature, and the look at the        *)
(* documents that verify takes after it.                                   *)

\* _rs256_key_ids_share_trust_anchor: the key itself, or one of the same active anchor.
SharesAnchor(k, j) ==
    k = j \/ LET a == SignKeys[j].anchor
             IN a # Unset /\ a = SignKeys[k].anchor /\ a \in DOMAIN SignAnchors /\ SignAnchors[a].active

\* The signer's configuration is read from the store; only the signer "default" needs none.
ReadSigner(v) ==
    /\ check[v] = NoDoc
    /\ \E s \in Signers, k \in Keys :
         /\ IF signer[s] = NoDoc THEN s = "default"
                                ELSE signer[s].enabled /\ SharesAnchor(signer[s].key, k)
         /\ check' = [check EXCEPT ![v] = [step |-> "key", signer |-> s, key |-> k, doc |-> NoDoc]]
    /\ UNCHANGED <<worldVars, cacheVars, outlived>>

\* _validate_rs256_signing_key_trust_anchor: the anchor of a key must be known, active,
\* for this signer, and of the issuer the key names, if any.
AnchorTrusted(k, s) ==
    LET key == SignKeys[k]
        anchor == SignAnchors[key.anchor]
    IN key.anchor # Unset =>
         /\ key.anchor \in DOMAIN SignAnchors
         /\ anchor.active /\ anchor.signers \in {Always} \cup {t \in SUBSET Signers : s \in t}
         /\ key.issuer \in {Unset, anchor.issuer}

\* _validate_rs256_signing_key_trust.
KeyTrusted(k, s) ==
    /\ SignKeys[k].active /\ now >= SignKeys[k].from /\ now < SignKeys[k].until
    /\ SignKeys[k].signers # Always => s \in SignKeys[k].signers
    /\ AnchorTrusted(k, s)

\* A key that is trusted, and bound to an issuer without which it verifies nothing, is
\* looked up in the documents.
CheckKey(v) ==
    LET k == check[v].key IN
    /\ check[v] # NoDoc /\ check[v].step = "key"
    /\ check' = [check EXCEPT ![v] = IF KeyTrusted(k, @.signer) /\ Binding(k) # Unset
                                       THEN [@ EXCEPT !.step = "source"] ELSE NoDoc]
    /\ UNCHANGED <<worldVars, cacheVars, outlived>>

\* _validate_rs256_signing_key_federation_source: no document, no objection.
SourceAgrees(k, doc) ==
    doc # NoDoc => /\ doc.expires # Never => now < doc.expires
                   /\ now - doc.at <= MaxAge
                   /\ k \in doc.keys

\* The time since a key left the published document; a process that polls cannot
\* have known before it started.
Afterlife(k) == IF dropped[k] = Never THEN 0
                ELSE IF polls /\ started > dropped[k] THEN now - started ELSE now - dropped[k]

\* The signature may be wrong, and _validate_rs256_signing_key_discovery_binding wants the
\* mandate to name the issuer of its key: both depend on the mandate alone. A document
\* or an issuer that does not agree ends the call; otherwise verify looks at the documents
\* once more, for its evidence (_rs256_signing_key_federation_evidence).
JudgeKey(v) ==
    LET k == check[v].key
        doc == check[v].doc
    IN /\ check[v] # NoDoc /\ check[v].step = "judge"
       /\ \E verdict \in IF SourceAgrees(k, doc) THEN {"accepted", "forged", "unbound"}
                                                  ELSE {"unbound"} :
            /\ check' = [check EXCEPT ![v] = IF verdict = "unbound" THEN NoDoc
                                             ELSE [@ EXCEPT !.step = "evidence", !.doc = NoDoc]]
            /\ outlived' = IF verdict = "accepted" /\ doc # NoDoc /\ Afterlife(k) > outlived
                             THEN Afterlife(k) ELSE outlived
       /\ UNCHANGED <<worldVars, cacheVars>>

TrustNext ==
    \/ Tick \/ Publish \/ Restart \/ Answer
    \/ \E s \in Signers : ConfigureSigner(s)
    \/ \E v \in Verifiers : \/ ReadSigner(v) \/ CheckKey(v) \/ JudgeKey(v)
                            \/ Look(v) \/ StartFetch(v) \/ EndFetch(v)

TrustSpec == TrustInit /\ [][TrustNext]_trustVars

----------------------------------------------------------------------------
\* A copy of the document, with its expiry; the fetch and a call, by their locals.
Copy == [keys : SUBSET Keys, at : Time, expires : {Never} \cup 0..Horizon + CacheMaxAge]
Fetch == [by : Verifiers, since : Time, answered : BOOLEAN, doc : {NoDoc} \cup Published]
Check == [step : {"key", "source", "judge", "evidence"}, signer : Signers, key : Keys,
          doc : {NoDoc} \cup Copy]

TrustTypeOK ==
    /\ now \in Time /\ started \in Time /\ polls \in BOOLEAN
    /\ remote \in {NoDoc} \cup Published
    /\ cached \in {NoDoc} \cup Copy
    /\ nextPoll \in 0..Horizon + PollInterval
    /\ fetching \in {NoDoc} \cup Fetch
    /\ check \in [Verifiers -> {NoDoc} \cup Check]
    /\ dropped \in [Keys -> {Never} \cup Time] /\ outlived \in Time

\* A key the issuer no longer publishes dies: while there is a document to go by, it
\* is accepted for less than the age of the cache and the time of a fetch after it was
\* dropped or the process started, whoever polls and whoever waits for the lock, and
\* without polling no longer than a document may be old (AP2FederationDiscoveryCache,
\* _validate_rs256_signing_key_federation_source).
RevokedKeyDies == IF polls THEN outlived < CacheMaxAge + FetchTime ELSE outlived <= MaxAge
=============================================================================
