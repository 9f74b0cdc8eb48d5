-------------------------------- MODULE OAuth --------------------------------
(***************************************************************************)
(* The authorization server of Safe4 (app/api/oauth.py): codes bound to a  *)
(* client and a PKCE challenge, access tokens, refresh tokens that are     *)
(* rotated, and revocation.  A token request consumes what it presents     *)
(* first, checks it next, and stores what it issues in two more commits.   *)
(***************************************************************************)
EXTENDS Integers, FiniteSets

CONSTANTS
    Clients,
    Codes,      \* authorization codes, by the call of /oauth/authorize that makes each
    Requests,   \* calls of /oauth/token; its new tokens bear the name of the request
    Nothing

ASSUME NamesDiffer == Codes \cap Requests = {} /\ Nothing \notin Clients \cup Codes \cup Requests

VARIABLES
    codes,     \* oauth_authorization_codes
    access,    \* oauth_access_tokens
    refresh,   \* oauth_refresh_tokens
    ask        \* locals of oauth_token

oauthVars == <<codes, access, refresh, ask>>

CodeRow == [client : Clients, used : BOOLEAN, expired : BOOLEAN]
TokenRow == [client : Clients, grant : Codes, revoked : BOOLEAN, expired : BOOLEAN]
ASSUME NothingIsNoRow == Nothing \notin CodeRow \cup TokenRow

Silent == [step |-> "idle", client |-> Nothing, uses |-> Nothing, fits |-> FALSE,
           proof |-> FALSE, grant |-> Nothing]
Fresh(client, grant) == [client |-> client, grant |-> grant, revoked |-> FALSE, expired |-> FALSE]

AskStep(q, from, to) == ask[q].step = from /\ ask' = [ask EXCEPT ![q].step = to]
Refused(q) == ask' = [ask EXCEPT ![q].step = "refused"]

\* POST /oauth/authorize, for a registered client, redirect_uri and scope.
AuthorizeCode(c) ==
    /\ codes[c] = Nothing
    /\ \E client \in Clients :
         codes' = [codes EXCEPT ![c] = [client |-> client, used |-> FALSE, expired |-> FALSE]]
    /\ UNCHANGED <<access, refresh, ask>>

\* POST /oauth/token with a code; fits: the redirect_uri is that of the code,
\* proof: the code_verifier hashes to its challenge (verify_pkce).
AskWithCode(q) ==
    /\ ask[q].step = "idle"
    /\ \E client \in Clients, c \in Codes, fits, proof \in BOOLEAN :
         /\ codes[c] # Nothing
         /\ ask' = [ask EXCEPT ![q] = [Silent EXCEPT !.step = "consume", !.client = client,
                                        !.uses = c, !.fits = fits, !.proof = proof]]
    /\ UNCHANGED <<codes, access, refresh>>

\* Mutant: a code is used up only by a request that proves possession.
ConsumeProvenCode(q) ==
    /\ ask[q].step = "consume"
    /\ LET c == ask[q].uses IN
       IF codes[c].used THEN Refused(q) /\ UNCHANGED codes
       ELSE /\ codes' = [codes EXCEPT ![c].used = ask[q].proof]
            /\ ask' = [ask EXCEPT ![q].step = "check", ![q].grant = c]
    /\ UNCHANGED <<access, refresh>>

\* consume_oauth_authorization_code.
ConsumeCode(q) ==
    /\ ask[q].step = "consume"
    /\ LET c == ask[q].uses IN
       IF codes[c].used THEN Refused(q) /\ UNCHANGED codes
       ELSE /\ codes' = [codes EXCEPT ![c].used = TRUE]
            /\ ask' = [ask EXCEPT ![q].step = "check", ![q].grant = c]
    /\ UNCHANGED <<access, refresh>>

\* Client, redirect_uri, expiry and verifier, of the code that is already used up.
CheckCode(q) ==
    /\ ask[q].step = "check"
    /\ LET row == codes[ask[q].grant] IN
       IF row.client = ask[q].client /\ ask[q].fits /\ ~row.expired /\ ask[q].proof
       THEN AskStep(q, "check", "access") ELSE Refused(q)
    /\ UNCHANGED <<codes, access, refresh>>

\* POST /oauth/token with a refresh token.
AskWithRefresh(q) ==
    /\ ask[q].step = "idle"
    /\ \E client \in Clients, r \in Requests :
         /\ refresh[r] # Nothing
         /\ ask' = [ask EXCEPT ![q] = [Silent EXCEPT !.step = "rotate", !.client = client, !.uses = r]]
    /\ UNCHANGED <<codes, access, refresh>>

\* Mutant: a refresh token may be used until it expires.
RotateAgain(q) ==
    /\ ask[q].step = "rotate"
    /\ LET r == ask[q].uses IN
       ask' = [ask EXCEPT ![q].step = "belongs", ![q].grant = refresh[r].grant]
    /\ UNCHANGED <<codes, access, refresh>>

\* consume_oauth_refresh_token.
Rotate(q) ==
    /\ ask[q].step = "rotate"
    /\ LET r == ask[q].uses IN
       IF refresh[r].revoked THEN Refused(q) /\ UNCHANGED refresh
       ELSE /\ refresh' = [refresh EXCEPT ![r].revoked = TRUE]
            /\ ask' = [ask EXCEPT ![q].step = "belongs", ![q].grant = refresh[r].grant]
    /\ UNCHANGED <<codes, access>>

\* Mutant: a refresh token buys a refresh token only.
CheckRefreshAlone(q) ==
    /\ ask[q].step = "belongs"
    /\ LET row == refresh[ask[q].uses] IN
       IF row.client = ask[q].client /\ ~row.expired
       THEN AskStep(q, "belongs", "refresh") ELSE Refused(q)
    /\ UNCHANGED <<codes, access, refresh>>

CheckRefresh(q) ==
    /\ ask[q].step = "belongs"
    /\ LET row == refresh[ask[q].uses] IN
       IF row.client = ask[q].client /\ ~row.expired
       THEN AskStep(q, "belongs", "access") ELSE Refused(q)
    /\ UNCHANGED <<codes, access, refresh>>

\* create_oauth_access_token, then create_oauth_refresh_token and the answer.
StoreAccess(q) ==
    /\ AskStep(q, "access", "refresh")
    /\ access' = [access EXCEPT ![q] = Fresh(ask[q].client, ask[q].grant)]
    /\ UNCHANGED <<codes, refresh>>

StoreRefresh(q) ==
    /\ AskStep(q, "refresh", "done")
    /\ refresh' = [refresh EXCEPT ![q] = Fresh(ask[q].client, ask[q].grant)]
    /\ UNCHANGED <<codes, access>>

\* POST /oauth/revoke, by whoever has the token, of either kind.
Revoke(q) ==
    /\ \/ /\ access[q] # Nothing
          /\ access' = [access EXCEPT ![q].revoked = TRUE]
          /\ UNCHANGED refresh
       \/ /\ refresh[q] # Nothing
          /\ refresh' = [refresh EXCEPT ![q].revoked = TRUE]
          /\ UNCHANGED access
    /\ UNCHANGED <<codes, ask>>

\* Time passes for one code or token.
Expire ==
    /\ \/ /\ \E c \in Codes : codes[c] # Nothing /\ codes' = [codes EXCEPT ![c].expired = TRUE]
          /\ UNCHANGED <<access, refresh>>
       \/ /\ \E q \in Requests : access[q] # Nothing /\ access' = [access EXCEPT ![q].expired = TRUE]
          /\ UNCHANGED <<codes, refresh>>
       \/ /\ \E q \in Requests : refresh[q] # Nothing /\ refresh' = [refresh EXCEPT ![q].expired = TRUE]
          /\ UNCHANGED <<codes, access>>
    /\ UNCHANGED ask

\* The process dies between two commits of a token request.
AskDies(q) ==
    /\ ask[q].step \in {"check", "belongs", "access", "refresh"}
    /\ ask' = [ask EXCEPT ![q].step = "died"]
    /\ UNCHANGED <<codes, access, refresh>>

OAuthInit ==
    /\ codes = [c \in Codes |-> Nothing]
    /\ access = [q \in Requests |-> Nothing]
    /\ refresh = [q \in Requests |-> Nothing]
    /\ ask = [q \in Requests |-> Silent]

OAuthNext ==
    \/ \E c \in Codes : AuthorizeCode(c)
    \/ \E q \in Requests :
         \/ AskWithCode(q) \/ ConsumeCode(q) \/ CheckCode(q)
         \/ AskWithRefresh(q) \/ Rotate(q) \/ CheckRefresh(q)
         \/ StoreAccess(q) \/ StoreRefresh(q) \/ Revoke(q) \/ AskDies(q)
    \/ Expire

OAuthSpec == OAuthInit /\ [][OAuthNext]_oauthVars

----------------------------------------------------------------------------
(* What the authorization server promises.                                 *)

OAuthTypeOK ==
    /\ codes \in [Codes -> CodeRow \cup {Nothing}]
    /\ access \in [Requests -> TokenRow \cup {Nothing}]
    /\ refresh \in [Requests -> TokenRow \cup {Nothing}]
    /\ \A q \in Requests : refresh[q] # Nothing => access[q] # Nothing /\ access[q].grant = refresh[q].grant

Beyond(q) == ask[q].step \notin {"idle", "consume", "rotate", "refused"}
Presenters(c) == {q \in Requests : ask[q].uses = c /\ ask[q].grant = c}

\* A code is presented with effect once, and is gone for good when that request
\* was wrong: nobody tries a second client, redirect or verifier on it, and every
\* token of the grant is its client's and descends from the one right request.
OneGuessPerCode ==
    \A c \in Codes :
       /\ Cardinality(Presenters(c)) <= 1
       /\ (\E q \in Requests : access[q] # Nothing /\ access[q].grant = c)
            => \E q \in Presenters(c) : ask[q].proof /\ ask[q].fits /\ ask[q].client = codes[c].client
       /\ \A q \in Requests : access[q] # Nothing /\ access[q].grant = c => access[q].client = codes[c].client

\* A grant has one line of refresh tokens: of all that were ever issued from a
\* code, at most one is not revoked or still on its way to be stored.
OneLiveRefresh ==
    \A c \in Codes :
       Cardinality({q \in Requests : \/ refresh[q] # Nothing /\ refresh[q].grant = c /\ ~refresh[q].revoked
                                     \/ ask[q].grant = c /\ Beyond(q) /\ ask[q].step \notin {"done", "died"}}) <= 1
=============================================================================
