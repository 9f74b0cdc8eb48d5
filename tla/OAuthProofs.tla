----------------------------- MODULE OAuthProofs -----------------------------
(***************************************************************************)
(* The authorization server, for any number of clients, codes and token    *)
(* requests: one request gets at a code, every token of a grant goes back  *)
(* to it, and a grant has one live line of refresh tokens.                 *)
(*                                                                         *)
(* What is presented is consumed before it is checked.  So a code that is  *)
(* not used up has no presenter and no tokens, and a refresh token that is *)
(* not revoked has no successor.                                           *)
(***************************************************************************)
EXTENDS OAuth, FiniteSetTheorems, TLAPS

Consumed == {"check", "belongs", "access", "refresh", "done", "died"}
Steps == {"idle", "consume", "rotate", "refused"} \cup Consumed
AskType == [step : Steps, client : Clients \cup {Nothing}, uses : Codes \cup Requests \cup {Nothing},
            fits : BOOLEAN, proof : BOOLEAN, grant : Codes \cup {Nothing}]

Typed ==
    /\ codes \in [Codes -> CodeRow \cup {Nothing}]
    /\ access \in [Requests -> TokenRow \cup {Nothing}]
    /\ refresh \in [Requests -> TokenRow \cup {Nothing}]
    /\ ask \in [Requests -> AskType]

UsedUp(c) == codes[c] # Nothing /\ codes[c].used

\* The one request that was right about a code.
Right(q, c) == /\ ask[q].uses = c /\ ask[q].grant = c
               /\ ask[q].proof /\ ask[q].fits /\ ask[q].client = codes[c].client
\* A token, or a request about to store one, that goes back to it.
Descends(c, client) ==
    /\ c \in Codes /\ UsedUp(c) /\ client = codes[c].client
    /\ \E q \in Requests : Right(q, c)

\* What a request presents exists, and what it has consumed is used up.
Presented(q) ==
    /\ ask[q].step \in {"idle", "consume", "rotate"} => ask[q].grant = Nothing
    /\ ask[q].step \in {"consume", "check"} => ask[q].uses \in Codes /\ codes[ask[q].uses] # Nothing
    /\ ask[q].step \in {"rotate", "belongs"} => ask[q].uses \in Requests /\ refresh[ask[q].uses] # Nothing
    /\ ask[q].step \in {"check", "belongs", "access", "refresh"} => ask[q].grant \in Codes
    /\ ask[q].grant \in Codes => UsedUp(ask[q].grant)
    /\ ask[q].step = "check" => ask[q].uses = ask[q].grant
    /\ ask[q].step = "belongs" => ask[q].grant = refresh[ask[q].uses].grant

\* The tokens of a request, and when it has them.
Issued(q) ==
    /\ ask[q].step \in {"access", "refresh"} => Descends(ask[q].grant, ask[q].client)
    /\ access[q] # Nothing => /\ ask[q].step \in {"refresh", "done", "died"}
                              /\ Descends(access[q].grant, access[q].client)
    /\ refresh[q] # Nothing => /\ ask[q].step = "done"
                               /\ Descends(refresh[q].grant, refresh[q].client)

OnePresenter(c, p, q) == p \in Presenters(c) /\ q \in Presenters(c) => p = q

\* A refresh token that is not revoked, or one on its way.
Live(q, c) == \/ refresh[q] # Nothing /\ refresh[q].grant = c /\ ~refresh[q].revoked
              \/ ask[q].grant = c /\ Beyond(q) /\ ask[q].step \notin {"done", "died"}
OneLive(c, p, q) == Live(p, c) /\ Live(q, c) => p = q

OAuthInv ==
    /\ Typed
    /\ \A q \in Requests : Presented(q) /\ Issued(q)
    /\ \A c \in Codes, p, q \in Requests : OnePresenter(c, p, q) /\ OneLive(c, p, q)

Asks(q) == \/ AskWithCode(q) \/ ConsumeCode(q) \/ CheckCode(q)
           \/ AskWithRefresh(q) \/ Rotate(q) \/ CheckRefresh(q)
           \/ StoreAccess(q) \/ StoreRefresh(q) \/ AskDies(q)
Outside == (\E c \in Codes : AuthorizeCode(c)) \/ (\E q \in Requests : Revoke(q)) \/ Expire

----------------------------------------------------------------------------
(* Types.                                                                  *)

LEMMA CodeUpdates ==
    ASSUME NEW row \in CodeRow, NEW new,
           new = [row EXCEPT !.used = TRUE] \/ new = [row EXCEPT !.expired = TRUE]
    PROVE  new \in CodeRow /\ new.client = row.client /\ (row.used => new.used)
  BY DEF CodeRow

LEMMA TokenUpdates ==
    ASSUME NEW row \in TokenRow, NEW new,
           new = [row EXCEPT !.revoked = TRUE] \/ new = [row EXCEPT !.expired = TRUE]
    PROVE  /\ new \in TokenRow /\ new.client = row.client /\ new.grant = row.grant
           /\ row.revoked => new.revoked
  BY DEF TokenRow

\* A request that goes on keeps what it was sent with.
LEMMA StepUpdates ==
    ASSUME NEW row \in AskType, NEW s \in Steps
    PROVE  LET new == [row EXCEPT !.step = s] IN
           /\ new \in AskType /\ new.step = s /\ new.grant = row.grant /\ new.uses = row.uses
           /\ new.client = row.client /\ new.fits = row.fits /\ new.proof = row.proof
  BY DEF AskType

\* What a step does to the locals of its request.
Kept(q) == /\ ask'[q].uses = ask[q].uses /\ ask'[q].client = ask[q].client
           /\ ask'[q].fits = ask[q].fits /\ ask'[q].proof = ask[q].proof
Stepped(q, s) == ask'[q].step = s /\ ask'[q].grant = ask[q].grant /\ Kept(q)
Took(q, s, g) == ask'[q].step = s /\ ask'[q].grant = g /\ Kept(q)

\* What each step of a request does.
Moved(q) ==
    \/ /\ AskWithCode(q) /\ ask[q].step = "idle" /\ ask'[q].step = "consume"
       /\ ask'[q].uses \in Codes /\ codes[ask'[q].uses] # Nothing /\ ask'[q].grant = Nothing
       /\ UNCHANGED <<codes, access, refresh>>
    \/ /\ AskWithRefresh(q) /\ ask[q].step = "idle" /\ ask'[q].step = "rotate"
       /\ ask'[q].uses \in Requests /\ refresh[ask'[q].uses] # Nothing /\ ask'[q].grant = Nothing
       /\ UNCHANGED <<codes, access, refresh>>
    \/ /\ ask[q].step \in {"consume", "check", "rotate", "belongs"} /\ Stepped(q, "refused")
       /\ UNCHANGED <<codes, access, refresh>>
    \/ /\ ConsumeCode(q) /\ ask[q].step = "consume" /\ ~codes[ask[q].uses].used
       /\ codes' = [codes EXCEPT ![ask[q].uses].used = TRUE]
       /\ Took(q, "check", ask[q].uses) /\ UNCHANGED <<access, refresh>>
    \/ /\ ask[q].step = "check" /\ Stepped(q, "access") /\ ask[q].fits /\ ask[q].proof
       /\ codes[ask[q].grant].client = ask[q].client /\ UNCHANGED <<codes, access, refresh>>
    \/ /\ Rotate(q) /\ ask[q].step = "rotate" /\ ~refresh[ask[q].uses].revoked
       /\ refresh' = [refresh EXCEPT ![ask[q].uses].revoked = TRUE]
       /\ Took(q, "belongs", refresh[ask[q].uses].grant) /\ UNCHANGED <<codes, access>>
    \/ /\ ask[q].step = "belongs" /\ Stepped(q, "access")
       /\ refresh[ask[q].uses].client = ask[q].client /\ UNCHANGED <<codes, access, refresh>>
    \/ /\ ask[q].step = "access" /\ Stepped(q, "refresh")
       /\ access' = [access EXCEPT ![q] = Fresh(ask[q].client, ask[q].grant)]
       /\ UNCHANGED <<codes, refresh>>
    \/ /\ ask[q].step = "refresh" /\ Stepped(q, "done")
       /\ refresh' = [refresh EXCEPT ![q] = Fresh(ask[q].client, ask[q].grant)]
       /\ UNCHANGED <<codes, access>>
    \/ /\ ask[q].step \in {"check", "belongs", "access", "refresh"} /\ Stepped(q, "died")
       /\ UNCHANGED <<codes, access, refresh>>

LEMMA AskMoves ==
    ASSUME OAuthInv, NEW q \in Requests, Asks(q)
    PROVE  /\ ask' \in [Requests -> AskType] /\ \A p \in Requests \ {q} : ask'[p] = ask[p]
           /\ Moved(q)
<1>1. /\ ask \in [Requests -> AskType] /\ Presented(q) /\ Issued(q)
      /\ codes \in [Codes -> CodeRow \cup {Nothing}] /\ refresh \in [Requests -> TokenRow \cup {Nothing}]
  BY DEF OAuthInv, Typed
<1>2. \A s \in Steps : LET new == [ask[q] EXCEPT !.step = s] IN
        /\ new \in AskType /\ new.step = s /\ new.grant = ask[q].grant /\ new.uses = ask[q].uses
        /\ new.client = ask[q].client /\ new.fits = ask[q].fits /\ new.proof = ask[q].proof
  BY <1>1, StepUpdates
<1>3. ASSUME NEW s \in Steps, ask' = [ask EXCEPT ![q].step = s]
      PROVE  ask' \in [Requests -> AskType] /\ (\A p \in Requests \ {q} : ask'[p] = ask[p]) /\ Stepped(q, s)
  <2>1. ask'[q] = [ask[q] EXCEPT !.step = s] /\ \A p \in Requests \ {q} : ask'[p] = ask[p]
    BY <1>1, <1>3
  <2>2. Stepped(q, s) /\ ask'[q] \in AskType
    BY <1>2, <2>1 DEF Stepped, Kept
  <2> QED
    BY <1>1, <1>3, <2>1, <2>2
<1>4. ASSUME NEW s \in Steps, NEW g \in Codes, ask' = [ask EXCEPT ![q].step = s, ![q].grant = g]
      PROVE  ask' \in [Requests -> AskType] /\ (\A p \in Requests \ {q} : ask'[p] = ask[p]) /\ Took(q, s, g)
  <2>1. ask'[q] = [ask[q] EXCEPT !.step = s, !.grant = g] /\ \A p \in Requests \ {q} : ask'[p] = ask[p]
    BY <1>1, <1>4
  <2>2. LET got == [ask[q] EXCEPT !.step = s, !.grant = g] IN
          /\ got \in AskType /\ got.step = s /\ got.grant = g /\ got.uses = ask[q].uses
          /\ got.client = ask[q].client /\ got.fits = ask[q].fits /\ got.proof = ask[q].proof
    BY <1>1 DEF AskType
  <2>3. Took(q, s, g) /\ ask'[q] \in AskType
    BY <2>1, <2>2 DEF Took, Kept
  <2> QED
    BY <1>1, <1>4, <2>1, <2>3
<1>5. \A s \in Consumed \cup {"refused"} : s \in Steps
  BY DEF Steps
<1>6. CASE AskWithCode(q)
  <2>1. PICK client \in Clients, c \in Codes, fits \in BOOLEAN, proof \in BOOLEAN :
          /\ codes[c] # Nothing
          /\ ask' = [ask EXCEPT ![q] = [Silent EXCEPT !.step = "consume", !.client = client,
                                        !.uses = c, !.fits = fits, !.proof = proof]]
    BY <1>6 DEF AskWithCode
  <2> DEFINE new == [Silent EXCEPT !.step = "consume", !.client = client,
                                   !.uses = c, !.fits = fits, !.proof = proof]
  <2>2. new \in AskType /\ new.step = "consume" /\ new.uses = c /\ new.grant = Nothing
    BY DEF AskType, Steps, Silent
  <2>3. ask' = [ask EXCEPT ![q] = new]
    BY <2>1
  <2> HIDE DEF new
  <2>4. ask'[q] = new /\ (\A p \in Requests \ {q} : ask'[p] = ask[p]) /\ ask' \in [Requests -> AskType]
    BY <1>1, <2>2, <2>3
  <2> QED
    BY <1>6, <2>1, <2>2, <2>4 DEF Moved, AskWithCode
<1>14. CASE AskWithRefresh(q)
  <2>1. PICK client \in Clients, r \in Requests :
          /\ refresh[r] # Nothing
          /\ ask' = [ask EXCEPT ![q] = [Silent EXCEPT !.step = "rotate", !.client = client, !.uses = r]]
    BY <1>14 DEF AskWithRefresh
  <2> DEFINE new == [Silent EXCEPT !.step = "rotate", !.client = client, !.uses = r]
  <2>2. new \in AskType /\ new.step = "rotate" /\ new.uses = r /\ new.grant = Nothing
    BY DEF AskType, Steps, Silent
  <2>3. ask' = [ask EXCEPT ![q] = new]
    BY <2>1
  <2> HIDE DEF new
  <2>4. ask'[q] = new /\ (\A p \in Requests \ {q} : ask'[p] = ask[p]) /\ ask' \in [Requests -> AskType]
    BY <1>1, <2>2, <2>3
  <2> QED
    BY <1>14, <2>1, <2>2, <2>4 DEF Moved, AskWithRefresh
<1>7. CASE ConsumeCode(q)
  <2>1. ask[q].uses \in Codes
    BY <1>1, <1>7 DEF ConsumeCode, Presented
  <2>2. CASE codes[ask[q].uses].used
    BY <1>3, <1>5, <1>7, <2>2 DEF ConsumeCode, Refused, Moved
  <2>3. CASE ~codes[ask[q].uses].used
    BY <1>4, <1>5, <1>7, <2>1, <2>3 DEF ConsumeCode, Moved, Consumed
  <2> QED
    BY <2>2, <2>3
<1>8. CASE CheckCode(q)
  <2>1. ask' = [ask EXCEPT ![q].step = "access"] \/ ask' = [ask EXCEPT ![q].step = "refused"]
    BY <1>8 DEF CheckCode, AskStep, Refused
  <2>2. CASE ask' = [ask EXCEPT ![q].step = "refused"]
    BY <1>3, <1>5, <1>8, <2>2 DEF CheckCode, Moved
  <2>3. CASE ask' # [ask EXCEPT ![q].step = "refused"]
    BY <1>3, <1>5, <1>8, <2>3 DEF CheckCode, AskStep, Refused, Moved, Consumed
  <2> QED
    BY <2>2, <2>3
<1>9. CASE Rotate(q)
  <2>1. ask[q].uses \in Requests /\ refresh[ask[q].uses] # Nothing
    BY <1>1, <1>9 DEF Rotate, Presented
  <2>2. refresh[ask[q].uses].grant \in Codes
    BY <1>1, <2>1 DEF TokenRow
  <2>3. CASE refresh[ask[q].uses].revoked
    BY <1>3, <1>5, <1>9, <2>3 DEF Rotate, Refused, Moved
  <2>4. CASE ~refresh[ask[q].uses].revoked
    BY <1>4, <1>5, <1>9, <2>2, <2>4 DEF Rotate, Moved, Consumed
  <2> QED
    BY <2>3, <2>4
<1>10. CASE CheckRefresh(q)
  <2>1. CASE ask' = [ask EXCEPT ![q].step = "refused"]
    BY <1>3, <1>5, <1>10, <2>1 DEF CheckRefresh, Moved
  <2>2. CASE ask' # [ask EXCEPT ![q].step = "refused"]
    BY <1>3, <1>5, <1>10, <2>2 DEF CheckRefresh, AskStep, Refused, Moved, Consumed
  <2> QED
    BY <2>1, <2>2
<1>11. CASE StoreAccess(q)
  BY <1>3, <1>5, <1>11 DEF StoreAccess, AskStep, Moved, Consumed
<1>12. CASE StoreRefresh(q)
  BY <1>3, <1>5, <1>12 DEF StoreRefresh, AskStep, Moved, Consumed
<1>13. CASE AskDies(q)
  BY <1>3, <1>5, <1>13 DEF AskDies, Moved, Consumed
<1> QED
  BY <1>6, <1>7, <1>8, <1>9, <1>10, <1>11, <1>12, <1>13, <1>14 DEF Asks

----------------------------------------------------------------------------
(* What no step undoes.                                                    *)

Grows ==
    /\ \A c \in Codes : codes[c] # Nothing =>
          /\ codes'[c] # Nothing /\ codes'[c].client = codes[c].client
          /\ codes[c].used => codes'[c].used
    /\ \A q \in Requests : access[q] # Nothing =>
          /\ access'[q] # Nothing
          /\ access'[q].client = access[q].client /\ access'[q].grant = access[q].grant
    /\ \A q \in Requests : refresh[q] # Nothing =>
          /\ refresh'[q] # Nothing
          /\ refresh'[q].client = refresh[q].client /\ refresh'[q].grant = refresh[q].grant
          /\ refresh[q].revoked => refresh'[q].revoked

\* No token appears for p.
NoneAppears(p) == (access[p] = Nothing => access'[p] = Nothing) /\ (refresh[p] = Nothing => refresh'[p] = Nothing)

Claims == \A p \in Requests : ask[p].grant \in Codes => ask'[p].grant = ask[p].grant /\ Kept(p)

LEMMA TablesTyped ==
    ASSUME OAuthInv
    PROVE  /\ codes \in [Codes -> CodeRow \cup {Nothing}]
           /\ access \in [Requests -> TokenRow \cup {Nothing}]
           /\ refresh \in [Requests -> TokenRow \cup {Nothing}]
           /\ ask \in [Requests -> AskType]
           /\ Nothing \notin CodeRow /\ Nothing \notin TokenRow /\ Nothing \notin Codes
  BY NothingIsNoRow, NamesDiffer DEF OAuthInv, Typed

LEMMA FreshTyped ==
    ASSUME NEW client \in Clients, NEW g \in Codes
    PROVE  /\ Fresh(client, g) \in TokenRow /\ Fresh(client, g).client = client
           /\ Fresh(client, g).grant = g /\ Fresh(client, g).revoked = FALSE
  BY DEF Fresh, TokenRow

\* The steps of a request.
LEMMA AskRows ==
    ASSUME OAuthInv, NEW q \in Requests, Asks(q)
    PROVE  Typed' /\ Grows /\ Claims /\ \A p \in Requests \ {q} : NoneAppears(p)
<1>1. /\ ask' \in [Requests -> AskType] /\ \A p \in Requests \ {q} : ask'[p] = ask[p]
      /\ Moved(q)
  BY AskMoves
<1>2. /\ codes \in [Codes -> CodeRow \cup {Nothing}]
      /\ access \in [Requests -> TokenRow \cup {Nothing}]
      /\ refresh \in [Requests -> TokenRow \cup {Nothing}]
      /\ ask \in [Requests -> AskType]
      /\ Nothing \notin CodeRow /\ Nothing \notin TokenRow /\ Nothing \notin Codes
  BY TablesTyped
<1>3. Presented(q) /\ Issued(q)
  BY DEF OAuthInv
<1>4. Claims
  BY <1>1, <1>2, <1>3 DEF Claims, Moved, Stepped, Took, Kept, Presented
<1>5. CASE UNCHANGED <<codes, access, refresh>>
  BY <1>1, <1>2, <1>4, <1>5 DEF Typed, Grows, NoneAppears
<1>6. CASE /\ ask[q].step = "consume" /\ codes' = [codes EXCEPT ![ask[q].uses].used = TRUE]
           /\ UNCHANGED <<access, refresh>>
  <2>1. ask[q].uses \in Codes /\ codes[ask[q].uses] \in CodeRow
    BY <1>2, <1>3, <1>6 DEF Presented
  <2>2. /\ codes'[ask[q].uses] = [codes[ask[q].uses] EXCEPT !.used = TRUE]
        /\ \A c \in Codes \ {ask[q].uses} : codes'[c] = codes[c]
    BY <1>2, <1>6, <2>1
  <2>3. /\ codes'[ask[q].uses] \in CodeRow /\ codes'[ask[q].uses].client = codes[ask[q].uses].client
        /\ codes[ask[q].uses].used => codes'[ask[q].uses].used
    BY <2>1, <2>2, CodeUpdates
  <2>4. codes' \in [Codes -> CodeRow \cup {Nothing}]
    BY <1>2, <1>6, <2>2, <2>3
  <2> QED
    BY <1>1, <1>2, <1>4, <1>6, <2>1, <2>2, <2>3, <2>4 DEF Typed, Grows, NoneAppears
<1>7. CASE /\ ask[q].step = "rotate" /\ refresh' = [refresh EXCEPT ![ask[q].uses].revoked = TRUE]
           /\ UNCHANGED <<codes, access>>
  <2> DEFINE r == ask[q].uses
  <2>1. r \in Requests /\ refresh[r] \in TokenRow
    BY <1>2, <1>3, <1>7 DEF Presented
  <2>2. /\ refresh'[r] = [refresh[r] EXCEPT !.revoked = TRUE]
        /\ \A p \in Requests \ {r} : refresh'[p] = refresh[p]
    BY <1>2, <1>7, <2>1
  <2>3. /\ refresh'[r] \in TokenRow
        /\ refresh'[r].client = refresh[r].client /\ refresh'[r].grant = refresh[r].grant
        /\ refresh[r].revoked => refresh'[r].revoked
    BY <2>1, <2>2, TokenUpdates
  <2>4. refresh' \in [Requests -> TokenRow \cup {Nothing}]
    BY <1>2, <1>7, <2>2, <2>3
  <2> HIDE DEF r
  <2>5. Typed'
    BY <1>1, <1>2, <1>7, <2>4 DEF Typed
  <2>6. Grows
    BY <1>2, <1>7, <2>1, <2>2, <2>3 DEF Grows
  <2>7. \A p \in Requests \ {q} : NoneAppears(p)
    BY <1>2, <1>7, <2>1, <2>2 DEF NoneAppears
  <2> QED
    BY <1>4, <2>5, <2>6, <2>7
<1>8. CASE /\ ask[q].step = "access" /\ access' = [access EXCEPT ![q] = Fresh(ask[q].client, ask[q].grant)]
           /\ UNCHANGED <<codes, refresh>>
  <2>1. /\ Fresh(ask[q].client, ask[q].grant) \in TokenRow
        /\ access[q] = Nothing
    <3>1. ask[q].grant \in Codes /\ codes[ask[q].grant] \in CodeRow /\ ask[q].client = codes[ask[q].grant].client
      BY <1>2, <1>3, <1>8 DEF Issued, Descends, UsedUp
    <3>2. ask[q].client \in Clients
      BY <3>1 DEF CodeRow
    <3>3. Fresh(ask[q].client, ask[q].grant) \in TokenRow
      BY <3>1, <3>2, FreshTyped
    <3> QED
      BY <1>3, <1>8, <3>3 DEF Issued
  <2>2. access' \in [Requests -> TokenRow \cup {Nothing}] /\ \A p \in Requests \ {q} : access'[p] = access[p]
    BY <1>2, <1>8, <2>1
  <2> QED
    BY <1>1, <1>2, <1>4, <1>8, <2>1, <2>2 DEF Typed, Grows, NoneAppears
<1>9. CASE /\ ask[q].step = "refresh" /\ refresh' = [refresh EXCEPT ![q] = Fresh(ask[q].client, ask[q].grant)]
           /\ UNCHANGED <<codes, access>>
  <2>1. /\ Fresh(ask[q].client, ask[q].grant) \in TokenRow
        /\ refresh[q] = Nothing
    <3>1. ask[q].grant \in Codes /\ codes[ask[q].grant] \in CodeRow /\ ask[q].client = codes[ask[q].grant].client
      BY <1>2, <1>3, <1>9 DEF Issued, Descends, UsedUp
    <3>2. ask[q].client \in Clients
      BY <3>1 DEF CodeRow
    <3>3. Fresh(ask[q].client, ask[q].grant) \in TokenRow
      BY <3>1, <3>2, FreshTyped
    <3> QED
      BY <1>3, <1>9, <3>3 DEF Issued
  <2>2. refresh' \in [Requests -> TokenRow \cup {Nothing}] /\ \A p \in Requests \ {q} : refresh'[p] = refresh[p]
    BY <1>2, <1>9, <2>1
  <2> QED
    BY <1>1, <1>2, <1>4, <1>9, <2>1, <2>2 DEF Typed, Grows, NoneAppears
<1> QED
  BY <1>1, <1>5, <1>6, <1>7, <1>8, <1>9 DEF Moved

\* New codes, revocation and time.
LEMMA OutsideRows ==
    ASSUME OAuthInv, Outside
    PROVE  Typed' /\ Grows /\ Claims /\ ask' = ask /\ \A p \in Requests : NoneAppears(p)
<1>1. /\ codes \in [Codes -> CodeRow \cup {Nothing}]
      /\ access \in [Requests -> TokenRow \cup {Nothing}]
      /\ refresh \in [Requests -> TokenRow \cup {Nothing}]
      /\ ask \in [Requests -> AskType]
      /\ Nothing \notin CodeRow /\ Nothing \notin TokenRow /\ Nothing \notin Codes
  BY TablesTyped
<1>2. ask' = ask
  BY DEF Outside, AuthorizeCode, Revoke, Expire
<1>3. Claims
  BY <1>2 DEF Claims, Kept
<1>4. ASSUME NEW c \in Codes, AuthorizeCode(c)
      PROVE  Typed' /\ Grows /\ \A p \in Requests : NoneAppears(p)
  <2>1. PICK client \in Clients : codes' = [codes EXCEPT ![c] = [client |-> client, used |-> FALSE, expired |-> FALSE]]
    BY <1>4 DEF AuthorizeCode
  <2>2. [client |-> client, used |-> FALSE, expired |-> FALSE] \in CodeRow
    BY DEF CodeRow
  <2> QED
    BY <1>1, <1>2, <1>4, <2>1, <2>2 DEF AuthorizeCode, Typed, Grows, NoneAppears
<1>5. ASSUME NEW q \in Requests, access[q] # Nothing, NEW row,
             row = [access[q] EXCEPT !.revoked = TRUE] \/ row = [access[q] EXCEPT !.expired = TRUE],
             access' = [access EXCEPT ![q] = row], UNCHANGED <<codes, refresh>>
      PROVE  Typed' /\ Grows /\ \A p \in Requests : NoneAppears(p)
  <2>1. access[q] \in TokenRow
    BY <1>1, <1>5
  <2>2. row \in TokenRow /\ row.client = access[q].client /\ row.grant = access[q].grant
    BY <1>5, <2>1, TokenUpdates
  <2>3. access'[q] = row /\ \A p \in Requests \ {q} : access'[p] = access[p]
    BY <1>1, <1>5
  <2>4. access' \in [Requests -> TokenRow \cup {Nothing}]
    BY <1>1, <1>5, <2>2
  <2>5. Typed'
    BY <1>1, <1>2, <1>5, <2>4 DEF Typed
  <2>6. Grows
    BY <1>1, <1>5, <2>2, <2>3 DEF Grows
  <2>7. \A p \in Requests : NoneAppears(p)
    BY <1>5, <2>3 DEF NoneAppears
  <2> QED
    BY <2>5, <2>6, <2>7
<1>6. ASSUME NEW q \in Requests, refresh[q] # Nothing, NEW row,
             row = [refresh[q] EXCEPT !.revoked = TRUE] \/ row = [refresh[q] EXCEPT !.expired = TRUE],
             refresh' = [refresh EXCEPT ![q] = row], UNCHANGED <<codes, access>>
      PROVE  Typed' /\ Grows /\ \A p \in Requests : NoneAppears(p)
  <2>1. refresh[q] \in TokenRow
    BY <1>1, <1>6
  <2>2. /\ row \in TokenRow /\ row.client = refresh[q].client /\ row.grant = refresh[q].grant
        /\ refresh[q].revoked => row.revoked
    BY <1>6, <2>1, TokenUpdates
  <2>3. refresh'[q] = row /\ \A p \in Requests \ {q} : refresh'[p] = refresh[p]
    BY <1>1, <1>6
  <2>4. refresh' \in [Requests -> TokenRow \cup {Nothing}]
    BY <1>1, <1>6, <2>2
  <2>5. Typed'
    BY <1>1, <1>2, <1>6, <2>4 DEF Typed
  <2>6. Grows
    BY <1>1, <1>6, <2>2, <2>3 DEF Grows
  <2>7. \A p \in Requests : NoneAppears(p)
    BY <1>6, <2>3 DEF NoneAppears
  <2> QED
    BY <2>5, <2>6, <2>7
<1>7. ASSUME NEW c \in Codes, codes[c] # Nothing, NEW row, row = [codes[c] EXCEPT !.expired = TRUE],
             codes' = [codes EXCEPT ![c] = row], UNCHANGED <<access, refresh>>
      PROVE  Typed' /\ Grows /\ \A p \in Requests : NoneAppears(p)
  <2>1. row \in CodeRow /\ row.client = codes[c].client /\ (codes[c].used => row.used)
    BY <1>1, <1>7, CodeUpdates
  <2>2. codes'[c] = row /\ \A d \in Codes \ {c} : codes'[d] = codes[d]
    BY <1>1, <1>7
  <2>3. codes' \in [Codes -> CodeRow \cup {Nothing}]
    BY <1>1, <1>7, <2>1
  <2>4. Typed'
    BY <1>1, <1>2, <1>7, <2>3 DEF Typed
  <2>5. Grows
    BY <1>1, <1>7, <2>1, <2>2 DEF Grows
  <2> QED
    BY <1>7, <2>4, <2>5 DEF NoneAppears
<1>8. ASSUME NEW q \in Requests, Revoke(q)
      PROVE  Typed' /\ Grows /\ \A p \in Requests : NoneAppears(p)
  <2>1. CASE access[q] # Nothing /\ access' = [access EXCEPT ![q].revoked = TRUE] /\ UNCHANGED refresh
    <3>1. access' = [access EXCEPT ![q] = [access[q] EXCEPT !.revoked = TRUE]]
      BY <2>1
    <3> QED
      BY <1>5, <1>8, <2>1, <3>1 DEF Revoke
  <2>2. CASE refresh[q] # Nothing /\ refresh' = [refresh EXCEPT ![q].revoked = TRUE] /\ UNCHANGED access
    <3>1. refresh' = [refresh EXCEPT ![q] = [refresh[q] EXCEPT !.revoked = TRUE]]
      BY <2>2
    <3> QED
      BY <1>6, <1>8, <2>2, <3>1 DEF Revoke
  <2> QED
    BY <1>8, <2>1, <2>2 DEF Revoke
<1>9. ASSUME Expire
      PROVE  Typed' /\ Grows /\ \A p \in Requests : NoneAppears(p)
  <2>1. CASE /\ \E c \in Codes : codes[c] # Nothing /\ codes' = [codes EXCEPT ![c].expired = TRUE]
             /\ UNCHANGED <<access, refresh>>
    <3>1. PICK c \in Codes : codes[c] # Nothing /\ codes' = [codes EXCEPT ![c] = [codes[c] EXCEPT !.expired = TRUE]]
      BY <2>1
    <3> QED
      BY <1>7, <2>1, <3>1
  <2>2. CASE /\ \E q \in Requests : access[q] # Nothing /\ access' = [access EXCEPT ![q].expired = TRUE]
             /\ UNCHANGED <<codes, refresh>>
    <3>1. PICK q \in Requests : access[q] # Nothing /\ access' = [access EXCEPT ![q] = [access[q] EXCEPT !.expired = TRUE]]
      BY <2>2
    <3> QED
      BY <1>5, <2>2, <3>1
  <2>3. CASE /\ \E q \in Requests : refresh[q] # Nothing /\ refresh' = [refresh EXCEPT ![q].expired = TRUE]
             /\ UNCHANGED <<codes, access>>
    <3>1. PICK q \in Requests : refresh[q] # Nothing /\ refresh' = [refresh EXCEPT ![q] = [refresh[q] EXCEPT !.expired = TRUE]]
      BY <2>3
    <3> QED
      BY <1>6, <2>3, <3>1
  <2> QED
    BY <1>9, <2>1, <2>2, <2>3 DEF Expire
<1> QED
  BY <1>2, <1>3, <1>4, <1>8, <1>9 DEF Outside

----------------------------------------------------------------------------
(* Whoever does not move keeps his part of the invariant.                  *)

LEMMA DescendsStays ==
    ASSUME Grows, Claims, NEW c, NEW client, Descends(c, client)
    PROVE  Descends(c, client)'
<1>1. PICK q \in Requests : Right(q, c)
  BY DEF Descends
<1>2. codes'[c] # Nothing /\ codes'[c].client = codes[c].client /\ codes'[c].used
  BY DEF Grows, Descends, UsedUp
<1>3. ask'[q].grant = ask[q].grant /\ Kept(q)
  BY <1>1 DEF Claims, Right, Descends
<1>4. Right(q, c)'
  BY <1>1, <1>2, <1>3 DEF Right, Kept
<1> QED
  BY <1>2, <1>4 DEF Descends, UsedUp

LEMMA Bystander ==
    ASSUME OAuthInv, Grows, Claims, NEW p \in Requests, ask'[p] = ask[p], NoneAppears(p)
    PROVE  Presented(p)' /\ Issued(p)'
<1>1. Presented(p) /\ Issued(p)
  BY DEF OAuthInv
<1>2. Presented(p)'
  <2>1. \A c \in Codes : UsedUp(c) => UsedUp(c)'
    BY DEF Grows, UsedUp
  <2>2. PICK g : g = ask[p].grant
    OBVIOUS
  <2>3. g \in Codes => UsedUp(g)'
    BY <1>1, <2>1, <2>2 DEF Presented
  <2>4. (ask[p].grant \in Codes => UsedUp(ask[p].grant))'
    BY <2>2, <2>3 DEF UsedUp
  <2> QED
    BY <1>1, <2>4 DEF Presented, Grows
<1>3. Issued(p)'
  <2>1. \A c, client : Descends(c, client) => Descends(c, client)'
    BY DescendsStays
  <2>2. PICK g, client : g = ask[p].grant /\ client = ask[p].client
    OBVIOUS
  <2>3. (ask[p].step \in {"access", "refresh"} => Descends(ask[p].grant, ask[p].client))'
    BY <1>1, <2>1, <2>2 DEF Issued, Descends, UsedUp, Right
  <2>4. PICK ag, ac : ag = access[p].grant /\ ac = access[p].client
    OBVIOUS
  <2>5. (access[p] # Nothing => Descends(access[p].grant, access[p].client))'
    BY <1>1, <2>1, <2>4 DEF Issued, Descends, UsedUp, Right, NoneAppears, Grows
  <2>6. PICK rg, rc : rg = refresh[p].grant /\ rc = refresh[p].client
    OBVIOUS
  <2>7. (refresh[p] # Nothing => Descends(refresh[p].grant, refresh[p].client))'
    BY <1>1, <2>1, <2>6 DEF Issued, Descends, UsedUp, Right, NoneAppears, Grows
  <2> QED
    BY <1>1, <2>3, <2>5, <2>7 DEF Issued, NoneAppears
<1> QED
  BY <1>2, <1>3

LEMMA BystanderClaims ==
    ASSUME Grows, NEW p \in Requests, ask'[p] = ask[p], NoneAppears(p), NEW c \in Codes
    PROVE  (p \in Presenters(c)' => p \in Presenters(c)) /\ (Live(p, c)' => Live(p, c))
  BY DEF Presenters, Live, Beyond, NoneAppears, Grows

----------------------------------------------------------------------------
(* The request that moves.                                                 *)

\* A code that is not used up has no presenter and no live token.
LEMMA UnusedIsUnclaimed ==
    ASSUME OAuthInv, NEW c \in Codes, ~UsedUp(c), NEW p \in Requests
    PROVE  p \notin Presenters(c) /\ ~Live(p, c)
  BY DEF OAuthInv, Presented, Issued, Descends, Presenters, Live

\* It presents a code nobody has, and what it comes to hold live is new or was its own.
LEMMA MoverClaims ==
    ASSUME OAuthInv, NEW q \in Requests, Asks(q), NEW c \in Codes, NEW p \in Requests \ {q}
    PROVE  /\ ~(q \in Presenters(c)' /\ p \in Presenters(c))
           /\ ~(Live(q, c)' /\ Live(p, c)')
<1>1. /\ \A r \in Requests \ {q} : ask'[r] = ask[r]
      /\ Moved(q)
  BY AskMoves
<1>2. /\ codes \in [Codes -> CodeRow \cup {Nothing}]
      /\ access \in [Requests -> TokenRow \cup {Nothing}]
      /\ refresh \in [Requests -> TokenRow \cup {Nothing}]
      /\ ask \in [Requests -> AskType]
      /\ Nothing \notin CodeRow /\ Nothing \notin TokenRow /\ Nothing \notin Codes
  BY TablesTyped
<1>3. Presented(q) /\ Issued(q) /\ OnePresenter(c, q, p) /\ OneLive(c, q, p)
  BY DEF OAuthInv
<1>4. Typed' /\ Grows /\ Claims /\ NoneAppears(p)
  BY AskRows
<1>5. Live(p, c)' => Live(p, c)
  BY <1>1, <1>4, BystanderClaims
<1>6. CASE /\ q \in Presenters(c)' => q \in Presenters(c)
           /\ Live(q, c)' => Live(q, c)
  BY <1>3, <1>5, <1>6 DEF OnePresenter, OneLive
<1>7. CASE /\ ConsumeCode(q) /\ ask[q].step = "consume" /\ ~codes[ask[q].uses].used
           /\ Took(q, "check", ask[q].uses) /\ UNCHANGED <<access, refresh>>
  <2>1. CASE c = ask[q].uses
    BY <1>5, <1>7, <2>1, UnusedIsUnclaimed DEF UsedUp
  <2>2. CASE c # ask[q].uses
    <3>1. ask'[q].grant # c
      BY <1>7, <2>2 DEF Took
    <3>2. q \notin Presenters(c)'
      BY <3>1 DEF Presenters
    <3>3. Live(q, c)' => Live(q, c)
      BY <1>7, <3>1 DEF Live, Beyond
    <3> QED
      BY <1>6, <3>2, <3>3
  <2> QED
    BY <2>1, <2>2
<1>8. CASE /\ Rotate(q) /\ ask[q].step = "rotate" /\ ~refresh[ask[q].uses].revoked
           /\ refresh' = [refresh EXCEPT ![ask[q].uses].revoked = TRUE]
           /\ Took(q, "belongs", refresh[ask[q].uses].grant) /\ UNCHANGED <<codes, access>>
  <2>1. PICK r \in Requests : r = ask[q].uses /\ refresh[r] # Nothing
    BY <1>3, <1>8 DEF Presented
  <2>2. q \notin Presenters(c)'
    BY <1>8, <2>1, NamesDiffer DEF Presenters, Took, Kept
  <2>3. ask[r].step = "done"
    BY <2>1 DEF OAuthInv, Issued
  <2>4. r # q
    BY <1>8, <2>3
  <2>5. CASE c = refresh[r].grant
    <3>1. Live(r, c)
      BY <1>8, <2>1, <2>5 DEF Live
    <3>2. Live(p, c) => p = r
      BY <3>1 DEF OAuthInv, OneLive
    <3>3. ask'[r] = ask[r]
      BY <1>1, <2>4
    <3>4. refresh[r] \in TokenRow
      BY <1>2, <2>1
    <3>5. refresh'[r] = [refresh[r] EXCEPT !.revoked = TRUE]
      BY <1>2, <1>8, <2>1
    <3>6. refresh'[r].revoked
      BY <3>4, <3>5 DEF TokenRow
    <3>7. ~Live(r, c)'
      BY <2>3, <3>3, <3>6 DEF Live
    <3> QED
      BY <1>5, <2>2, <3>2, <3>7
  <2>6. CASE c # refresh[r].grant
    <3>1. ask'[q].grant # c
      BY <1>8, <2>1, <2>6 DEF Took
    <3>2. refresh'[q] = refresh[q]
      BY <1>2, <1>8, <2>1, <2>4
    <3>3. Live(q, c)' => Live(q, c)
      BY <3>1, <3>2 DEF Live, Beyond
    <3> QED
      BY <1>6, <2>2, <3>3
  <2> QED
    BY <2>5, <2>6
<1>9. CASE /\ ask[q].step = "refresh" /\ Stepped(q, "done")
           /\ refresh' = [refresh EXCEPT ![q] = Fresh(ask[q].client, ask[q].grant)]
  <2>1. refresh'[q] = Fresh(ask[q].client, ask[q].grant)
    BY <1>2, <1>9
  <2>2. refresh'[q].grant = ask[q].grant
    BY <2>1 DEF Fresh
  <2>3. Live(q, c)' => Live(q, c)
    BY <1>9, <2>2 DEF Live, Beyond, Stepped
  <2>4. q \in Presenters(c)' => q \in Presenters(c)
    BY <1>9 DEF Presenters, Stepped, Kept
  <2> QED
    BY <1>6, <2>3, <2>4
<1>10. CASE ask'[q].grant = Nothing /\ UNCHANGED refresh
  BY <1>2, <1>6, <1>10 DEF Presenters, Live
<1>11. CASE /\ ask[q].step \in {"consume", "check", "rotate", "belongs"} /\ Stepped(q, "refused")
            /\ UNCHANGED refresh
  BY <1>6, <1>11 DEF Presenters, Live, Beyond, Stepped, Kept
<1>12. CASE /\ ask[q].step \in {"check", "belongs", "access", "refresh"} /\ UNCHANGED refresh
            /\ \E s \in {"access", "refresh", "died"} : Stepped(q, s)
  BY <1>6, <1>12 DEF Presenters, Live, Beyond, Stepped, Kept
<1> QED
  BY <1>1, <1>7, <1>8, <1>9, <1>10, <1>11, <1>12 DEF Moved

\* It presents what exists, and stores what descends from the one right request.
LEMMA MoverKeeps ==
    ASSUME OAuthInv, NEW q \in Requests, Asks(q)
    PROVE  Presented(q)' /\ Issued(q)'
<1>1. Moved(q)
  BY AskMoves
<1>2. /\ codes \in [Codes -> CodeRow \cup {Nothing}]
      /\ access \in [Requests -> TokenRow \cup {Nothing}]
      /\ refresh \in [Requests -> TokenRow \cup {Nothing}]
      /\ ask \in [Requests -> AskType]
      /\ Nothing \notin CodeRow /\ Nothing \notin TokenRow /\ Nothing \notin Codes
  BY TablesTyped
<1>3. Presented(q) /\ Issued(q)
  BY DEF OAuthInv
<1>4. Typed' /\ Grows /\ Claims
  BY AskRows
<1>5. \A c, client : Descends(c, client) => Descends(c, client)'
  BY <1>4, DescendsStays
<1>6. \A c \in Codes : UsedUp(c) => UsedUp(c)'
  BY <1>4 DEF Grows, UsedUp
<1>7. PICK g, client : g = ask[q].grant /\ client = ask[q].client
  OBVIOUS
<1>8. CASE ask'[q].grant = Nothing /\ ask[q].step = "idle" /\ ask'[q].step \in {"consume", "rotate"}
           /\ UNCHANGED <<codes, access, refresh>>
  <2>1. Presented(q)'
    BY <1>1, <1>2, <1>8 DEF Moved, Presented, Stepped
  <2> QED
    BY <1>3, <1>8, <2>1 DEF Issued
<1>9. CASE /\ ConsumeCode(q) /\ ask[q].step = "consume"
           /\ codes' = [codes EXCEPT ![ask[q].uses].used = TRUE]
           /\ Took(q, "check", ask[q].uses) /\ UNCHANGED <<access, refresh>>
  <2>1. PICK c \in Codes : c = ask[q].uses /\ codes[c] \in CodeRow
    BY <1>2, <1>3, <1>9 DEF Presented
  <2>2. codes'[c] = [codes[c] EXCEPT !.used = TRUE]
    BY <1>2, <1>9, <2>1
  <2>3. codes'[c].used /\ codes'[c] # Nothing
    BY <1>4, <2>1, <2>2, <1>2 DEF CodeRow, Grows
  <2>4. Presented(q)'
    BY <1>9, <2>1, <2>3 DEF Presented, Took, Kept, UsedUp
  <2> QED
    BY <1>3, <1>9, <2>4 DEF Issued, Took
<1>10. CASE /\ Rotate(q) /\ ask[q].step = "rotate"
            /\ refresh' = [refresh EXCEPT ![ask[q].uses].revoked = TRUE]
            /\ Took(q, "belongs", refresh[ask[q].uses].grant) /\ UNCHANGED <<codes, access>>
  <2>1. PICK r \in Requests : r = ask[q].uses /\ refresh[r] # Nothing
    BY <1>3, <1>10 DEF Presented
  <2>2. PICK rg, rc : rg = refresh[r].grant /\ rc = refresh[r].client
    OBVIOUS
  <2>3. Descends(rg, rc) /\ ask[r].step = "done"
    BY <2>1, <2>2 DEF OAuthInv, Issued
  <2>4. rg \in Codes /\ UsedUp(rg)'
    BY <1>6, <2>3 DEF Descends
  <2>5. refresh'[r] # Nothing /\ refresh'[r].grant = rg
    BY <1>4, <2>1, <2>2 DEF Grows
  <2>6. ask'[q].grant = rg /\ ask'[q].uses = r /\ ask'[q].step = "belongs"
    BY <1>10, <2>1, <2>2 DEF Took, Kept
  <2>7. Presented(q)'
    BY <2>1, <2>4, <2>5, <2>6 DEF Presented, UsedUp
  <2>8. refresh'[q] = refresh[q]
    BY <1>2, <1>10, <2>1, <2>3
  <2> QED
    BY <1>3, <1>10, <2>6, <2>7, <2>8 DEF Issued
<1>11. CASE \E s \in {"refused", "access", "refresh", "died", "done"} :
              /\ ask[q].step \notin {"idle", "done", "died"} /\ Stepped(q, s)
              /\ s \in {"access", "refresh"} => g \in Codes
  <2>1. PICK s \in {"refused", "access", "refresh", "died", "done"} :
              /\ ask[q].step \notin {"idle", "done", "died"} /\ Stepped(q, s)
              /\ s \in {"access", "refresh"} => g \in Codes
    BY <1>11
  <2>2. g \in Codes => UsedUp(g)'
    BY <1>3, <1>6, <1>7 DEF Presented
  <2>3. ask'[q].step = s /\ ask'[q].grant = g
    BY <1>7, <2>1 DEF Stepped
  <2>4. Presented(q)'
    BY <2>1, <2>2, <2>3 DEF Presented, UsedUp
  <2>5. CASE /\ ask[q].step = "check" /\ s = "access" /\ ask[q].fits /\ ask[q].proof
             /\ codes[ask[q].grant].client = ask[q].client /\ UNCHANGED <<codes, access, refresh>>
    <3>1. Right(q, g) /\ Descends(g, client)
      BY <1>3, <1>7, <2>5 DEF Right, Descends, Presented
    <3>2. Descends(g, client)'
      BY <1>5, <3>1
    <3>3. (Descends(ask[q].grant, ask[q].client))'
      BY <1>7, <2>1, <3>2 DEF Descends, UsedUp, Right, Stepped, Kept
    <3> QED
      BY <1>3, <2>3, <2>4, <2>5, <3>3 DEF Issued
  <2>6. CASE /\ ask[q].step = "belongs" /\ s = "access"
             /\ refresh[ask[q].uses].client = ask[q].client /\ UNCHANGED <<codes, access, refresh>>
    <3>1. PICK r \in Requests : r = ask[q].uses /\ refresh[r] # Nothing /\ refresh[r].grant = g
      BY <1>3, <1>7, <2>6 DEF Presented
    <3>2. Descends(g, client)
      BY <1>7, <2>6, <3>1 DEF OAuthInv, Issued
    <3>3. Descends(g, client)'
      BY <1>5, <3>2
    <3>4. (Descends(ask[q].grant, ask[q].client))'
      BY <1>7, <2>1, <3>3 DEF Descends, UsedUp, Right, Stepped, Kept
    <3> QED
      BY <1>3, <2>3, <2>4, <2>6, <3>4 DEF Issued
  <2>7. CASE /\ ask[q].step = "access" /\ s = "refresh"
             /\ access' = [access EXCEPT ![q] = Fresh(ask[q].client, ask[q].grant)]
             /\ UNCHANGED <<codes, refresh>>
    <3>1. Descends(g, client)'
      BY <1>3, <1>5, <1>7, <2>7 DEF Issued
    <3>2. access'[q] = Fresh(client, g)
      BY <1>2, <1>7, <2>7
    <3>3. access'[q].grant = g /\ access'[q].client = client
      BY <3>2 DEF Fresh
    <3>4. (Descends(ask[q].grant, ask[q].client))'
      BY <1>7, <2>1, <3>1 DEF Descends, UsedUp, Right, Stepped, Kept
    <3>5. (Descends(access[q].grant, access[q].client))'
      BY <3>1, <3>3 DEF Descends, UsedUp, Right
    <3> QED
      BY <1>3, <2>3, <2>4, <2>7, <3>4, <3>5 DEF Issued
  <2>8. CASE /\ ask[q].step = "refresh" /\ s = "done"
             /\ refresh' = [refresh EXCEPT ![q] = Fresh(ask[q].client, ask[q].grant)]
             /\ UNCHANGED <<codes, access>>
    <3>1. Descends(g, client)'
      BY <1>3, <1>5, <1>7, <2>8 DEF Issued
    <3>2. refresh'[q] = Fresh(client, g)
      BY <1>2, <1>7, <2>8
    <3>3. refresh'[q].grant = g /\ refresh'[q].client = client
      BY <3>2 DEF Fresh
    <3>4. (Descends(refresh[q].grant, refresh[q].client))'
      BY <3>1, <3>3 DEF Descends, UsedUp, Right
    <3>5. PICK ag, ac : ag = access[q].grant /\ ac = access[q].client
      OBVIOUS
    <3>6. (access[q] # Nothing => Descends(access[q].grant, access[q].client))'
      BY <1>3, <1>5, <2>8, <3>5 DEF Issued, Descends, UsedUp, Right
    <3> QED
      BY <2>3, <2>8, <2>4, <3>4, <3>6 DEF Issued
  <2>9. CASE s \in {"refused", "died"} /\ UNCHANGED <<codes, access, refresh>>
    <3>1. PICK ag, ac : ag = access[q].grant /\ ac = access[q].client
      OBVIOUS
    <3>2. (access[q] # Nothing => Descends(access[q].grant, access[q].client))'
      BY <1>3, <1>5, <2>9, <3>1 DEF Issued, Descends, UsedUp, Right
    <3>3. refresh[q] = Nothing
      BY <1>3, <2>1 DEF Issued
    <3>4. s = "refused" => access[q] = Nothing
      BY <1>1, <1>3, <2>3 DEF Moved, Stepped, Took, Issued
    <3> QED
      BY <2>3, <2>4, <2>9, <3>2, <3>3, <3>4 DEF Issued
  <2> QED
    BY <1>1, <2>1, <2>4, <2>5, <2>6, <2>7, <2>8, <2>9 DEF Moved, Stepped, Took
<1> QED
  BY <1>1, <1>3, <1>7, <1>8, <1>9, <1>10, <1>11 DEF Moved, Presented

----------------------------------------------------------------------------
(* The invariant.                                                          *)

LEMMA OAuthStarts == OAuthInit => OAuthInv
<1> SUFFICES ASSUME OAuthInit PROVE OAuthInv
  OBVIOUS
<1>1. Silent \in AskType /\ Silent.step = "idle" /\ Silent.grant = Nothing
  BY DEF Silent, AskType, Steps
<1>2. Nothing \notin Codes
  BY NamesDiffer
<1>3. \A q \in Requests : ask[q] = Silent /\ access[q] = Nothing /\ refresh[q] = Nothing
  BY DEF OAuthInit
<1>4. Typed
  BY <1>1 DEF OAuthInit, Typed
<1>5. ASSUME NEW q \in Requests PROVE Presented(q) /\ Issued(q)
  BY <1>1, <1>2, <1>3 DEF Presented, Issued
<1>6. ASSUME NEW c \in Codes, NEW q \in Requests PROVE q \notin Presenters(c) /\ ~Live(q, c)
  BY <1>1, <1>2, <1>3 DEF Presenters, Live
<1> QED
  BY <1>4, <1>5, <1>6 DEF OAuthInv, OnePresenter, OneLive

LEMMA OAuthAsks == ASSUME OAuthInv, NEW q \in Requests, Asks(q) PROVE OAuthInv'
<1>1. Typed' /\ Grows /\ Claims /\ \A p \in Requests \ {q} : NoneAppears(p)
  BY AskRows
<1>2. \A p \in Requests \ {q} : ask'[p] = ask[p]
  BY AskMoves
<1>3. ASSUME NEW p \in Requests PROVE Presented(p)' /\ Issued(p)'
  BY <1>1, <1>2, Bystander, MoverKeeps
<1>4. ASSUME NEW c \in Codes, NEW p \in Requests, NEW r \in Requests
      PROVE  OnePresenter(c, p, r)' /\ OneLive(c, p, r)'
  <2>1. OnePresenter(c, p, r) /\ OneLive(c, p, r)
    BY DEF OAuthInv
  <2>2. CASE p = r
    BY <2>2 DEF OnePresenter, OneLive
  <2>3. CASE p # q /\ r # q
    <3>1. (p \in Presenters(c)' => p \in Presenters(c)) /\ (Live(p, c)' => Live(p, c))
      BY <1>1, <1>2, <2>3, BystanderClaims
    <3>2. (r \in Presenters(c)' => r \in Presenters(c)) /\ (Live(r, c)' => Live(r, c))
      BY <1>1, <1>2, <2>3, BystanderClaims
    <3> QED
      BY <2>1, <3>1, <3>2 DEF OnePresenter, OneLive
  <2>4. CASE p = q /\ r # q
    <3>1. r \in Presenters(c)' => r \in Presenters(c)
      BY <1>1, <1>2, <2>4, BystanderClaims
    <3>2. ~(q \in Presenters(c)' /\ r \in Presenters(c)) /\ ~(Live(q, c)' /\ Live(r, c)')
      BY <2>4, MoverClaims
    <3> QED
      BY <2>4, <3>1, <3>2 DEF OnePresenter, OneLive
  <2>5. CASE r = q /\ p # q
    <3>1. p \in Presenters(c)' => p \in Presenters(c)
      BY <1>1, <1>2, <2>5, BystanderClaims
    <3>2. ~(q \in Presenters(c)' /\ p \in Presenters(c)) /\ ~(Live(q, c)' /\ Live(p, c)')
      BY <2>5, MoverClaims
    <3> QED
      BY <2>5, <3>1, <3>2 DEF OnePresenter, OneLive
  <2> QED
    BY <2>2, <2>3, <2>4, <2>5
<1> QED
  BY <1>1, <1>3, <1>4 DEF OAuthInv

LEMMA OAuthOutside == ASSUME OAuthInv, Outside PROVE OAuthInv'
<1>1. Typed' /\ Grows /\ Claims /\ ask' = ask /\ \A p \in Requests : NoneAppears(p)
  BY OutsideRows
<1>2. ASSUME NEW p \in Requests PROVE Presented(p)' /\ Issued(p)'
  BY <1>1, Bystander
<1>3. ASSUME NEW c \in Codes, NEW p \in Requests, NEW r \in Requests
      PROVE  OnePresenter(c, p, r)' /\ OneLive(c, p, r)'
  <2>1. OnePresenter(c, p, r) /\ OneLive(c, p, r)
    BY DEF OAuthInv
  <2>2. (p \in Presenters(c)' => p \in Presenters(c)) /\ (Live(p, c)' => Live(p, c))
    BY <1>1, BystanderClaims
  <2>3. (r \in Presenters(c)' => r \in Presenters(c)) /\ (Live(r, c)' => Live(r, c))
    BY <1>1, BystanderClaims
  <2> QED
    BY <2>1, <2>2, <2>3 DEF OnePresenter, OneLive
<1> QED
  BY <1>1, <1>2, <1>3 DEF OAuthInv

LEMMA OAuthIdles == OAuthInv /\ UNCHANGED oauthVars => OAuthInv'
  BY DEF OAuthInv, oauthVars, Typed, Presented, Issued, Descends, UsedUp, Right, OnePresenter, OneLive,
         Presenters, Live, Beyond

\* Who consumed what, in every reachable state: a code that is not used up has
\* no presenter and no tokens, a refresh token that is not revoked has no
\* successor, and every token descends from the request that was right about
\* its code (consume_oauth_authorization_code and consume_oauth_refresh_token
\* run before any check).
THEOREM OAuthInvariant == OAuthSpec => []OAuthInv
<1>1. OAuthInit => OAuthInv
  BY OAuthStarts
<1>2. OAuthInv /\ [OAuthNext]_oauthVars => OAuthInv'
  <2> SUFFICES ASSUME OAuthInv, [OAuthNext]_oauthVars PROVE OAuthInv'
    OBVIOUS
  <2>1. CASE \E q \in Requests : Asks(q)
    BY <2>1, OAuthAsks
  <2>2. CASE Outside
    BY <2>2, OAuthOutside
  <2>3. CASE UNCHANGED oauthVars
    BY <2>3, OAuthIdles
  <2> QED
    BY <2>1, <2>2, <2>3 DEF OAuthNext, Asks, Outside
<1> QED
  BY <1>1, <1>2, PTL DEF OAuthSpec

----------------------------------------------------------------------------
(* What it says of codes and of refresh tokens.                            *)

LEMMA AtMostOne ==
    ASSUME NEW S, \A p, q \in S : p = q
    PROVE  Cardinality(S) <= 1
<1>1. CASE S = {}
  BY <1>1, FS_EmptySet
<1>2. CASE S # {}
  <2>1. PICK p \in S : S = {p}
    BY <1>2
  <2>2. Cardinality(S) = 1
    BY <2>1, FS_Singleton
  <2> QED
    BY <2>2
<1> QED
  BY <1>1, <1>2

LEMMA OneGuess == OAuthInv => OneGuessPerCode
<1> SUFFICES ASSUME OAuthInv, NEW c \in Codes
             PROVE  /\ Cardinality(Presenters(c)) <= 1
                    /\ (\E q \in Requests : access[q] # Nothing /\ access[q].grant = c)
                         => \E q \in Presenters(c) : ask[q].proof /\ ask[q].fits /\ ask[q].client = codes[c].client
                    /\ \A q \in Requests : access[q] # Nothing /\ access[q].grant = c
                                          => access[q].client = codes[c].client
  BY DEF OneGuessPerCode
<1>1. \A p, q \in Presenters(c) : p = q
  BY DEF OAuthInv, OnePresenter, Presenters
<1>2. Cardinality(Presenters(c)) <= 1
  BY <1>1, AtMostOne
<1>3. ASSUME NEW q \in Requests, access[q] # Nothing, access[q].grant = c
      PROVE  /\ access[q].client = codes[c].client
             /\ \E p \in Presenters(c) : ask[p].proof /\ ask[p].fits /\ ask[p].client = codes[c].client
  BY <1>3 DEF OAuthInv, Issued, Descends, Right, Presenters
<1> QED
  BY <1>2, <1>3

LEMMA OneLine == OAuthInv => OneLiveRefresh
<1> SUFFICES ASSUME OAuthInv, NEW c \in Codes
             PROVE  Cardinality({q \in Requests : Live(q, c)}) <= 1
  BY DEF OneLiveRefresh, Live
<1>1. \A p, q \in {r \in Requests : Live(r, c)} : p = q
  BY DEF OAuthInv, OneLive
<1> QED
  BY <1>1, AtMostOne

\* A code is presented with effect once, by whichever of any number of token
\* requests is first, right or wrong; and all tokens of a grant are its client's
\* and exist only if that one request had the client, redirect_uri and verifier
\* right (oauth_token).
THEOREM CodesAreGuessedOnce == OAuthSpec => []OneGuessPerCode
  BY OAuthInvariant, OneGuess, PTL

\* However often refresh tokens are rotated, replayed, revoked or lost to a crash
\* between two commits, a grant never has two that can still be used
\* (consume_oauth_refresh_token, create_oauth_refresh_token).
THEOREM OneRefreshLineLives == OAuthSpec => []OneLiveRefresh
  BY OAuthInvariant, OneLine, PTL
----------------------------------------------------------------------------
(* A refresh token comes with an access token of its grant.                *)

Paired(q) ==
    /\ ask[q].step = "refresh" => access[q] # Nothing
    /\ access[q] # Nothing => access[q].grant = ask[q].grant
    /\ refresh[q] # Nothing => access[q] # Nothing /\ access[q].grant = refresh[q].grant
Pairs == \A q \in Requests : Paired(q)

\* The steps of a request, which stores its access token first.
LEMMA PairsStored ==
    ASSUME OAuthInv, \A p \in Requests : Paired(p), NEW q \in Requests, Asks(q)
    PROVE  \A p \in Requests : Paired(p)'
<1>1. /\ ask' \in [Requests -> AskType] /\ \A p \in Requests \ {q} : ask'[p] = ask[p]
      /\ Moved(q)
  BY AskMoves
<1>2. Grows /\ Claims /\ \A p \in Requests \ {q} : NoneAppears(p)
  BY AskRows
<1>3. \A p \in Requests \ {q} : Paired(p)'
  BY <1>1, <1>2 DEF Paired, Grows, NoneAppears
<1>4. /\ access \in [Requests -> TokenRow \cup {Nothing}] /\ Nothing \notin TokenRow
      /\ refresh \in [Requests -> TokenRow \cup {Nothing}]
  BY TablesTyped
<1>5. Presented(q) /\ Issued(q) /\ Paired(q)
  BY DEF OAuthInv
<1> SUFFICES Paired(q)'
  BY <1>3
<1>6. CASE UNCHANGED <<codes, access, refresh>> /\ ask'[q].step # "refresh"
  BY <1>1, <1>5, <1>6 DEF Paired, Moved, Stepped, Took, Kept, Issued
<1>7. CASE /\ ask[q].step = "access" /\ Stepped(q, "refresh")
           /\ access' = [access EXCEPT ![q] = Fresh(ask[q].client, ask[q].grant)]
           /\ UNCHANGED <<codes, refresh>>
  <2>1. ask[q].client \in Clients /\ ask[q].grant \in Codes
    BY <1>5, <1>7, TablesTyped DEF Issued, Descends, UsedUp, CodeRow
  <2>2. access'[q] # Nothing /\ access'[q].grant = ask[q].grant
    BY <1>4, <1>7, <2>1, FreshTyped
  <2>3. refresh'[q] = Nothing
    BY <1>5, <1>7 DEF Issued
  <2>4. ask'[q].grant = ask[q].grant
    BY <1>7 DEF Stepped, Kept
  <2> QED
    BY <2>2, <2>3, <2>4 DEF Paired
<1>8. CASE /\ ask[q].step = "refresh" /\ Stepped(q, "done")
           /\ refresh' = [refresh EXCEPT ![q] = Fresh(ask[q].client, ask[q].grant)]
           /\ UNCHANGED <<codes, access>>
  <2>1. refresh'[q].grant = ask[q].grant
    BY <1>4, <1>8 DEF Fresh
  <2>2. ask'[q].grant = ask[q].grant /\ ask'[q].step = "done"
    BY <1>8 DEF Stepped, Kept
  <2> QED
    BY <1>5, <1>8, <2>1, <2>2 DEF Paired
<1>9. CASE \/ ConsumeCode(q) /\ Took(q, "check", ask[q].uses)
           \/ Rotate(q) /\ Took(q, "belongs", refresh[ask[q].uses].grant)
  <2>1. ask[q].step \in {"consume", "rotate"} /\ ask'[q].step \in {"check", "belongs"}
    BY <1>9 DEF ConsumeCode, Rotate, Took
  <2>2. access[q] = Nothing /\ refresh[q] = Nothing /\ UNCHANGED access
    BY <1>5, <1>9, <2>1 DEF Issued, ConsumeCode, Rotate
  <2>3. refresh'[q] = Nothing
    <3>1. ask[q].step = "rotate" => ask[q].uses # q
      BY <1>5, <2>2 DEF Presented
    <3> QED
      BY <1>4, <1>5, <1>9, <2>1, <2>2, <3>1 DEF ConsumeCode, Rotate, Presented
  <2> QED
    BY <2>1, <2>2, <2>3 DEF Paired
<1> QED
  BY <1>1, <1>6, <1>7, <1>8, <1>9 DEF Moved, Stepped

\* Codes and tokens are rows of their tables, and a request that has a refresh
\* token has an access token of the same grant (oauth_token stores it first;
\* revocation and expiry delete nothing).
THEOREM OAuthTyped == OAuthSpec => []OAuthTypeOK
<1>1. OAuthInit => Pairs
  BY DEF OAuthInit, Pairs, Paired, Silent
<1>2. OAuthInv /\ Pairs /\ [OAuthNext]_oauthVars => Pairs'
  <2> SUFFICES ASSUME OAuthInv, Pairs, [OAuthNext]_oauthVars PROVE Pairs'
    OBVIOUS
  <2>1. CASE \E q \in Requests : Asks(q)
    BY <2>1, PairsStored DEF Pairs
  <2>2. CASE Outside
    BY <2>2, OutsideRows DEF Pairs, Paired, Grows, NoneAppears
  <2>3. CASE UNCHANGED oauthVars
    BY <2>3 DEF Pairs, Paired, oauthVars
  <2> QED
    BY <2>1, <2>2, <2>3 DEF OAuthNext, Asks, Outside
<1>3. OAuthInv /\ Pairs => OAuthTypeOK
  BY DEF OAuthInv, Typed, OAuthTypeOK, Pairs, Paired
<1> QED
  BY <1>1, <1>2, <1>3, OAuthInvariant, PTL DEF OAuthSpec
=============================================================================
