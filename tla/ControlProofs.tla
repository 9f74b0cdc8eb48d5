--------------------------- MODULE ControlProofs ----------------------------
(***************************************************************************)
(* What the registry, the audit chain, the audit traces and the anomaly    *)
(* scoring keep, for any number of servers, tools, handlers, processes,    *)
(* calls and payments: for each the invariant that its steps keep, and the *)
(* properties of its runs that follow from it.                             *)
(***************************************************************************)
EXTENDS Registry, AuditChain, AuditTrace, Anomalies, SumLemmas

----------------------------------------------------------------------------
(* The registry of tools, beside the reads of the payment policy.          *)

\* The steps of a registration; those after it has stored its row; those after it has read it
\* back.
Registering1 == {"prior", "upsert", "reread", "trust", "downgrade", "drift", "quarantine"}
Stored == {"reread", "trust", "downgrade", "drift", "quarantine"}
Reading == {"trust", "downgrade", "drift", "quarantine"}

\* What a handler knows in each step: rows it found are never deleted.
Knows(c, srv, tl) ==
    /\ c.step = "idle" => c = Idle
    /\ c.step # "idle" => c.tool \in Tools
    /\ c.step \in Registering1 =>
         c.description \in Descriptions /\ c.status = "clear" /\ srv[ServerOf[c.tool]] # NoRow
    /\ c.step \in Stored \cup {"review"} => tl[c.tool] # NoRow
    /\ c.step \in Reading \cup {"review"} => c.row \in ToolRow
    /\ c.step = "review" => ~c.prior
    /\ c.step = "done" /\ c.prior => c.row \in ToolRow
RegLocals == \A h \in Handlers : Knows(call[h], server, tool)

\* A payment that has come past a row has not been barred by it all the time.
UnbarredOf(c, s) ==
    /\ c.step \in {"server", "grant", "passed", "held"} => "tool" \notin s
    /\ c.step \in {"grant", "passed", "held"} =>
         "server" \notin s /\ (c.trust = "unknown" \/ "unknown" \notin s)
    /\ c.step \in {"passed", "held"} => "grant" \notin s
    /\ c.step = "passed" => ~(c.big /\ c.trust = "unknown")
Unbarred == \A h \in Handlers : UnbarredOf(call[h], since[h])

\* A tool in quarantine that no review touched is announced, or the registration that
\* stored its row is still to announce it or died.
AboutToAnnounce(c, t, row) ==
    /\ c.tool = t
    /\ \/ c.step \in {"reread", "died"}
       \/ /\ c.step \in Reading
          /\ c.row.description = row.description /\ c.row.status = row.status
Announcing(t) == \E h \in Handlers : AboutToAnnounce(call[h], t, tool[t])
Announced == \A t \in Tools :
    tool[t] # NoRow /\ tool[t].status # "clear" /\ ~Reviewed(t)
       => Announcing(t) \/ Key("quarantine", t, tool[t]) \in queued

\* The invariant of the registry.
RegInv == RegTypeOK /\ RegLocals /\ Unbarred /\ DriftLowersTrust /\ Announced

\* The rows in the database, and a handler in the middle of a call.
RowsTyped ==
    /\ server \in [Servers -> Trust \cup {NoRow}]
    /\ tool \in [Tools -> ToolRow \cup {NoRow}]
    /\ grant \in [Tools -> Grant \cup {NoRow}]
    /\ \A t \in Tools : /\ tool[t] # NoRow => server[ServerOf[t]] # NoRow
                        /\ grant[t] # NoRow => tool[t] # NoRow

----------------------------------------------------------------------------
\* The row a registration writes is a row.
LEMMA RegisteredTyped ==
  ASSUME NEW old \in ToolRow \cup {NoRow}, NEW d \in Descriptions
  PROVE  Registered(old, d) \in ToolRow /\ Registered(old, d) # NoRow
<1> DEFINE row == Registered(old, d)
<1>1. old # NoRow => old \in ToolRow
  OBVIOUS
<1>2. Found[d] \subseteq {"critical", "high"}
  BY RegistryTyped
<1>3. (IF old = NoRow THEN {} ELSE old.flags) \subseteq Flags
  BY <1>1 DEF ToolRow, Flags
<1>4. (IF old = NoRow THEN d ELSE old.first) \in Descriptions
  BY <1>1 DEF ToolRow
<1>5. Scan(d) \in Quarantine
  BY DEF Scan, Quarantine
<1>6. row \in ToolRow
  <2>1. row.status \in Quarantine
    BY <1>1, <1>5 DEF Registered, ToolRow, Quarantine
  <2>2. row.flags \subseteq Flags
    BY <1>2, <1>3 DEF Registered, Flags
  <2> QED
    BY <1>4, <2>1, <2>2 DEF Registered, ToolRow
<1> QED
  BY <1>6, RegistryTyped

\* What a registration stores is clear only if nothing is found in it.
LEMMA RegisteredClear ==
  ASSUME NEW old \in ToolRow \cup {NoRow}, NEW d \in Descriptions
  PROVE  /\ Registered(old, d).description = d
         /\ Registered(old, d).status = "clear" => Found[d] = {}
         /\ "critical" \in Found[d] => Registered(old, d).status = "quarantined"
<1>1. Found[d] \subseteq {"critical", "high"}
  BY RegistryTyped
<1>2. Scan(d) = "clear" => Found[d] = {}
  BY <1>1 DEF Scan
<1>3. Registered(old, d).description = d
  BY DEF Registered
<1>4. Registered(old, d).status = "clear" => Scan(d) = "clear"
  BY DEF Registered
<1>5. "critical" \in Found[d] => Registered(old, d).status = "quarantined"
  BY DEF Registered, Scan
<1> QED
  BY <1>2, <1>3, <1>4, <1>5

\* A step of one handler: the others keep their locals.
LEMMA OneCall ==
  ASSUME NEW h \in Handlers, NEW c \in CallType, call \in [Handlers -> CallType],
         call' = [call EXCEPT ![h] = c]
  PROVE  /\ call' \in [Handlers -> CallType] /\ call'[h] = c
         /\ \A k \in Handlers \ {h} : call'[k] = call[k]
  OBVIOUS

\* Step changes the step only.
LEMMA StepMoves ==
  ASSUME NEW h \in Handlers, NEW from, NEW to \in Steps, call \in [Handlers -> CallType],
         Step(h, from, to)
  PROVE  /\ call[h].step = from
         /\ call' = [call EXCEPT ![h] = [call[h] EXCEPT !.step = to]]
         /\ [call[h] EXCEPT !.step = to] \in CallType
  BY DEF Step, CallType


LEMMA StepTo ==
  ASSUME NEW h \in Handlers, NEW from, NEW to, call \in [Handlers -> CallType], Step(h, from, to)
  PROVE  /\ call[h].step = from /\ call'[h].step = to
         /\ call'[h].tool = call[h].tool /\ call'[h].prior = call[h].prior
         /\ call'[h].row = call[h].row /\ call'[h].trust = call[h].trust
         /\ call'[h].big = call[h].big /\ call'[h].status = call[h].status
  BY DEF Step, CallType

\* Rows are never deleted.
RowsStay ==
    /\ \A s \in Servers : server[s] # NoRow => server'[s] # NoRow
    /\ \A t \in Tools : tool[t] # NoRow => tool'[t] # NoRow

\* Handler h moves to c, which knows what belongs to its new step.
Moves(h, c) ==
    /\ c \in CallType
    /\ call' = [call EXCEPT ![h] = c]
    /\ Knows(c, server', tool')

\* What a handler knows outlasts the steps of the others.
LEMMA KnowsStays ==
  ASSUME NEW c \in CallType, Knows(c, server, tool), RowsStay
  PROVE  Knows(c, server', tool')
<1>1. c.step \in Registering1 => c.tool \in Tools /\ ServerOf[c.tool] \in Servers
  BY RegistryTyped DEF Knows, Registering1
<1>2. c.step \in Stored \cup {"review"} => c.tool \in Tools
  BY DEF Knows, Stored
<1> QED
  BY <1>1, <1>2 DEF Knows, RowsStay

\* So the locals of all handlers follow from the row effects and the move of one.
LEMMA MovesTyped ==
  ASSUME RegTypeOK, RegLocals, NEW h \in Handlers, NEW c, Moves(h, c), RowsStay,
         RowsTyped', edited' \in 0..EditBound
  PROVE  RegTypeOK' /\ RegLocals'
<1>1. /\ call' \in [Handlers -> CallType] /\ call'[h] = c
      /\ \A k \in Handlers \ {h} : call'[k] = call[k]
  BY OneCall DEF RegTypeOK, Moves
<1>2. RegTypeOK'
  BY <1>1 DEF RegTypeOK, RowsTyped
<1>3. ASSUME NEW k \in Handlers
      PROVE  Knows(call'[k], server', tool')
  <2>1. CASE k = h
    BY <1>1, <2>1 DEF Moves
  <2>2. CASE k # h
    BY <1>1, <2>2, KnowsStays DEF RegLocals, RegTypeOK
  <2> QED
    BY <2>1, <2>2
<1> QED
  BY <1>2, <1>3 DEF RegLocals

\* Rows untouched.
LEMMA RowsSame ==
  ASSUME RegTypeOK, UNCHANGED <<server, tool, grant>>
  PROVE  RowsTyped' /\ RowsStay
  BY DEF RegTypeOK, RowsTyped, RowsStay

\* What a step of a handler leaves behind.
Handled(h) == RowsTyped' /\ RowsStay /\ \E c \in CallType : Moves(h, c)

\* The steps of a registration, of a review and of a payment: each handler's step is one of its
\* own call, and rows stay.
LEMMA RegisterHandled ==
  ASSUME RegTypeOK, RegLocals, NEW h \in Handlers, Registers(h)
  PROVE  Handled(h)
<1> USE RegistryTyped
<1>0. call[h] \in CallType /\ Knows(call[h], server, tool) /\ call \in [Handlers -> CallType]
  BY DEF RegTypeOK, RegLocals
<1>1. ASSUME NEW t \in Tools, StartRegister(h, t)
      PROVE  Handled(h)
  <2>1. PICK d \in Descriptions :
          call' = [call EXCEPT ![h] = [Idle EXCEPT !.step = "prior", !.tool = t, !.description = d]]
    BY <1>1 DEF StartRegister, Next1
  <2> DEFINE c == [Idle EXCEPT !.step = "prior", !.tool = t, !.description = d]
  <2>2. c \in CallType
    BY DEF CallType, Idle, Steps, Quarantine
  <2>3. Knows(c, server', tool')
    BY <1>1 DEF Knows, Idle, Registering1, Stored, Reading, StartRegister, regRows
  <2> QED
    BY <1>1, <2>1, <2>2, <2>3, RowsSame DEF Handled, Moves, StartRegister, regRows
<1>2. CASE ReadPrior(h)
  <2> DEFINE c == [call[h] EXCEPT !.step = "upsert", !.prior = tool[call[h].tool] # NoRow]
  <2>1. c \in CallType
    BY <1>0 DEF CallType, Steps
  <2>2. Knows(c, server', tool')
    BY <1>0, <1>2 DEF Knows, Registering1, Stored, Reading, ReadPrior, Next1, regRows, CallType
  <2> QED
    BY <1>2, <2>1, <2>2, RowsSame DEF Handled, Moves, ReadPrior, Next1, regRows
<1>3. CASE UpsertTool(h)
  <2> DEFINE c == [call[h] EXCEPT !.step = "reread"]
             t == call[h].tool
             row == Registered(tool[t], call[h].description)
  <2>1. /\ call[h].step = "upsert" /\ call' = [call EXCEPT ![h] = c] /\ c \in CallType
    BY <1>0, <1>3, StepMoves DEF UpsertTool, Steps
  <2>2. /\ t \in Tools /\ call[h].description \in Descriptions /\ server[ServerOf[t]] # NoRow
        /\ call[h].status = "clear"
    BY <1>0, <2>1 DEF Knows, Registering1
  <2>3. row \in ToolRow /\ row # NoRow
    BY <2>2, RegisteredTyped DEF RegTypeOK
  <2>4. /\ tool' = [tool EXCEPT ![t] = row] /\ UNCHANGED <<server, grant>>
    BY <1>3 DEF UpsertTool
  <2> HIDE DEF row
  <2>5. RowsTyped' /\ RowsStay /\ tool'[t] = row
    BY <2>2, <2>3, <2>4 DEF RegTypeOK, RowsTyped, RowsStay
  <2>6. Knows(c, server', tool')
    BY <1>0, <2>1, <2>2, <2>3, <2>4, <2>5 DEF Knows, Registering1, Stored, Reading, CallType
  <2> QED
    BY <2>1, <2>5, <2>6 DEF Handled, Moves
<1>4. CASE Reread(h)
  <2> DEFINE row == tool[call[h].tool]
             c == [call[h] EXCEPT !.row = row,
                     !.step = IF call[h].prior /\ row.changed THEN "trust" ELSE "quarantine"]
  <2>1. call[h].step = "reread" /\ call' = [call EXCEPT ![h] = c]
    BY <1>4 DEF Reread, Next1
  <2>2. call[h].tool \in Tools /\ row \in ToolRow
    BY <1>0, <2>1 DEF Knows, Stored, RegTypeOK
  <2>3. c \in CallType
    BY <1>0, <2>2 DEF CallType, Steps
  <2>4. Knows(c, server', tool')
    BY <1>0, <1>4, <2>1, <2>2 DEF Knows, Registering1, Stored, Reading, Reread, regRows, CallType
  <2> QED
    BY <1>4, <2>1, <2>3, <2>4, RowsSame DEF Handled, Moves, Reread, regRows
<1>5. CASE ReadTrust(h)
  <2> DEFINE level == server[ServerOf[call[h].tool]]
             c == [call[h] EXCEPT !.trust = level,
                     !.step = IF level \in {"trusted", "verified"} THEN "downgrade" ELSE "drift"]
  <2>1. call[h].step = "trust" /\ call' = [call EXCEPT ![h] = c]
    BY <1>5 DEF ReadTrust, Next1
  <2>2. call[h].tool \in Tools /\ level \in Trust
    BY <1>0, <2>1 DEF Knows, Registering1, RegTypeOK
  <2>3. c \in CallType
    BY <1>0, <2>2 DEF CallType, Steps
  <2>4. Knows(c, server', tool')
    BY <1>0, <1>5, <2>1, <2>2 DEF Knows, Registering1, Stored, Reading, ReadTrust, regRows, CallType
  <2> QED
    BY <1>5, <2>1, <2>3, <2>4, RowsSame DEF Handled, Moves, ReadTrust, regRows
<1>6. CASE Downgrade(h)
  <2> DEFINE c == [call[h] EXCEPT !.step = "drift"]
             s == ServerOf[call[h].tool]
  <2>1. /\ call[h].step = "downgrade" /\ call' = [call EXCEPT ![h] = c] /\ c \in CallType
    BY <1>0, <1>6, StepMoves DEF Downgrade, Steps
  <2>2. call[h].tool \in Tools /\ s \in Servers
    BY <1>0, <2>1 DEF Knows, Registering1
  <2>3. server' = [server EXCEPT ![s] = "unknown"] /\ UNCHANGED <<tool, grant>>
    BY <1>6 DEF Downgrade
  <2>4. RowsTyped' /\ RowsStay
    BY <2>2, <2>3 DEF RegTypeOK, RowsTyped, RowsStay, Trust
  <2>5. Knows(c, server, tool)
    BY <1>0, <2>1 DEF Knows, Registering1, Stored, Reading, CallType
  <2>6. Knows(c, server', tool')
    BY <2>1, <2>4, <2>5, KnowsStays
  <2> QED
    BY <2>1, <2>4, <2>6 DEF Handled, Moves
<1>7. CASE AlertDrift(h) \/ AlertQuarantine(h)
  <2>1. PICK to \in {"quarantine", "done"} : Step(h, call[h].step, to)
    BY <1>7 DEF AlertDrift, AlertQuarantine, Step
  <2> DEFINE c == [call[h] EXCEPT !.step = to]
  <2>0. to \in Steps
    BY DEF Steps
  <2>2. /\ call' = [call EXCEPT ![h] = c] /\ c \in CallType
    BY <1>0, <2>0, <2>1, StepMoves
  <2>3. call[h].step \in {"drift", "quarantine"} /\ UNCHANGED <<server, tool, grant>>
    BY <1>7 DEF AlertDrift, AlertQuarantine, Step
  <2>4. Knows(c, server', tool')
    BY <1>0, <2>3 DEF Knows, Registering1, Stored, Reading, CallType
  <2> QED
    BY <2>2, <2>3, <2>4, RowsSame DEF Handled, Moves
<1> QED
  BY <1>1, <1>2, <1>3, <1>4, <1>5, <1>6, <1>7 DEF Registers

LEMMA ReviewHandled ==
  ASSUME RegTypeOK, RegLocals, NEW h \in Handlers, Reviews(h)
  PROVE  Handled(h)
<1> USE RegistryTyped
<1>0. call[h] \in CallType /\ Knows(call[h], server, tool) /\ call \in [Handlers -> CallType]
  BY DEF RegTypeOK, RegLocals
<1>1. ASSUME NEW t \in Tools, StartReview(h, t)
      PROVE  Handled(h)
  <2>1. PICK s \in Quarantine \ {"review"} :
          call' = [call EXCEPT ![h] = [Idle EXCEPT !.step = "review", !.tool = t, !.status = s,
                                                   !.row = tool[t]]]
    BY <1>1 DEF StartReview, Next1
  <2> DEFINE c == [Idle EXCEPT !.step = "review", !.tool = t, !.status = s, !.row = tool[t]]
  <2>2. tool[t] \in ToolRow
    BY <1>1 DEF StartReview, RegTypeOK
  <2>3. c \in CallType
    BY <2>2 DEF CallType, Idle, Steps
  <2>4. Knows(c, server', tool')
    BY <1>1, <2>2 DEF Knows, Idle, Registering1, Stored, Reading, StartReview, regRows
  <2> QED
    BY <1>1, <2>1, <2>3, <2>4, RowsSame DEF Handled, Moves, StartReview, regRows
<1>2. CASE WriteReview(h)
  <2> DEFINE c == [call[h] EXCEPT !.step = "done"]
             t == call[h].tool
             flags == IF call[h].status = "clear" THEN {} ELSE call[h].row.flags
             row == [tool[t] EXCEPT !.status = call[h].status, !.flags = flags]
  <2>1. /\ call[h].step = "review" /\ call' = [call EXCEPT ![h] = c] /\ c \in CallType
    BY <1>0, <1>2, StepMoves DEF WriteReview, Steps
  <2>2. t \in Tools /\ tool[t] # NoRow /\ call[h].row \in ToolRow /\ ~call[h].prior
    BY <1>0, <2>1 DEF Knows
  <2>3. tool[t] \in ToolRow /\ flags \in SUBSET Flags /\ call[h].status \in Quarantine
    BY <1>0, <2>2 DEF ToolRow, CallType, RegTypeOK
  <2>4. row \in ToolRow
    BY <2>3 DEF ToolRow
  <2>5. tool' = [tool EXCEPT ![t] = row] /\ UNCHANGED <<server, grant>>
    BY <1>2, <2>2 DEF WriteReview, RegTypeOK
  <2> HIDE DEF row
  <2>6. RowsTyped' /\ RowsStay
    BY <2>2, <2>4, <2>5 DEF RegTypeOK, RowsTyped, RowsStay
  <2>7. Knows(c, server', tool')
    BY <1>0, <2>1, <2>2 DEF Knows, Registering1, Stored, Reading, CallType
  <2> QED
    BY <2>1, <2>6, <2>7 DEF Handled, Moves
<1> QED
  BY <1>1, <1>2 DEF Reviews

LEMMA PayHandled ==
  ASSUME RegTypeOK, RegLocals, NEW h \in Handlers, Pays(h) \/ Die(h)
  PROVE  Handled(h)
<1> USE RegistryTyped
<1>0. call[h] \in CallType /\ Knows(call[h], server, tool) /\ call \in [Handlers -> CallType]
  BY DEF RegTypeOK, RegLocals
<1>1. UNCHANGED <<server, tool, grant>>
  BY DEF Pays, StartPay, ReadTool, ReadServer, ReadGrant, Die, regRows
<1>2. ASSUME NEW t \in Tools, StartPay(h, t)
      PROVE  Handled(h)
  <2>1. PICK big \in BOOLEAN :
          call' = [call EXCEPT ![h] = [Idle EXCEPT !.step = "row", !.tool = t, !.big = big]]
    BY <1>2 DEF StartPay, Next1
  <2> DEFINE c == [Idle EXCEPT !.step = "row", !.tool = t, !.big = big]
  <2>2. c \in CallType
    BY DEF CallType, Idle, Steps, Quarantine
  <2>3. Knows(c, server', tool')
    BY DEF Knows, Idle, Registering1, Stored, Reading
  <2> QED
    BY <1>1, <2>1, <2>2, <2>3, RowsSame DEF Handled, Moves
<1>3. CASE ReadServer(h)
  <2> DEFINE level == server[ServerOf[call[h].tool]]
             c == [call[h] EXCEPT !.trust = level,
                     !.step = IF level \in {NoRow, "blocked"} THEN "refused" ELSE "grant"]
  <2>1. call[h].step = "server" /\ call' = [call EXCEPT ![h] = c]
    BY <1>3 DEF ReadServer, Next1
  <2>2. call[h].tool \in Tools /\ level \in Trust \cup {NoRow}
    BY <1>0, <2>1 DEF Knows, RegTypeOK
  <2>3. c \in CallType
    BY <1>0, <2>2 DEF CallType, Steps
  <2>4. Knows(c, server', tool')
    BY <1>0, <2>1, <2>2 DEF Knows, Registering1, Stored, Reading, CallType
  <2> QED
    BY <1>1, <2>1, <2>3, <2>4, RowsSame DEF Handled, Moves
<1>4. ASSUME ReadTool(h) \/ ReadGrant(h) \/ Die(h)
      PROVE  Handled(h)
  <2>1. PICK to \in {"server", "refused", "held", "passed", "died"} : Step(h, call[h].step, to)
    BY <1>4 DEF ReadTool, ReadGrant, Die, Step
  <2> DEFINE c == [call[h] EXCEPT !.step = to]
  <2>2. to \in Steps
    BY DEF Steps
  <2>3. /\ call' = [call EXCEPT ![h] = c] /\ c \in CallType
    BY <1>0, <2>1, <2>2, StepMoves
  <2>4. call[h].step # "idle"
    BY <1>4 DEF ReadTool, ReadGrant, Die, Step
  <2>5. Knows(c, server', tool')
    BY <1>0, <2>4 DEF Knows, Registering1, Stored, Reading, CallType
  <2> QED
    BY <1>1, <2>3, <2>5, RowsSame DEF Handled, Moves
<1> QED
  BY <1>2, <1>3, <1>4 DEF Pays

\* Calls of one store call, which touch no locals.
Edits == \/ \E s \in Servers : RegisterServer(s) \/ SetTrust(s)
         \/ \E t \in Tools : Permit(t) \/ Withdraw(t)

\* The administrators' endpoints.
LEMMA EditsRows ==
  ASSUME RegTypeOK, Edits
  PROVE  /\ RowsTyped' /\ RowsStay /\ UNCHANGED <<tool, queued, call>>
         /\ edited' \in 0..EditBound
<1> USE RegistryTyped
<1>1. ASSUME NEW s \in Servers, RegisterServer(s) \/ SetTrust(s)
      PROVE  RowsTyped' /\ RowsStay /\ UNCHANGED <<tool, queued, call>>
  <2>1. PICK level \in Trust : server' = [server EXCEPT ![s] = level]
    BY <1>1 DEF RegisterServer, SetTrust, Trust
  <2>2. UNCHANGED <<tool, grant, queued, call>>
    BY <1>1 DEF RegisterServer, SetTrust
  <2> QED
    BY <2>1, <2>2 DEF RegTypeOK, RowsTyped, RowsStay
<1>2. ASSUME NEW t \in Tools, Permit(t) \/ Withdraw(t)
      PROVE  RowsTyped' /\ RowsStay /\ UNCHANGED <<tool, queued, call>>
  <2>1. PICK g \in Grant : grant' = [grant EXCEPT ![t] = g]
    BY <1>2 DEF Permit, Withdraw, Grant
  <2>2. UNCHANGED <<server, tool, queued, call>> /\ tool[t] # NoRow
    BY <1>2 DEF Permit, Withdraw, RegTypeOK
  <2> QED
    BY <2>1, <2>2 DEF RegTypeOK, RowsTyped, RowsStay
<1>3. edited' \in 0..EditBound
  BY DEF Edits, RegisterServer, SetTrust, Permit, Withdraw, Edit, RegTypeOK
<1> QED
  BY <1>1, <1>2, <1>3 DEF Edits

\* A step is an edit or one of a handler.
LEMMA RegNextCases ==
  ASSUME RegNext
  PROVE  /\ Watch
         /\ \/ Edits
            \/ edited' = edited /\ \E h \in Handlers : Registers(h) \/ Reviews(h) \/ Pays(h) \/ Die(h)
  BY DEF RegNext, Edits

\* Every step keeps the types and what the handlers know.
LEMMA RegStepTyped ==
  ASSUME RegTypeOK, RegLocals, RegNext
  PROVE  RegTypeOK' /\ RegLocals' /\ RowsStay
<1>1. CASE Edits
  <2>1. RegTypeOK'
    BY <1>1, EditsRows DEF RegTypeOK, RowsTyped
  <2>2. ASSUME NEW k \in Handlers
        PROVE  Knows(call'[k], server', tool')
    BY <1>1, EditsRows, KnowsStays DEF RegLocals, RegTypeOK
  <2> QED
    BY <1>1, <2>1, <2>2, EditsRows DEF RegLocals
<1>2. ASSUME NEW h \in Handlers, Registers(h) \/ Reviews(h) \/ Pays(h) \/ Die(h),
             edited' = edited
      PROVE  RegTypeOK' /\ RegLocals' /\ RowsStay
  <2>1. Handled(h)
    BY <1>2, RegisterHandled, ReviewHandled, PayHandled
  <2>2. PICK c \in CallType : Moves(h, c)
    BY <2>1 DEF Handled
  <2>3. edited' \in 0..EditBound
    BY <1>2 DEF RegTypeOK
  <2> QED
    BY <2>1, <2>2, <2>3, MovesTyped DEF Handled
<1> QED
  BY <1>1, <1>2, RegNextCases

\* A step of one handler leaves the calls of the others alone.
LEMMA OthersWait ==
  ASSUME RegTypeOK, RegLocals, NEW h \in Handlers, Registers(h) \/ Reviews(h) \/ Pays(h) \/ Die(h)
  PROVE  \A k \in Handlers \ {h} : call'[k] = call[k]
<1>1. PICK c \in CallType : Moves(h, c)
  BY RegisterHandled, ReviewHandled, PayHandled DEF Handled
<1> QED
  BY <1>1, OneCall DEF Moves, RegTypeOK

----------------------------------------------------------------------------
\* What has held all the time since a read or a beginning only shrinks, holds now, and is
\* not "lowered" in a step that raises the trust.
LEMMA HistoryShrinks ==
  ASSUME Watch, NEW k \in Handlers, call'[k].tool \in Tools,
         call'[k].step \notin {"row", "reread"}
  PROVE  LET t == call'[k].tool IN
         /\ since'[k] \subseteq since[k]
         /\ since'[k] \subseteq BarsOf(tool'[t], server'[ServerOf[t]], grant'[t]) \cup {"lowered"}
         /\ Raised(ServerOf[t]) => "lowered" \notin since'[k]
<1>1. since'[k] = Watched(k, call'[k].tool)
  BY RegistryTyped DEF Watch
<1> QED
  BY <1>1 DEF Watched

\* So a handler that did not move stays unbarred,
LEMMA UnbarredStays ==
  ASSUME RegTypeOK, RegLocals, Watch, NEW k \in Handlers, call'[k] = call[k],
         UnbarredOf(call[k], since[k])
  PROVE  UnbarredOf(call'[k], since'[k])
<1>1. CASE call[k].step \in {"server", "grant", "passed", "held"}
  <2>1. call'[k].tool \in Tools /\ call'[k].step \notin {"row", "reread"}
    BY <1>1 DEF RegLocals, Knows
  <2>2. since'[k] \subseteq since[k]
    BY <2>1, HistoryShrinks
  <2> QED
    BY <2>2 DEF UnbarredOf
<1>2. CASE call[k].step \notin {"server", "grant", "passed", "held"}
  BY <1>2 DEF UnbarredOf
<1> QED
  BY <1>1, <1>2

\* and one that moves to a step without a claim has none.
LEMMA UnbarredMoves ==
  ASSUME RegTypeOK, RegLocals, RegTypeOK', Watch, NEW h \in Handlers, UnbarredOf(call[h], since[h]),
         Registers(h) \/ Reviews(h) \/ Pays(h) \/ Die(h)
  PROVE  UnbarredOf(call'[h], since'[h]) /\ \A k \in Handlers \ {h} : call'[k] = call[k]
<1>0. call[h] \in CallType /\ Knows(call[h], server, tool) /\ call \in [Handlers -> CallType]
  BY DEF RegTypeOK, RegLocals
<1>a. \A k \in Handlers \ {h} : call'[k] = call[k]
  BY OthersWait
<1>1. ASSUME Registers(h) \/ Reviews(h) \/ Die(h) \/ \E t \in Tools : StartPay(h, t)
      PROVE  call'[h].step \notin {"server", "grant", "passed", "held"}
  <2>1. CASE \E t \in Tools : StartRegister(h, t) \/ StartReview(h, t) \/ StartPay(h, t)
    <3>1. PICK t \in Tools : StartRegister(h, t) \/ StartReview(h, t) \/ StartPay(h, t)
      BY <2>1
    <3>2. CASE StartRegister(h, t)
      BY <1>0, <3>2 DEF StartRegister, Idle, Next1
    <3>3. CASE StartReview(h, t)
      BY <1>0, <3>3 DEF StartReview, Idle, Next1
    <3>4. CASE StartPay(h, t)
      BY <1>0, <3>4 DEF StartPay, Idle, Next1
    <3> QED
      BY <3>1, <3>2, <3>3, <3>4
  <2>2. CASE ReadPrior(h)
    BY <1>0, <2>2 DEF ReadPrior, CallType, Next1
  <2>3. CASE Reread(h)
    BY <1>0, <2>3 DEF Reread, CallType, Next1
  <2>4. CASE ReadTrust(h)
    BY <1>0, <2>4 DEF ReadTrust, CallType, Next1
  <2>5. CASE UpsertTool(h) \/ Downgrade(h) \/ AlertDrift(h) \/ AlertQuarantine(h) \/ WriteReview(h)
    <3>1. PICK to \in {"reread", "drift", "quarantine", "done"} : Step(h, call[h].step, to)
      BY <2>5 DEF UpsertTool, Downgrade, AlertDrift, AlertQuarantine, WriteReview, Step
    <3> QED
      BY <1>0, <3>1, StepTo
  <2>6. CASE Die(h)
    BY <1>0, <2>6 DEF Die, CallType
  <2> QED
    BY <1>1, <2>1, <2>2, <2>3, <2>4, <2>5, <2>6 DEF Registers, Reviews
<1>2. ASSUME ReadTool(h) \/ ReadServer(h) \/ ReadGrant(h)
      PROVE  UnbarredOf(call'[h], since'[h])
  <2> DEFINE t == call[h].tool
             row == tool[t]
             level == server[ServerOf[t]]
             g == grant[t]
  <2>1. /\ call'[h].tool = t /\ call'[h].big = call[h].big
        /\ UNCHANGED regRows
    <3>1. CASE ReadServer(h)
      BY <1>0, <3>1 DEF ReadServer, CallType, Next1
    <3>2. CASE ReadTool(h)
      BY <1>0, <3>2, StepTo DEF ReadTool
    <3>3. CASE ReadGrant(h)
      BY <1>0, <3>3, StepTo DEF ReadGrant
    <3> QED
      BY <1>2, <3>1, <3>2, <3>3
  <2>2. call[h].step \in {"row", "server", "grant"} /\ t \in Tools
    BY <1>0, <1>2 DEF ReadTool, ReadServer, ReadGrant, Step, Next1, Knows
  <2>3. call'[h].step \in {"server", "grant", "refused", "held", "passed"}
    <3>1. CASE ReadTool(h)
      BY <1>0, <3>1, StepTo DEF ReadTool
    <3>2. CASE ReadServer(h)
      BY <1>0, <3>2 DEF ReadServer, CallType, Next1
    <3>3. CASE ReadGrant(h)
      BY <1>0, <3>3, StepTo DEF ReadGrant
    <3> QED
      BY <1>2, <3>1, <3>2, <3>3
  <2>4. since'[h] \subseteq since[h] \cap (BarsOf(row, level, g) \cup {"lowered"})
    BY <2>1, <2>2, <2>3, HistoryShrinks DEF regRows
  <2>5. CASE ReadTool(h)
    <3>1. call'[h].step = "server" \/ call'[h].step = "refused"
      BY <1>0, <2>5 DEF ReadTool, Step, CallType
    <3>2. call'[h].step = "server" => "tool" \notin BarsOf(row, level, g)
      BY <1>0, <2>5 DEF ReadTool, Step, CallType, Payable, BarsOf
    <3> QED
      BY <2>1, <2>4, <3>1, <3>2 DEF UnbarredOf
  <2>6. CASE ReadServer(h)
    <3>1. call'[h].step = "grant" \/ call'[h].step = "refused"
      BY <1>0, <2>6 DEF ReadServer, Next1, CallType
    <3>2. call[h].step = "server" /\ call'[h].trust = level
      BY <1>0, <2>6 DEF ReadServer, Next1, CallType
    <3>3. call'[h].step = "grant" => "server" \notin BarsOf(row, level, g)
      BY <1>0, <2>6 DEF ReadServer, Next1, CallType, BarsOf
    <3>4. level # "unknown" => "unknown" \notin BarsOf(row, level, g)
      BY DEF BarsOf
    <3> QED
      BY <2>1, <2>4, <3>1, <3>2, <3>3, <3>4 DEF UnbarredOf
  <2>7. CASE ReadGrant(h)
    <3>1. call'[h].step \in {"refused", "held", "passed"}
      BY <1>0, <2>7 DEF ReadGrant, Step, CallType
    <3>2. call[h].step = "grant" /\ call'[h].trust = call[h].trust
      BY <1>0, <2>7 DEF ReadGrant, Step, CallType
    <3>3. call'[h].step \in {"held", "passed"} => "grant" \notin BarsOf(row, level, g)
      BY <1>0, <2>7 DEF ReadGrant, Step, CallType, BarsOf
    <3>4. call'[h].step = "passed" => ~(call[h].big /\ call[h].trust = "unknown")
      BY <1>0, <2>7 DEF ReadGrant, Step, CallType
    <3> QED
      BY <2>1, <2>4, <3>1, <3>2, <3>3, <3>4 DEF UnbarredOf
  <2> QED
    BY <1>2, <2>5, <2>6, <2>7
<1> QED
  BY <1>a, <1>1, <1>2 DEF Pays, UnbarredOf

\* A payment that has come past a row has not been barred by it since.
LEMMA UnbarredStep ==
  ASSUME RegTypeOK, RegLocals, RegTypeOK', Unbarred, RegNext
  PROVE  Unbarred'
<1>1. CASE Edits
  BY <1>1, EditsRows, UnbarredStays, RegNextCases DEF Unbarred
<1>2. ASSUME NEW h \in Handlers, Registers(h) \/ Reviews(h) \/ Pays(h) \/ Die(h)
      PROVE  Unbarred'
  <2>1. UnbarredOf(call'[h], since'[h]) /\ \A k \in Handlers \ {h} : call'[k] = call[k]
    BY <1>2, UnbarredMoves, RegNextCases DEF Unbarred
  <2>2. ASSUME NEW k \in Handlers \ {h}
        PROVE  UnbarredOf(call'[k], since'[k])
    BY <2>1, <2>2, UnbarredStays, RegNextCases DEF Unbarred
  <2> QED
    BY <2>1, <2>2 DEF Unbarred
<1> QED
  BY <1>1, <1>2, RegNextCases

----------------------------------------------------------------------------
\* The conjunct of DriftLowersTrust about one handler.
LoweredOf(c, srv, s) ==
    c.step \in {"drift", "quarantine", "done"} /\ c.prior /\ c.row.changed
      /\ srv[ServerOf[c.tool]] \in {"trusted", "verified"} => "lowered" \notin s

\* A step by others leaves the claim alone: a trust that it raises strikes the history.
LEMMA LoweredStays ==
  ASSUME RegTypeOK, RegLocals, RegTypeOK', Watch, NEW k \in Handlers, call'[k] = call[k],
         LoweredOf(call[k], server, since[k])
  PROVE  LoweredOf(call'[k], server', since'[k])
<1> SUFFICES ASSUME call[k].step \in {"drift", "quarantine", "done"},
                    call[k].prior /\ call[k].row.changed,
                    server'[ServerOf[call[k].tool]] \in {"trusted", "verified"}
             PROVE  "lowered" \notin since'[k]
  BY DEF LoweredOf
<1>1. call'[k].tool \in Tools /\ call'[k].step \notin {"row", "reread"}
  BY DEF RegLocals, Knows
<1>2. since'[k] \subseteq since[k] /\ (Raised(ServerOf[call[k].tool]) => "lowered" \notin since'[k])
  BY <1>1, HistoryShrinks
<1> QED
  BY <1>2 DEF LoweredOf, Raised

\* The handler that steps: it lowers a vouched server before it announces the drift.
LEMMA LoweredMoves ==
  ASSUME RegTypeOK, RegLocals, RegTypeOK', Watch, NEW h \in Handlers,
         LoweredOf(call[h], server, since[h]),
         Registers(h) \/ Reviews(h) \/ Pays(h) \/ Die(h)
  PROVE  LoweredOf(call'[h], server', since'[h])
<1> SUFFICES ASSUME call'[h].step \in {"drift", "quarantine", "done"},
                    call'[h].prior /\ call'[h].row.changed,
                    server'[ServerOf[call'[h].tool]] \in {"trusted", "verified"}
             PROVE  "lowered" \notin since'[h]
  BY DEF LoweredOf
<1>0. call[h] \in CallType /\ Knows(call[h], server, tool) /\ call \in [Handlers -> CallType]
  BY DEF RegTypeOK, RegLocals
<1>1. CASE ReadTrust(h)
  <2>1. call'[h].step = "drift" => server[ServerOf[call[h].tool]] \notin {"trusted", "verified"}
    BY <1>0, <1>1 DEF ReadTrust, Next1, CallType
  <2>2. UNCHANGED server /\ call'[h].tool = call[h].tool /\ call'[h].step \in {"downgrade", "drift"}
    BY <1>0, <1>1 DEF ReadTrust, Next1, CallType, regRows
  <2> QED
    BY <2>1, <2>2
<1>2. CASE Downgrade(h)
  <2>1. call[h].step = "downgrade" /\ call'[h].tool = call[h].tool
    BY <1>0, <1>2 DEF Downgrade, Step, CallType
  <2>2. ServerOf[call[h].tool] \in Servers
    BY <1>0, <2>1, RegistryTyped DEF Knows, Registering1
  <2> QED
    BY <1>2, <2>1, <2>2 DEF Downgrade, RegTypeOK
<1>3. CASE AlertDrift(h) \/ AlertQuarantine(h)
  <2>0. PICK to \in {"quarantine", "done"} : Step(h, call[h].step, to)
    BY <1>3 DEF AlertDrift, AlertQuarantine, Step
  <2>a. call[h].step \in {"drift", "quarantine"} /\ UNCHANGED server
    BY <1>3 DEF AlertDrift, AlertQuarantine, Step
  <2>1. /\ call'[h].tool = call[h].tool /\ call'[h].prior = call[h].prior /\ call'[h].row = call[h].row
        /\ call'[h].step \in {"quarantine", "done"}
    BY <1>0, <2>0, StepTo
  <2>2. call'[h].tool \in Tools
    BY <1>0, <2>a, <2>1 DEF Knows
  <2>3. since'[h] \subseteq since[h]
    BY <2>1, <2>2, HistoryShrinks
  <2> QED
    BY <2>a, <2>1, <2>3 DEF LoweredOf
<1>4. CASE Reread(h)
  BY <1>0, <1>4 DEF Reread, Next1, CallType
<1>5. CASE WriteReview(h)
  <2>1. call[h].step = "review" /\ call'[h].prior = call[h].prior
    BY <1>0, <1>5, StepTo DEF WriteReview
  <2> QED
    BY <1>0, <2>1 DEF Knows
<1>6. CASE UpsertTool(h)
  BY <1>0, <1>6, StepTo DEF UpsertTool
<1>7. CASE ReadPrior(h)
  BY <1>0, <1>7 DEF ReadPrior, CallType, Next1
<1>8. ASSUME NEW t \in Tools, StartRegister(h, t)
      PROVE  FALSE
  BY <1>0, <1>8 DEF StartRegister, Idle, Next1
<1>9. ASSUME NEW t \in Tools, StartReview(h, t)
      PROVE  FALSE
  BY <1>0, <1>9 DEF StartReview, Idle, Next1
<1>10. CASE Die(h)
  BY <1>0, <1>10 DEF Die, CallType
<1>11. CASE Pays(h)
  <2>1. CASE ReadServer(h)
    BY <1>0, <2>1 DEF ReadServer, CallType, Next1
  <2>2. CASE ReadTool(h)
    BY <1>0, <2>2, StepTo DEF ReadTool
  <2>3. CASE ReadGrant(h)
    BY <1>0, <2>3, StepTo DEF ReadGrant
  <2>4. ASSUME NEW t \in Tools, StartPay(h, t)
        PROVE  FALSE
    BY <1>0, <2>4 DEF StartPay, Idle, Next1
  <2> QED
    BY <1>11, <2>1, <2>2, <2>3, <2>4 DEF Pays
<1> QED
  BY <1>1, <1>2, <1>3, <1>4, <1>5, <1>6, <1>7, <1>8, <1>9, <1>10, <1>11 DEF Registers, Reviews

LEMMA LoweredStep ==
  ASSUME RegTypeOK, RegLocals, RegTypeOK', Unbarred, DriftLowersTrust, RegNext
  PROVE  DriftLowersTrust'
<1>0. \A k \in Handlers : LoweredOf(call[k], server, since[k])
  BY DEF DriftLowersTrust, LoweredOf, Vouched
<1>1. CASE Edits
  <2>1. \A k \in Handlers : LoweredOf(call'[k], server', since'[k])
    BY <1>0, <1>1, EditsRows, LoweredStays, RegNextCases
  <2> QED
    BY <2>1 DEF DriftLowersTrust, LoweredOf, Vouched
<1>2. ASSUME NEW h \in Handlers, Registers(h) \/ Reviews(h) \/ Pays(h) \/ Die(h)
      PROVE  DriftLowersTrust'
  <2>1. \A k \in Handlers \ {h} : call'[k] = call[k]
    BY <1>2, OthersWait
  <2>2. \A k \in Handlers \ {h} : LoweredOf(call'[k], server', since'[k])
    BY <1>0, <2>1, LoweredStays, RegNextCases
  <2>3. LoweredOf(call'[h], server', since'[h])
    BY <1>0, <1>2, LoweredMoves, RegNextCases
  <2>4. \A k \in Handlers : LoweredOf(call'[k], server', since'[k])
    BY <2>2, <2>3
  <2> QED
    BY <2>4 DEF DriftLowersTrust, LoweredOf, Vouched
<1> QED
  BY <1>1, <1>2, RegNextCases

----------------------------------------------------------------------------
\* A handler keeps the tool and the status its call came with.
LEMMA CallKept ==
  ASSUME RegTypeOK, RegLocals, NEW h \in Handlers, call[h].step # "idle",
         Registers(h) \/ Reviews(h) \/ Pays(h) \/ Die(h)
  PROVE  call'[h].tool = call[h].tool /\ call'[h].status = call[h].status
<1>0. call[h] \in CallType /\ call \in [Handlers -> CallType]
  BY DEF RegTypeOK
<1>1. CASE ReadPrior(h)
  BY <1>0, <1>1 DEF ReadPrior, Next1, CallType
<1>2. CASE Reread(h)
  BY <1>0, <1>2 DEF Reread, Next1, CallType
<1>3. CASE ReadTrust(h)
  BY <1>0, <1>3 DEF ReadTrust, Next1, CallType
<1>4. CASE ReadServer(h)
  BY <1>0, <1>4 DEF ReadServer, Next1, CallType
<1>5. CASE UpsertTool(h) \/ Downgrade(h) \/ AlertDrift(h) \/ AlertQuarantine(h) \/ WriteReview(h)
           \/ ReadTool(h)
  <2>1. PICK to : Step(h, call[h].step, to)
    BY <1>5 DEF UpsertTool, Downgrade, AlertDrift, AlertQuarantine, WriteReview, ReadTool, Step
  <2> QED
    BY <1>0, <2>1, StepTo
<1>6. CASE ReadGrant(h)
  BY <1>0, <1>6, StepTo DEF ReadGrant
<1>7. CASE Die(h)
  BY <1>0, <1>7 DEF Die, CallType
<1>8. ASSUME NEW t \in Tools, StartRegister(h, t) \/ StartReview(h, t) \/ StartPay(h, t)
      PROVE  FALSE
  BY <1>8 DEF StartRegister, StartReview, StartPay, Next1
<1> QED
  BY <1>1, <1>2, <1>3, <1>4, <1>5, <1>6, <1>7, <1>8 DEF Registers, Reviews, Pays

\* A handler that is about to announce the row of its tool still is after its step, or has.
LEMMA AboutToMoves ==
  ASSUME RegTypeOK, RegLocals, NEW h \in Handlers, NEW t \in Tools, tool[t] # NoRow,
         tool[t].status # "clear", tool'[t] = tool[t], AboutToAnnounce(call[h], t, tool[t]),
         Registers(h) \/ Reviews(h) \/ Pays(h) \/ Die(h)
  PROVE  AboutToAnnounce(call'[h], t, tool'[t]) \/ Key("quarantine", t, tool'[t]) \in queued'
<1>0. call[h] \in CallType /\ call \in [Handlers -> CallType]
  BY DEF RegTypeOK
<1>a. call[h].step \in {"reread", "died"} \cup Reading /\ call[h].tool = t /\ call'[h].tool = t
  BY CallKept DEF AboutToAnnounce, Reading
<1>1. CASE Reread(h)
  <2>1. call'[h].row = tool[t] /\ call'[h].step \in Reading
    BY <1>0, <1>1, <1>a DEF Reread, Next1, CallType, Reading
  <2> QED
    BY <1>a, <2>1 DEF AboutToAnnounce
<1>2. CASE ReadTrust(h)
  <2>1. call'[h].row = call[h].row /\ call'[h].step \in Reading /\ call[h].step = "trust"
    BY <1>0, <1>2 DEF ReadTrust, Next1, CallType, Reading
  <2> QED
    BY <1>a, <2>1 DEF AboutToAnnounce
<1>3. CASE Downgrade(h) \/ AlertDrift(h)
  <2>1. PICK to \in {"drift", "quarantine"} : Step(h, call[h].step, to)
    BY <1>3 DEF Downgrade, AlertDrift, Step
  <2>2. call[h].step \in {"downgrade", "drift"}
    BY <1>3 DEF Downgrade, AlertDrift, Step
  <2>3. call'[h].row = call[h].row /\ call'[h].step \in Reading
    BY <1>0, <2>1, StepTo DEF Reading
  <2> QED
    BY <1>a, <2>2, <2>3 DEF AboutToAnnounce
<1>4. CASE AlertQuarantine(h)
  <2>1. /\ call[h].step = "quarantine"
        /\ call[h].row.status # "clear" =>
             queued' = queued \cup {Key("quarantine", t, call[h].row)}
    BY <1>4, <1>a DEF AlertQuarantine, Step
  <2>2. Key("quarantine", t, call[h].row) = Key("quarantine", t, tool[t])
    BY <2>1 DEF AboutToAnnounce, Key
  <2>3. call[h].row.status # "clear"
    BY <2>1 DEF AboutToAnnounce
  <2> QED
    BY <2>1, <2>2, <2>3
<1>5. CASE Die(h)
  <2>1. call'[h].step = "died"
    BY <1>0, <1>5 DEF Die, CallType
  <2> QED
    BY <1>a, <2>1 DEF AboutToAnnounce
<1>6. ASSUME \/ UpsertTool(h) \/ ReadPrior(h) \/ Reviews(h) \/ Pays(h)
             \/ \E s \in Tools : StartRegister(h, s)
      PROVE  FALSE
  BY <1>6, <1>a DEF UpsertTool, ReadPrior, Reviews, StartReview, WriteReview, Pays, StartPay, ReadTool,
                    ReadServer, ReadGrant, StartRegister, Step, Next1, Reading
<1> QED
  BY <1>1, <1>2, <1>3, <1>4, <1>5, <1>6 DEF Registers

\* Rows of tools change when one is registered or reviewed, in no other step.
LEMMA ToolWritten ==
  ASSUME NEW h \in Handlers, Registers(h) \/ Reviews(h) \/ Pays(h) \/ Die(h)
  PROVE  /\ UpsertTool(h) \/ WriteReview(h) \/ UNCHANGED tool
         /\ queued \subseteq queued'
  BY DEF Registers, Reviews, Pays, Die, StartRegister, StartReview, StartPay, ReadPrior, Reread,
         ReadTrust, Downgrade, AlertDrift, AlertQuarantine, ReadTool, ReadServer, ReadGrant,
         UpsertTool, WriteReview, regRows

\* A registration announces the very row it stored, as long as that is the row.
LEMMA AnnouncedMoves ==
  ASSUME RegTypeOK, RegLocals, Announced, NEW h \in Handlers,
         Registers(h) \/ Reviews(h) \/ Pays(h) \/ Die(h)
  PROVE  Announced'
<1>0. call[h] \in CallType /\ Knows(call[h], server, tool) /\ call \in [Handlers -> CallType]
  BY DEF RegTypeOK, RegLocals
<1>1. \A k \in Handlers \ {h} : call'[k] = call[k]
  BY OthersWait
<1>2. SUFFICES ASSUME NEW t \in Tools, tool'[t] # NoRow, tool'[t].status # "clear", ~Reviewed(t)'
               PROVE  \/ \E k \in Handlers : AboutToAnnounce(call'[k], t, tool'[t])
                      \/ Key("quarantine", t, tool'[t]) \in queued'
  BY DEF Announced, Announcing, Key
<1>3. ~Reviewed(t)
  <2>1. ASSUME NEW k \in Handlers, call[k].tool = t, call[k].status # "clear"
        PROVE  call'[k].tool = t /\ call'[k].status # "clear"
    <3>1. call[k].step # "idle"
      BY <2>1, RegistryTyped DEF RegLocals, Knows, Idle
    <3> QED
      BY <1>1, <2>1, <3>1, CallKept
  <2> QED
    BY <1>2, <2>1 DEF Reviewed
<1>4. CASE tool'[t] = tool[t]
  <2>1. CASE Key("quarantine", t, tool[t]) \in queued
    BY <1>4, <2>1, ToolWritten
  <2>2. CASE Announcing(t)
    <3>1. PICK k \in Handlers : AboutToAnnounce(call[k], t, tool[t])
      BY <2>2 DEF Announcing
    <3>2. CASE k # h
      BY <1>1, <1>4, <3>1, <3>2
    <3>3. CASE k = h
      BY <1>2, <1>4, <3>1, <3>3, AboutToMoves
    <3> QED
      BY <3>2, <3>3
  <2> QED
    BY <1>2, <1>3, <1>4, <2>1, <2>2 DEF Announced
<1>5. CASE tool'[t] # tool[t]
  <2>1. CASE UpsertTool(h)
    <3>1. call'[h].step = "reread" /\ call'[h].tool = call[h].tool
      BY <1>0, <2>1, StepTo DEF UpsertTool
    <3>2. call[h].tool = t
      BY <1>5, <2>1 DEF UpsertTool, RegTypeOK
    <3> QED
      BY <3>1, <3>2 DEF AboutToAnnounce
  <2>2. CASE WriteReview(h)
    <3>1. call[h].tool = t
      BY <1>5, <2>2 DEF WriteReview, RegTypeOK
    <3>2. tool[t] \in ToolRow
      BY <1>0, <2>2, <3>1 DEF WriteReview, Step, Knows, RegTypeOK
    <3>3. tool'[t].status = call[h].status
      BY <2>2, <3>1, <3>2 DEF WriteReview, RegTypeOK, ToolRow
    <3> QED
      BY <1>2, <1>3, <3>1, <3>3 DEF Reviewed
  <2> QED
    BY <1>5, <2>1, <2>2, ToolWritten
<1> QED
  BY <1>4, <1>5

LEMMA AnnouncedStep ==
  ASSUME RegTypeOK, RegLocals, Announced, RegNext
  PROVE  Announced'
<1>1. CASE Edits
  <2>1. UNCHANGED <<tool, queued, call>>
    BY <1>1, EditsRows
  <2> QED
    BY <2>1 DEF Announced, Announcing, Reviewed, Key
<1> QED
  BY <1>1, AnnouncedMoves, RegNextCases

----------------------------------------------------------------------------
\* The invariant holds of an empty registry and is kept by every step.
LEMMA RegInvInit ==
  ASSUME RegInit
  PROVE  RegInv
<1> USE RegistryTyped
<1>1. Idle \in CallType /\ Knows(Idle, server, tool)
  BY DEF Idle, CallType, Steps, Quarantine, Knows, Registering1, Stored, Reading
<1>2. \A h \in Handlers : call[h] = Idle
  BY DEF RegInit
<1>3. RegTypeOK
  BY <1>1 DEF RegInit, RegTypeOK
<1>4. Unbarred /\ DriftLowersTrust
  BY <1>2 DEF Unbarred, UnbarredOf, DriftLowersTrust, Idle
<1>5. Announced
  BY DEF Announced, RegInit
<1> QED
  BY <1>1, <1>2, <1>3, <1>4, <1>5 DEF RegInv, RegLocals

LEMMA RegInvStep ==
  ASSUME RegInv, [RegNext]_regVars
  PROVE  RegInv'
<1>1. CASE RegNext
  BY <1>1, RegStepTyped, UnbarredStep, LoweredStep, AnnouncedStep DEF RegInv
<1>2. CASE UNCHANGED regVars
  BY <1>2 DEF regVars, RegInv, RegTypeOK, RegLocals, Knows, Unbarred, UnbarredOf, DriftLowersTrust,
              Vouched, Announced, Announcing, AboutToAnnounce, Reviewed, Key
<1> QED
  BY <1>1, <1>2

\* What a handler of the registry knows in each step: rows it has found stay, a payment past a
\* check was not barred by it, and a stored quarantine is announced or still to be.
THEOREM RegistryInvariant == RegSpec => []RegInv
<1>1. RegInit => RegInv
  BY RegInvInit
<1>2. RegInv /\ [RegNext]_regVars => RegInv'
  BY RegInvStep
<1> QED
  BY <1>1, <1>2, PTL DEF RegSpec

\* The rows and locals of the registry stay typed, a tool keeps its server and a permission its
\* tool (app/mcp/api.py, app/storage.py: rows are upserted, never deleted, in this order).
THEOREM RegistryTypes == RegSpec => []RegTypeOK
<1>1. RegInv => RegTypeOK
  BY DEF RegInv
<1> QED
  BY <1>1, RegistryInvariant, PTL

\* A payment that was barred from before the policy read the tool until it decided does not pass,
\* and a big one on an unknown server waits for a human (enforce_mcp_payment_policy).
THEOREM BarredToolsPayNothing == RegSpec => []BarredPaysNothing
<1>1. RegInv => BarredPaysNothing
  <2>1. Unbarred => BarredPaysNothing
    BY DEF Unbarred, UnbarredOf, BarredPaysNothing
  <2> QED
    BY <2>1 DEF RegInv
<1> QED
  BY <1>1, RegistryInvariant, PTL

\* Once a changed description is announced the server is vouched for only if an administrator has
\* said so since it was stored (register_mcp_tool: downgrade before the drift alert).
THEOREM DriftLowersTheTrust == RegSpec => []DriftLowersTrust
<1>1. RegInv => DriftLowersTrust
  BY DEF RegInv
<1> QED
  BY <1>1, RegistryInvariant, PTL

\* Once no registration of a tool is on its way, and none died, a tool that registrations put in
\* quarantine has an alert for just its description and status (register_mcp_tool).
THEOREM QuarantinesAreAnnounced == RegSpec => []QuarantineAnnounced
<1>1. RegInv => QuarantineAnnounced
  <2>1. ASSUME RegInv, NEW t \in Tools, ~Registering(t)
        PROVE  ~Announcing(t)
    BY <2>1 DEF Announcing, AboutToAnnounce, Registering, Reading
  <2> QED
    BY <2>1 DEF RegInv, Announced, QuarantineAnnounced
<1> QED
  BY <1>1, RegistryInvariant, PTL

\* A review that stores its verdict and a registration that keeps or clears the flags.
LEMMA ReviewClears ==
  ASSUME RegTypeOK, RegLocals, RegNext, NEW t \in Tools, tool[t] # NoRow, tool'[t] # tool[t]
  PROVE  /\ tool[t].status # "clear" /\ tool'[t].status = "clear"
              => \/ Found[tool'[t].description] = {}
                 \/ \E h \in Handlers : call[h].step = "review" /\ call[h].status = "clear"
         /\ tool[t].status = "blocked" /\ "critical" \in Found[tool'[t].description]
              => tool'[t].status \in {"quarantined", "blocked"}
                 \/ \E h \in Handlers : call[h].step = "review"
<1>1. PICK h \in Handlers : UpsertTool(h) \/ WriteReview(h)
  BY EditsRows, RegNextCases, ToolWritten
<1>2. call[h].tool = t
  BY <1>1 DEF UpsertTool, WriteReview, RegTypeOK
<1>0. call[h] \in CallType /\ Knows(call[h], server, tool) /\ tool[t] \in ToolRow
  BY DEF RegTypeOK, RegLocals
<1>3. CASE UpsertTool(h)
  <2>1. call[h].description \in Descriptions
    BY <1>0, <1>3 DEF UpsertTool, Step, Knows, Registering1
  <2>2. tool'[t] = Registered(tool[t], call[h].description)
    BY <1>2, <1>3 DEF UpsertTool, RegTypeOK
  <2> QED
    BY <1>0, <2>1, <2>2, RegisteredClear
<1>4. CASE WriteReview(h)
  <2>1. call[h].step = "review"
    BY <1>4 DEF WriteReview, Step
  <2>2. tool'[t].status = call[h].status
    BY <1>0, <1>2, <1>4 DEF WriteReview, RegTypeOK, ToolRow
  <2> QED
    BY <2>1, <2>2
<1> QED
  BY <1>1, <1>3, <1>4

\* A tool leaves quarantine only by a review or with a description in which nothing is found, and a
\* blocked one is not released by a critical description (upsert_mcp_tool, review_mcp_tool).
THEOREM OnlyReviewsClear == RegSpec => OnlyReviewClears
<1> DEFINE Clears == \A t \in Tools : tool[t] # NoRow /\ tool'[t] # tool[t] =>
         /\ tool[t].status # "clear" /\ tool'[t].status = "clear"
              => \/ Found[tool'[t].description] = {}
                 \/ \E h \in Handlers : call[h].step = "review" /\ call[h].status = "clear"
         /\ tool[t].status = "blocked" /\ "critical" \in Found[tool'[t].description]
              => tool'[t].status \in {"quarantined", "blocked"}
                 \/ \E h \in Handlers : call[h].step = "review"
<1>1. RegInv /\ [RegNext]_regVars => [Clears]_regVars
  BY ReviewClears DEF RegInv
<1> QED
  BY <1>1, RegistryInvariant, PTL DEF RegSpec, OnlyReviewClears

----------------------------------------------------------------------------
(* The audit chain, appended to by several processes.                      *)

\* The sequence numbers are 1 to n, one entry for each, and each entry recomputes and names the
\* hash of the one before.
NumberedTo(n) == /\ \A k \in 1..n : \E r \in entries : r.sequence = k
                 /\ \A r \in entries : r.sequence \in 1..n
Numbered == \E n \in Nat : NumberedTo(n)
Unique == \A r, q \in entries : r.sequence = q.sequence => r = q
Linked == \A r \in entries :
    /\ Recomputes(r) /\ r.content \in Changes
    /\ r.sequence = 1 => r.previous = Genesis
    /\ \A q \in entries : r.sequence = q.sequence + 1 => r.previous = q.hash
\* A change has at most one entry, exactly one when it counts as logged.
OneEntryEach ==
    /\ \A r, q \in entries : r.content = q.content => r = q
    /\ \A c \in Changes : fate[c] = "logged" <=> \E r \in entries : r.content = c
Appending(p) == last[p] # Unread
\* Who is between the read of the last entry and the insertion of the next writes an entry nobody
\* else writes.
Writers ==
    /\ \A p \in Processes : Appending(p) =>
         /\ writing[p] \in Changes /\ fate[writing[p]] = "committed"
    /\ \A p, q \in Processes : Appending(p) /\ Appending(q) /\ writing[p] = writing[q] => p = q
ChainTyped ==
    /\ last \in [Processes -> {Unread, Genesis} \cup {<<r>> : r \in entries}]
    /\ writing \in [Processes -> Changes \cup {Unread}]
    /\ fate \in [Changes -> {"committed", "logged", "lost"}]

\* The invariant of the chain.
ChainInv == ChainTyped /\ Numbered /\ Unique /\ Linked /\ OneEntryEach /\ Writers

\* Reading the last entry, and a process that dies with what it read.
LEMMA ReadLastKeeps ==
  ASSUME ChainInv, NEW p \in Processes, NEW c \in Changes, ReadLast(p, c)
  PROVE  ChainInv'
<1> DEFINE row == CHOOSE r \in Latest : TRUE
<1>1. entries # {} => row \in entries
  <2> SUFFICES ASSUME entries # {} PROVE Latest # {}
    BY DEF Latest
  <2>1. PICK n \in Nat : NumberedTo(n)
    BY DEF ChainInv, Numbered
  <2>2. n \in 1..n
    BY <2>1 DEF NumberedTo
  <2>3. PICK r \in entries : r.sequence = n
    BY <2>1, <2>2 DEF NumberedTo
  <2>4. \A q \in entries : q.sequence <= r.sequence
    BY <2>1, <2>3 DEF NumberedTo
  <2> QED
    BY <2>4 DEF Latest
<1> DEFINE read == IF entries = {} THEN Genesis ELSE <<row>>
<1>2. read \in {Unread, Genesis} \cup {<<r>> : r \in entries}
  BY <1>1
<1>3. /\ last' = [last EXCEPT ![p] = read] /\ writing' = [writing EXCEPT ![p] = c]
      /\ UNCHANGED <<entries, fate>> /\ fate[c] = "committed" /\ \A q \in Processes : writing[q] # c
  BY DEF ReadLast
<1> HIDE DEF row, read
<1>4. ChainTyped'
  BY <1>2, <1>3 DEF ChainInv, ChainTyped
<1>5. Writers'
  BY <1>3 DEF ChainInv, ChainTyped, Writers, Appending
<1>6. (Numbered /\ Unique /\ Linked /\ OneEntryEach)'
  BY <1>3 DEF ChainInv, Numbered, NumberedTo, Unique, Linked, OneEntryEach, Recomputes, HashOf
<1> QED
  BY <1>4, <1>5, <1>6 DEF ChainInv

\* A process ends its append, whatever became of it.
LEMMA WriterDone ==
  ASSUME ChainInv, NEW p \in Processes, Appending(p), NEW end \in {"logged", "lost"},
         entries \subseteq entries',
         fate' = [fate EXCEPT ![writing[p]] = end],
         last' = [last EXCEPT ![p] = Unread],
         writing' = [writing EXCEPT ![p] = Unread]
  PROVE  ChainTyped' /\ Writers'
<1>1. writing[p] \in Changes
  BY DEF ChainInv, Writers
<1>2. ChainTyped'
  BY <1>1 DEF ChainInv, ChainTyped
<1>3. \A q \in Processes : Appending(q)' =>
         q # p /\ Appending(q) /\ writing'[q] = writing[q]
  BY DEF Appending, ChainInv, ChainTyped
<1>4. \A q \in Processes : Appending(q)' =>
         writing'[q] \in Changes /\ fate'[writing'[q]] = "committed"
  BY <1>1, <1>3 DEF ChainInv, ChainTyped, Writers
<1>5. \A q, r \in Processes : Appending(q)' /\ Appending(r)' /\ writing'[q] = writing'[r] => q = r
  BY <1>3 DEF ChainInv, Writers
<1> QED
  BY <1>2, <1>4, <1>5 DEF Writers, Appending

LEMMA LostKeeps ==
  ASSUME ChainInv, NEW p \in Processes, Appending(p), UNCHANGED entries,
         fate' = [fate EXCEPT ![writing[p]] = "lost"],
         last' = [last EXCEPT ![p] = Unread],
         writing' = [writing EXCEPT ![p] = Unread]
  PROVE  ChainInv'
<1>1. ChainTyped' /\ Writers'
  BY WriterDone
<1>2. writing[p] \in Changes /\ fate[writing[p]] = "committed"
  BY DEF ChainInv, Writers
<1>3. ~\E r \in entries : r.content = writing[p]
  BY <1>2 DEF ChainInv, OneEntryEach
<1>4. OneEntryEach'
  BY <1>2, <1>3 DEF ChainInv, ChainTyped, OneEntryEach
<1>5. (Numbered /\ Unique /\ Linked)'
  BY DEF ChainInv, Numbered, NumberedTo, Unique, Linked, Recomputes, HashOf
<1> QED
  BY <1>1, <1>4, <1>5 DEF ChainInv

\* A row that does not collide continues the log where it ends.
LEMMA SuccessorIsNext ==
  ASSUME ChainInv, NEW p \in Processes, Appending(p),
         ~Collides(Successor(last[p], writing[p])), NEW n \in Nat, NumberedTo(n)
  PROVE  LET row == Successor(last[p], writing[p]) IN
         /\ row.sequence = n + 1 /\ row.content = writing[p] /\ Recomputes(row)
         /\ n = 0 => row.previous = Genesis
         /\ \A q \in entries : q.sequence = n => row.previous = q.hash
<1> DEFINE row == Successor(last[p], writing[p])
<1>0. \A q \in entries : q.sequence # row.sequence
  BY DEF Collides
<1>1. last[p] = Genesis \/ \E r \in entries : last[p] = <<r>>
  BY DEF ChainInv, ChainTyped, Appending
<1>2. CASE last[p] = Genesis
  <2>1. row.sequence = 1 /\ row.previous = Genesis /\ row.content = writing[p] /\ Recomputes(row)
    BY <1>2 DEF Successor, Recomputes
  <2>2. n = 0
    BY <1>0, <2>1 DEF NumberedTo
  <2> QED
    BY <2>1, <2>2 DEF NumberedTo
<1>3. ASSUME NEW r \in entries, last[p] = <<r>>, last[p] # Genesis
      PROVE  /\ row.sequence = n + 1 /\ row.content = writing[p] /\ Recomputes(row)
             /\ n # 0 /\ \A q \in entries : q.sequence = n => row.previous = q.hash
  <2>1. /\ row.sequence = r.sequence + 1 /\ row.previous = r.hash /\ row.content = writing[p]
        /\ Recomputes(row)
    BY <1>3 DEF Successor, Recomputes
  <2>2. r.sequence \in 1..n
    BY DEF NumberedTo
  <2>3. r.sequence + 1 \notin 1..n
    BY <1>0, <2>1 DEF NumberedTo
  <2>4. r.sequence = n
    BY <2>2, <2>3
  <2> QED
    BY <2>1, <2>2, <2>4 DEF ChainInv, Unique
<1> QED
  BY <1>1, <1>2, <1>3

\* The insertion: it succeeds only on the number after the last one, whatever the writer had read.
LEMMA LoggedKeeps ==
  ASSUME ChainInv, NEW p \in Processes, Appending(p), ~Collides(Successor(last[p], writing[p])),
         entries' = entries \cup {Successor(last[p], writing[p])},
         fate' = [fate EXCEPT ![writing[p]] = "logged"],
         last' = [last EXCEPT ![p] = Unread],
         writing' = [writing EXCEPT ![p] = Unread]
  PROVE  ChainInv'
<1> DEFINE row == Successor(last[p], writing[p])
<1>1. ChainTyped' /\ Writers'
  BY WriterDone
<1>2. writing[p] \in Changes /\ fate[writing[p]] = "committed"
  BY DEF ChainInv, Writers
<1>3. ~\E r \in entries : r.content = writing[p]
  BY <1>2 DEF ChainInv, OneEntryEach
<1>4. PICK n \in Nat : NumberedTo(n)
  BY DEF ChainInv, Numbered
<1>5. /\ row.sequence = n + 1 /\ row.content = writing[p] /\ Recomputes(row)
      /\ n = 0 => row.previous = Genesis
      /\ \A q \in entries : q.sequence = n => row.previous = q.hash
  BY <1>4, SuccessorIsNext
<1>6. entries' = entries \cup {row}
  OBVIOUS
<1> HIDE DEF row
<1>7. \A q \in entries : q.sequence \in 1..n
  BY <1>4 DEF NumberedTo
<1>8. NumberedTo(n + 1)'
  <2>1. ASSUME NEW k \in 1..(n + 1)
        PROVE  \E r \in entries' : r.sequence = k
    <3>1. CASE k = n + 1
      BY <1>5, <1>6, <3>1
    <3>2. CASE k # n + 1
      <4>1. k \in 1..n
        BY <3>2
      <4> QED
        BY <1>4, <1>6, <4>1 DEF NumberedTo
    <3> QED
      BY <3>1, <3>2
  <2>2. \A r \in entries' : r.sequence \in 1..(n + 1)
    BY <1>5, <1>6, <1>7
  <2> QED
    BY <2>1, <2>2 DEF NumberedTo
<1>9. Numbered'
  BY <1>8 DEF Numbered
<1>10. Unique'
  BY <1>5, <1>6, <1>7 DEF ChainInv, Unique
<1>11. Linked'
  <2>1. \A r \in entries : Linked => /\ Recomputes(r) /\ r.content \in Changes
                                     /\ r.sequence = 1 => r.previous = Genesis
    BY DEF Linked
  <2>2. ASSUME NEW r \in entries', NEW q \in entries', r.sequence = q.sequence + 1
        PROVE  r.previous = q.hash
    <3>1. CASE r = row
      <4>1. q.sequence = n
        BY <1>5, <1>6, <1>7, <2>2, <3>1
      <4>2. q \in entries
        BY <1>5, <1>6, <4>1
      <4> QED
        BY <1>5, <3>1, <4>1, <4>2
    <3>2. CASE r \in entries
      <4>1. q \in entries
        BY <1>5, <1>6, <1>7, <2>2, <3>2
      <4> QED
        BY <2>2, <3>2, <4>1 DEF ChainInv, Linked
    <3> QED
      BY <1>6, <3>1, <3>2
  <2>3. ASSUME NEW r \in entries'
        PROVE  Recomputes(r) /\ r.content \in Changes /\ (r.sequence = 1 => r.previous = Genesis)
    BY <1>2, <1>5, <1>6, <2>1 DEF ChainInv
  <2> QED
    BY <2>2, <2>3 DEF Linked, Recomputes, HashOf
<1>12. OneEntryEach'
  <2>1. \A r, q \in entries' : r.content = q.content => r = q
    BY <1>3, <1>5, <1>6 DEF ChainInv, OneEntryEach
  <2>2. ASSUME NEW c \in Changes
        PROVE  fate'[c] = "logged" <=> \E r \in entries' : r.content = c
    BY <1>2, <1>5, <1>6 DEF ChainInv, ChainTyped, OneEntryEach
  <2> QED
    BY <2>1, <2>2 DEF OneEntryEach
<1> QED
  BY <1>1, <1>9, <1>10, <1>11, <1>12 DEF ChainInv

\* The invariant holds of an empty log and is kept by every step.
LEMMA ChainInvStep ==
  ASSUME ChainInv, [ChainNext]_chainVars
  PROVE  ChainInv'
<1>1. ASSUME NEW p \in Processes, NEW c \in Changes, ReadLast(p, c)
      PROVE  ChainInv'
  BY <1>1, ReadLastKeeps
<1>2. ASSUME NEW p \in Processes, InsertEntry(p)
      PROVE  ChainInv'
  <2> DEFINE row == Successor(last[p], writing[p])
  <2>1. CASE Collides(row)
    BY <1>2, <2>1, LostKeeps DEF InsertEntry, Appending
  <2>2. CASE ~Collides(row)
    BY <1>2, <2>2, LoggedKeeps DEF InsertEntry, Appending
  <2> QED
    BY <2>1, <2>2
<1>3. ASSUME NEW p \in Processes, LoseWriter(p)
      PROVE  ChainInv'
  BY <1>3, LostKeeps DEF LoseWriter, Appending
<1>4. CASE UNCHANGED chainVars
  BY <1>4 DEF chainVars, ChainInv, ChainTyped, Numbered, NumberedTo, Unique, Linked, OneEntryEach,
              Recomputes, HashOf, Writers, Appending
<1> QED
  BY <1>1, <1>2, <1>3, <1>4 DEF ChainNext

LEMMA ChainInvInit ==
  ASSUME ChainInit
  PROVE  ChainInv
<1>1. NumberedTo(0)
  BY DEF ChainInit, NumberedTo
<1> QED
  BY <1>1 DEF ChainInit, ChainInv, ChainTyped, Numbered, Unique, Linked, OneEntryEach, Writers, Appending

----------------------------------------------------------------------------
\* Numbers that grow from place to place are at least their place,
LEMMA GrowsAbove ==
  ASSUME NEW n \in Nat, NEW g \in [1..n -> 1..n], \A i, j \in 1..n : i < j => g[i] < g[j],
         NEW k \in 1..n
  PROVE  k <= g[k]
<1> DEFINE low == {i \in 1..n : g[i] < i}
<1>1. SUFFICES ASSUME low # {} PROVE FALSE
  OBVIOUS
<1>2. low \in SUBSET Nat
  OBVIOUS
<1>3. PICK m \in low : \A i \in low : m <= i
  BY <1>1, <1>2, NatMin
<1>4. m \in 1..n /\ g[m] < m /\ g[m] \in 1..n
  OBVIOUS
<1>5. m - 1 \in 1..n /\ m - 1 < m
  BY <1>4
<1>6. g[m - 1] < g[m] /\ g[m - 1] \in 1..n
  BY <1>4, <1>5
<1>7. m - 1 \notin low
  BY <1>3, <1>4
<1>8. ~(g[m - 1] < m - 1)
  BY <1>5, <1>7
<1> QED
  BY <1>4, <1>6, <1>8

\* and, counted from the other end, at most their place.
LEMMA GrowsBelow ==
  ASSUME NEW n \in Nat, NEW g \in [1..n -> 1..n], \A i, j \in 1..n : i < j => g[i] < g[j],
         NEW k \in 1..n
  PROVE  g[k] <= k
<1> DEFINE high == {n - i : i \in {j \in 1..n : g[j] > j}}
<1>1. SUFFICES ASSUME high # {} PROVE FALSE
  OBVIOUS
<1>2. high \in SUBSET Nat
  OBVIOUS
<1>3. PICK d \in high : \A e \in high : d <= e
  BY <1>1, <1>2, NatMin
<1>4. PICK m \in 1..n : g[m] > m /\ d = n - m
  OBVIOUS
<1>5. m + 1 \in 1..n
  BY <1>4
<1>6. g[m] < g[m + 1] /\ g[m + 1] \in 1..n /\ g[m] \in 1..n
  BY <1>4, <1>5
<1>7. n - (m + 1) \notin high
  <2>1. ~(d <= n - (m + 1))
    BY <1>4
  <2> HIDE DEF high
  <2> QED
    BY <1>3, <2>1
<1>8. ~(g[m + 1] > m + 1)
  BY <1>5, <1>7
<1> QED
  BY <1>4, <1>6, <1>8

\* The log has as many rows as its greatest number.
LEMMA RowsCounted ==
  ASSUME ChainInv, NEW n \in Nat, NumberedTo(n)
  PROVE  /\ Cardinality(entries) = n
         /\ \E s \in [1..n -> entries] : \A i \in 1..n : s[i].sequence = i
<1> DEFINE s == [k \in 1..n |-> CHOOSE r \in entries : r.sequence = k]
<1>1. \A k \in 1..n : s[k] \in entries /\ s[k].sequence = k
  BY DEF NumberedTo
<1>2. s \in [1..n -> entries]
  BY <1>1
<1>3. \A r \in entries : r.sequence \in 1..n /\ s[r.sequence] = r
  BY <1>1 DEF ChainInv, Unique, NumberedTo
<1> HIDE DEF s
<1>4. s \in Bijection(1..n, entries)
  <2>1. s \in Injection(1..n, entries)
    BY <1>1, <1>2 DEF Injection, IsInjective
  <2>2. s \in Surjection(1..n, entries)
    BY <1>2, <1>3 DEF Surjection
  <2> QED
    BY <2>1, <2>2 DEF Bijection
<1>5. Cardinality(entries) = n
  BY <1>4, FS_CountingElements DEF ExistsBijection
<1> QED
  BY <1>1, <1>2, <1>5

\* Read in the order of their numbers, the rows are at the places of their numbers.
LEMMA ListedByNumber ==
  ASSUME ChainInv, NEW n \in Nat, NumberedTo(n)
  PROVE  Listed \in [1..n -> entries] /\ \A i \in 1..n : Listed[i].sequence = i
<1> DEFINE InOrder(s) == \A i, j \in DOMAIN s : i < j => s[i] # s[j] /\ s[i].sequence <= s[j].sequence
<1>1. Cardinality(entries) = n
  BY RowsCounted
<1>2. PICK b \in [1..n -> entries] : \A i \in 1..n : b[i].sequence = i
  BY RowsCounted
<1>3. InOrder(b)
  BY <1>2
<1>4. Listed \in [1..n -> entries] /\ InOrder(Listed)
  BY <1>1, <1>3 DEF Listed
<1>5. \A r \in entries : r.sequence \in 1..n
  BY DEF NumberedTo
<1> DEFINE g == [i \in 1..n |-> Listed[i].sequence]
<1>6. g \in [1..n -> 1..n]
  BY <1>4, <1>5
<1>7. \A i, j \in 1..n : i < j => g[i] < g[j]
  <2> SUFFICES ASSUME NEW i \in 1..n, NEW j \in 1..n, i < j
               PROVE  Listed[i].sequence < Listed[j].sequence
    OBVIOUS
  <2>1. Listed[i] # Listed[j] /\ Listed[i].sequence <= Listed[j].sequence
    BY <1>4
  <2>2. Listed[i] \in entries /\ Listed[j] \in entries
    BY <1>4
  <2>3. Listed[i].sequence # Listed[j].sequence
    BY <2>1, <2>2 DEF ChainInv, Unique
  <2>4. Listed[i].sequence \in 1..n /\ Listed[j].sequence \in 1..n
    BY <1>5, <2>2
  <2> QED
    BY <2>1, <2>3, <2>4
<1>8. \A i \in 1..n : g[i] \in 1..n /\ i <= g[i] /\ g[i] <= i
  BY <1>6, <1>7, GrowsAbove, GrowsBelow
<1>9. ASSUME NEW i \in 1..n
      PROVE  Listed[i].sequence = i
  BY <1>8
<1> QED
  BY <1>4, <1>9

\* What is so numbered and linked verifies, as a whole and in every slice.
LEMMA ChainIsVerified ==
  ASSUME ChainInv
  PROVE  ChainVerifies
<1>1. PICK n \in Nat : NumberedTo(n)
  BY DEF ChainInv, Numbered
<1> DEFINE s == Listed
<1>2. s \in [1..n -> entries] /\ \A i \in 1..n : s[i].sequence = i
  BY <1>1, ListedByNumber
<1> HIDE DEF s
<1>3. s \in Seq(entries) /\ Len(s) = n
  BY <1>2
<1>4. ASSUME NEW i \in 1..n
      PROVE  Recomputes(s[i]) /\ (i = 1 => s[i].previous = Genesis)
  BY <1>2, <1>4 DEF ChainInv, Linked
<1>5. ASSUME NEW i \in 1..n, i > 1
      PROVE  s[i].previous = s[i - 1].hash
  <2>1. i - 1 \in 1..n
    BY <1>5
  <2>2. s[i] \in entries /\ s[i - 1] \in entries /\ s[i].sequence = s[i - 1].sequence + 1
    BY <1>2, <2>1
  <2> QED
    BY <2>2 DEF ChainInv, Linked
<1>6. ChainValid(s)
  BY <1>3, <1>4, <1>5 DEF ChainValid
<1>7. ASSUME NEW i \in 1..n, NEW j \in 1..n
      PROVE  SegmentValid(SubSeq(s, i, j))
  <2> DEFINE part == SubSeq(s, i, j)
  <2>1. ASSUME NEW k \in 1..Len(part)
        PROVE  part[k] = s[i + k - 1] /\ i + k - 1 \in 1..n
    BY <1>3, <2>1
  <2>2. ASSUME NEW k \in 1..Len(part), k > 1
        PROVE  part[k].previous = part[k - 1].hash
    <3>1. k - 1 \in 1..Len(part)
      BY <1>3, <2>2
    <3>2. part[k - 1] = s[i + (k - 1) - 1]
      BY <2>1, <3>1
    <3>3. i + (k - 1) - 1 = (i + k - 1) - 1 /\ i + k - 1 > 1
      BY <2>2
    <3>4. part[k] = s[i + k - 1] /\ i + k - 1 \in 1..n
      BY <2>1
    <3> QED
      BY <1>5, <3>2, <3>3, <3>4
  <2>3. ASSUME NEW k \in 1..Len(part)
        PROVE  Recomputes(part[k])
    BY <1>4, <2>1
  <2> QED
    BY <2>2, <2>3 DEF SegmentValid
<1>8. \A i, j \in 1..Len(s) : SegmentValid(SubSeq(s, i, j))
  BY <1>3, <1>7
<1> QED
  BY <1>6, <1>8 DEF s, ChainVerifies, ChainInv, OneEntryEach

\* Any number of processes that append to the audit log number it without a gap and link every entry
\* to the one before (append_audit_entry: the unique sequence number decides who was first).
THEOREM ChainInvariant == ChainSpec => []ChainInv
<1>1. ChainInit => ChainInv
  BY ChainInvInit
<1>2. ChainInv /\ [ChainNext]_chainVars => ChainInv'
  BY ChainInvStep
<1> QED
  BY <1>1, <1>2, PTL DEF ChainSpec

\* The log verifies as a whole and in every slice of a report, and has one entry of each change that
\* was not lost (verify_audit_chain, verify_chain_segment, append_audit_entry).
THEOREM ChainAlwaysVerifies == ChainSpec => []ChainVerifies
<1>1. ChainInv => ChainVerifies
  BY ChainIsVerified
<1> QED
  BY <1>1, ChainInvariant, PTL

----------------------------------------------------------------------------
(* The trace of a payment.                                                 *)

\* Calls that have a verdict in the log, and calls that are held or decided and never have one.
Judged == {"paid", "over"}
Held == {"held", "decided"}

\* What a row says of the call that wrote it.
Telling(row) ==
    /\ row.by \in Runs /\ row.tx \in {NoId, row.by}
    /\ row.body = IF row.kind = "decision" THEN Decision ELSE BodyOf[row.by]
    /\ row.approval = IF row.kind \in {"request", "decision"} THEN row.by ELSE NoId
    /\ row.kind = "score" => row.tx = row.by
    /\ row.kind = "decision" => row.tx = NoId
\* How far that call has come.
Following(row, at) ==
    /\ row.kind = "verdict" => at[row.by] \in Judged
    /\ row.kind \in {"request", "decision"} => at[row.by] \in Held

\* The invariant of the log: of the rows of one call only the anomaly score follows the verdict.
TraceInv ==
    /\ TraceTypeOK
    /\ \A i \in DOMAIN rows : Telling(rows[i]) /\ Following(rows[i], step)
    /\ \A i, j \in DOMAIN rows :
          i < j /\ rows[i].by = rows[j].by /\ rows[i].kind = "verdict" => rows[j].kind = "score"

----------------------------------------------------------------------------
\* How far a call can have come.
TraceSteps == {"called", "checked", "held", "decided", "evaluated", "scored", "paid", "over"}

\* A step that appends one row.
LEMMA AppendStep ==
  ASSUME TraceInv, NEW r \in Runs, NEW from \in TraceSteps, NEW to \in TraceSteps, Move(r, from, to),
         NEW row \in RowType, rows' = Append(rows, row), Telling(row), row.by = r,
         row.kind = "verdict" => to \in Judged,
         row.kind \in {"request", "decision"} => to \in Held,
         from \in Judged => to \in Judged /\ row.kind = "score",
         from \in Held => to \in Held
  PROVE  TraceInv'
<1> DEFINE next == Len(rows) + 1
<1>1. /\ rows \in Seq(RowType) /\ step \in [Runs -> TraceSteps]
  BY DEF TraceInv, TraceTypeOK, TraceSteps
<1>2. /\ step[r] = from /\ step'[r] = to /\ step' \in [Runs -> TraceSteps]
      /\ \A s \in Runs \ {r} : step'[s] = step[s]
  BY <1>1 DEF Move
<1> HIDE DEF RowType
<1>3. /\ rows' \in Seq(RowType) /\ Len(rows) \in Nat
      /\ DOMAIN rows = 1 .. Len(rows) /\ DOMAIN rows' = 1 .. next
      /\ \A i \in 1 .. Len(rows) : rows'[i] = rows[i]
      /\ rows'[next] = row
  BY <1>1
<1>4. \A i \in DOMAIN rows' : i = next \/ i \in 1 .. Len(rows)
  BY <1>3
<1>5. \A i \in 1 .. Len(rows) : Telling(rows[i]) /\ Following(rows[i], step)
  BY <1>3 DEF TraceInv
<1>6. ASSUME NEW i \in DOMAIN rows' PROVE Telling(rows'[i]) /\ Following(rows'[i], step')
  <2>1. CASE i = next
    BY <1>2, <1>3, <2>1 DEF Following
  <2>2. CASE i \in 1 .. Len(rows)
    <3>1. Telling(rows[i]) /\ Following(rows[i], step) /\ rows'[i] = rows[i]
      BY <1>3, <1>5, <2>2
    <3>2. CASE rows[i].by = r
      BY <1>2, <3>1, <3>2 DEF Following
    <3>3. CASE rows[i].by # r
      BY <1>2, <3>1, <3>3 DEF Following, Telling
    <3> QED
      BY <3>1, <3>2, <3>3
  <2> QED
    BY <1>4, <2>1, <2>2
<1>7. ASSUME NEW i \in DOMAIN rows', NEW j \in DOMAIN rows', i < j,
             rows'[i].by = rows'[j].by, rows'[i].kind = "verdict"
      PROVE  rows'[j].kind = "score"
  <2>1. i \in 1 .. Len(rows) /\ rows'[i] = rows[i]
    BY <1>3, <1>7
  <2>2. CASE j = next
    <3>1. step[r] \in Judged
      BY <1>3, <1>5, <1>7, <2>1, <2>2 DEF Following
    <3> QED
      BY <1>2, <1>3, <2>2, <3>1
  <2>3. CASE j \in 1 .. Len(rows)
    BY <1>3, <1>7, <2>1, <2>3 DEF TraceInv
  <2> QED
    BY <1>4, <2>2, <2>3
<1> QED
  BY <1>2, <1>3, <1>6, <1>7 DEF TraceInv, TraceTypeOK, TraceSteps

\* Every step appends the row of its call.
LEMMA TraceMoves ==
  TraceInv /\ [TraceNext]_traceVars => TraceInv'
<1> SUFFICES ASSUME TraceInv, [TraceNext]_traceVars PROVE TraceInv'
  OBVIOUS
<1>1. CASE UNCHANGED traceVars
  BY <1>1 DEF traceVars, TraceInv, TraceTypeOK
<1>2. ASSUME NEW r \in Runs, NEW kind \in {"check", "fee", "verdict", "request", "score"},
             NEW tx \in {NoId, r}, NEW approval, Append1(r, kind, tx, approval),
             approval = IF kind = "request" THEN r ELSE NoId,
             kind = "score" => tx = r
      PROVE  \E row \in RowType : rows' = Append(rows, row) /\ Telling(row) /\ row.by = r
                                   /\ row.kind = kind
  <2> DEFINE row == Row(r, kind, BodyOf[r], tx, approval)
  <2>1. rows' = Append(rows, row)
    BY <1>2 DEF Append1
  <2>2. row \in RowType
    BY <1>2, RunsTyped DEF Row, RowType
  <2>3. /\ row.by = r /\ row.kind = kind /\ row.tx = tx /\ row.approval = approval
        /\ row.body = BodyOf[r]
    BY DEF Row
  <2> HIDE DEF row
  <2>4. Telling(row)
    BY <1>2, <2>3 DEF Telling
  <2> QED
    BY <2>1, <2>2, <2>3, <2>4
<1>3. ASSUME NEW r \in Runs, Check(r) PROVE TraceInv'
  <2>1. Move(r, "called", "checked") /\ Append1(r, "check", NoId, NoId)
    BY <1>3 DEF Check
  <2>2. PICK row \in RowType : rows' = Append(rows, row) /\ Telling(row) /\ row.by = r
                                /\ row.kind = "check"
    BY <1>2, <2>1
  <2> QED
    BY <2>1, <2>2, AppendStep DEF TraceSteps, Judged, Held
<1>4. ASSUME NEW r \in Runs, AskFee(r) PROVE TraceInv'
  <2>1. Move(r, "checked", "over") /\ Append1(r, "fee", NoId, NoId)
    BY <1>4 DEF AskFee
  <2>2. PICK row \in RowType : rows' = Append(rows, row) /\ Telling(row) /\ row.by = r
                                /\ row.kind = "fee"
    BY <1>2, <2>1
  <2> QED
    BY <2>1, <2>2, AppendStep DEF TraceSteps, Judged, Held
<1>5. ASSUME NEW r \in Runs, DenyPlain(r) PROVE TraceInv'
  <2>1. Move(r, "checked", "over") /\ Append1(r, "verdict", NoId, NoId)
    BY <1>5 DEF DenyPlain
  <2>2. PICK row \in RowType : rows' = Append(rows, row) /\ Telling(row) /\ row.by = r
                                /\ row.kind = "verdict"
    BY <1>2, <2>1
  <2> QED
    BY <2>1, <2>2, AppendStep DEF TraceSteps, Judged, Held
<1>6. ASSUME NEW r \in Runs, RequestApproval(r) PROVE TraceInv'
  <2>1. Move(r, "checked", "held") /\ Append1(r, "request", NoId, r)
    BY <1>6 DEF RequestApproval
  <2>2. PICK row \in RowType : rows' = Append(rows, row) /\ Telling(row) /\ row.by = r
                                /\ row.kind = "request"
    BY <1>2, <2>1
  <2> QED
    BY <2>1, <2>2, AppendStep DEF TraceSteps, Judged, Held
<1>7. ASSUME NEW r \in Runs, Decide(r) PROVE TraceInv'
  <2> DEFINE row == Row(r, "decision", Decision, NoId, r)
  <2>1. Move(r, "held", "decided") /\ rows' = Append(rows, row)
    BY <1>7 DEF Decide
  <2>2. row \in RowType
    BY RunsTyped DEF Row, RowType
  <2>3. row.by = r /\ row.kind = "decision" /\ Telling(row)
    BY DEF Row, Telling
  <2> HIDE DEF row
  <2> QED
    BY <2>1, <2>2, <2>3, AppendStep DEF TraceSteps, Judged, Held
<1>8. ASSUME NEW r \in Runs, Evaluate(r) PROVE TraceInv'
  <2>1. Move(r, "checked", "evaluated") /\ Append1(r, "check", r, NoId)
    BY <1>8 DEF Evaluate
  <2>2. PICK row \in RowType : rows' = Append(rows, row) /\ Telling(row) /\ row.by = r
                                /\ row.kind = "check"
    BY <1>2, <2>1
  <2> QED
    BY <2>1, <2>2, AppendStep DEF TraceSteps, Judged, Held
<1>9. ASSUME NEW r \in Runs, ScoreDenied(r) PROVE TraceInv'
  <2>1. Move(r, "evaluated", "scored") /\ Append1(r, "score", r, NoId)
    BY <1>9 DEF ScoreDenied
  <2>2. PICK row \in RowType : rows' = Append(rows, row) /\ Telling(row) /\ row.by = r
                                /\ row.kind = "score"
    BY <1>2, <2>1
  <2> QED
    BY <2>1, <2>2, AppendStep DEF TraceSteps, Judged, Held
<1>10. ASSUME NEW r \in Runs, DenyAnomaly(r) PROVE TraceInv'
  <2>1. Move(r, "scored", "over") /\ Append1(r, "verdict", r, NoId)
    BY <1>10 DEF DenyAnomaly
  <2>2. PICK row \in RowType : rows' = Append(rows, row) /\ Telling(row) /\ row.by = r
                                /\ row.kind = "verdict"
    BY <1>2, <2>1
  <2> QED
    BY <2>1, <2>2, AppendStep DEF TraceSteps, Judged, Held
<1>11. ASSUME NEW r \in Runs, Authorize(r) PROVE TraceInv'
  <2>1. Move(r, "checked", "paid") /\ Append1(r, "verdict", r, NoId)
    BY <1>11 DEF Authorize
  <2>2. PICK row \in RowType : rows' = Append(rows, row) /\ Telling(row) /\ row.by = r
                                /\ row.kind = "verdict"
    BY <1>2, <2>1
  <2> QED
    BY <2>1, <2>2, AppendStep DEF TraceSteps, Judged, Held
<1>12. ASSUME NEW r \in Runs, ScorePaid(r) PROVE TraceInv'
  <2>1. Move(r, "paid", "over") /\ Append1(r, "score", r, NoId)
    BY <1>12 DEF ScorePaid
  <2>2. PICK row \in RowType : rows' = Append(rows, row) /\ Telling(row) /\ row.by = r
                                /\ row.kind = "score"
    BY <1>2, <2>1
  <2> QED
    BY <2>1, <2>2, AppendStep DEF TraceSteps, Judged, Held
<1> QED
  BY <1>1, <1>3, <1>4, <1>5, <1>6, <1>7, <1>8, <1>9, <1>10, <1>11, <1>12 DEF TraceNext

LEMMA TraceBegins ==
  TraceInit => TraceInv
<1> SUFFICES ASSUME TraceInit PROVE TraceInv
  OBVIOUS
<1>1. rows = <<>> /\ step = [r \in Runs |-> "called"]
  BY DEF TraceInit
<1>2. rows \in Seq(RowType) /\ DOMAIN rows = {}
  BY <1>1
<1> QED
  BY <1>1, <1>2 DEF TraceInv, TraceTypeOK

\* The invariant of the log holds.
LEMMA TraceInvariant ==
  TraceSpec => []TraceInv
<1> QED
  BY TraceBegins, TraceMoves, PTL DEF TraceSpec

----------------------------------------------------------------------------
\* A call is judged at most once, by the row its trace ends at.
LEMMA OneEnd ==
  ASSUME TraceInv, NEW r \in Traced
  PROVE  /\ r \in Runs /\ End(r) \in OfTransaction(r) /\ Terminal(End(r))
         /\ VerdictOf(r) = {End(r)} /\ rows[End(r)].by = r /\ rows[End(r)].body = BodyOf[r]
         /\ {i \in OfTransaction(r) : Terminal(i)} = {End(r)}
         /\ \A i \in OfTransaction(r) : rows[i].by = r /\ rows[i].body = BodyOf[r]
         /\ step[r] \in Judged
<1>1. r \in Runs /\ r # NoId
  BY RunsTyped DEF Traced
<1>2. PICK e \in VerdictOf(r) : rows[e].tx = r
  BY DEF Traced
<1>3. /\ DOMAIN rows = 1 .. Len(rows) /\ Len(rows) \in Nat
      /\ \A i \in DOMAIN rows : Telling(rows[i]) /\ Following(rows[i], step)
  <2>1. rows \in Seq(RowType)
    BY DEF TraceInv, TraceTypeOK
  <2> HIDE DEF RowType
  <2>2. DOMAIN rows = 1 .. Len(rows) /\ Len(rows) \in Nat
    BY <2>1
  <2> QED
    BY <2>2 DEF TraceInv
<1>4. e \in DOMAIN rows /\ rows[e].kind = "verdict" /\ rows[e].by = r
  BY <1>2 DEF VerdictOf, WrittenBy, Terminal
<1>5. ASSUME NEW d \in VerdictOf(r) PROVE d = e
  <2>1. d \in DOMAIN rows /\ rows[d].kind = "verdict" /\ rows[d].by = r
    BY <1>5 DEF VerdictOf, WrittenBy, Terminal
  <2>2. ~(d < e) /\ ~(e < d)
    BY <1>4, <2>1 DEF TraceInv
  <2> QED
    BY <1>3, <1>4, <2>1, <2>2
<1>6. \A i \in OfTransaction(r) : i \in DOMAIN rows /\ rows[i].by = r /\ rows[i].body = BodyOf[r]
  BY <1>1, <1>3 DEF OfTransaction, Telling
<1>7. {i \in OfTransaction(r) : Terminal(i)} = {e}
  <2>1. \A i \in OfTransaction(r) : Terminal(i) => i \in VerdictOf(r)
    BY <1>6 DEF VerdictOf, WrittenBy
  <2>2. e \in OfTransaction(r) /\ Terminal(e)
    BY <1>2, <1>4 DEF OfTransaction, Terminal
  <2> QED
    BY <1>5, <2>1, <2>2
<1>8. End(r) = e
  <2>1. LeastOf({e}) = e
    BY <1>3, <1>4 DEF LeastOf
  <2> QED
    BY <1>7, <2>1 DEF End
<1> QED
  BY <1>1, <1>2, <1>3, <1>4, <1>5, <1>6, <1>7, <1>8 DEF OfTransaction, Terminal, Telling, Following

\* The trace of a judged payment has one verdict, its own, every row of its call and of the approvals
\* of its body that no other call of that body was judged after, and of a call judged before it at most
\* the late score (build_transaction_trace, _windowed_request_trace_entries).
THEOREM TracesAreOfOnePayment ==
  TraceSpec => []TraceOfOnePayment
<1>1. TraceInv => TraceOfOnePayment
  <2> SUFFICES ASSUME TraceInv, NEW r \in Traced
               PROVE  LET T == TraceOf(r)
                          end == End(r) IN
         /\ {i \in T : Terminal(i)} = {end} /\ rows[end].by = r
         /\ \A i \in WrittenBy(r) : (\A j \in VerdictOf(r) : NoneJudgedBetween(i, j)) => i \in T
         /\ \A s \in Runs : \A i \in WrittenBy(s) :
              rows[i].kind = "request" /\ rows[i].body = BodyOf[r] /\ i < end
                /\ NoneJudgedBetween(i, end) => OfApproval(s) \subseteq T
         /\ \A s \in Runs \ {r} : \A i \in T \cap WrittenBy(s) :
              (\E v \in VerdictOf(s) : \A j \in WrittenBy(r) : v < j) => rows[i].kind = "score"
    BY DEF TraceOfOnePayment
  <2> DEFINE T == TraceOf(r)
             end == End(r)
             own == OfTransaction(r)
             window == Window(BodyOf[r], end)
             approvals == ApprovalsIn(own \cup window)
  <2>1. /\ r \in Runs /\ end \in own /\ Terminal(end)
        /\ VerdictOf(r) = {end} /\ rows[end].by = r /\ rows[end].body = BodyOf[r]
        /\ {i \in own : Terminal(i)} = {end}
        /\ \A i \in own : rows[i].by = r /\ rows[i].body = BodyOf[r]
        /\ step[r] \in Judged
    BY OneEnd
  <2> HIDE DEF end, own
  <2>2. /\ DOMAIN rows = 1 .. Len(rows) /\ Len(rows) \in Nat
        /\ \A i \in DOMAIN rows : Telling(rows[i]) /\ Following(rows[i], step)
    <3>1. rows \in Seq(RowType)
      BY DEF TraceInv, TraceTypeOK
    <3> HIDE DEF RowType
    <3>2. DOMAIN rows = 1 .. Len(rows) /\ Len(rows) \in Nat
      BY <3>1
    <3> QED
      BY <3>2 DEF TraceInv
  <2>3. T = own \cup window \cup UNION {OfApproval(a) : a \in approvals}
    <3>1. BodiesIn(own) = {BodyOf[r]}
      BY <2>1 DEF BodiesIn
    <3>2. UNION {Window(b, end) : b \in BodiesIn(own)} = window
      BY <3>1
    <3> QED
      BY <3>2 DEF TraceOf, own, end
  <2> HIDE DEF T
  <2>4. /\ end \in DOMAIN rows /\ own \subseteq DOMAIN rows /\ window \subseteq DOMAIN rows
        /\ rows[end].kind = "verdict"
        /\ \A a : OfApproval(a) \subseteq DOMAIN rows
    BY <2>1 DEF own, OfTransaction, Window, OfBody, OfApproval, Terminal
  <2>5. \A i \in window : Terminal(i) => i = end
    <3> TAKE i \in window
    <3> HAVE Terminal(i)
    <3>1. i \in OfBody(BodyOf[r]) /\ i <= end
          /\ \A j \in OfBody(BodyOf[r]) : Terminal(j) /\ j < end => i > j
      BY DEF Window
    <3> QED
      BY <2>2, <2>4, <3>1
  <2>6. \A a \in approvals : \A i \in OfApproval(a) : ~Terminal(i)
                               /\ rows[i].kind \in {"request", "decision"} /\ rows[i].by = a
    <3> TAKE a \in approvals
    <3> TAKE i \in OfApproval(a)
    <3>1. a # NoId /\ i \in DOMAIN rows /\ rows[i].approval = a
      BY DEF ApprovalsIn, OfApproval
    <3> QED
      BY <2>2, <3>1 DEF Telling, Terminal
  <2>7. {i \in T : Terminal(i)} = {end}
    <3>1. end \in T /\ Terminal(end)
      BY <2>1, <2>3
    <3>2. ASSUME NEW i \in T, Terminal(i) PROVE i = end
      <4>1. i \in own => i = end
        BY <2>1, <3>2
      <4>2. i \in window => i = end
        BY <2>5, <3>2
      <4>3. i \notin UNION {OfApproval(a) : a \in approvals}
        BY <2>6, <3>2
      <4> QED
        BY <2>3, <3>2, <4>1, <4>2, <4>3
    <3> QED
      BY <3>1, <3>2
  <2>8. ASSUME NEW i \in DOMAIN rows, NEW j \in DOMAIN rows, i <= j, NoneJudgedBetween(i, j),
               rows[i].body = rows[j].body, ~Terminal(i) \/ i = j, j = end
        PROVE  i \in window
    <3>1. i \in OfBody(BodyOf[r]) /\ i <= end
      BY <2>1, <2>8 DEF OfBody
    <3>2. ASSUME NEW k \in OfBody(BodyOf[r]), Terminal(k), k < end PROVE i > k
      <4>1. k \in DOMAIN rows /\ rows[k].body = rows[j].body
        BY <2>1, <2>8, <3>2 DEF OfBody
      <4>2. k \notin (i + 1) .. (j - 1)
        BY <2>8, <3>2, <4>1 DEF NoneJudgedBetween
      <4>3. k # i
        <5>1. k # end
          BY <2>2, <2>4, <3>2, <4>1
        <5> QED
          BY <2>8, <3>2, <5>1
      <4> QED
        BY <2>2, <2>4, <2>8, <3>2, <4>1, <4>2, <4>3
    <3> QED
      BY <3>1, <3>2 DEF Window
  <2>9. ASSUME NEW i \in WrittenBy(r), \A j \in VerdictOf(r) : NoneJudgedBetween(i, j)
        PROVE  i \in T
    <3>1. i \in DOMAIN rows /\ rows[i].by = r /\ Telling(rows[i]) /\ Following(rows[i], step)
      BY <2>2 DEF WrittenBy
    <3>2. rows[i].body = BodyOf[r]
      <4>1. rows[i].kind # "decision"
        BY <2>1, <3>1 DEF Following, Judged, Held
      <4> QED
        BY <3>1, <4>1 DEF Telling
    <3>3. CASE i <= end
      <4>1. Terminal(i) => i = end
        BY <2>1, <3>1 DEF VerdictOf, WrittenBy
      <4>2. NoneJudgedBetween(i, end)
        BY <2>1, <2>9
      <4> QED
        BY <2>1, <2>3, <2>4, <2>8, <3>1, <3>2, <3>3, <4>1, <4>2
    <3>4. CASE end < i
      <4>1. rows[i].kind = "score"
        BY <2>1, <2>4, <3>1, <3>4 DEF TraceInv
      <4>2. i \in own
        BY <3>1, <4>1 DEF Telling, own, OfTransaction
      <4> QED
        BY <2>3, <4>2
    <3> QED
      BY <2>2, <2>4, <3>1, <3>3, <3>4
  <2>10. ASSUME NEW s \in Runs, NEW i \in WrittenBy(s), rows[i].kind = "request",
                rows[i].body = BodyOf[r], i < end, NoneJudgedBetween(i, end)
         PROVE  OfApproval(s) \subseteq T
    <3>1. i \in DOMAIN rows /\ rows[i].by = s /\ Telling(rows[i])
      BY <2>2 DEF WrittenBy
    <3>2. ~Terminal(i)
      BY <2>10 DEF Terminal
    <3>3. i <= end
      BY <2>2, <2>4, <2>10, <3>1
    <3>4. i \in window
      BY <2>1, <2>4, <2>8, <2>10, <3>1, <3>2, <3>3
    <3>5. rows[i].approval = s /\ s # NoId
      BY <2>10, <3>1, RunsTyped DEF Telling
    <3>6. s \in approvals
      BY <3>4, <3>5 DEF ApprovalsIn
    <3> QED
      BY <2>3, <3>6
  <2>11. ASSUME NEW s \in Runs \ {r}, NEW i \in T \cap WrittenBy(s),
                NEW v \in VerdictOf(s), \A j \in WrittenBy(r) : v < j
         PROVE  rows[i].kind = "score"
    <3>1. v \in DOMAIN rows /\ rows[v].by = s /\ rows[v].kind = "verdict" /\ step[s] \in Judged
      BY <2>2 DEF VerdictOf, WrittenBy, Terminal, Following
    <3>2. i \in DOMAIN rows /\ rows[i].by = s /\ Telling(rows[i]) /\ Following(rows[i], step)
      BY <2>2 DEF WrittenBy
    <3>3. rows[i].kind \notin {"request", "decision"}
      BY <3>1, <3>2 DEF Following, Judged, Held
    <3>4. i \notin own
      BY <2>1, <3>2
    <3>5. i \in window
      BY <2>3, <2>6, <3>3, <3>4
    <3>6. v < end
      BY <2>1, <2>4, <2>11 DEF WrittenBy
    <3>7. rows[i].body = BodyOf[r] /\ i <= end
      BY <3>5 DEF Window, OfBody
    <3>8. rows[v].body = BodyOf[r]
      <4>1. rows[i].body = BodyOf[s] /\ rows[v].body = BodyOf[s]
        BY <2>2, <3>1, <3>2, <3>3 DEF Telling
      <4> QED
        BY <3>7, <4>1
    <3>9. v < i
      BY <3>1, <3>5, <3>6, <3>8 DEF Window, OfBody, Terminal
    <3> QED
      BY <3>1, <3>2, <3>9 DEF TraceInv
  <2> QED
    BY <2>1, <2>7, <2>9, <2>10, <2>11 DEF T, end
<1> QED
  BY <1>1, TraceInvariant, PTL

\* The rows of the log are those the pipeline writes (app/storage.py, append_audit_entry).
THEOREM TraceTypes ==
  TraceSpec => []TraceTypeOK
<1>1. TraceInv => TraceTypeOK
  BY DEF TraceInv
<1> QED
  BY <1>1, TraceInvariant, PTL

----------------------------------------------------------------------------
(* Anomaly scoring and the profiles it learns from.                        *)

\* What a scoring of p would read now.
VendorCount(p) ==
    Cardinality({q \in log : <<Detail[q].vendor, Detail[q].user>> = <<Detail[p].vendor, Detail[p].user>>})
    + Cardinality({e \in PastLog : e = <<Detail[p].vendor, Detail[p].user>>})
PairCount(p) ==
    Cardinality({q \in log : Detail[q].user = Detail[p].user})
    + Cardinality({e \in PastLog : e[2] = Detail[p].user})
Read(p) == [Blank EXCEPT !.count = profile[Detail[p].currency].count,
              !.total = profile[Detail[p].currency].total,
              !.events = SumFunctionOnSet([c \in Currencies |-> profile[c].count], Currencies)]
Now(p) == [Read(p) EXCEPT !.vendor = VendorCount(p), !.pair = PairCount(p)]

\* A severity the gate lets p pass with.
Fine(p, s) == ~Meets(s, DenyAt) /\ (Meets(s, HoldAt) => p \in approved)
Sev(p, s) == SeverityOf(s, Detail[p].amount, scene.posture)

\* A payment that no other one has overtaken is judged twice by the same history.
Undisturbed(p) ==
    /\ stage[p] \in {"gate_vendor", "final_vendor"} => seen[p] = Read(p)
    /\ stage[p] \in {"gate_pair", "final_pair"} => seen[p] = [Read(p) EXCEPT !.vendor = VendorCount(p)]
    /\ stage[p] = "score" \/ (stage[p] = "gate" /\ Scores) => seen[p] = Now(p)
    /\ stage[p] \in {"final_profiles", "final_vendor", "final_pair", "score"} => Fine(p, Sev(p, Now(p)))
    /\ stage[p] = "log" \/ p \in log => Fine(p, severity[p])

\* What a scoring has read.
Readings == [count : Nat, total : Nat, events : Nat, vendor : Nat, pair : Nat]

\* The invariant of the scoring.
AnomInv ==
    /\ AnomTypeOK /\ log \subseteq Payers /\ scene.past \in Past
    /\ \A p \in Payers : stage[p] \in {"capture", "record"} => p \in log
    /\ Asks => \A p \in Payers \ overlaps : Undisturbed(p)
    /\ ProfileCountsPayments

----------------------------------------------------------------------------
\* The severities.
LEMMA SeveritiesAre ==
  {Severities[i] : i \in 1..4} = {"informational", "low", "medium", "high"}
<1>1. /\ Severities[1] = "informational" /\ Severities[2] = "low"
      /\ Severities[3] = "medium" /\ Severities[4] = "high"
  BY DEF Severities
<1>2. \A i \in 1..4 : i = 1 \/ i = 2 \/ i = 3 \/ i = 4
  OBVIOUS
<1> HIDE DEF Severities
<1> QED
  BY <1>1, <1>2

LEMMA SeverityIsOne ==
  ASSUME NEW s, NEW amount, NEW pos
  PROVE  SeverityOf(s, amount, pos) \in {Severities[i] : i \in 1..4}
<1> QED
  BY SeveritiesAre, Zenon DEF SeverityOf

\* Nothing meets a threshold that is off.
LEMMA NothingMeetsOff ==
  ~Scores /\ Asks => \A s, p : Fine(p, s)
<1> QED
  BY DEF Scores, Fine, Meets

\* What is read from profiles and log are numbers.
LEMMA ReadsAreTyped ==
  ASSUME AnomTypeOK, log \subseteq Payers, NEW p \in Payers
  PROVE  /\ Read(p) \in Readings /\ VendorCount(p) \in Nat /\ PairCount(p) \in Nat
<1>1. /\ Detail[p].currency \in Currencies
      /\ profile \in [Currencies -> [count : Nat, total : Nat]]
  BY AnomTyped DEF AnomTypeOK
<1>2. IsFiniteSet(log) /\ \A S : S \subseteq log \/ S \subseteq PastLog => IsFiniteSet(S)
  BY AnomTyped, FS_Subset
<1>3. \A S : S \subseteq log \/ S \subseteq PastLog => Cardinality(S) \in Nat
  BY <1>2, FS_CardinalityType
<1>4. SumFunctionOnSet([c \in Currencies |-> profile[c].count], Currencies) \in Nat
  <2> DEFINE f == [c \in Currencies |-> profile[c].count]
  <2>1. \A c \in Currencies : f[c] \in Nat
    BY <1>1
  <2> HIDE DEF f
  <2>2. SumFunctionOnSet(f, Currencies) \in Nat
    BY <2>1, AnomTyped, SumNat
  <2> QED
    BY <2>2 DEF f
<1>5. VendorCount(p) \in Nat
  BY <1>3 DEF VendorCount
<1>6. PairCount(p) \in Nat
  BY <1>3 DEF PairCount
<1>7. Read(p) \in Readings
  BY <1>1, <1>4 DEF Read, Blank, Readings
<1> QED
  BY <1>5, <1>6, <1>7

\* A step of a payment that changes neither the log nor the profile.
LEMMA QuietStep ==
  ASSUME AnomInv, NEW p \in Payers, NEW from \in Stages, NEW to \in Stages, Go(p, from, to),
         UNCHANGED <<profile, log, scene>>,
         seen' \in [Payers -> Readings], \A q \in Payers \ {p} : seen'[q] = seen[q],
         severity' \in [Payers -> {Severities[i] : i \in 1..4}],
         \A q \in Payers \ {p} : severity'[q] = severity[q],
         approved \subseteq approved', overlaps \ {p} \subseteq overlaps',
         to \notin {"capture", "record"},
         p \in log => from = "record" /\ to = "over",
         Asks /\ p \notin overlaps' => Undisturbed(p)'
  PROVE  AnomInv'
<1>1. /\ stage \in [Payers -> Stages] /\ stage[p] = from /\ stage'[p] = to
      /\ stage' \in [Payers -> Stages] /\ \A q \in Payers \ {p} : stage'[q] = stage[q]
  BY DEF AnomInv, AnomTypeOK, Go
<1>2. AnomTypeOK'
  BY <1>1 DEF AnomInv, AnomTypeOK, Readings
<1>3. \A q \in Payers : stage'[q] \in {"capture", "record"} => q \in log'
  BY <1>1 DEF AnomInv
<1>4. ASSUME Asks', NEW q \in Payers, q \notin overlaps' PROVE Undisturbed(q)'
  <2>1. Asks
    BY <1>4 DEF Asks
  <2>2. CASE q = p
    BY <1>4, <2>1, <2>2
  <2>3. CASE q # p
    <3>1. Undisturbed(q)
      BY <1>4, <2>1, <2>3 DEF AnomInv
    <3>2. /\ stage'[q] = stage[q] /\ seen'[q] = seen[q] /\ severity'[q] = severity[q]
          /\ Read(q)' = Read(q) /\ VendorCount(q)' = VendorCount(q) /\ Now(q)' = Now(q)
          /\ Scores' = Scores
      BY <1>1, <2>3 DEF Read, VendorCount, PairCount, Now, Scores, Asks
    <3>3. \A s : Fine(q, s) => Fine(q, s)'
      BY DEF Fine, Meets
    <3>4. \A s : Sev(q, s)' = Sev(q, s)
      BY DEF Sev
    <3> QED
      BY <3>1, <3>2, <3>3, <3>4 DEF Undisturbed
  <2> QED
    BY <2>2, <2>3
<1>5. \A c \in Currencies : Captured(c)' = Captured(c)
  BY <1>1 DEF Captured, AnomInv
<1>6. ProfileCountsPayments'
  BY <1>5 DEF AnomInv, ProfileCountsPayments, Asks
<1> QED
  BY <1>2, <1>3, <1>4, <1>6 DEF AnomInv

\* The three reads of a scoring, each by the count of the tables as they are.
LEMMA ReadProfilesDoes ==
  ASSUME AnomInv, NEW p \in Payers, NEW from, NEW to, ReadProfiles(p, from, to)
  PROVE  /\ seen' \in [Payers -> Readings] /\ \A q \in Payers \ {p} : seen'[q] = seen[q]
         /\ seen'[p] = Read(p)
<1>1. AnomTypeOK /\ log \subseteq Payers /\ seen \in [Payers -> Readings]
  BY DEF AnomInv, AnomTypeOK, Readings
<1>2. seen' = [seen EXCEPT ![p] = Read(p)] /\ Read(p) \in Readings
  BY <1>1, ReadsAreTyped DEF ReadProfiles, Read
<1> QED
  BY <1>1, <1>2

LEMMA CountVendorDoes ==
  ASSUME AnomInv, NEW p \in Payers, NEW from, NEW to, CountVendor(p, from, to)
  PROVE  /\ seen' \in [Payers -> Readings] /\ \A q \in Payers \ {p} : seen'[q] = seen[q]
         /\ seen'[p] = [seen[p] EXCEPT !.vendor = VendorCount(p)]
<1>1. /\ AnomTypeOK /\ log \subseteq Payers /\ seen \in [Payers -> Readings]
      /\ VendorCount(p) \in Nat
  BY ReadsAreTyped DEF AnomInv, AnomTypeOK, Readings
<1>2. seen' = [seen EXCEPT ![p].vendor = VendorCount(p)]
  BY DEF CountVendor, VendorCount
<1> QED
  BY <1>1, <1>2 DEF Readings

LEMMA CountPairDoes ==
  ASSUME AnomInv, NEW p \in Payers, NEW from, NEW to, CountPair(p, from, to)
  PROVE  /\ seen' \in [Payers -> Readings] /\ \A q \in Payers \ {p} : seen'[q] = seen[q]
         /\ seen'[p] = [seen[p] EXCEPT !.pair = PairCount(p)]
<1>1. /\ AnomTypeOK /\ log \subseteq Payers /\ seen \in [Payers -> Readings]
      /\ PairCount(p) \in Nat
  BY ReadsAreTyped DEF AnomInv, AnomTypeOK, Readings
<1>2. seen' = [seen EXCEPT ![p].pair = PairCount(p)]
  BY DEF CountPair, PairCount
<1> QED
  BY <1>1, <1>2 DEF Readings

\* A scoring whose reads are of the same tables has read what is there now.
LEMMA ReadingsMatch ==
  ASSUME AnomTypeOK, log \subseteq Payers, NEW p \in Payers,
         NEW s, s = [Read(p) EXCEPT !.vendor = VendorCount(p)]
  PROVE  [s EXCEPT !.pair = PairCount(p)] = Now(p)
<1>1. Read(p) \in Readings
  BY ReadsAreTyped
<1> QED
  BY <1>1 DEF Now, Readings

LEMMA StandingReads ==
  ASSUME NEW p, UNCHANGED <<profile, log, scene>>
  PROVE  /\ Read(p)' = Read(p) /\ VendorCount(p)' = VendorCount(p) /\ Now(p)' = Now(p)
         /\ \A s : Sev(p, s)' = Sev(p, s)
         /\ Asks' = Asks /\ Scores' = Scores
<1> QED
  BY DEF Read, VendorCount, PairCount, Now, Sev, Asks, Scores

\* One lemma for each step of a payment, from the gate to the row of its score.
LEMMA GateProfilesKeeps ==
  ASSUME AnomInv, NEW p \in Payers, GateProfiles(p)
  PROVE  AnomInv'
<1>1. /\ Go(p, "called", "gate_vendor") /\ UNCHANGED <<profile, log, scene, severity, approved>>
      /\ overlaps' = overlaps \ {p} /\ stage[p] = "called" /\ stage'[p] = "gate_vendor"
      /\ p \notin log
  BY DEF GateProfiles, ReadProfiles, Go, AnomInv, AnomTypeOK
<1>2. /\ seen' \in [Payers -> Readings] /\ \A q \in Payers \ {p} : seen'[q] = seen[q]
      /\ seen'[p] = Read(p)
  BY ReadProfilesDoes DEF GateProfiles
<1>3. Undisturbed(p)'
  BY <1>1, <1>2, StandingReads DEF Undisturbed
<1> QED
  BY <1>1, <1>2, <1>3, QuietStep DEF Stages, AnomInv, AnomTypeOK

LEMMA GateVendorKeeps ==
  ASSUME AnomInv, NEW p \in Payers, GateVendor(p)
  PROVE  AnomInv'
<1>1. /\ Go(p, "gate_vendor", "gate_pair") /\ UNCHANGED <<profile, log, scene, severity, approved, overlaps>>
      /\ stage[p] = "gate_vendor" /\ stage'[p] = "gate_pair" /\ p \notin log
  BY DEF GateVendor, CountVendor, Go, AnomInv, AnomTypeOK
<1>2. /\ seen' \in [Payers -> Readings] /\ \A q \in Payers \ {p} : seen'[q] = seen[q]
      /\ seen'[p] = [seen[p] EXCEPT !.vendor = VendorCount(p)]
  BY CountVendorDoes DEF GateVendor
<1>3. Asks /\ p \notin overlaps => Undisturbed(p)'
  <2>1. Asks /\ p \notin overlaps => Undisturbed(p)
    BY DEF AnomInv
  <2> QED
    BY <1>1, <1>2, <2>1, StandingReads DEF Undisturbed
<1> QED
  BY <1>1, <1>2, <1>3, QuietStep DEF Stages, AnomInv, AnomTypeOK

LEMMA GatePairKeeps ==
  ASSUME AnomInv, NEW p \in Payers, GatePair(p)
  PROVE  AnomInv'
<1>1. /\ Go(p, "gate_pair", "gate") /\ UNCHANGED <<profile, log, scene, severity, approved, overlaps>>
      /\ stage[p] = "gate_pair" /\ stage'[p] = "gate" /\ p \notin log
  BY DEF GatePair, CountPair, Go, AnomInv, AnomTypeOK
<1>2. /\ seen' \in [Payers -> Readings] /\ \A q \in Payers \ {p} : seen'[q] = seen[q]
      /\ seen'[p] = [seen[p] EXCEPT !.pair = PairCount(p)]
  BY CountPairDoes DEF GatePair
<1>3. Asks /\ p \notin overlaps => Undisturbed(p)'
  <2> SUFFICES ASSUME Asks, p \notin overlaps PROVE Undisturbed(p)'
    OBVIOUS
  <2>1. Undisturbed(p)
    BY DEF AnomInv
  <2>2. seen[p] = [Read(p) EXCEPT !.vendor = VendorCount(p)]
    BY <1>1, <2>1 DEF Undisturbed
  <2>3. seen'[p] = Now(p)
    BY <1>2, <2>2, ReadingsMatch DEF AnomInv
  <2> QED
    BY <1>1, <2>3, StandingReads DEF Undisturbed
<1> QED
  BY <1>1, <1>2, <1>3, QuietStep DEF Stages, AnomInv, AnomTypeOK

LEMMA GateUnscoredKeeps ==
  ASSUME AnomInv, NEW p \in Payers, GateUnscored(p)
  PROVE  AnomInv'
<1>1. /\ Go(p, "called", "gate") /\ UNCHANGED <<profile, log, scene, seen, severity, approved, overlaps>>
      /\ stage[p] = "called" /\ stage'[p] = "gate" /\ p \notin log /\ ~Scores
  BY DEF GateUnscored, Go, AnomInv, AnomTypeOK
<1>2. Undisturbed(p)'
  BY <1>1, StandingReads DEF Undisturbed
<1> QED
  BY <1>1, <1>2, QuietStep DEF Stages, AnomInv, AnomTypeOK, Readings

LEMMA GateKeeps ==
  ASSUME AnomInv, NEW p \in Payers, NEW reasons, Gate(p, reasons)
  PROVE  AnomInv'
<1>1. PICK to \in {"denied", "held", "final_profiles"} :
        /\ Go(p, "gate", to)
        /\ to = "final_profiles" => /\ ~Anomalous(p, DenyAt)
                                    /\ Anomalous(p, HoldAt) => p \in approved
  BY DEF Gate
<1>2. /\ UNCHANGED <<profile, log, scene, seen, approved, overlaps>>
      /\ stage[p] = "gate" /\ stage'[p] = to /\ p \notin log
      /\ severity' = IF Scores THEN [severity EXCEPT ![p] = Sev(p, seen[p])] ELSE severity
  BY <1>1 DEF Gate, Scored, Sev, Go, AnomInv, AnomTypeOK
<1>3. /\ severity' \in [Payers -> {Severities[i] : i \in 1..4}]
      /\ \A q \in Payers \ {p} : severity'[q] = severity[q]
  <2>1. Sev(p, seen[p]) \in {Severities[i] : i \in 1..4}
    BY SeverityIsOne DEF Sev
  <2>2. severity \in [Payers -> {Severities[i] : i \in 1..4}]
    BY DEF AnomInv, AnomTypeOK
  <2> QED
    BY <1>2, <2>1, <2>2
<1>4. Asks /\ p \notin overlaps => Undisturbed(p)'
  <2> SUFFICES ASSUME Asks, p \notin overlaps PROVE Undisturbed(p)'
    OBVIOUS
  <2>1. Undisturbed(p)
    BY DEF AnomInv
  <2>2. to = "final_profiles" => Fine(p, Sev(p, Now(p)))
    <3>1. CASE Scores
      BY <1>1, <1>2, <2>1, <3>1 DEF Undisturbed, Anomalous, Fine, Sev
    <3>2. CASE ~Scores
      BY <3>2, NothingMeetsOff
    <3> QED
      BY <3>1, <3>2
  <2>3. \A s : Fine(p, s)' = Fine(p, s)
    BY <1>2 DEF Fine, Meets
  <2> QED
    BY <1>2, <2>2, <2>3, StandingReads DEF Undisturbed
<1> QED
  BY <1>1, <1>2, <1>3, <1>4, QuietStep DEF Stages, AnomInv, AnomTypeOK, Readings


LEMMA ResumeKeeps ==
  ASSUME AnomInv, NEW p \in Payers, Resume(p)
  PROVE  AnomInv'
<1>1. /\ Go(p, "held", "called") /\ UNCHANGED <<profile, log, scene, seen, severity, overlaps>>
      /\ approved \subseteq approved' /\ stage[p] = "held" /\ stage'[p] = "called" /\ p \notin log
  BY DEF Resume, Go, AnomInv, AnomTypeOK
<1>2. Undisturbed(p)'
  BY <1>1 DEF Undisturbed
<1> QED
  BY <1>1, <1>2, QuietStep DEF Stages, AnomInv, AnomTypeOK, Readings

LEMMA DenyRecordedKeeps ==
  ASSUME AnomInv, NEW p \in Payers, DenyRecorded(p)
  PROVE  AnomInv'
<1>1. /\ Go(p, "denied", "over") /\ UNCHANGED <<profile, log, scene, seen, severity, approved, overlaps>>
      /\ stage[p] = "denied" /\ stage'[p] = "over" /\ p \notin log
  BY DEF DenyRecorded, Go, AnomInv, AnomTypeOK
<1>2. Undisturbed(p)'
  BY <1>1 DEF Undisturbed
<1> QED
  BY <1>1, <1>2, QuietStep DEF Stages, AnomInv, AnomTypeOK, Readings

LEMMA FinalProfilesKeeps ==
  ASSUME AnomInv, NEW p \in Payers, FinalProfiles(p)
  PROVE  AnomInv'
<1>1. /\ Go(p, "final_profiles", "final_vendor")
      /\ UNCHANGED <<profile, log, scene, severity, approved, overlaps>>
      /\ stage[p] = "final_profiles" /\ stage'[p] = "final_vendor" /\ p \notin log
  BY DEF FinalProfiles, ReadProfiles, Go, AnomInv, AnomTypeOK
<1>2. /\ seen' \in [Payers -> Readings] /\ \A q \in Payers \ {p} : seen'[q] = seen[q]
      /\ seen'[p] = Read(p)
  BY ReadProfilesDoes DEF FinalProfiles
<1>3. Asks /\ p \notin overlaps => Undisturbed(p)'
  <2> SUFFICES ASSUME Asks, p \notin overlaps PROVE Undisturbed(p)'
    OBVIOUS
  <2>1. Fine(p, Sev(p, Now(p)))
    BY <1>1 DEF AnomInv, Undisturbed
  <2>2. \A s : Fine(p, s)' = Fine(p, s)
    BY <1>1 DEF Fine, Meets
  <2> QED
    BY <1>1, <1>2, <2>1, <2>2, StandingReads DEF Undisturbed
<1> QED
  BY <1>1, <1>2, <1>3, QuietStep DEF Stages, AnomInv, AnomTypeOK

LEMMA FinalVendorKeeps ==
  ASSUME AnomInv, NEW p \in Payers, FinalVendor(p)
  PROVE  AnomInv'
<1>1. /\ Go(p, "final_vendor", "final_pair")
      /\ UNCHANGED <<profile, log, scene, severity, approved, overlaps>>
      /\ stage[p] = "final_vendor" /\ stage'[p] = "final_pair" /\ p \notin log
  BY DEF FinalVendor, CountVendor, Go, AnomInv, AnomTypeOK
<1>2. /\ seen' \in [Payers -> Readings] /\ \A q \in Payers \ {p} : seen'[q] = seen[q]
      /\ seen'[p] = [seen[p] EXCEPT !.vendor = VendorCount(p)]
  BY CountVendorDoes DEF FinalVendor
<1>3. Asks /\ p \notin overlaps => Undisturbed(p)'
  <2> SUFFICES ASSUME Asks, p \notin overlaps PROVE Undisturbed(p)'
    OBVIOUS
  <2>1. Fine(p, Sev(p, Now(p))) /\ seen[p] = Read(p)
    BY <1>1 DEF AnomInv, Undisturbed
  <2>2. \A s : Fine(p, s)' = Fine(p, s)
    BY <1>1 DEF Fine, Meets
  <2> QED
    BY <1>1, <1>2, <2>1, <2>2, StandingReads DEF Undisturbed
<1> QED
  BY <1>1, <1>2, <1>3, QuietStep DEF Stages, AnomInv, AnomTypeOK

LEMMA FinalPairKeeps ==
  ASSUME AnomInv, NEW p \in Payers, FinalPair(p)
  PROVE  AnomInv'
<1>1. /\ Go(p, "final_pair", "score")
      /\ UNCHANGED <<profile, log, scene, severity, approved, overlaps>>
      /\ stage[p] = "final_pair" /\ stage'[p] = "score" /\ p \notin log
  BY DEF FinalPair, CountPair, Go, AnomInv, AnomTypeOK
<1>2. /\ seen' \in [Payers -> Readings] /\ \A q \in Payers \ {p} : seen'[q] = seen[q]
      /\ seen'[p] = [seen[p] EXCEPT !.pair = PairCount(p)]
  BY CountPairDoes DEF FinalPair
<1>3. Asks /\ p \notin overlaps => Undisturbed(p)'
  <2> SUFFICES ASSUME Asks, p \notin overlaps PROVE Undisturbed(p)'
    OBVIOUS
  <2>1. Fine(p, Sev(p, Now(p))) /\ seen[p] = [Read(p) EXCEPT !.vendor = VendorCount(p)]
    BY <1>1 DEF AnomInv, Undisturbed
  <2>2. \A s : Fine(p, s)' = Fine(p, s)
    BY <1>1 DEF Fine, Meets
  <2>3. seen'[p] = Now(p)
    BY <1>2, <2>1, ReadingsMatch DEF AnomInv
  <2> QED
    BY <1>1, <2>1, <2>2, <2>3, StandingReads DEF Undisturbed
<1> QED
  BY <1>1, <1>2, <1>3, QuietStep DEF Stages, AnomInv, AnomTypeOK

LEMMA ScoreKeeps ==
  ASSUME AnomInv, NEW p \in Payers, Score(p)
  PROVE  AnomInv'
<1>1. /\ Go(p, "score", "log") /\ UNCHANGED <<profile, log, scene, seen, approved, overlaps>>
      /\ stage[p] = "score" /\ stage'[p] = "log" /\ p \notin log
      /\ severity' = [severity EXCEPT ![p] = Sev(p, seen[p])]
  BY DEF Score, Sev, Go, AnomInv, AnomTypeOK
<1>2. /\ severity' \in [Payers -> {Severities[i] : i \in 1..4}]
      /\ \A q \in Payers \ {p} : severity'[q] = severity[q]
      /\ severity'[p] = Sev(p, seen[p])
  <2>1. Sev(p, seen[p]) \in {Severities[i] : i \in 1..4}
    BY SeverityIsOne DEF Sev
  <2>2. severity \in [Payers -> {Severities[i] : i \in 1..4}]
    BY DEF AnomInv, AnomTypeOK
  <2> QED
    BY <1>1, <2>1, <2>2
<1>3. Asks /\ p \notin overlaps => Undisturbed(p)'
  <2> SUFFICES ASSUME Asks, p \notin overlaps PROVE Undisturbed(p)'
    OBVIOUS
  <2>1. Fine(p, Sev(p, Now(p))) /\ seen[p] = Now(p)
    BY <1>1 DEF AnomInv, Undisturbed
  <2>2. Fine(p, severity[p])'
    BY <1>1, <1>2, <2>1 DEF Fine, Meets
  <2> QED
    BY <1>1, <2>2 DEF Undisturbed
<1> QED
  BY <1>1, <1>2, <1>3, QuietStep DEF Stages, AnomInv, AnomTypeOK, Readings

LEMMA RecordAnomalyKeeps ==
  ASSUME AnomInv, NEW p \in Payers, RecordAnomaly(p)
  PROVE  AnomInv'
<1>1. /\ Go(p, "record", "over") /\ UNCHANGED <<profile, log, scene, seen, severity, approved, overlaps>>
      /\ stage[p] = "record" /\ stage'[p] = "over" /\ p \in log
  BY DEF RecordAnomaly, Go, AnomInv, AnomTypeOK
<1>2. Asks /\ p \notin overlaps => Undisturbed(p)'
  <2> SUFFICES ASSUME Asks, p \notin overlaps PROVE Undisturbed(p)'
    OBVIOUS
  <2>1. Fine(p, severity[p])
    BY <1>1 DEF AnomInv, Undisturbed
  <2>2. Fine(p, severity[p])'
    BY <1>1, <2>1 DEF Fine, Meets
  <2> QED
    BY <1>1, <2>2 DEF Undisturbed
<1> QED
  BY <1>1, <1>2, QuietStep DEF Stages, AnomInv, AnomTypeOK, Readings

\* A step that changes what the others read.
LEMMA LogPaymentKeeps ==
  ASSUME AnomInv, NEW p \in Payers, LogPayment(p)
  PROVE  AnomInv'
<1>1. /\ stage[p] = "log" /\ stage' = [stage EXCEPT ![p] = "capture"] /\ p \notin log
      /\ log' = log \cup {p} /\ overlaps' = overlaps \cup (Payers \ {p})
      /\ UNCHANGED <<profile, scene, seen, severity, approved>>
      /\ stage \in [Payers -> Stages]
  BY DEF LogPayment, Disturbs, Go, AnomInv, AnomTypeOK
<1>2. stage'[p] = "capture" /\ \A q \in Payers \ {p} : stage'[q] = stage[q]
  BY <1>1
<1>3. AnomTypeOK'
  BY <1>1, <1>2 DEF AnomInv, AnomTypeOK, Stages
<1>4. \A c \in Currencies : Captured(c)' = Captured(c)
  <2>1. \A q \in log' : q \in Payers
    BY <1>1 DEF AnomInv
  <2> QED
    BY <1>1, <1>2, <2>1 DEF Captured
<1>5. ProfileCountsPayments'
  BY <1>1, <1>4 DEF AnomInv, ProfileCountsPayments, Asks
<1>6. ASSUME Asks', NEW q \in Payers, q \notin overlaps' PROVE Undisturbed(q)'
  <2>1. q = p /\ Asks /\ q \notin overlaps
    BY <1>1, <1>6 DEF Asks
  <2>2. Fine(p, severity[p])
    BY <1>1, <2>1 DEF AnomInv, Undisturbed
  <2>3. Fine(p, severity[p])'
    BY <1>1, <2>2 DEF Fine, Meets
  <2> QED
    BY <1>2, <2>1, <2>3 DEF Undisturbed
<1>7. /\ log' \subseteq Payers /\ scene'.past \in Past
      /\ \A q \in Payers : stage'[q] \in {"capture", "record"} => q \in log'
  BY <1>1, <1>2 DEF AnomInv
<1> QED
  BY <1>3, <1>5, <1>6, <1>7 DEF AnomInv

\* Capturing a payment adds one to a profile's count, and its amount to the total.
LEMMA ProfileGrows ==
  ASSUME NEW old \in [count : Nat, total : Nat], NEW amount \in Nat,
         NEW new, new = [old EXCEPT !.count = @ + 1, !.total = @ + amount]
  PROVE  /\ new \in [count : Nat, total : Nat] /\ new.count = old.count + 1
         /\ new.total = old.total + amount
<1>1. old.count + 1 \in Nat /\ old.total + amount \in Nat
  OBVIOUS
<1>2. new.count = old.count + 1 /\ new.total = old.total + amount
  OBVIOUS
<1> QED
  BY <1>1, <1>2

LEMMA CaptureKeeps ==
  ASSUME AnomInv, NEW p \in Payers, Capture(p)
  PROVE  AnomInv'
<1> DEFINE c == Detail[p].currency
           amount == [q \in Payers |-> Detail[q].amount]
<1>1. /\ stage[p] = "capture" /\ stage' = [stage EXCEPT ![p] = "record"] /\ p \in log
      /\ overlaps' = overlaps \cup (Payers \ {p})
      /\ UNCHANGED <<log, scene, seen, severity, approved>>
      /\ stage \in [Payers -> Stages] /\ log \subseteq Payers
      /\ profile \in [Currencies -> [count : Nat, total : Nat]] /\ scene.past \in Past
  BY DEF Capture, Disturbs, Go, AnomInv, AnomTypeOK
<1>2. /\ stage'[p] = "record" /\ \A q \in Payers \ {p} : stage'[q] = stage[q]
  BY <1>1
<1>3. c \in Currencies /\ Detail[p].amount \in Nat
  BY AnomTyped
<1>4. profile' = IF ~Asks THEN profile
                 ELSE [profile EXCEPT ![c].count = @ + 1, ![c].total = @ + Detail[p].amount]
  BY DEF Capture
<1>5. /\ profile' \in [Currencies -> [count : Nat, total : Nat]]
      /\ Asks => /\ profile'[c].count = profile[c].count + 1
                 /\ profile'[c].total = profile[c].total + Detail[p].amount
                 /\ \A d \in Currencies \ {c} : profile'[d] = profile[d]
  <2> HIDE DEF c
  <2>1. CASE Asks
    <3> DEFINE new == [profile[c] EXCEPT !.count = @ + 1, !.total = @ + Detail[p].amount]
    <3>0. profile[c] \in [count : Nat, total : Nat]
      BY <1>1, <1>3
    <3>1. new \in [count : Nat, total : Nat] /\ new.count = profile[c].count + 1
          /\ new.total = profile[c].total + Detail[p].amount
      BY <1>3, <3>0, ProfileGrows
    <3>2. profile' = [profile EXCEPT ![c] = new]
      BY <1>4, <2>1
    <3> HIDE DEF new
    <3> QED
      BY <1>1, <1>3, <3>1, <3>2
  <2>2. CASE ~Asks
    BY <1>1, <1>4, <2>2
  <2> QED
    BY <2>1, <2>2
<1>6. AnomTypeOK'
  BY <1>1, <1>2, <1>5 DEF AnomInv, AnomTypeOK, Stages
<1>7. /\ Captured(c)' = Captured(c) \cup {p} /\ p \notin Captured(c)
      /\ \A d \in Currencies \ {c} : Captured(d)' = Captured(d)
  BY <1>1, <1>2 DEF Captured
<1>8. \A d \in Currencies : Captured(d) \subseteq Payers /\ IsFiniteSet(Captured(d))
  <2>1. \A d \in Currencies : Captured(d) \subseteq Payers
    BY <1>1 DEF Captured
  <2> QED
    BY <2>1, AnomTyped, FS_Subset
<1>9. ProfileCountsPayments'
  <2> SUFFICES ASSUME Asks', NEW d \in Currencies
               PROVE  /\ profile'[d].count = scene.past[d].count + Cardinality(Captured(d)')
                      /\ profile'[d].total = scene.past[d].total + SumFunctionOnSet(amount, Captured(d)')
    BY <1>1 DEF ProfileCountsPayments
  <2>1. /\ Asks /\ profile[d].count = scene.past[d].count + Cardinality(Captured(d))
        /\ profile[d].total = scene.past[d].total + SumFunctionOnSet(amount, Captured(d))
    BY <1>1 DEF Asks, AnomInv, ProfileCountsPayments
  <2>2. CASE d # c
    BY <1>5, <1>7, <2>1, <2>2
  <2>3. CASE d = c
    <3>1. Cardinality(Captured(c)') = Cardinality(Captured(c)) + 1
      BY <1>3, <1>7, <1>8, FS_AddElement
    <3>2. \A q \in Captured(c) \cup {p} : amount[q] \in Nat
      BY <1>3, <1>8, AnomTyped
    <3>3. amount[p] = Detail[p].amount
      OBVIOUS
    <3> DEFINE S == Captured(c)
    <3>4. IsFiniteSet(S) /\ p \notin S /\ Captured(c)' = S \cup {p}
      BY <1>3, <1>7, <1>8
    <3> HIDE DEF S, amount
    <3>5. SumFunctionOnSet(amount, S \cup {p}) = amount[p] + SumFunctionOnSet(amount, S)
      BY <3>2, <3>4, SumAdd DEF S
    <3>6. SumFunctionOnSet(amount, S) \in Nat
      BY <3>2, <3>4, SumNat DEF S
    <3>7. /\ Cardinality(S) \in Nat /\ scene.past[c].count \in Nat /\ scene.past[c].total \in Nat
      BY <1>1, <1>3, <3>4, AnomTyped, FS_CardinalityType
    <3>8. SumFunctionOnSet(amount, Captured(c)') = amount[p] + SumFunctionOnSet(amount, S)
      BY <3>4, <3>5
    <3>9. profile'[c].count = scene.past[c].count + Cardinality(Captured(c)')
      BY <1>5, <2>1, <2>3, <3>1, <3>7 DEF S
    <3>10. profile'[c].total = scene.past[c].total + SumFunctionOnSet(amount, Captured(c)')
      <4>1. profile'[c].total = profile[c].total + amount[p]
        BY <1>5, <2>1, <3>3
      <4>2. profile[c].total = scene.past[c].total + SumFunctionOnSet(amount, S)
        BY <2>1, <2>3 DEF S
      <4>3. amount[p] \in Nat
        BY <1>3, <3>3
      <4> QED
        BY <3>6, <3>7, <3>8, <4>1, <4>2, <4>3
    <3> QED
      BY <2>3, <3>9, <3>10
  <2> QED
    BY <2>2, <2>3
<1>10. ASSUME Asks', NEW q \in Payers, q \notin overlaps' PROVE Undisturbed(q)'
  <2>1. q = p /\ Asks /\ q \notin overlaps
    BY <1>1, <1>10 DEF Asks
  <2>2. Fine(p, severity[p])
    BY <1>1, <2>1 DEF AnomInv, Undisturbed
  <2>3. Fine(p, severity[p])'
    BY <1>1, <2>2 DEF Fine, Meets
  <2> QED
    BY <1>2, <2>1, <2>3 DEF Undisturbed
<1>11. /\ log' \subseteq Payers /\ scene'.past \in Past
       /\ \A q \in Payers : stage'[q] \in {"capture", "record"} => q \in log'
  BY <1>1, <1>2 DEF AnomInv
<1> QED
  BY <1>6, <1>9, <1>10, <1>11 DEF AnomInv

\* The invariant holds at first and is kept by every step.
LEMMA AnomBegins ==
  AnomInit => AnomInv
<1> SUFFICES ASSUME AnomInit PROVE AnomInv
  OBVIOUS
<1>1. /\ scene.past \in Past /\ profile = scene.past /\ log = {}
      /\ stage = [p \in Payers |-> "called"] /\ seen = [p \in Payers |-> Blank]
      /\ severity = [p \in Payers |-> "informational"]
  BY DEF AnomInit
<1>2. profile \in [Currencies -> [count : Nat, total : Nat]]
  BY <1>1, AnomTyped
<1>3. AnomTypeOK
  BY <1>1, <1>2, SeveritiesAre DEF AnomTypeOK, Stages, Blank
<1>4. \A p \in Payers : Undisturbed(p)
  BY <1>1 DEF Undisturbed
<1>5. ProfileCountsPayments
  <2>1. \A c \in Currencies : Captured(c) = {}
    BY <1>1 DEF Captured
  <2>2. Cardinality({}) = 0
    BY FS_EmptySet
  <2> DEFINE amount == [p \in Payers |-> Detail[p].amount]
  <2>3. SumFunctionOnSet(amount, {}) = 0
    BY SumEmpty
  <2> HIDE DEF amount
  <2>4. \A c \in Currencies : /\ profile[c].count = scene.past[c].count + Cardinality(Captured(c))
                              /\ profile[c].total = scene.past[c].total + SumFunctionOnSet(amount, Captured(c))
    <3> TAKE c \in Currencies
    <3>1. profile[c].count \in Nat /\ profile[c].total \in Nat /\ profile[c] = scene.past[c]
      BY <1>1, <1>2
    <3>2. Captured(c) = {}
      BY <2>1
    <3> QED
      BY <2>2, <2>3, <3>1, <3>2
  <2> QED
    BY <2>4 DEF ProfileCountsPayments, amount
<1> QED
  BY <1>1, <1>3, <1>4, <1>5 DEF AnomInv

LEMMA AnomMoves ==
  AnomInv /\ [AnomNext]_anomVars => AnomInv'
<1> SUFFICES ASSUME AnomInv, [AnomNext]_anomVars PROVE AnomInv'
  OBVIOUS
<1>1. CASE UNCHANGED anomVars
  <2>1. UNCHANGED <<profile, log, scene, stage, seen, severity, approved, overlaps>>
    BY <1>1 DEF anomVars
  <2>2. AnomTypeOK' /\ ProfileCountsPayments'
    BY <2>1 DEF AnomInv, AnomTypeOK, ProfileCountsPayments, Captured, Asks
  <2>3. ASSUME NEW p \in Payers, Undisturbed(p) PROVE Undisturbed(p)'
    <3>1. \A s : Fine(p, s)' = Fine(p, s)
      BY <2>1 DEF Fine, Meets
    <3> QED
      BY <2>1, <2>3, <3>1, StandingReads DEF Undisturbed
  <2> QED
    BY <2>1, <2>2, <2>3 DEF AnomInv, Asks
<1>2. ASSUME NEW p \in Payers,
             \/ GateProfiles(p) \/ GateVendor(p) \/ GatePair(p) \/ GateUnscored(p)
             \/ Resume(p) \/ DenyRecorded(p)
             \/ FinalProfiles(p) \/ FinalVendor(p) \/ FinalPair(p) \/ Score(p)
             \/ LogPayment(p) \/ Capture(p) \/ RecordAnomaly(p)
      PROVE  AnomInv'
  BY <1>2, GateProfilesKeeps, GateVendorKeeps, GatePairKeeps, GateUnscoredKeeps, ResumeKeeps,
     DenyRecordedKeeps, FinalProfilesKeeps, FinalVendorKeeps, FinalPairKeeps, ScoreKeeps,
     LogPaymentKeeps, CaptureKeeps, RecordAnomalyKeeps
<1>3. ASSUME NEW p \in Payers, GateDirect(p) \/ GateMcp(p)
      PROVE  AnomInv'
  BY <1>3, GateKeeps DEF GateDirect, GateMcp
<1> QED
  BY <1>1, <1>2, <1>3 DEF AnomNext

LEMMA AnomInvariant ==
  AnomSpec => []AnomInv
<1> QED
  BY AnomBegins, AnomMoves, PTL DEF AnomSpec

\* With the policy of identities on, a payment that no other one of the agent overtook between its two
\* scorings is not authorized at a severity that denies, nor at one that holds without a human's approval
\* (enforce_direct_hitl_policy, finalize_authorized_payment).
THEOREM ThresholdsHoldUndisturbed ==
  AnomSpec => []ThresholdsHeld
<1>1. AnomInv => ThresholdsHeld
  BY DEF AnomInv, ThresholdsHeld, Undisturbed, Fine
<1> QED
  BY <1>1, AnomInvariant, PTL

\* However payments overlap, a profile is the one at first and the captured payments, counted and
\* summed (upsert_infrastructure_identity_profile: read and written in one transaction).
THEOREM ProfilesAreExact ==
  AnomSpec => []ProfileCountsPayments
<1>1. AnomInv => ProfileCountsPayments
  BY DEF AnomInv
<1> QED
  BY <1>1, AnomInvariant, PTL

\* Profiles, readings and severities stay typed, and only a finalized payment is in the log.
THEOREM AnomTypes ==
  AnomSpec => []AnomTypeOK
<1>1. AnomInv => AnomTypeOK
  BY DEF AnomInv
<1> QED
  BY <1>1, AnomInvariant, PTL
=============================================================================
