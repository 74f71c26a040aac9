--------------------------- MODULE GatewayProofs ---------------------------
(***************************************************************************)
(* Proofs about Gateway, for any calls, nodes, models and bounds: its      *)
(* types and the cap of its store, the recording of answers, the fate of   *)
(* turns whose session is gone, the routing of calls through old readings, *)
(* and the end of cancelled streams.                                       *)
(***************************************************************************)
EXTENDS Gateway, SequenceTheorems, FiniteSetTheorems, WellFoundedInduction, TLAPS

Types ==
  /\ born \in 0..MaxBorn
  /\ sessions \subseteq 1..born
  /\ speaks \in [Sessions -> Models \cup {None}]
  /\ events \in [Sessions -> Seq(Message)]
  /\ signal \in [Sessions -> Events \cup {None}]
  /\ set \subseteq Events
  /\ turn \in [Turns -> Turn]
  /\ serves \in [Nodes -> Serving]
  /\ cache \in [Nodes -> Stored \cup {None}]
  /\ flight \in [Turns -> 0..MaxFlight]
  /\ \A t \in Turns : turn[t].stage = "asking" => turn[t].node \in Nodes

\* What happens outside the gateway: time passes or a node changes.
Elsewhere == Tick \/ \E n \in Nodes, models \in Reading : Swap(n, models)

\* Who created event e: a turn of session s or its cancellation.
Owned(e, s) == IF e \in Turns THEN turn[e].session = s ELSE e = s

-----------------------------------------------------------------------------
(***************************************************************************)
(* What the steps do to the record of a call.                              *)
(***************************************************************************)
\* Only call t changes.
Only(t) == turn' \in [Turns -> Turn] /\ \A r \in Turns \ {t} : turn'[r] = turn[r]

LEMMA OverEffect ==
  ASSUME Types, NEW t \in Turns, NEW x \in Stages, Over(t, x)
  PROVE  /\ Only(t)
         /\ turn'[t].stage = x
         /\ turn'[t].session = turn[t].session /\ turn'[t].sent = turn[t].sent
         /\ turn'[t].holds = None /\ turn'[t].stop = "no" /\ turn'[t].read = None
<1>1. turn[t] \in Turn
  BY DEF Types
<1> DEFINE r == [Idle EXCEPT !.stage = x, !.session = turn[t].session, !.sent = turn[t].sent]
<1>2. /\ Idle \in Turn
      /\ Idle.holds = None /\ Idle.stop = "no" /\ Idle.read = None
  BY GatewayAssumption DEF GatewayAssumption, Idle, Turn, Stages
<1>3. /\ r \in Turn /\ r.stage = x /\ r.session = turn[t].session /\ r.sent = turn[t].sent
      /\ r.holds = None /\ r.stop = "no" /\ r.read = None
  BY <1>1, <1>2 DEF Turn
<1>4. turn' = [turn EXCEPT ![t] = r]
  BY DEF Over
<1> HIDE DEF r
<1>5. turn' \in [Turns -> Turn] /\ turn'[t] = r /\ \A q \in Turns \ {t} : turn'[q] = turn[q]
  BY <1>3, <1>4 DEF Types
<1> QED  BY <1>3, <1>5 DEF Only

\* The stage and the node of a call, what it read and sent; the rest stays.
Keeps(t) ==
  /\ turn'[t].session = turn[t].session /\ turn'[t].streamed = turn[t].streamed
  /\ turn'[t].holds = turn[t].holds /\ turn'[t].stop = turn[t].stop

LEMMA StageEffect ==
  ASSUME Types, NEW t \in Turns, NEW x \in Stages, Goes(t, x)
  PROVE  /\ Only(t) /\ Keeps(t)
         /\ turn'[t].stage = x /\ turn'[t].sent = turn[t].sent
         /\ turn'[t].read = turn[t].read /\ turn'[t].node = turn[t].node
BY DEF Types, Goes, Only, Keeps, Turn

LEMMA PostEffect ==
  ASSUME Types, NEW t \in Turns, NEW s \in Sessions, NEW b \in BOOLEAN, PostMessage(t, s, b)
  PROVE  /\ Only(t)
         /\ turn'[t].stage = "planning" /\ turn'[t].session = s /\ turn'[t].sent = turn[t].sent
         /\ turn'[t].holds = turn[t].holds /\ turn'[t].stop = turn[t].stop
         /\ turn'[t].read = turn[t].read
<1>1. turn[t] \in Turn /\ speaks[s] \in Models \cup {None} /\ s \in 0..MaxBorn
  BY DEF Types, Sessions
<1>2. turn' = [turn EXCEPT ![t] = [turn[t] EXCEPT !.stage = "planning", !.session = s,
                                    !.streamed = b, !.model = speaks[s]]]
  BY DEF PostMessage
<1> QED  BY <1>1, <1>2 DEF Types, Only, Turn, Stages

LEMMA ChatEffect ==
  ASSUME Types, NEW t \in Turns, NEW m \in Models, NEW b \in BOOLEAN, ChatCompletion(t, m, b)
  PROVE  /\ Only(t)
         /\ turn'[t].stage = "planning" /\ turn'[t].session = turn[t].session
         /\ turn'[t].sent = turn[t].sent
         /\ turn'[t].holds = turn[t].holds /\ turn'[t].stop = turn[t].stop
         /\ turn'[t].read = turn[t].read
<1>1. turn[t] \in Turn
  BY DEF Types
<1>2. turn' = [turn EXCEPT ![t] = [turn[t] EXCEPT !.stage = "planning", !.streamed = b,
                                    !.model = m]]
  BY DEF ChatCompletion
<1> QED  BY <1>1, <1>2 DEF Types, Only, Turn, Stages

\* Begin, as far as the events of the session go.
LEMMA BeginEffect ==
  ASSUME Types, NEW t \in Turns, Begin(t)
  PROVE  /\ turn' \in [Turns -> Turn]
         /\ turn'[t].stage = IF turn[t].streamed THEN "ready" ELSE "running"
         /\ turn'[t].session = turn[t].session /\ turn'[t].sent = turn[t].sent
         /\ turn'[t].streamed = turn[t].streamed /\ turn'[t].stop = turn[t].stop
         /\ \A r \in Turns \ {t} :
              \/ turn'[r] = turn[r] /\ ~ (/\ turn[r].session = turn[t].session
                                          /\ turn[r].session # 0 /\ turn[r].stop = "late")
              \/ /\ turn'[r].stop = "no" /\ turn'[r].stage = turn[r].stage
                 /\ turn'[r].session = turn[r].session /\ turn'[r].sent = turn[r].sent
                 /\ turn'[r].streamed = turn[r].streamed /\ turn'[r].holds = turn[r].holds
                 /\ turn'[r].read = turn[r].read /\ turn'[r].node = turn[r].node
         /\ turn[t].session = 0 =>
              turn'[t].holds = turn[t].holds /\ UNCHANGED <<signal, set>>
         /\ turn[t].session # 0 =>
              /\ turn'[t].holds = EventOf(t, turn[t].session)
              /\ signal' = [signal EXCEPT ![turn[t].session] = EventOf(t, turn[t].session)]
              /\ set' = set \ {EventOf(t, turn[t].session)}
<1> DEFINE s == turn[t].session
           e == EventOf(t, s)
           begun == [turn[t] EXCEPT !.stage = IF turn[t].streamed THEN "ready" ELSE "running",
                                    !.node = None, !.read = None, !.model = None]
           held == [begun EXCEPT !.holds = e]
<1>1. turn[t] \in Turn
  BY DEF Types
<1>2. /\ begun \in Turn
      /\ begun.stage = IF turn[t].streamed THEN "ready" ELSE "running"
      /\ begun.session = s /\ begun.sent = turn[t].sent /\ begun.holds = turn[t].holds
      /\ begun.streamed = turn[t].streamed /\ begun.stop = turn[t].stop
  BY <1>1 DEF Turn, Stages
<1>3. CASE s = 0
  <2>1. turn' = [turn EXCEPT ![t] = begun] /\ UNCHANGED <<signal, set>>
    BY <1>3 DEF Begin
  <2> HIDE DEF begun
  <2>2. /\ turn' \in [Turns -> Turn] /\ turn'[t] = begun
        /\ \A r \in Turns \ {t} : turn'[r] = turn[r]
    BY <1>2, <2>1 DEF Types
  <2> QED  BY <1>2, <1>3, <2>1, <2>2
<1>4. CASE s # 0
  <2>1. /\ signal' = [signal EXCEPT ![s] = e] /\ set' = set \ {e}
        /\ turn' = [Cleared(t, s) EXCEPT ![t] = held]
    BY <1>4 DEF Begin
  <2>2. e \in Events
    BY <1>1, <1>4, GatewayAssumption
       DEF EventOf, SharedEvent, Default, Types, Turn, Events, Sessions, GatewayAssumption
  <2> HIDE DEF begun, e
  <2>3. /\ held \in Turn /\ held.holds = e
        /\ held.stage = begun.stage /\ held.session = begun.session /\ held.sent = begun.sent
        /\ held.streamed = begun.streamed /\ held.stop = begun.stop
    BY <1>2, <2>2 DEF Turn
  <2>4. ASSUME NEW r \in Turns
        PROVE  /\ [turn[r] EXCEPT !.stop = "no"] \in Turn
               /\ [turn[r] EXCEPT !.stop = "no"].stop = "no"
               /\ [turn[r] EXCEPT !.stop = "no"].stage = turn[r].stage
               /\ [turn[r] EXCEPT !.stop = "no"].session = turn[r].session
               /\ [turn[r] EXCEPT !.stop = "no"].sent = turn[r].sent
               /\ [turn[r] EXCEPT !.stop = "no"].streamed = turn[r].streamed
               /\ [turn[r] EXCEPT !.stop = "no"].holds = turn[r].holds
               /\ [turn[r] EXCEPT !.stop = "no"].read = turn[r].read
               /\ [turn[r] EXCEPT !.stop = "no"].node = turn[r].node
    <3>1. turn[r] \in Turn
      BY DEF Types
    <3> QED  BY <3>1 DEF Turn
  <2> HIDE DEF held
  <2>5. /\ turn' \in [Turns -> Turn] /\ turn'[t] = held
        /\ \A r \in Turns \ {t} :
             turn'[r] = IF turn[r].session = s /\ turn[r].stop = "late"
                          THEN [turn[r] EXCEPT !.stop = "no"] ELSE turn[r]
    BY <2>1, <2>3, <2>4 DEF Cleared, Types
  <2>6. ASSUME NEW r \in Turns \ {t}
        PROVE  \/ turn'[r] = turn[r] /\ ~ (/\ turn[r].session = turn[t].session
                                           /\ turn[r].session # 0 /\ turn[r].stop = "late")
               \/ /\ turn'[r].stop = "no" /\ turn'[r].stage = turn[r].stage
                  /\ turn'[r].session = turn[r].session /\ turn'[r].sent = turn[r].sent
                  /\ turn'[r].streamed = turn[r].streamed /\ turn'[r].holds = turn[r].holds
                  /\ turn'[r].read = turn[r].read /\ turn'[r].node = turn[r].node
    <3>1. CASE turn[r].session = s /\ turn[r].stop = "late"
      <4>1. turn'[r] = [turn[r] EXCEPT !.stop = "no"]
        BY <2>5, <3>1
      <4> QED  BY <2>4, <4>1
    <3>2. CASE ~ (turn[r].session = s /\ turn[r].stop = "late")
      BY <2>5, <3>2
    <3> QED  BY <3>1, <3>2
  <2>7. /\ turn'[t].stage = IF turn[t].streamed THEN "ready" ELSE "running"
        /\ turn'[t].session = turn[t].session /\ turn'[t].sent = turn[t].sent
        /\ turn'[t].streamed = turn[t].streamed /\ turn'[t].stop = turn[t].stop
        /\ turn'[t].holds = e
    BY <1>2, <2>3, <2>5
  <2> QED  BY <1>4, <2>1, <2>5, <2>6, <2>7 DEF e
<1> QED  BY <1>3, <1>4

LEMMA CancelEffect ==
  ASSUME Types, NEW s \in Sessions, CancelSession(s)
  PROVE  /\ turn' \in [Turns -> Turn]
         /\ \A r \in Turns :
              /\ turn'[r].stage = turn[r].stage
              /\ turn'[r].session = turn[r].session /\ turn'[r].sent = turn[r].sent
              /\ turn'[r].streamed = turn[r].streamed /\ turn'[r].holds = turn[r].holds
              /\ turn'[r].read = turn[r].read /\ turn'[r].node = turn[r].node
              /\ turn'[r].stop = IF turn[r].session = s
                                   THEN Noted(turn[r].stop, turn[r].stage, turn[r].streamed)
                                   ELSE turn[r].stop
<1>1. ASSUME NEW r \in Turns
      PROVE  /\ turn[r] \in Turn
             /\ Noted(turn[r].stop, turn[r].stage, turn[r].streamed)
                  \in {"no", "late"}
  <2>1. turn[r] \in Turn
    BY DEF Types
  <2> QED  BY <2>1 DEF Turn, Noted
<1>3. ASSUME NEW r \in Turns
      PROVE  turn'[r] = IF turn[r].session = s
                          THEN [turn[r] EXCEPT
                                  !.stop = Noted(turn[r].stop, turn[r].stage, turn[r].streamed)]
                          ELSE turn[r]
  BY DEF CancelSession
<1>4. turn' = [r \in Turns |-> turn'[r]]
  BY DEF CancelSession
<1>5. ASSUME NEW r \in Turns
      PROVE  /\ turn'[r] \in Turn
             /\ turn'[r].stage = turn[r].stage
             /\ turn'[r].session = turn[r].session /\ turn'[r].sent = turn[r].sent
             /\ turn'[r].streamed = turn[r].streamed /\ turn'[r].holds = turn[r].holds
             /\ turn'[r].read = turn[r].read /\ turn'[r].node = turn[r].node
             /\ turn'[r].stop = IF turn[r].session = s
                                  THEN Noted(turn[r].stop, turn[r].stage, turn[r].streamed)
                                  ELSE turn[r].stop
  <2>1. CASE turn[r].session = s
    <3> DEFINE y == Noted(turn[r].stop, turn[r].stage, turn[r].streamed)
    <3>1. turn'[r] = [turn[r] EXCEPT !.stop = y] /\ y \in {"no", "late"}
      BY <1>1, <1>3, <2>1
    <3> HIDE DEF y
    <3>2. /\ turn'[r] \in Turn
          /\ turn'[r].stage = turn[r].stage
          /\ turn'[r].session = turn[r].session /\ turn'[r].sent = turn[r].sent
          /\ turn'[r].streamed = turn[r].streamed /\ turn'[r].holds = turn[r].holds
          /\ turn'[r].read = turn[r].read /\ turn'[r].node = turn[r].node
          /\ turn'[r].stop = y
      <4> DEFINE v == [turn[r] EXCEPT !.stop = y]
      <4>1. /\ v \in Turn
            /\ v.stage = turn[r].stage
            /\ v.session = turn[r].session /\ v.sent = turn[r].sent
            /\ v.streamed = turn[r].streamed /\ v.holds = turn[r].holds
            /\ v.read = turn[r].read /\ v.node = turn[r].node
            /\ v.stop = y
        BY <1>1, <3>1 DEF Turn
      <4> HIDE DEF v
      <4>2. turn'[r] = v
        BY <3>1 DEF v
      <4> QED  BY <4>1, <4>2
    <3> QED  BY <2>1, <3>2 DEF y
  <2>2. CASE turn[r].session # s
    BY <1>1, <1>3, <2>2
  <2> QED  BY <2>1, <2>2
<1> QED  BY <1>4, <1>5

-----------------------------------------------------------------------------
(***************************************************************************)
(* The steps of a call, as far as sessions and their events go.            *)
(***************************************************************************)
\* It goes on, without an end or a beginning of its answer.
Walks(t) ==
  /\ Only(t) /\ Keeps(t)
  /\ \/ turn[t].stage \in {"planning", "asking"} /\ turn'[t].stage = "asking"
     \/ turn[t].stage \in {"ready", "running"} /\ turn'[t].stage = "running"
  /\ turn'[t].stage = "asking" =>
       /\ turn'[t].node \in Nodes
       /\ \/ turn[t].stage = "planning" /\ turn'[t].read = turn[t].read
          \/ turn'[t].read = serves[turn'[t].node].models
  /\ turn'[t].sent = turn[t].sent \/ Chunk(t)
  /\ UNCHANGED <<store, signal, set>>

\* It is over and leaves nothing.
Drops(t) ==
  /\ turn[t].stage \notin {"idle", "ended"}
  /\ Over(t, "refused")
  /\ UNCHANGED <<store, signal, set>>

\* Its backend is resolved.
Begins(t) ==
  /\ turn[t].stage \in {"planning", "asking"} /\ Begin(t)
  /\ UNCHANGED store

\* It is over and leaves its answer, if it has a session.
Records(t) == turn[t].stage = "running" /\ Record(t)

LEMMA DecideSteps ==
  ASSUME Types, NEW t \in Turns, NEW reading, Decide(t, reading), UNCHANGED store,
         turn[t].stage \in {"planning", "asking"}
  PROVE  Begins(t) \/ Drops(t)
<1>1. turn[t].stage \notin {"idle", "ended"}
  OBVIOUS
<1> QED  BY <1>1 DEF Decide, Begins, Drops, Over

LEMMA AskEffect ==
  ASSUME Types, NEW t \in Turns, NEW n \in Nodes,
         turn' = [turn EXCEPT ![t].stage = "asking", ![t].node = n]
  PROVE  /\ Only(t) /\ Keeps(t) /\ turn'[t].stage = "asking" /\ turn'[t].sent = turn[t].sent
         /\ turn'[t].read = turn[t].read /\ turn'[t].node = n
<1> DEFINE v == [turn[t] EXCEPT !.stage = "asking", !.node = n]
<1>1. turn[t] \in Turn
  BY DEF Types
<1>2. /\ v \in Turn /\ v.stage = "asking" /\ v.node = n
      /\ v.session = turn[t].session /\ v.sent = turn[t].sent
      /\ v.streamed = turn[t].streamed /\ v.holds = turn[t].holds
      /\ v.stop = turn[t].stop /\ v.read = turn[t].read
  BY <1>1 DEF Turn, Stages
<1>3. turn' = [turn EXCEPT ![t] = v]
  OBVIOUS
<1> HIDE DEF v
<1>4. turn' \in [Turns -> Turn] /\ turn'[t] = v /\ \A r \in Turns \ {t} : turn'[r] = turn[r]
  BY <1>2, <1>3 DEF Types
<1> QED  BY <1>2, <1>4 DEF Only, Keeps

LEMMA ReadEffect ==
  ASSUME Types, NEW t \in Turns, NodeAnswers(t)
  PROVE  /\ Only(t) /\ Keeps(t) /\ turn'[t].stage = turn[t].stage /\ turn'[t].sent = turn[t].sent
         /\ turn'[t].node = turn[t].node /\ turn'[t].read = serves[turn[t].node].models
<1> DEFINE v == [turn[t] EXCEPT !.read = serves[turn[t].node].models]
<1>1. turn[t] \in Turn /\ serves[turn[t].node].models \in Reading
  BY DEF Types, NodeAnswers, At, Serving
<1>2. /\ v \in Turn /\ v.stage = turn[t].stage /\ v.node = turn[t].node
      /\ v.session = turn[t].session /\ v.sent = turn[t].sent
      /\ v.streamed = turn[t].streamed /\ v.holds = turn[t].holds
      /\ v.stop = turn[t].stop /\ v.read = serves[turn[t].node].models
  BY <1>1 DEF Turn
<1>3. turn' = [turn EXCEPT ![t] = v]
  BY DEF NodeAnswers
<1> HIDE DEF v
<1>4. turn' \in [Turns -> Turn] /\ turn'[t] = v /\ \A r \in Turns \ {t} : turn'[r] = turn[r]
  BY <1>2, <1>3 DEF Types
<1> QED  BY <1>2, <1>4 DEF Only, Keeps

LEMMA ChunkEffect ==
  ASSUME Types, NEW t \in Turns, Chunk(t)
  PROVE  /\ Only(t) /\ Keeps(t) /\ turn'[t].stage = turn[t].stage
         /\ turn'[t].read = turn[t].read /\ turn'[t].node = turn[t].node
<1> DEFINE v == [turn[t] EXCEPT !.sent = turn[t].sent + 1]
<1>1. turn[t] \in Turn /\ turn[t].sent + 1 \in 0..MaxChunks
  BY GatewayAssumption DEF GatewayAssumption, Types, Chunk, Turn
<1>2. /\ v \in Turn /\ v.stage = turn[t].stage /\ v.node = turn[t].node
      /\ v.session = turn[t].session
      /\ v.streamed = turn[t].streamed /\ v.holds = turn[t].holds
      /\ v.stop = turn[t].stop /\ v.read = turn[t].read
  BY <1>1 DEF Turn
<1>3. turn' = [turn EXCEPT ![t] = v]
  BY DEF Chunk
<1> HIDE DEF v
<1>4. turn' \in [Turns -> Turn] /\ turn'[t] = v /\ \A r \in Turns \ {t} : turn'[r] = turn[r]
  BY <1>2, <1>3 DEF Types
<1> QED  BY <1>2, <1>4 DEF Only, Keeps

LEMMA TurnSteps ==
  ASSUME Types, NEW t \in Turns, TurnStep(t)
  PROVE  Walks(t) \/ Drops(t) \/ Begins(t) \/ Records(t)
<1>1. ASSUME NEW n \in Nodes, Planned(t, n)
      PROVE  Walks(t) \/ Drops(t) \/ Begins(t)
  <2>1. turn[t].stage = "planning" /\ UNCHANGED store
    BY <1>1 DEF Planned, At
  <2>2. CASE cache[n] # None
    BY <1>1, <2>1, <2>2, DecideSteps DEF Planned
  <2>3. CASE cache[n] = None
    <3>1. turn' = [turn EXCEPT ![t].stage = "asking", ![t].node = n] /\ UNCHANGED <<signal, set>>
      BY <1>1, <2>3 DEF Planned
    <3> QED  BY <2>1, <3>1, AskEffect DEF Walks
  <2> QED  BY <2>2, <2>3
<1>2. ASSUME NEW reachable \in BOOLEAN, PlannedBy(t, reachable)
      PROVE  Walks(t) \/ Drops(t) \/ Begins(t)
  <2>1. Fallback \subseteq Nodes
    BY GatewayAssumption DEF GatewayAssumption, Fallback
  <2> QED  BY <1>1, <1>2, <2>1 DEF PlannedBy
<1>3. PlanRefused(t) \/ AskRaises(t) \/ NeverRead(t) \/ AggregateFails(t) => Drops(t)
  BY DEF PlanRefused, AskRaises, NeverRead, AggregateFails, Drops, At
<1>4. NodeAnswers(t) => Walks(t)
  <2> HAVE NodeAnswers(t)
  <2>1. /\ turn[t].stage = "asking" /\ turn[t].node \in Nodes
        /\ UNCHANGED <<store, signal, set>>
    BY DEF NodeAnswers, At, Types
  <2> QED  BY <2>1, ReadEffect DEF Walks
<1>5. AnswerArrives(t) => Begins(t) \/ Drops(t)
  <2> HAVE AnswerArrives(t)
  <2>1. turn[t].stage = "asking" /\ UNCHANGED store /\ Decide(t, turn[t].read)
    BY DEF AnswerArrives, At
  <2> QED  BY <2>1, DecideSteps
<1>6. NodeWontSay(t) => Begins(t)
  BY DEF NodeWontSay, Begins, At
<1>7. FirstRead(t) => Walks(t)
  <2> HAVE FirstRead(t)
  <2>1. turn[t].stage = "ready" /\ UNCHANGED <<store, signal, set>> /\ Goes(t, "running")
    BY DEF FirstRead, At
  <2> QED  BY <2>1, StageEffect DEF Walks, Stages
<1>8. Chunk(t) => Walks(t)
  <2> HAVE Chunk(t)
  <2>1. turn[t].stage = "running" /\ UNCHANGED <<store, signal, set>>
    BY DEF Chunk, At
  <2> QED  BY <2>1, ChunkEffect DEF Walks
<1>9. ASSUME NEW why \in Reasons, Ends(t, why) PROVE Records(t)
  BY <1>9 DEF Ends, StreamEnds, Records, At
<1>10. Aggregated(t) => Records(t)
  BY DEF Aggregated, Records, At
<1> QED  BY <1>2, <1>3, <1>4, <1>5, <1>6, <1>7, <1>8, <1>9, <1>10 DEF TurnStep

-----------------------------------------------------------------------------
(***************************************************************************)
(* Types.                                                                  *)
(***************************************************************************)
\* Every call whose node was asked has one.
TurnTypes ==
  /\ turn \in [Turns -> Turn]
  /\ \A t \in Turns : turn[t].stage = "asking" => turn[t].node \in Nodes

LEMMA AppendSeq ==
  ASSUME NEW e \in Seq(Message), NEW m \in Message
  PROVE  /\ Append(e, m) \in Seq(Message) /\ Len(e) \in Nat
         /\ Len(Append(e, m)) = Len(e) + 1 /\ Append(e, m)[Len(e) + 1] = m
         /\ \A i \in 1..Len(e) : Append(e, m)[i] = e[i]
BY AppendProperties, LenProperties

LEMMA BeginStore ==
  ASSUME Types, NEW t \in Turns, Begin(t)
  PROVE  signal' \in [Sessions -> Events \cup {None}] /\ set' \subseteq Events
<1>1. turn[t].session \in 0..MaxBorn
  <2>1. turn[t] \in Turn
    BY DEF Types
  <2> QED  BY <2>1 DEF Turn
<1>2. CASE turn[t].session = 0
  BY <1>2, BeginEffect DEF Types
<1>3. CASE turn[t].session # 0
  <2> DEFINE e == EventOf(t, turn[t].session)
  <2>1. turn[t].session \in Sessions
    BY <1>1, <1>3, GatewayAssumption DEF Sessions, GatewayAssumption
  <2>2. e \in Events
    BY <2>1 DEF EventOf, SharedEvent, Default, Types, Events
  <2>3. signal' = [signal EXCEPT ![turn[t].session] = e] /\ set' = set \ {e}
    BY <1>3, BeginEffect
  <2> HIDE DEF e
  <2> QED  BY <2>2, <2>3 DEF Types
<1> QED  BY <1>2, <1>3

LEMMA Recording ==
  ASSUME Types, NEW t \in Turns, Records(t)
  PROVE  /\ \E x \in {"ended", "lost"} :
              Over(t, x) /\ (x = "ended" <=> turn[t].session \in sessions \cup {0})
         /\ Answer(t) \in Message
         /\ turn[t].session \in sessions =>
              events' = [events EXCEPT ![turn[t].session] = Append(@, Answer(t))]
         /\ turn[t].session \notin sessions => events' = events
         /\ UNCHANGED <<sessions, born, speaks, signal, set, serves, cache, flight>>
<1>1. turn[t] \in Turn
  BY DEF Types
<1>2. Answer(t) \in Message
  BY <1>1 DEF Answer, Message, Turn
<1>3. \E x \in {"ended", "lost"} :
        Over(t, x) /\ (x = "ended" <=> turn[t].session \in sessions \cup {0})
  <2>1. CASE turn[t].session \in sessions \cup {0}
    BY <2>1 DEF Records, Record
  <2>2. CASE turn[t].session \notin sessions \cup {0}
    BY <2>2 DEF Records, Record
  <2> QED  BY <2>1, <2>2
<1> QED  BY <1>2, <1>3 DEF Records, Record

LEMMA SessionsNat == Sessions = 1..MaxBorn /\ MaxBorn \in Nat
BY GatewayAssumption DEF Sessions, GatewayAssumption

LEMMA LiveSessions == Types => sessions \subseteq Sessions /\ 0 \notin sessions
<1> HAVE Types
<1>1. born \in 0..MaxBorn /\ sessions \subseteq 1..born
  BY DEF Types
<1> QED  BY <1>1, SessionsNat

LEMMA StepTurns ==
  ASSUME Types, [Next]_vars PROVE TurnTypes'
<1>1. CASE turn' = turn
  BY <1>1 DEF Types, TurnTypes
<1>2. ASSUME NEW s \in Sessions, CancelSession(s) PROVE TurnTypes'
  BY <1>2, CancelEffect DEF Types, TurnTypes
<1>3. ASSUME NEW t \in Turns, NEW s \in Sessions, NEW b \in BOOLEAN, PostMessage(t, s, b)
      PROVE  TurnTypes'
  BY <1>3, PostEffect DEF Types, TurnTypes, Only
<1>4. ASSUME NEW t \in Turns, NEW m \in Models, NEW b \in BOOLEAN, ChatCompletion(t, m, b)
      PROVE  TurnTypes'
  BY <1>4, ChatEffect DEF Types, TurnTypes, Only
<1>5. ASSUME NEW t \in Turns, TurnStep(t) PROVE TurnTypes'
  <2>1. CASE Walks(t)
    BY <2>1 DEF Walks, Only, Types, TurnTypes
  <2>2. ASSUME NEW x \in {"refused", "ended", "lost"}, Over(t, x) PROVE TurnTypes'
    <3>1. x \in Stages /\ x # "asking"
      BY DEF Stages
    <3> QED  BY <2>2, <3>1, OverEffect DEF Only, Types, TurnTypes
  <2>3. CASE Begins(t)
    <3>1. turn' \in [Turns -> Turn] /\ turn'[t].stage # "asking"
      BY <2>3, BeginEffect DEF Begins
    <3>2. ASSUME NEW r \in Turns \ {t}
          PROVE  turn'[r].stage = turn[r].stage /\ turn'[r].node = turn[r].node
      BY <2>3, BeginEffect DEF Begins
    <3> QED  BY <3>1, <3>2 DEF Types, TurnTypes
  <2>4. CASE Drops(t)
    BY <2>2, <2>4 DEF Drops
  <2>5. CASE Records(t)
    BY <2>2, <2>5, Recording
  <2> QED  BY <1>5, <2>1, <2>3, <2>4, <2>5, TurnSteps
<1>6. UNCHANGED vars => turn' = turn
  BY DEF vars
<1>7. \A m \in Models : CreateSession(m) => turn' = turn
  BY DEF CreateSession
<1>8. \A s \in Sessions : DeleteSession(s) => turn' = turn
  BY DEF DeleteSession
<1>9. Elsewhere => turn' = turn
  BY DEF Elsewhere, Tick, Swap
<1> QED  BY <1>1, <1>2, <1>3, <1>4, <1>5, <1>6, <1>7, <1>8, <1>9 DEF Next, Elsewhere

\* The variables but turn.
StoreTypes ==
  /\ born \in 0..MaxBorn
  /\ sessions \subseteq 1..born
  /\ speaks \in [Sessions -> Models \cup {None}]
  /\ events \in [Sessions -> Seq(Message)]
  /\ signal \in [Sessions -> Events \cup {None}]
  /\ set \subseteq Events
  /\ serves \in [Nodes -> Serving]
  /\ cache \in [Nodes -> Stored \cup {None}]
  /\ flight \in [Turns -> 0..MaxFlight]

\* A tick makes the last change of each node older.
LEMMA TickServing ==
  ASSUME Types, Tick, NEW n \in Nodes
  PROVE  /\ serves'[n] \in Serving /\ serves'[n].models = serves[n].models
         /\ serves'[n].since <= serves[n].since + 1
<1> DEFINE k == IF serves[n].since < Long THEN serves[n].since + 1 ELSE Long
           v == [serves[n] EXCEPT !.since = k]
<1>1. /\ serves[n] \in [models : Reading, changes : 0..MaxSwaps, since : 0..Long]
      /\ Long \in Nat
  BY GatewayAssumption DEF Types, Serving, Long, GatewayAssumption
<1>2. k \in 0..Long /\ k <= serves[n].since + 1
  BY <1>1
<1>3. serves'[n] = v
  BY DEF Tick
<1> HIDE DEF k
<1>4. /\ v \in [models : Reading, changes : 0..MaxSwaps, since : 0..Long]
      /\ v.models = serves[n].models /\ v.since = k
  BY <1>1, <1>2
<1> HIDE DEF v
<1> QED  BY <1>2, <1>3, <1>4 DEF Serving

\* It makes each reading kept older, or drops it.
LEMMA TickCache ==
  ASSUME Types, Tick, NEW n \in Nodes
  PROVE  /\ cache'[n] \in Stored \cup {None}
         /\ cache'[n] # None => /\ cache[n] # None /\ cache[n] \in Stored
                               /\ cache'[n].models = cache[n].models
                               /\ cache'[n].age = cache[n].age + 1
<1>1. cache'[n] = Aged(cache[n]) /\ cache[n] \in Stored \cup {None} /\ TTL \in Nat
  BY GatewayAssumption DEF Tick, Types, GatewayAssumption
<1>2. CASE cache[n] = None \/ cache[n].age = TTL
  BY <1>1, <1>2 DEF Aged
<1>3. CASE cache[n] # None /\ cache[n].age # TTL
  <2> DEFINE v == [cache[n] EXCEPT !.age = cache[n].age + 1]
  <2>1. cache[n] \in [models : Reading, age : 0..TTL]
    BY <1>1, <1>3 DEF Stored
  <2>2. /\ v \in [models : Reading, age : 0..TTL] /\ v.models = cache[n].models
        /\ v.age = cache[n].age + 1
    BY <1>1, <1>3, <2>1
  <2>3. cache'[n] = v
    BY <1>1, <1>3 DEF Aged
  <2> HIDE DEF v
  <2> QED  BY <1>3, <2>1, <2>2, <2>3 DEF Stored
<1> QED  BY <1>2, <1>3

\* What the steps of a call do to the cache and to the clock of its answer.
LEMMA CallReadings ==
  ASSUME Types, NEW t \in Turns, TurnStep(t)
  PROVE  /\ serves' = serves
         /\ cache' \in [Nodes -> Stored \cup {None}]
         /\ flight' \in [Turns -> 0..MaxFlight]
         /\ \A r \in Turns \ {t} : flight'[r] = flight[r]
         /\ AnswerArrives(t) \/ UNCHANGED cache
<1>1. 0 \in 0..MaxFlight
  BY GatewayAssumption DEF GatewayAssumption
<1>2. CASE AnswerArrives(t)
  <2> DEFINE v == [models |-> turn[t].read, age |-> 0]
  <2>1. turn[t] \in Turn /\ turn[t].read # None
    BY <1>2 DEF Types, AnswerArrives
  <2>2. v \in Stored
    BY <2>1, GatewayAssumption DEF Turn, Stored, GatewayAssumption
  <2>3. cache' = [cache EXCEPT ![turn[t].node] = v]
    BY <1>2 DEF AnswerArrives
  <2> HIDE DEF v
  <2> QED  BY <1>1, <1>2, <2>2, <2>3 DEF AnswerArrives, Types
<1>3. CASE NodeWontSay(t) \/ AskRaises(t)
  BY <1>1, <1>3 DEF NodeWontSay, AskRaises, Types
<1>4. CASE ~ (AnswerArrives(t) \/ NodeWontSay(t) \/ AskRaises(t))
  <2>1. UNCHANGED <<serves, cache, flight>>
    BY <1>4 DEF TurnStep, PlannedBy, Planned, PlanRefused, NodeAnswers, NeverRead,
                FirstRead, Chunk, Ends, StreamEnds, Record, Aggregated, AggregateFails
  <2> QED  BY <2>1 DEF Types
<1> QED  BY <1>2, <1>3, <1>4

LEMMA StepStore ==
  ASSUME Types, [Next]_vars PROVE StoreTypes'
<1>1. ASSUME NEW m \in Models, CreateSession(m) PROVE StoreTypes'
  <2>1. born' \in 0..MaxBorn /\ sessions' \subseteq 1..born'
    <3>1. born \in Nat /\ MaxBorn \in Nat /\ born < MaxBorn /\ born' = born + 1
      BY <1>1, SessionsNat DEF CreateSession, Types
    <3>2. sessions' \subseteq sessions \cup {born'} /\ sessions \subseteq 1..born
      BY <1>1 DEF CreateSession, Types
    <3> QED  BY <3>1, <3>2
  <2>2. speaks' \in [Sessions -> Models \cup {None}]
    BY <1>1 DEF CreateSession, Types
  <2>3. /\ events' \in [Sessions -> Seq(Message)]
        /\ signal' \in [Sessions -> Events \cup {None}]
    BY <1>1 DEF CreateSession, Forget, Types
  <2> QED  BY <1>1, <2>1, <2>2, <2>3 DEF CreateSession, Types, StoreTypes
<1>2. ASSUME NEW s \in Sessions, DeleteSession(s) PROVE StoreTypes'
  BY <1>2 DEF DeleteSession, Forget, Types, StoreTypes
<1>3. ASSUME NEW s \in Sessions, CancelSession(s) PROVE StoreTypes'
  <2>1. Default(s, s) \in Events
    BY DEF Default, Types, Events
  <2>2. signal' \in [Sessions -> Events \cup {None}] /\ signal'[s] \in Events
    BY <1>3, <2>1 DEF CancelSession, Types
  <2> QED  BY <1>3, <2>2 DEF CancelSession, store, Types, StoreTypes
<1>4. ASSUME NEW t \in Turns, NEW s \in Sessions, NEW b \in BOOLEAN, PostMessage(t, s, b)
      PROVE  StoreTypes'
  <2>1. Question(t) \in Message
    BY GatewayAssumption DEF GatewayAssumption, Question, Message
  <2>2. events' \in [Sessions -> Seq(Message)]
    BY <1>4, <2>1, AppendSeq DEF PostMessage, Types
  <2> QED  BY <1>4, <2>2 DEF PostMessage, Types, StoreTypes
<1>5. ASSUME NEW t \in Turns, NEW m \in Models, NEW b \in BOOLEAN, ChatCompletion(t, m, b)
      PROVE  StoreTypes'
  BY <1>5 DEF ChatCompletion, store, Types, StoreTypes
<1>6. ASSUME NEW t \in Turns, TurnStep(t) PROVE StoreTypes'
  <2>1. /\ serves' = serves /\ cache' \in [Nodes -> Stored \cup {None}]
        /\ flight' \in [Turns -> 0..MaxFlight]
    BY <1>6, CallReadings
  <2>2. CASE Walks(t) \/ Drops(t)
    BY <2>1, <2>2 DEF Walks, Drops, store, Types, StoreTypes
  <2>3. CASE Begins(t)
    BY <2>1, <2>3, BeginStore DEF Begins, store, Types, StoreTypes
  <2>4. CASE Records(t)
    <3>1. events' \in [Sessions -> Seq(Message)]
      <4>1. CASE turn[t].session \in sessions
        <5> DEFINE e == Append(events[turn[t].session], Answer(t))
        <5>1. turn[t].session \in Sessions
          BY <4>1, LiveSessions
        <5>2. e \in Seq(Message)
          BY <2>4, <5>1, Recording, AppendSeq DEF Types
        <5>3. events' = [events EXCEPT ![turn[t].session] = e]
          BY <2>4, <4>1, Recording
        <5> HIDE DEF e
        <5> QED  BY <5>2, <5>3 DEF Types
      <4>2. CASE turn[t].session \notin sessions
        BY <2>4, <4>2, Recording DEF Types
      <4> QED  BY <4>1, <4>2
    <3> QED  BY <2>1, <2>4, <3>1, Recording DEF Types, StoreTypes
  <2> QED  BY <1>6, <2>2, <2>3, <2>4, TurnSteps
<1>7. ASSUME NEW n \in Nodes, NEW models \in Reading, Swap(n, models) PROVE StoreTypes'
  <2> DEFINE v == [models |-> models, changes |-> serves[n].changes + 1, since |-> 0]
  <2>1. serves[n] \in Serving /\ serves[n].changes < MaxSwaps
    BY <1>7 DEF Swap, Types
  <2>2. v \in Serving
    BY <2>1, GatewayAssumption DEF Serving, Long, GatewayAssumption
  <2>3. serves' = [serves EXCEPT ![n] = v]
    BY <1>7 DEF Swap
  <2> HIDE DEF v
  <2>4. serves' \in [Nodes -> Serving]
    BY <2>2, <2>3 DEF Types
  <2> QED  BY <1>7, <2>4 DEF Swap, store, Types, StoreTypes
<1>9. CASE Tick
  <2>1. flight' \in [Turns -> 0..MaxFlight]
    BY <1>9, GatewayAssumption DEF Tick, Types, GatewayAssumption
  <2>2. ASSUME NEW n \in Nodes PROVE serves'[n] \in Serving
    BY <1>9, TickServing
  <2>3. ASSUME NEW n \in Nodes PROVE cache'[n] \in Stored \cup {None}
    BY <1>9, TickCache
  <2>4. /\ serves' = [n \in Nodes |-> serves'[n]]
        /\ cache' = [n \in Nodes |-> cache'[n]]
    BY <1>9 DEF Tick
  <2> QED  BY <1>9, <2>1, <2>2, <2>3, <2>4 DEF Tick, store, Types, StoreTypes
<1>8. CASE UNCHANGED vars
  BY <1>8 DEF vars, store, Types, StoreTypes
<1> QED  BY <1>1, <1>2, <1>3, <1>4, <1>5, <1>6, <1>7, <1>8, <1>9 DEF Next

LEMMA StepTypes ==
  ASSUME Types, [Next]_vars PROVE Types'
BY StepTurns, StepStore DEF TurnTypes, StoreTypes, Types

LEMMA InitTypes == Init => Types
<1> SUFFICES ASSUME Init PROVE Types
  OBVIOUS
<1>1. Idle \in Turn /\ Idle.stage = "idle"
  BY GatewayAssumption DEF GatewayAssumption, Idle, Turn, Stages
<1>2. turn \in [Turns -> Turn] /\ \A t \in Turns : turn[t].stage # "asking"
  BY <1>1 DEF Init
<1>3. serves \in [Nodes -> Serving] /\ flight \in [Turns -> 0..MaxFlight]
  <2>1. [models : Reading, changes : {0}, since : {Long}] \subseteq Serving
    BY GatewayAssumption DEF GatewayAssumption, Serving, Long
  <2> QED  BY <2>1, GatewayAssumption DEF GatewayAssumption, Init
<1>4. born \in 0..MaxBorn /\ sessions \subseteq 1..born /\ set \subseteq Events
  BY SessionsNat DEF Init
<1>5. events \in [Sessions -> Seq(Message)]
  BY DEF Init
<1> QED  BY <1>2, <1>3, <1>4, <1>5 DEF Init, Types

-----------------------------------------------------------------------------
(***************************************************************************)
(* Whose event a turn holds.  An event belongs to one session, whoever     *)
(* created it; so what sets or clears the event of one session is never    *)
(* seen by another, and the turns of a session that still exists all hold  *)
(* the event the session would set.                                        *)
(***************************************************************************)
Calls ==
  \A t \in Turns :
    /\ turn[t].session <= born
    /\ turn[t].stage = "idle" => turn[t].session = 0
    /\ turn[t].stage \in {"idle", "planning", "asking"} =>
         turn[t].holds = None /\ turn[t].stop # "late"

Holders ==
  \A t \in Turns :
    /\ turn[t].holds # None => turn[t].session # 0 /\ Owned(turn[t].holds, turn[t].session)
    /\ turn[t].stage \in {"ready", "running"} /\ turn[t].session \in sessions =>
         turn[t].holds # None /\ turn[t].holds = signal[turn[t].session]
    /\ turn[t].stop = "late" => turn[t].streamed /\ turn[t].holds \in set

Signals ==
  \A s \in Sessions :
    /\ signal[s] # None => Owned(signal[s], s)
    /\ s \notin sessions => events[s] = <<>> /\ (signal[s] # None => signal[s] \in Turns \ set)
    /\ s > born => signal[s] = None

\* An event has one session.
LEMMA OneOwner ==
  \A e, s, r : Owned(e, s) /\ Owned(e, r) => s = r
BY DEF Owned

LEMMA TurnTyped ==
  ASSUME Types, NEW t \in Turns
  PROVE  /\ turn[t].session \in 0..MaxBorn /\ turn[t].stage \in Stages
         /\ turn[t].holds \in Events \cup {None} /\ turn[t].streamed \in BOOLEAN
         /\ turn[t].stop \in {"no", "late"}
         /\ turn[t].session # 0 => turn[t].session \in Sessions
<1>1. turn[t] \in Turn
  BY DEF Types
<1>2. turn[t].session \in 0..MaxBorn
  BY <1>1 DEF Turn
<1> QED  BY <1>1, <1>2, SessionsNat DEF Turn

LEMMA NoneIsNone == None \notin Events /\ Turns \cap Sessions = {}
BY GatewayAssumption DEF GatewayAssumption, Events, Sessions

\* Steps that leave store, events and holders alone, but for calls that end.
LEMMA CalmCalls ==
  ASSUME Types, Calls, Holders, Signals, NEW t \in Turns, Walks(t) \/ Drops(t) \/ Records(t)
  PROVE  Calls' /\ Holders' /\ Signals'
<1>1. UNCHANGED <<sessions, born, signal, set>>
  BY Recording DEF Walks, Drops, store
<1>2. /\ Only(t) /\ turn'[t].session = turn[t].session
      /\ turn'[t].stage # "idle"
      /\ turn'[t].holds \in {turn[t].holds, None} /\ turn'[t].stop \in {turn[t].stop, "no"}
      /\ turn'[t].stage \in {"planning", "asking"} =>
           /\ turn[t].stage \in {"planning", "asking"}
           /\ turn'[t].holds = turn[t].holds /\ turn'[t].stop = turn[t].stop
      /\ turn'[t].stage \in {"ready", "running"} =>
           /\ turn[t].stage \in {"ready", "running"}
           /\ turn'[t].holds = turn[t].holds
      /\ turn'[t].stop = "late" =>
           turn'[t].streamed = turn[t].streamed /\ turn'[t].holds = turn[t].holds
  <2>1. ASSUME NEW x \in {"refused", "ended", "lost"}, Over(t, x)
        PROVE  /\ Only(t) /\ turn'[t].session = turn[t].session /\ turn'[t].stage = x
               /\ turn'[t].holds = None /\ turn'[t].stop = "no"
    <3>1. x \in Stages
      BY DEF Stages
    <3> QED  BY <2>1, <3>1, OverEffect
  <2>2. CASE Walks(t)
    BY <2>2 DEF Walks, Keeps
  <2>3. CASE Drops(t) \/ Records(t)
    <3>1. PICK x \in {"refused", "ended", "lost"} : Over(t, x)
      BY <2>3, Recording DEF Drops
    <3> QED  BY <2>1, <3>1
  <2> QED  BY <2>2, <2>3
<1>3. \A r \in Turns \ {t} : turn'[r] = turn[r]
  BY <1>2 DEF Only
<1>4. \A e, s : Owned(e, s) => Owned(e, s)'
  BY <1>2, <1>3 DEF Owned
<1>5. Calls'
  BY <1>1, <1>2, <1>3 DEF Calls
<1>6. Holders'
  BY <1>1, <1>2, <1>3, <1>4 DEF Holders
<1>7. Signals'
  <2>1. \A s \in Sessions : s \notin sessions => events'[s] = events[s]
    <3>1. CASE Walks(t) \/ Drops(t)
      BY <3>1 DEF Walks, Drops, store
    <3>2. CASE Records(t)
      BY <3>2, Recording DEF Types
    <3> QED  BY <3>1, <3>2
  <2> QED  BY <1>1, <1>4, <2>1 DEF Signals
<1> QED  BY <1>5, <1>6, <1>7

\* The turn of a session arms the session's event; whoever was told to stop
\* by it is told no more.
LEMMA BeginCalls ==
  ASSUME Types, Calls, Holders, Signals, NEW t \in Turns, Begins(t)
  PROVE  Calls' /\ Holders' /\ Signals'
<1> DEFINE s == turn[t].session
           e == EventOf(t, s)
<1>1. /\ UNCHANGED <<sessions, born, events>> /\ Begin(t)
      /\ turn[t].stage \in {"planning", "asking"}
      /\ turn[t].holds = None /\ turn[t].stop # "late"
  BY DEF Begins, store, Calls
<1>2. /\ turn'[t].stage \in {"ready", "running"} /\ turn'[t].session = s
      /\ turn'[t].streamed = turn[t].streamed /\ turn'[t].stop # "late"
  <2>1. turn'[t].stage = IF turn[t].streamed THEN "ready" ELSE "running"
    BY <1>1, BeginEffect
  <2> QED  BY <1>1, <2>1, BeginEffect
<1>3. \A r \in Turns \ {t} :
        /\ turn'[r].stage = turn[r].stage /\ turn'[r].session = turn[r].session
        /\ turn'[r].streamed = turn[r].streamed /\ turn'[r].holds = turn[r].holds
        /\ turn'[r].stop = "late" =>
             turn[r].stop = "late" /\ (turn[r].session = s => s = 0)
  BY <1>1, BeginEffect
<1>4. \A x, r : Owned(x, r) => Owned(x, r)'
  BY <1>2, <1>3 DEF Owned
<1>5. Calls'
  BY <1>1, <1>2, <1>3 DEF Calls
<1>6. CASE s = 0
  <2>1. turn'[t].holds = None /\ UNCHANGED <<signal, set>>
    BY <1>1, <1>6, BeginEffect
  <2>2. Holders'
    BY <1>1, <1>2, <1>3, <1>4, <1>6, <2>1, LiveSessions DEF Holders
  <2>3. Signals'
    BY <1>1, <1>4, <2>1 DEF Signals
  <2> QED  BY <1>5, <2>2, <2>3
<1>7. CASE s # 0
  <2>1. /\ s \in Sessions /\ turn'[t].holds = e
        /\ signal'[s] = e /\ \A r \in Sessions \ {s} : signal'[r] = signal[r]
        /\ set' = set \ {e}
    <3>1. s \in Sessions /\ signal' = [signal EXCEPT ![s] = e]
      BY <1>1, <1>7, BeginEffect, TurnTyped
    <3>2. turn'[t].holds = e /\ set' = set \ {e}
      BY <1>1, <1>7, BeginEffect
    <3> HIDE DEF s, e
    <3> QED  BY <3>1, <3>2 DEF Types
  <2>2. /\ e = t \/ (e = signal[s] /\ signal[s] # None)
        /\ Owned(e, s) /\ e # None
    <3>1. Owned(t, s)
      BY DEF Owned
    <3>2. e = IF signal[s] = None THEN t ELSE signal[s]
      BY DEF EventOf, SharedEvent, Default
    <3>3. t # None
      BY NoneIsNone DEF Events
    <3>4. CASE signal[s] = None
      <4>1. e = t
        BY <3>2, <3>4
      <4> HIDE DEF e, s
      <4> QED  BY <3>1, <3>3, <4>1
    <3>5. CASE signal[s] # None
      <4>1. Owned(signal[s], s)
        BY <2>1, <3>5 DEF Signals
      <4> QED  BY <3>2, <3>5, <4>1
    <3> QED  BY <3>4, <3>5
  <2>3. signal[s] # None => e = signal[s]
    BY DEF EventOf, SharedEvent, Default
  <2> HIDE DEF e
  <2>4. Holders'
    <3> SUFFICES ASSUME NEW r \in Turns
                 PROVE  /\ turn'[r].holds # None =>
                             turn'[r].session # 0 /\ Owned(turn[r].holds, turn[r].session)'
                        /\ turn'[r].stage \in {"ready", "running"}
                             /\ turn'[r].session \in sessions' =>
                             turn'[r].holds # None /\ turn'[r].holds = signal'[turn'[r].session]
                        /\ turn'[r].stop = "late" => turn'[r].streamed /\ turn'[r].holds \in set'
      BY DEF Holders
    <3>1. CASE r = t
      BY <1>2, <1>4, <1>7, <2>1, <2>2, <3>1
    <3>2. CASE r # t
      <4>1. turn'[r].holds # None =>
              turn'[r].session # 0 /\ Owned(turn[r].holds, turn[r].session)'
        BY <1>3, <1>4, <3>2 DEF Holders
      <4>2. turn'[r].stage \in {"ready", "running"} /\ turn'[r].session \in sessions' =>
              turn'[r].holds # None /\ turn'[r].holds = signal'[turn'[r].session]
        BY <1>1, <1>3, <2>1, <2>3, <3>2, LiveSessions DEF Holders
      <4>3. turn'[r].stop = "late" => turn'[r].streamed /\ turn'[r].holds \in set'
        <5> HAVE turn'[r].stop = "late"
        <5>1. turn[r].stop = "late" /\ turn[r].session # s
          BY <1>3, <1>7, <3>2
        <5>2. turn[r].streamed /\ turn[r].holds \in set /\ turn[r].holds # None
          BY <5>1, NoneIsNone DEF Holders, Types
        <5>3. turn[r].holds # e
          BY <2>2, <5>1, <5>2, OneOwner DEF Holders
        <5> QED  BY <1>3, <2>1, <3>2, <5>2, <5>3
      <4> QED  BY <4>1, <4>2, <4>3
    <3> QED  BY <3>1, <3>2
  <2>5. Signals'
    <3> SUFFICES ASSUME NEW r \in Sessions
                 PROVE  /\ signal'[r] # None => Owned(signal[r], r)'
                        /\ r \notin sessions' =>
                             events'[r] = <<>> /\ (signal'[r] # None => signal'[r] \in Turns \ set')
                        /\ r > born' => signal'[r] = None
      BY DEF Signals
    <3>1. CASE r = s
      <4>1. signal'[r] = e /\ Owned(signal[r], r)'
        BY <1>4, <2>1, <2>2, <3>1
      <4>2. r \notin sessions' => events'[r] = <<>> /\ signal'[r] \in Turns \ set'
        <5>1. r \notin sessions => events[r] = <<>> /\ e \in Turns
          BY <2>2, <3>1 DEF Signals
        <5> QED  BY <1>1, <2>1, <4>1, <5>1
      <4>3. s <= born
        BY DEF Calls
      <4>4. ~ (r > born')
        BY <1>1, <3>1, <4>3, SessionsNat DEF Types
      <4> QED  BY <4>1, <4>2, <4>4
    <3>2. CASE r # s
      BY <1>1, <1>4, <2>1, <3>2 DEF Signals
    <3> QED  BY <3>1, <3>2
  <2> QED  BY <1>5, <2>4, <2>5
<1> QED  BY <1>6, <1>7

LEMMA CancelCalls ==
  ASSUME Types, Calls, Holders, Signals, NEW s \in Sessions, CancelSession(s)
  PROVE  Calls' /\ Holders' /\ Signals'
<1> DEFINE e == Default(s, s)
<1>1. s \in sessions /\ UNCHANGED <<sessions, born, events>>
  BY DEF CancelSession, store
<1>2. /\ signal'[s] = e /\ \A r \in Sessions \ {s} : signal'[r] = signal[r]
      /\ set' = set \cup {e}
  <2>1. signal' = [signal EXCEPT ![s] = e] /\ set' = set \cup {signal'[s]}
    BY DEF CancelSession
  <2> HIDE DEF e
  <2> QED  BY <2>1 DEF Types
<1>3. \A r \in Turns :
        /\ turn'[r].stage = turn[r].stage /\ turn'[r].session = turn[r].session
        /\ turn'[r].streamed = turn[r].streamed /\ turn'[r].holds = turn[r].holds
  BY CancelEffect
<1>4. \A x, r : Owned(x, r)' <=> Owned(x, r)
  BY <1>3 DEF Owned
<1>5. Owned(e, s) /\ e # None /\ (signal[s] # None => e = signal[s])
  <2>1. Owned(s, s) /\ s # None
    BY NoneIsNone DEF Owned, Events
  <2> QED  BY <2>1 DEF Default, Signals
<1> HIDE DEF e
<1>6. ASSUME NEW r \in Turns, turn'[r].stop = "late"
      PROVE  /\ turn[r].stage \notin {"idle", "planning", "asking"}
             /\ turn'[r].streamed /\ turn'[r].holds \in set'
  <2>1. turn'[r].stop = IF turn[r].session = s
                          THEN Noted(turn[r].stop, turn[r].stage, turn[r].streamed)
                          ELSE turn[r].stop
    BY CancelEffect
  <2>2. CASE turn[r].stop = "late"
    BY <1>2, <1>3, <2>2 DEF Holders, Calls
  <2>3. CASE turn[r].stop # "late"
    <3>1. /\ turn[r].session = s /\ turn[r].stage \in {"ready", "running"}
          /\ turn[r].streamed
      BY <1>6, <2>1, <2>3 DEF Noted
    <3>2. turn[r].holds = e
      BY <1>1, <1>5, <3>1 DEF Holders
    <3> QED  BY <1>2, <1>3, <3>1, <3>2
  <2> QED  BY <2>2, <2>3
<1>7. Calls'
  BY <1>1, <1>3, <1>6 DEF Calls
<1>8. Holders'
  BY <1>1, <1>2, <1>3, <1>4, <1>5, <1>6, LiveSessions DEF Holders
<1>9. Signals'
  <2>1. ASSUME NEW r \in Sessions, r \notin sessions, signal[r] # None
        PROVE  signal'[r] = signal[r] /\ signal[r] \in Turns \ set'
    <3>1. r # s /\ signal[r] \in Turns \ set /\ Owned(signal[r], r)
      BY <1>1, <2>1 DEF Signals
    <3>2. signal[r] # e
      BY <1>5, <3>1, OneOwner
    <3> QED  BY <1>2, <2>1, <3>1, <3>2
  <2>2. s <= born /\ born \in Nat
    BY <1>1, SessionsNat DEF Types
  <2> QED  BY <1>1, <1>2, <1>4, <1>5, <2>1, <2>2, SessionsNat DEF Signals
<1> QED  BY <1>7, <1>8, <1>9

\* A question: the call gets its session, and owns no event yet.
LEMMA AskCalls ==
  ASSUME Types, Calls, Holders, Signals, NEW t \in Turns, turn[t].stage = "idle", Only(t),
         turn'[t].stage = "planning", turn'[t].session \in sessions \cup {0},
         turn'[t].holds = turn[t].holds, turn'[t].stop = turn[t].stop,
         UNCHANGED <<sessions, born, signal, set>>,
         \A s \in Sessions \ sessions : events'[s] = events[s]
  PROVE  Calls' /\ Holders' /\ Signals'
<1>1. /\ turn[t].session = 0 /\ turn[t].holds = None /\ turn[t].stop # "late"
      /\ \A r \in Turns \ {t} : turn'[r] = turn[r]
  BY DEF Calls, Only
<1>2. \A x, r : r # 0 /\ Owned(x, r) => Owned(x, r)'
  BY <1>1 DEF Owned
<1>3. ASSUME NEW r \in Turns, turn[r].holds # None
      PROVE  r # t /\ Owned(turn[r].holds, turn[r].session)'
  <2>1. r # t /\ turn[r].session # 0 /\ Owned(turn[r].holds, turn[r].session)
    BY <1>1, <1>3 DEF Holders
  <2> QED  BY <1>1, <1>2, <2>1
<1>4. Calls'
  <2>1. turn'[t].session <= born
    <3>1. sessions \subseteq 1..born /\ born \in Nat
      BY SessionsNat DEF Types
    <3>2. CASE turn'[t].session = 0
      BY <3>1, <3>2
    <3>3. CASE turn'[t].session \in sessions
      <4>1. turn'[t].session \in 1..born
        BY <3>1, <3>3
      <4> QED  BY <3>1, <4>1
    <3> QED  BY <3>2, <3>3
  <2>2. UNCHANGED born /\ turn'[t].stage = "planning"
    OBVIOUS
  <2>3. turn'[t].holds = None /\ turn'[t].stop # "late"
    BY <1>1
  <2> QED  BY <1>1, <2>1, <2>2, <2>3 DEF Calls
<1>5. Holders'
  BY <1>1, <1>3 DEF Holders
<1>6. Signals'
  BY <1>2, SessionsNat DEF Signals
<1> QED  BY <1>4, <1>5, <1>6

\* A session comes, others go; what goes takes its event along.
LEMMA StoreCalls ==
  ASSUME Types, Calls, Holders, Signals, NEW gone \in SUBSET sessions, Forget(gone),
         UNCHANGED <<turn, set>>,
         \/ sessions' = sessions \ gone /\ born' = born
         \/ sessions' = (sessions \ gone) \cup {born'} /\ born' = born + 1
  PROVE  Calls' /\ Holders' /\ Signals'
<1>1. /\ \A s \in Sessions : s \in gone => events'[s] = <<>> /\ signal'[s] = None
      /\ \A s \in Sessions : s \notin gone => events'[s] = events[s] /\ signal'[s] = signal[s]
  BY DEF Forget
<1>2. /\ born \in Nat /\ born' \in {born, born + 1}
      /\ \A s \in sessions' : s \in sessions \ gone \/ s = born + 1
      /\ \A s \in sessions \ sessions' : s \in gone
  BY SessionsNat DEF Types
<1>3. \A r \in Turns : turn[r].session \in Nat /\ turn[r].session <= born
  BY TurnTyped, SessionsNat DEF Calls
<1>4. Calls'
  BY <1>2, <1>3 DEF Calls
<1>5. Holders'
  <2>1. \A x, r : Owned(x, r)' <=> Owned(x, r)
    BY DEF Owned
  <2>2. \A r \in Turns : turn[r].session \in sessions' =>
           turn[r].session \in sessions /\ signal'[turn[r].session] = signal[turn[r].session]
    BY <1>1, <1>2, <1>3, LiveSessions
  <2> QED  BY <2>1, <2>2 DEF Holders
<1>6. Signals'
  <2>1. \A x, r : Owned(x, r)' <=> Owned(x, r)
    BY DEF Owned
  <2> SUFFICES ASSUME NEW s \in Sessions
               PROVE  /\ signal'[s] # None => Owned(signal[s], s)'
                      /\ s \notin sessions' =>
                           events'[s] = <<>> /\ (signal'[s] # None => signal'[s] \in Turns \ set')
                      /\ s > born' => signal'[s] = None
    BY DEF Signals
  <2>2. CASE s \in gone
    BY <1>1, <2>2
  <2>3. CASE s \notin gone
    <3>1. s \notin sessions' => s \notin sessions
      BY <1>2, <2>3
    <3>2. s > born' => s > born
      BY <1>2, SessionsNat
    <3> QED  BY <1>1, <2>1, <2>3, <3>1, <3>2 DEF Signals
  <2> QED  BY <2>2, <2>3
<1> QED  BY <1>4, <1>5, <1>6

LEMMA StepCalls ==
  ASSUME Types, Calls, Holders, Signals, [Next]_vars
  PROVE  Calls' /\ Holders' /\ Signals'
<1>1. ASSUME NEW m \in Models, CreateSession(m) PROVE Calls' /\ Holders' /\ Signals'
  <2>1. Evicted \in SUBSET sessions
    BY DEF Evicted
  <2> QED  BY <1>1, <2>1, StoreCalls DEF CreateSession
<1>2. ASSUME NEW s \in Sessions, DeleteSession(s) PROVE Calls' /\ Holders' /\ Signals'
  <2>1. {s} \in SUBSET sessions
    BY <1>2 DEF DeleteSession
  <2> QED  BY <1>2, <2>1, StoreCalls DEF DeleteSession
<1>3. ASSUME NEW s \in Sessions, CancelSession(s) PROVE Calls' /\ Holders' /\ Signals'
  BY <1>3, CancelCalls
<1>4. ASSUME NEW t \in Turns, NEW s \in Sessions, NEW b \in BOOLEAN, PostMessage(t, s, b)
      PROVE  Calls' /\ Holders' /\ Signals'
  <2>1. /\ turn[t].stage = "idle" /\ s \in sessions
        /\ UNCHANGED <<sessions, born, signal, set>>
    BY <1>4 DEF PostMessage, At
  <2>2. \A r \in Sessions \ sessions : events'[r] = events[r]
    BY <1>4, <2>1 DEF PostMessage, Types
  <2>3. /\ Only(t) /\ turn'[t].stage = "planning" /\ turn'[t].session = s
        /\ turn'[t].holds = turn[t].holds /\ turn'[t].stop = turn[t].stop
    BY <1>4, PostEffect
  <2> QED  BY <2>1, <2>2, <2>3, AskCalls
<1>5. ASSUME NEW t \in Turns, NEW m \in Models, NEW b \in BOOLEAN, ChatCompletion(t, m, b)
      PROVE  Calls' /\ Holders' /\ Signals'
  <2>1. turn[t].stage = "idle" /\ UNCHANGED <<sessions, born, signal, set, events>>
    BY <1>5 DEF ChatCompletion, At, store
  <2>2. /\ Only(t) /\ turn'[t].stage = "planning" /\ turn'[t].session = turn[t].session
        /\ turn'[t].holds = turn[t].holds /\ turn'[t].stop = turn[t].stop
    BY <1>5, ChatEffect
  <2>3. turn[t].session = 0
    BY <2>1 DEF Calls
  <2> QED  BY <2>1, <2>2, <2>3, AskCalls
<1>6. ASSUME NEW t \in Turns, TurnStep(t) PROVE Calls' /\ Holders' /\ Signals'
  BY <1>6, TurnSteps, CalmCalls, BeginCalls
<1>7. CASE UNCHANGED <<sessions, born, events, signal, set, turn>>
  <2>1. \A x, r : Owned(x, r)' <=> Owned(x, r)
    BY <1>7 DEF Owned
  <2> QED  BY <1>7, <2>1 DEF Calls, Holders, Signals
<1>8. UNCHANGED vars => UNCHANGED <<sessions, born, events, signal, set, turn>>
  BY DEF vars, store
<1>9. Elsewhere =>
        UNCHANGED <<sessions, born, events, signal, set, turn>>
  BY DEF Elsewhere, Tick, Swap, store
<1> QED  BY <1>1, <1>2, <1>3, <1>4, <1>5, <1>6, <1>7, <1>8, <1>9 DEF Next, Elsewhere

LEMMA InitCalls == Init => Calls /\ Holders /\ Signals
<1> SUFFICES ASSUME Init PROVE Calls /\ Holders /\ Signals
  OBVIOUS
<1>1. \A t \in Turns : /\ turn[t].session = 0 /\ turn[t].stage = "idle"
                        /\ turn[t].holds = None /\ turn[t].stop = "no"
  BY DEF Init, Idle
<1>2. \A s \in Sessions : signal[s] = None /\ events[s] = <<>>
  BY DEF Init
<1> QED  BY <1>1, <1>2 DEF Init, Calls, Holders, Signals

-----------------------------------------------------------------------------
(***************************************************************************)
(* Questions and answers.                                                  *)
(***************************************************************************)
Asked(t, s) == \E q \in 1..Len(events[s]) : events[s][q] = Question(t)

Answered(t, s) ==
  \E i \in 1..Len(events[s]) : /\ Answers(t, s) = {i}
                               /\ events[s][i] = Answer(t)
                               /\ \E q \in 1..(i - 1) : events[s][q] = Question(t)

Talk(t, s) ==
  /\ IF turn[t].session = s /\ turn[t].stage = "ended"
       THEN Answered(t, s) ELSE Answers(t, s) = {}
  /\ turn[t].session = s => Asked(t, s)

Talks == \A t \in Turns : \A s \in sessions : Talk(t, s)

\* Nothing new is in the session, and the call ends nowhere.
LEMMA SameTalk ==
  ASSUME NEW t \in Turns, NEW s \in sessions, Talk(t, s),
         events'[s] = events[s], turn'[t].session = turn[t].session,
         turn'[t].stage = "ended" <=> turn[t].stage = "ended",
         turn[t].stage = "ended" => turn'[t].sent = turn[t].sent
  PROVE  Talk(t, s)'
<1>1. Answers(t, s)' = Answers(t, s) /\ (Asked(t, s)' <=> Asked(t, s))
  BY DEF Answers, Asked
<1>2. turn[t].stage = "ended" => (Answered(t, s)' <=> Answered(t, s))
  BY <1>1 DEF Answered, Answer
<1> QED  BY <1>1, <1>2 DEF Talk

\* Somebody else's message, or a question, is added.
LEMMA MoreTalk ==
  ASSUME NEW t \in Turns, NEW s \in sessions, Talk(t, s), NEW m \in Message,
         events[s] \in Seq(Message), events'[s] = Append(events[s], m),
         m.of # t \/ m.role = "user",
         turn'[t].session = turn[t].session \/ (turn'[t].session = s /\ m = Question(t)),
         turn[t].stage = "ended" => turn'[t].session = turn[t].session,
         turn'[t].stage = "ended" <=> turn[t].stage = "ended",
         turn[t].stage = "ended" => turn'[t].sent = turn[t].sent
  PROVE  Talk(t, s)'
<1> DEFINE n == Len(events[s])
<1>1. /\ n \in Nat /\ Len(events'[s]) = n + 1 /\ events'[s][n + 1] = m
      /\ \A i \in 1..n : events'[s][i] = events[s][i]
  BY AppendSeq
<1>2. Answers(t, s)' = Answers(t, s)
  <2>1. \A i \in 1..(n + 1) : i \in 1..n \/ i = n + 1
    BY <1>1
  <2>2. 1..n \subseteq 1..(n + 1)
    BY <1>1
  <2>3. ~ (events'[s][n + 1].of = t /\ events'[s][n + 1].role = "assistant")
    BY <1>1
  <2> QED  BY <1>1, <2>1, <2>2, <2>3 DEF Answers
<1>3. Asked(t, s) => Asked(t, s)'
  <2>1. 1..n \subseteq 1..(n + 1)
    BY <1>1
  <2> QED  BY <1>1, <2>1 DEF Asked
<1>4. m = Question(t) => Asked(t, s)'
  <2>1. n + 1 \in 1..(n + 1)
    BY <1>1
  <2> QED  BY <1>1, <2>1 DEF Asked, Question
<1>5. turn[t].stage = "ended" /\ Answered(t, s) => Answered(t, s)'
  <2> SUFFICES ASSUME turn[t].stage = "ended", Answered(t, s) PROVE Answered(t, s)'
    OBVIOUS
  <2>1. PICK i \in 1..n : /\ Answers(t, s) = {i} /\ events[s][i] = Answer(t)
                          /\ \E q \in 1..(i - 1) : events[s][q] = Question(t)
    BY DEF Answered
  <2>2. i \in 1..(n + 1) /\ 1..(i - 1) \subseteq 1..n
    BY <1>1
  <2>3. events'[s][i] = Answer(t)' /\ Question(t)' = Question(t)
    BY <1>1, <2>1 DEF Answer, Question
  <2>4. \E q \in 1..(i - 1) : events'[s][q] = Question(t)
    BY <1>1, <2>1, <2>2
  <2> QED  BY <1>1, <1>2, <2>1, <2>2, <2>3, <2>4 DEF Answered
<1> QED  BY <1>2, <1>3, <1>4, <1>5 DEF Talk

\* The answer is added, after the question.
LEMMA LastTalk ==
  ASSUME NEW t \in Turns, NEW s \in sessions, Talk(t, s),
         events[s] \in Seq(Message), events'[s] = Append(events[s], Answer(t)),
         Answer(t) \in Message,
         turn[t].session = s, turn[t].stage = "running",
         turn'[t].session = s, turn'[t].stage = "ended", turn'[t].sent = turn[t].sent
  PROVE  Talk(t, s)'
<1> DEFINE n == Len(events[s])
<1>1. /\ n \in Nat /\ Len(events'[s]) = n + 1 /\ events'[s][n + 1] = Answer(t)
      /\ \A i \in 1..n : events'[s][i] = events[s][i]
  BY AppendSeq
<1>2. Answers(t, s) = {} /\ Asked(t, s)
  BY DEF Talk
<1>3. n + 1 \in 1..(n + 1) /\ 1..n \subseteq 1..(n + 1) /\ (n + 1) - 1 = n
      /\ \A i \in 1..(n + 1) : i \in 1..n \/ i = n + 1
  BY <1>1
<1>4. Answers(t, s)' = {n + 1}
  <2>1. Answer(t).of = t /\ Answer(t).role = "assistant"
    BY DEF Answer
  <2> QED  BY <1>1, <1>2, <1>3, <2>1 DEF Answers
<1>5. Answer(t)' = Answer(t) /\ Question(t)' = Question(t)
  BY DEF Answer, Question
<1>6. PICK q \in 1..n : events[s][q] = Question(t)
  BY <1>2 DEF Asked
<1>7. q \in 1..((n + 1) - 1) /\ q \in 1..(n + 1) /\ events'[s][q] = Question(t)
  BY <1>1, <1>3, <1>6
<1>8. Answered(t, s)' /\ Asked(t, s)'
  BY <1>1, <1>3, <1>4, <1>5, <1>7 DEF Answered, Asked
<1> QED  BY <1>8 DEF Talk

\* The call is about another session, or got one just now.
LEMMA OtherTalk ==
  ASSUME NEW t \in Turns, NEW s \in sessions, Talk(t, s),
         events'[s] = events[s], turn'[t].session # s,
         turn[t].session = s => turn[t].stage # "ended"
  PROVE  Talk(t, s)'
BY DEF Talk, Answers

LEMMA OverSteps ==
  ASSUME Types, NEW t \in Turns, Drops(t) \/ Records(t)
  PROVE  /\ Only(t) /\ turn'[t].session = turn[t].session /\ turn'[t].sent = turn[t].sent
         /\ turn'[t].stage \in {"refused", "ended", "lost"}
<1>1. PICK x \in {"refused", "ended", "lost"} : Over(t, x)
  BY Recording DEF Drops
<1>2. x \in Stages
  BY DEF Stages
<1> QED  BY <1>1, <1>2, OverEffect

LEMMA RecordTalks ==
  ASSUME Types, Talks, NEW t \in Turns, Records(t)
  PROVE  Talks'
<1> DEFINE v == turn[t].session
<1>1. /\ sessions' = sessions /\ turn[t].stage = "running"
      /\ Only(t) /\ turn'[t].session = v /\ turn'[t].sent = turn[t].sent
  BY OverSteps, Recording DEF Records
<1>2. \A r \in Turns \ {t} : turn'[r] = turn[r]
  BY <1>1 DEF Only
<1> SUFFICES ASSUME NEW r \in Turns, NEW s \in sessions PROVE Talk(r, s)'
  BY <1>1 DEF Talks
<1>3. Talk(r, s) /\ s \in Sessions /\ events[s] \in Seq(Message)
  BY LiveSessions DEF Talks, Types
<1>4. CASE s # v
  <2>1. events'[s] = events[s]
    BY <1>3, <1>4, Recording DEF Types
  <2>2. CASE r = t
    BY <1>1, <1>3, <1>4, <2>1, <2>2, OtherTalk
  <2>3. CASE r # t
    BY <1>2, <1>3, <2>1, <2>3, SameTalk
  <2> QED  BY <2>2, <2>3
<1>5. CASE s = v
  <2>1. events'[s] = Append(events[s], Answer(t)) /\ Answer(t) \in Message
    BY <1>3, <1>5, Recording DEF Types
  <2>2. CASE r = t
    <3>1. turn'[t].stage = "ended"
      <4>1. Over(t, "ended")
        BY <1>5, Recording
      <4> QED  BY <4>1, OverEffect DEF Stages
    <3> QED  BY <1>1, <1>3, <1>5, <2>1, <2>2, <3>1, LastTalk
  <2>3. CASE r # t
    <3>1. Answer(t).of # r
      BY <2>3 DEF Answer
    <3> QED  BY <1>2, <1>3, <2>1, <2>3, <3>1, MoreTalk
  <2> QED  BY <2>2, <2>3
<1> QED  BY <1>4, <1>5

LEMMA PostTalks ==
  ASSUME Types, Calls, Talks, NEW t \in Turns, NEW v \in Sessions, NEW b \in BOOLEAN,
         PostMessage(t, v, b)
  PROVE  Talks'
<1>1. /\ sessions' = sessions /\ turn[t].stage = "idle" /\ turn[t].session = 0
      /\ Only(t) /\ turn'[t].session = v /\ turn'[t].stage = "planning"
  BY PostEffect DEF PostMessage, At, Calls
<1>2. \A r \in Turns \ {t} : turn'[r] = turn[r]
  BY <1>1 DEF Only
<1> SUFFICES ASSUME NEW r \in Turns, NEW s \in sessions PROVE Talk(r, s)'
  BY <1>1 DEF Talks
<1>3. Talk(r, s) /\ s \in Sessions /\ s # 0 /\ events[s] \in Seq(Message)
  BY LiveSessions DEF Talks, Types
<1>4. CASE s # v
  <2>1. events'[s] = events[s]
    BY <1>3, <1>4 DEF PostMessage, Types
  <2>2. CASE r = t
    BY <1>1, <1>3, <1>4, <2>1, <2>2, OtherTalk
  <2>3. CASE r # t
    BY <1>2, <1>3, <2>1, <2>3, SameTalk
  <2> QED  BY <2>2, <2>3
<1>5. CASE s = v
  <2>1. events'[s] = Append(events[s], Question(t))
    BY <1>3, <1>5 DEF PostMessage, Types
  <2>2. Question(t) \in Message /\ Question(t).role = "user"
    BY SessionsNat, GatewayAssumption DEF Question, Message, GatewayAssumption
  <2>3. CASE r = t
    BY <1>1, <1>3, <1>5, <2>1, <2>2, <2>3, MoreTalk
  <2>4. CASE r # t
    BY <1>2, <1>3, <2>1, <2>2, <2>4, MoreTalk
  <2> QED  BY <2>3, <2>4
<1> QED  BY <1>4, <1>5

LEMMA StepTalks ==
  ASSUME Types, Calls, Signals, Talks, [Next]_vars
  PROVE  Talks'
<1>1. ASSUME \A s \in sessions' : s \in sessions /\ events'[s] = events[s],
             \A r \in Turns : /\ turn'[r].session = turn[r].session
                              /\ turn'[r].stage = "ended" <=> turn[r].stage = "ended"
                              /\ turn[r].stage = "ended" => turn'[r].sent = turn[r].sent
      PROVE  Talks'
  BY <1>1, SameTalk DEF Talks
<1>2. ASSUME NEW m \in Models, CreateSession(m) PROVE Talks'
  <2>1. /\ turn' = turn /\ born' = born + 1
        /\ sessions' = (sessions \ Evicted) \cup {born'} /\ Forget(Evicted)
        /\ born \in Nat /\ born' \in Sessions /\ born' \notin sessions
    BY <1>2, SessionsNat DEF CreateSession, Types
  <2>2. \A s \in Sessions \ Evicted : events'[s] = events[s]
    BY <2>1 DEF Forget
  <2>3. born' \notin Evicted /\ events[born'] = <<>>
    BY <2>1 DEF Evicted, Signals
  <2> SUFFICES ASSUME NEW r \in Turns, NEW s \in sessions' PROVE Talk(r, s)'
    BY DEF Talks
  <2>4. CASE s = born'
    <3>1. events'[s] = <<>> /\ turn'[r].session # s
      <4>1. turn[r].session <= born /\ turn[r].session \in Nat
        BY TurnTyped, SessionsNat DEF Calls
      <4> QED  BY <2>1, <2>2, <2>3, <2>4, <4>1
    <3>2. Answers(r, s)' = {}
      BY <3>1 DEF Answers
    <3> QED  BY <3>1, <3>2 DEF Talk
  <2>5. CASE s # born'
    BY <2>1, <2>2, <2>5, LiveSessions, SameTalk DEF Talks
  <2> QED  BY <2>4, <2>5
<1>3. ASSUME NEW s \in Sessions, DeleteSession(s) PROVE Talks'
  BY <1>1, <1>3, LiveSessions DEF DeleteSession, Forget
<1>4. ASSUME NEW s \in Sessions, CancelSession(s) PROVE Talks'
  <2>1. UNCHANGED <<sessions, events>>
    BY <1>4 DEF CancelSession, store
  <2> QED  BY <1>1, <1>4, <2>1, CancelEffect
<1>5. ASSUME NEW t \in Turns, NEW s \in Sessions, NEW b \in BOOLEAN, PostMessage(t, s, b)
      PROVE  Talks'
  BY <1>5, PostTalks
<1>6. ASSUME NEW t \in Turns, NEW m \in Models, NEW b \in BOOLEAN, ChatCompletion(t, m, b)
      PROVE  Talks'
  <2>1. UNCHANGED <<sessions, events>> /\ turn[t].stage = "idle"
    BY <1>6 DEF ChatCompletion, store, At
  <2> QED  BY <1>1, <1>6, <2>1, ChatEffect DEF Only
<1>7. ASSUME NEW t \in Turns, TurnStep(t) PROVE Talks'
  <2>1. CASE Walks(t)
    <3>1. /\ UNCHANGED <<sessions, events>> /\ turn'[t].session = turn[t].session
          /\ turn[t].stage # "ended" /\ turn'[t].stage # "ended"
          /\ \A r \in Turns \ {t} : turn'[r] = turn[r]
      BY <2>1 DEF Walks, Only, Keeps, store
    <3> QED  BY <1>1, <3>1
  <2>2. CASE Drops(t)
    <3>1. /\ UNCHANGED <<sessions, events>> /\ turn[t].stage # "ended" /\ turn'[t].stage # "ended"
          /\ turn'[t].session = turn[t].session /\ \A r \in Turns \ {t} : turn'[r] = turn[r]
      <4>1. Over(t, "refused")
        BY <2>2 DEF Drops
      <4>2. turn'[t].stage = "refused" /\ Only(t) /\ turn'[t].session = turn[t].session
        BY <4>1, OverEffect DEF Stages
      <4> QED  BY <2>2, <4>2 DEF Drops, store, Only
    <3> QED  BY <1>1, <3>1
  <2>3. CASE Begins(t)
    <3>1. /\ UNCHANGED <<sessions, events>> /\ turn[t].stage # "ended" /\ turn'[t].stage # "ended"
          /\ turn'[t].session = turn[t].session
      BY <2>3, BeginEffect DEF Begins, store
    <3>2. \A r \in Turns \ {t} : /\ turn'[r].session = turn[r].session
                                  /\ turn'[r].stage = turn[r].stage /\ turn'[r].sent = turn[r].sent
      BY <2>3, BeginEffect DEF Begins
    <3> QED  BY <1>1, <3>1, <3>2
  <2>4. CASE Records(t)
    BY <2>4, RecordTalks
  <2> QED  BY <1>7, <2>1, <2>2, <2>3, <2>4, TurnSteps
<1>8. CASE UNCHANGED <<sessions, events, turn>>
  BY <1>1, <1>8
<1>9. UNCHANGED vars => UNCHANGED <<sessions, events, turn>>
  BY DEF vars, store
<1>10. Elsewhere =>
         UNCHANGED <<sessions, events, turn>>
  BY DEF Elsewhere, Tick, Swap, store
<1> QED  BY <1>2, <1>3, <1>4, <1>5, <1>6, <1>7, <1>8, <1>9, <1>10 DEF Next, Elsewhere

-----------------------------------------------------------------------------
(***************************************************************************)
(* Readings of what a node serves: old ones may be wrong, current ones are *)
(* right.                                                                  *)
(***************************************************************************)
Recent(r, n, ticks) == r = serves[n].models \/ serves[n].since <= ticks

Readings ==
  /\ \A n \in Nodes : cache[n] # None => Recent(cache[n].models, n, cache[n].age + MaxFlight)
  /\ \A t \in Turns :
       /\ turn[t].stage \in {"idle", "planning"} => turn[t].read = None
       /\ turn[t].stage = "asking" /\ turn[t].read # None =>
            Recent(turn[t].read, turn[t].node, flight[t])

\* Ages and clocks are numbers.
LEMMA ReadingTyped ==
  ASSUME Types
  PROVE  /\ \A n \in Nodes : serves[n].since \in Nat
         /\ \A n \in Nodes : cache[n] # None => cache[n].age \in 0..TTL
         /\ \A t \in Turns : flight[t] \in 0..MaxFlight
         /\ MaxFlight \in Nat /\ TTL \in Nat
<1>1. ASSUME NEW n \in Nodes PROVE serves[n].since \in Nat
  <2>1. serves[n] \in Serving /\ Long \in Nat
    BY GatewayAssumption DEF Types, Long, GatewayAssumption
  <2> QED  BY <2>1 DEF Serving
<1>2. ASSUME NEW n \in Nodes, cache[n] # None PROVE cache[n].age \in 0..TTL
  BY <1>2 DEF Types, Stored
<1> QED  BY <1>1, <1>2, GatewayAssumption DEF Types, GatewayAssumption

LEMMA StepReadings ==
  ASSUME Types, Readings, [Next]_vars
  PROVE  Readings'
<1>1. ASSUME UNCHANGED <<serves, cache, flight>>,
             \A r \in Turns : /\ turn'[r].stage = turn[r].stage
                              /\ turn'[r].read = turn[r].read /\ turn'[r].node = turn[r].node
      PROVE  Readings'
  BY <1>1 DEF Readings, Recent
<1>2. ASSUME NEW t \in Turns, UNCHANGED <<serves, cache, flight>>, Only(t),
             turn[t].stage = "idle", turn'[t].stage = "planning", turn'[t].read = turn[t].read
      PROVE  Readings'
  BY <1>2 DEF Readings, Recent, Only
<1>3. ASSUME NEW t \in Turns, TurnStep(t) PROVE Readings'
  <2>1. serves' = serves /\ \A r \in Turns \ {t} : flight'[r] = flight[r]
    BY <1>3, CallReadings
  <2>2. ASSUME NEW n \in Nodes, cache'[n] # None
        PROVE  \/ cache'[n].models = serves'[n].models
               \/ serves'[n].since <= cache'[n].age + MaxFlight
    <3>1. CASE AnswerArrives(t) /\ n = turn[t].node
      <4>1. cache' = [cache EXCEPT ![n] = [models |-> turn[t].read, age |-> 0]]
        BY <3>1 DEF AnswerArrives
      <4>2. cache'[n] = [models |-> turn[t].read, age |-> 0]
        BY <4>1 DEF Types
      <4>3. Recent(turn[t].read, n, flight[t])
        BY <3>1 DEF AnswerArrives, At, Readings
      <4>4. /\ flight[t] \in Nat /\ MaxFlight \in Nat /\ flight[t] <= MaxFlight
            /\ serves[n].since \in Nat
        BY ReadingTyped
      <4> QED  BY <2>1, <4>2, <4>3, <4>4 DEF Recent
    <3>2. CASE ~ (AnswerArrives(t) /\ n = turn[t].node)
      <4>1. cache'[n] = cache[n]
        BY <1>3, <3>2, CallReadings DEF AnswerArrives, Types
      <4> QED  BY <2>1, <2>2, <4>1 DEF Readings, Recent
    <3> QED  BY <3>1, <3>2
  <2>3. /\ \A r \in Turns \ {t} : /\ turn'[r].stage = turn[r].stage
                                   /\ turn'[r].read = turn[r].read /\ turn'[r].node = turn[r].node
        /\ turn'[t].stage \notin {"idle", "planning"}
        /\ turn'[t].stage = "asking" =>
             turn'[t].read = None \/ turn'[t].read = serves[turn'[t].node].models
    <3>1. CASE Walks(t)
      BY <3>1 DEF Walks, Only, Readings
    <3>2. CASE Drops(t) \/ Records(t)
      BY <3>2, OverSteps DEF Only
    <3>3. CASE Begins(t)
      BY <3>3, BeginEffect DEF Begins
    <3> QED  BY <1>3, <3>1, <3>2, <3>3, TurnSteps
  <2>4. ASSUME NEW r \in Turns
        PROVE  /\ turn'[r].stage \in {"idle", "planning"} => turn'[r].read = None
               /\ turn'[r].stage = "asking" /\ turn'[r].read # None =>
                    \/ turn'[r].read = serves'[turn'[r].node].models
                    \/ serves'[turn'[r].node].since <= flight'[r]
    <3>1. CASE r = t
      BY <2>1, <2>3, <3>1
    <3>2. CASE r # t
      BY <2>1, <2>3, <3>2 DEF Readings, Recent
    <3> QED  BY <3>1, <3>2
  <2> QED  BY <2>1, <2>2, <2>4 DEF Readings, Recent
<1>4. ASSUME NEW n \in Nodes, NEW models \in Reading, Swap(n, models) PROVE Readings'
  <2>1. /\ UNCHANGED <<turn, cache, flight>> /\ serves'[n].since = 0
        /\ \A q \in Nodes \ {n} : serves'[q] = serves[q]
    <3>1. serves' = [serves EXCEPT ![n] = [models |-> models, changes |-> serves[n].changes + 1,
                                            since |-> 0]]
      BY <1>4 DEF Swap
    <3> QED  BY <1>4, <3>1 DEF Swap, Types
  <2>2. ASSUME NEW r, NEW q \in Nodes, NEW k \in Nat, Recent(r, q, k)
        PROVE  r = serves'[q].models \/ serves'[q].since <= k
    BY <2>1, <2>2 DEF Recent
  <2>3. \A q \in Nodes : cache[q] # None =>
          \/ cache[q].models = serves'[q].models
          \/ serves'[q].since <= cache[q].age + MaxFlight
    <3> TAKE q \in Nodes
    <3> HAVE cache[q] # None
    <3>1. cache[q].age + MaxFlight \in Nat
      BY ReadingTyped
    <3> QED  BY <2>2, <3>1 DEF Readings
  <2>4. \A t \in Turns : turn[t].stage = "asking" /\ turn[t].read # None =>
          \/ turn[t].read = serves'[turn[t].node].models
          \/ serves'[turn[t].node].since <= flight[t]
    <3> TAKE t \in Turns
    <3> HAVE turn[t].stage = "asking" /\ turn[t].read # None
    <3>1. flight[t] \in Nat /\ turn[t].node \in Nodes
      BY ReadingTyped DEF Types
    <3> QED  BY <2>2, <3>1 DEF Readings
  <2> QED  BY <2>1, <2>3, <2>4 DEF Readings, Recent
<1>5. CASE Tick
  <2>1. ASSUME NEW r, NEW q \in Nodes, NEW k \in Nat, Recent(r, q, k)
        PROVE  r = serves'[q].models \/ serves'[q].since <= k + 1
    <3>1. /\ serves'[q].models = serves[q].models /\ serves'[q].since <= serves[q].since + 1
          /\ serves'[q] \in Serving
      BY <1>5, TickServing
    <3>2. serves'[q].since \in Nat
      BY <3>1, GatewayAssumption DEF Serving, Long, GatewayAssumption
    <3> QED  BY <2>1, <3>1, <3>2, ReadingTyped DEF Recent
  <2>2. ASSUME NEW q \in Nodes, cache'[q] # None
        PROVE  \/ cache'[q].models = serves'[q].models
               \/ serves'[q].since <= cache'[q].age + MaxFlight
    <3>1. /\ cache[q] # None /\ cache'[q].models = cache[q].models
          /\ cache'[q].age = cache[q].age + 1
      BY <1>5, <2>2, TickCache
    <3>2. cache[q].age \in Nat /\ MaxFlight \in Nat
      BY <3>1, ReadingTyped
    <3>3. Recent(cache[q].models, q, cache[q].age + MaxFlight)
      BY <3>1 DEF Readings
    <3>4. \/ cache[q].models = serves'[q].models
          \/ serves'[q].since <= (cache[q].age + MaxFlight) + 1
      BY <2>1, <3>2, <3>3
    <3>5. (cache[q].age + MaxFlight) + 1 = cache'[q].age + MaxFlight
      BY <3>1, <3>2
    <3> QED  BY <3>1, <3>4, <3>5
  <2>3. ASSUME NEW t \in Turns, turn[t].stage = "asking", turn[t].read # None
        PROVE  \/ turn[t].read = serves'[turn[t].node].models
               \/ serves'[turn[t].node].since <= flight'[t]
    <3>1. flight[t] \in Nat /\ turn[t].node \in Nodes /\ flight'[t] = flight[t] + 1
      BY <1>5, <2>3, ReadingTyped DEF Tick, Types
    <3>2. Recent(turn[t].read, turn[t].node, flight[t])
      BY <2>3 DEF Readings
    <3> QED  BY <2>1, <3>1, <3>2
  <2>4. turn' = turn
    BY <1>5 DEF Tick
  <2> QED  BY <2>2, <2>3, <2>4 DEF Readings, Recent
<1>6. ASSUME NEW s \in Sessions, CancelSession(s) PROVE Readings'
  <2>1. UNCHANGED <<serves, cache, flight>>
    BY <1>6 DEF CancelSession
  <2> QED  BY <1>1, <1>6, <2>1, CancelEffect
<1>7. ASSUME NEW t \in Turns, NEW s \in Sessions, NEW b \in BOOLEAN, PostMessage(t, s, b)
      PROVE  Readings'
  <2>1. UNCHANGED <<serves, cache, flight>> /\ turn[t].stage = "idle"
    BY <1>7 DEF PostMessage, At
  <2> QED  BY <1>2, <1>7, <2>1, PostEffect
<1>8. ASSUME NEW t \in Turns, NEW m \in Models, NEW b \in BOOLEAN, ChatCompletion(t, m, b)
      PROVE  Readings'
  <2>1. UNCHANGED <<serves, cache, flight>> /\ turn[t].stage = "idle"
    BY <1>8 DEF ChatCompletion, At
  <2> QED  BY <1>2, <1>8, <2>1, ChatEffect
<1>9. \/ UNCHANGED vars
      \/ \E m \in Models : CreateSession(m)
      \/ \E s \in Sessions : DeleteSession(s)
      => UNCHANGED <<serves, cache, flight, turn>>
  BY DEF vars, CreateSession, DeleteSession
<1> QED  BY <1>1, <1>3, <1>4, <1>5, <1>6, <1>7, <1>8, <1>9 DEF Next

LEMMA InitRest == Init => Talks /\ Readings
<1> SUFFICES ASSUME Init PROVE Talks /\ Readings
  OBVIOUS
<1>1. \A t \in Turns : turn[t].stage = "idle" /\ turn[t].read = None
  BY DEF Init, Idle
<1> QED  BY <1>1 DEF Init, Talks, Readings

Invariant == Types /\ Calls /\ Holders /\ Signals /\ Talks /\ Readings

LEMMA AlwaysInvariant == Spec => []Invariant
<1>1. Init => Invariant
  BY InitTypes, InitCalls, InitRest DEF Invariant
<1>2. Invariant /\ [Next]_vars => Invariant'
  BY StepTypes, StepCalls, StepTalks, StepReadings DEF Invariant
<1> QED  BY <1>1, <1>2, PTL DEF Spec

-----------------------------------------------------------------------------
(***************************************************************************)
(* The cap of the store: what create_session leaves are the sessions from  *)
(* some session on, of which there were fewer than the cap.                *)
(***************************************************************************)
LEMMA Least ==
  ASSUME NEW S \in SUBSET Nat, S # {}
  PROVE  \E m \in S : \A k \in S : m <= k
<1> DEFINE R == OpToRel(<, Nat)
<1>1. IsWellFoundedOn(R, Nat)
  BY NatLessThanWellFounded
<1>2. \A k, m \in Nat : k < m => <<k, m>> \in R
  BY DEF OpToRel
<1> HIDE DEF R
<1>3. PICK m \in S : \A k \in S : ~ (<<k, m>> \in R)
  BY <1>1, WFMin, Zenon
<1>4. \A k \in S : ~ (k < m)
  BY <1>2, <1>3, Zenon
<1>5. \A k \in S : m <= k
  BY <1>4
<1> QED  BY <1>5

Capped == Cardinality(sessions) <= MAX_SESSIONS

LEMMA FiniteStore ==
  ASSUME Types
  PROVE  \A T \in SUBSET sessions : IsFiniteSet(T) /\ Cardinality(T) \in Nat
<1>1. born \in Int /\ 1 \in Int /\ sessions \subseteq 1..born
  BY SessionsNat DEF Types
<1>2. IsFiniteSet(1..born)
  BY <1>1, FS_Interval
<1>3. \A T \in SUBSET (1..born) : IsFiniteSet(T)
  BY <1>2, FS_Subset
<1> QED  BY <1>1, <1>3, FS_CardinalityType

LEMMA CreateCapped ==
  ASSUME Types, NEW m \in Models, CreateSession(m)
  PROVE  Capped'
<1> DEFINE left == sessions \ Evicted
           upper(s) == {r \in sessions : r >= s}
<1>1. /\ sessions' = left \cup {born'} /\ sessions \subseteq Nat
      /\ MAX_SESSIONS \in Nat \ {0}
  BY SessionsNat, GatewayAssumption DEF GatewayAssumption, CreateSession, Types
<1>3. \A T \in SUBSET sessions : IsFiniteSet(T) /\ Cardinality(T) \in Nat
  BY FiniteStore
<1>4. IsFiniteSet(left) /\ Cardinality(left) < MAX_SESSIONS
  <2>1. CASE left = {}
    BY <1>1, <2>1, FS_EmptySet
  <2>2. CASE left # {}
    <3>1. PICK k \in left : \A r \in left : k <= r
      BY <1>1, <2>2, Least
    <3>2. Cardinality(upper(k)) < MAX_SESSIONS
      <4>1. ~ (Cardinality(upper(k)) >= MAX_SESSIONS)
        BY <3>1 DEF Evicted
      <4>2. Cardinality(upper(k)) \in Nat
        BY <1>3
      <4> QED  BY <1>1, <4>1, <4>2
    <3>3. left \subseteq upper(k)
      BY <1>1, <3>1
    <3>4. Cardinality(left) <= Cardinality(upper(k))
      BY <1>3, <3>3, FS_Subset
    <3>5. /\ IsFiniteSet(left) /\ Cardinality(left) \in Nat
          /\ Cardinality(upper(k)) \in Nat
      BY <1>3
    <3> HIDE DEF left, upper
    <3> QED  BY <1>1, <3>2, <3>4, <3>5
  <2> QED  BY <2>1, <2>2
<1>5. /\ Cardinality(left \cup {born'}) \in {Cardinality(left), Cardinality(left) + 1}
      /\ Cardinality(left) \in Nat
  <2>1. Cardinality(left) \in Nat
    BY <1>3
  <2> HIDE DEF left
  <2>2. Cardinality(left \cup {born'})
          = IF born' \in left THEN Cardinality(left) ELSE Cardinality(left) + 1
    BY <1>4, FS_AddElement
  <2> QED  BY <2>1, <2>2
<1> HIDE DEF left
<1>6. Cardinality(left \cup {born'}) <= MAX_SESSIONS
  BY <1>1, <1>4, <1>5
<1> QED  BY <1>1, <1>6 DEF Capped

LEMMA StepCapped ==
  ASSUME Types, Capped, [Next]_vars
  PROVE  Capped'
<1>1. CASE sessions' = sessions
  BY <1>1 DEF Capped
<1>2. ASSUME NEW s \in Sessions, DeleteSession(s) PROVE Capped'
  <2>1. sessions' \in SUBSET sessions /\ sessions \in SUBSET sessions /\ MAX_SESSIONS \in Nat
    BY <1>2, GatewayAssumption DEF DeleteSession, GatewayAssumption
  <2>2. IsFiniteSet(sessions) /\ Cardinality(sessions') \in Nat /\ Cardinality(sessions) \in Nat
    BY <2>1, FiniteStore
  <2>3. Cardinality(sessions') <= Cardinality(sessions)
    BY <2>1, <2>2, FS_Subset
  <2> QED  BY <2>1, <2>2, <2>3 DEF Capped
<1>3. ASSUME NEW t \in Turns, TurnStep(t) PROVE sessions' = sessions
  BY <1>3, TurnSteps, Recording DEF Walks, Drops, Begins, store
<1>4. /\ \A s \in Sessions : CancelSession(s) => sessions' = sessions
      /\ \A t \in Turns, s \in Sessions, b \in BOOLEAN :
            PostMessage(t, s, b) => sessions' = sessions
      /\ \A t \in Turns, m \in Models, b \in BOOLEAN :
            ChatCompletion(t, m, b) => sessions' = sessions
      /\ Elsewhere => sessions' = sessions
      /\ UNCHANGED vars => sessions' = sessions
  BY DEF CancelSession, PostMessage, ChatCompletion, Elsewhere, Tick, Swap, store, vars
<1> QED  BY <1>1, <1>2, <1>3, <1>4, CreateCapped DEF Next, Elsewhere

-----------------------------------------------------------------------------
(***************************************************************************)
(* The theorems.                                                           *)
(***************************************************************************)
\* Every reachable state is well typed, and the store never exceeds its cap.
THEOREM TypeCorrect == Spec => []TypeOK
<1>1. Init => Capped
  BY FS_EmptySet, GatewayAssumption DEF Init, Capped, GatewayAssumption
<1>2. Invariant /\ Capped /\ [Next]_vars => Capped'
  BY StepCapped DEF Invariant
<1>3. Invariant /\ Capped => TypeOK
  <2> SUFFICES ASSUME Types, Capped PROVE TypeOK
    BY DEF Invariant
  <2>1. \A s \in Sessions : \A i \in 1..Len(events[s]) : events[s][i] \in Message
    BY ElementOfSeq DEF Types
  <2> QED  BY <2>1 DEF Types, Capped, TypeOK
<1> QED  BY <1>1, <1>2, <1>3, AlwaysInvariant, PTL DEF Spec

\* The text of every ended stream is in its session once, whole and after its
\* question, and no other answer is.
THEOREM Recorded == Spec => []AnswersRecorded
<1>1. Invariant => AnswersRecorded
  <2> SUFFICES ASSUME Talks, NEW t \in Turns, NEW s \in sessions
               PROVE  IF turn[t].session = s /\ turn[t].stage = "ended"
                        THEN \E i \in 1..Len(events[s]) :
                               /\ Answers(t, s) = {i}
                               /\ events[s][i] = Answer(t)
                               /\ \E q \in 1..(i - 1) : events[s][q] = Question(t)
                        ELSE Answers(t, s) = {}
    BY DEF Invariant, AnswersRecorded
  <2> QED  BY DEF Talks, Talk, Answered
<1> QED  BY <1>1, AlwaysInvariant, PTL

\* A turn that outlives its session brings nothing of it back that anybody
\* could use.
THEOREM Forgotten == Spec => []ForgottenIsGone
<1>1. Invariant => ForgottenIsGone
  <2> SUFFICES ASSUME Types, Signals, NEW s \in (1..born) \ sessions
               PROVE  /\ events[s] = <<>>
                      /\ signal[s] # None => /\ signal[s] \in Turns \ set
                                             /\ turn[signal[s]].session = s
    BY DEF Invariant, ForgottenIsGone
  <2>1. s \in Sessions /\ s \notin sessions
    BY SessionsNat DEF Types
  <2> QED  BY <2>1 DEF Signals, Owned
<1> QED  BY <1>1, AlwaysInvariant, PTL

\* A call is sent to a node that does not serve its model, or is refused by
\* one that does, only if the node reported no model at all or changed so
\* shortly before that its answer was under way or the reading kept had not
\* expired.
THEOREM Routed == Spec => MisroutedOnlyByChange
<1>1. ASSUME Types, NEW t \in Turns, NEW n \in Nodes, NEW r, NEW k, Recent(r, n, k),
             Decide(t, r)
      PROVE  Sound(t, n, r, k)
  <2>1. CASE serves[n].since <= k
    BY <2>1 DEF Sound
  <2>2. CASE r = serves[n].models
    <3>1. CASE Matches(r, turn[t].model) /\ Begin(t)
      <4>1. turn'[t].stage # "refused"
        BY <1>1, <3>1, BeginEffect
      <4> QED  BY <2>2, <3>1, <4>1 DEF Matches, Sound
    <3>2. CASE ~ Matches(r, turn[t].model) /\ Over(t, "refused")
      <4>1. turn'[t].stage = "refused"
        BY <1>1, <3>2, OverEffect DEF Stages
      <4> QED  BY <2>2, <3>2, <4>1 DEF Matches, Sound
    <3> QED  BY <1>1, <3>1, <3>2 DEF Decide
  <2> QED  BY <1>1, <2>1, <2>2 DEF Recent
<1>2. Invariant /\ [Next]_vars =>
        [\A t \in Turns :
           /\ AnswerArrives(t) => Sound(t, turn[t].node, turn[t].read, MaxFlight)
           /\ \A n \in Nodes : Planned(t, n) /\ cache[n] # None =>
                Sound(t, n, cache[n].models, TTL + MaxFlight)]_vars
  <2> SUFFICES ASSUME Types, Readings, NEW t \in Turns
               PROVE  /\ AnswerArrives(t) => Sound(t, turn[t].node, turn[t].read, MaxFlight)
                      /\ \A n \in Nodes : Planned(t, n) /\ cache[n] # None =>
                           Sound(t, n, cache[n].models, TTL + MaxFlight)
    BY DEF Invariant
  <2>1. AnswerArrives(t) => Sound(t, turn[t].node, turn[t].read, MaxFlight)
    <3> HAVE AnswerArrives(t)
    <3>1. /\ turn[t].node \in Nodes /\ Decide(t, turn[t].read)
          /\ Recent(turn[t].read, turn[t].node, flight[t])
      BY DEF AnswerArrives, At, Types, Readings
    <3>2. Recent(turn[t].read, turn[t].node, MaxFlight)
      BY <3>1, ReadingTyped DEF Recent
    <3> QED  BY <1>1, <3>1, <3>2
  <2>2. ASSUME NEW n \in Nodes, Planned(t, n), cache[n] # None
        PROVE  Sound(t, n, cache[n].models, TTL + MaxFlight)
    <3>1. Decide(t, cache[n].models) /\ Recent(cache[n].models, n, cache[n].age + MaxFlight)
      BY <2>2 DEF Planned, Readings
    <3>2. Recent(cache[n].models, n, TTL + MaxFlight)
      BY <2>2, <3>1, ReadingTyped DEF Recent
    <3> QED  BY <1>1, <3>1, <3>2
  <2> QED  BY <2>1, <2>2
<1> QED  BY <1>2, AlwaysInvariant, PTL DEF Spec, MisroutedOnlyByChange

\* A stream that was told to stop sends no further chunk.
THEOREM Stopped == Spec => CancelStops
<1>1. Invariant /\ [Next]_vars =>
        [\A t \in Turns : turn[t].stop = "late" => turn'[t].sent = turn[t].sent]_vars
  <2> SUFFICES ASSUME Types, Calls, Holders, Next, NEW t \in Turns, turn[t].stop = "late"
               PROVE  turn'[t].sent = turn[t].sent
    BY DEF Invariant
  <2>1. ~ Chunk(t)
    BY DEF Holders, Chunk, Cancelled
  <2>2. ASSUME NEW r \in Turns, TurnStep(r) PROVE turn'[t].sent = turn[t].sent
    <3>1. CASE Walks(r)
      BY <2>1, <3>1 DEF Walks, Only
    <3>2. CASE Drops(r) \/ Records(r)
      BY <3>2, OverSteps DEF Only
    <3>3. CASE Begins(r)
      BY <3>3, BeginEffect DEF Begins
    <3> QED  BY <2>2, <3>1, <3>2, <3>3, TurnSteps
  <2>3. ASSUME NEW s \in Sessions, CancelSession(s) PROVE turn'[t].sent = turn[t].sent
    BY <2>3, CancelEffect
  <2>4. ASSUME NEW r \in Turns, NEW s \in Sessions, NEW b \in BOOLEAN, PostMessage(r, s, b)
        PROVE  turn'[t].sent = turn[t].sent
    BY <2>4, PostEffect DEF Only
  <2>5. ASSUME NEW r \in Turns, NEW m \in Models, NEW b \in BOOLEAN, ChatCompletion(r, m, b)
        PROVE  turn'[t].sent = turn[t].sent
    BY <2>5, ChatEffect DEF Only
  <2>6. /\ \A m \in Models : CreateSession(m) => turn' = turn
        /\ \A s \in Sessions : DeleteSession(s) => turn' = turn
        /\ Elsewhere => turn' = turn
    BY DEF CreateSession, DeleteSession, Elsewhere, Tick, Swap
  <2> QED  BY <2>2, <2>3, <2>4, <2>5, <2>6 DEF Next, Elsewhere
<1> QED  BY <1>1, AlwaysInvariant, PTL DEF Spec, CancelStops
=============================================================================
