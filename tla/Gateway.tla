------------------------------ MODULE Gateway ------------------------------
(***************************************************************************)
(* The gateway: chat sessions kept in memory (app.py) and the resolution   *)
(* of a request to a backend with its 60 s cache of what a node serves     *)
(* (router.py).                                                            *)
(*                                                                         *)
(* One event loop runs everything: a step below is the code between two    *)
(* awaits.  Every call that asks for an answer is a turn: a message of a   *)
(* session or a call of /v1/chat/completions (session 0), streamed or      *)
(* aggregated.  Sessions are numbered as they are created, which is the    *)
(* order of created_at.  An asyncio.Event has the name of the turn or of   *)
(* the session whose handler created it.  Text is counted in chunks.       *)
(***************************************************************************)
EXTENDS Naturals, Sequences, FiniteSets

CONSTANTS
  Turns,        \* calls that ask for an answer
  Nodes,        \* node ids of deploy/nodes.local.yaml
  Direct,       \* node of MESH_GW_DIRECT_BACKEND_URL, or None
  Models,       \* model ids that calls and sessions name
  Reading,      \* lists of models a node may report, each as a set of ids
  None,         \* no turn, node, model or event
  MAX_SESSIONS, \* the cap of the store
  TTL,          \* _MODELS_TTL_S, in ticks
  MaxFlight,    \* how long an answer may be under way, in ticks
  MaxBorn,      \* bound: sessions created
  MaxChunks,    \* bound: chunks of an answer
  MaxSwaps      \* bound: channel changes of a node

ASSUME GatewayAssumption ==
  /\ MAX_SESSIONS \in Nat \ {0}
  /\ {TTL, MaxFlight, MaxBorn, MaxChunks, MaxSwaps} \subseteq Nat
  /\ None \notin Turns \cup Nodes \cup Models \cup 1..MaxBorn
  /\ Turns \cap (1..MaxBorn) = {}
  /\ Direct \in Nodes \cup {None}

VARIABLES
  sessions, \* _sessions: the sessions not yet forgotten
  born,     \* how many sessions were created
  speaks,   \* model_id of each session
  events,   \* _events: the messages of each session
  signal,   \* _cancel_events
  set,      \* the asyncio.Events that are set
  turn,     \* where each call is
  serves,   \* the models each node reports, how often that changed, and the
            \* ticks since it last did
  cache,    \* _models_cache, by node; a reading is dropped when it expires
  flight    \* ticks since a call's node answered, 0 when no answer is under way

store == <<sessions, born, speaks, events>>
vars == <<sessions, born, speaks, events, signal, set, turn, serves, cache, flight>>

Sessions == 1..MaxBorn
Events == Turns \cup Sessions
Question(t) == [of |-> t, role |-> "user", chunks |-> 0]
Answer(t) == [of |-> t, role |-> "assistant", chunks |-> turn[t].sent]
Stored == [models : Reading, age : 0..TTL]
(* Every reading that is still used was taken since a change so long ago.  *)
Long == TTL + MaxFlight + 1
Serving == [models : Reading, changes : 0..MaxSwaps, since : 0..Long]

(* stop remembers, for the properties, that the user cancelled the session *)
(* while the turn was streaming: "late", until a later message of the      *)
(* session clears that.                                                    *)
Idle == [stage |-> "idle", session |-> 0, streamed |-> FALSE, model |-> None, node |-> None,
         read |-> None, sent |-> 0, holds |-> None, stop |-> "no"]

Init ==
  /\ sessions = {} /\ born = 0
  /\ speaks = [s \in Sessions |-> None]
  /\ events = [s \in Sessions |-> <<>>]
  /\ signal = [s \in Sessions |-> None]
  /\ set = {}
  /\ turn = [t \in Turns |-> Idle]
  /\ serves \in [Nodes -> [models : Reading, changes : {0}, since : {Long}]]
  /\ cache = [n \in Nodes |-> None]
  /\ flight = [t \in Turns |-> 0]

At(t, stage) == turn[t].stage = stage
Goes(t, stage) == turn' = [turn EXCEPT ![t].stage = stage]
(* What is left of a call that has returned. *)
Over(t, stage) ==
  turn' = [turn EXCEPT ![t] = [Idle EXCEPT !.stage = stage, !.session = turn[t].session,
                                           !.sent = turn[t].sent]]

(***************************************************************************)
(* The store.                                                              *)
(***************************************************************************)

(* _forget_session; the session itself is gone, but for handlers that hold *)
(* it, which took its model over.                                          *)
Forget(gone) ==
  /\ events' = [s \in Sessions |-> IF s \in gone THEN <<>> ELSE events[s]]
  /\ signal' = [s \in Sessions |-> IF s \in gone THEN None ELSE signal[s]]

(* What create_session evicts, oldest first, before it adds a session. *)
Evicted == {s \in sessions : Cardinality({r \in sessions : r >= s}) >= MAX_SESSIONS}

CreateSession(m) ==
  /\ born < MaxBorn
  /\ born' = born + 1
  /\ sessions' = (sessions \ Evicted) \cup {born'}
  /\ speaks' = [speaks EXCEPT ![born'] = m]
  /\ Forget(Evicted)
  /\ UNCHANGED <<set, turn, serves, cache, flight>>

DeleteSession(s) ==
  /\ s \in sessions
  /\ sessions' = sessions \ {s}
  /\ Forget({s})
  /\ UNCHANGED <<born, speaks, set, turn, serves, cache, flight>>

(* A message: the question is recorded before anything can fail.  The      *)
(* session object the handler keeps outlives the store's entry.            *)
PostMessage(t, s, streamed) ==
  /\ At(t, "idle") /\ s \in sessions
  /\ events' = [events EXCEPT ![s] = Append(@, Question(t))]
  /\ turn' = [turn EXCEPT ![t].stage = "planning", ![t].session = s,
                          ![t].streamed = streamed, ![t].model = speaks[s]]
  /\ UNCHANGED <<sessions, born, speaks, signal, set, serves, cache, flight>>

ChatCompletion(t, m, streamed) ==
  /\ At(t, "idle")
  /\ turn' = [turn EXCEPT ![t].stage = "planning", ![t].streamed = streamed, ![t].model = m]
  /\ UNCHANGED <<store, signal, set, serves, cache, flight>>

(* setdefault finds the session's event or installs a new one. *)
Default(s, e) == IF signal[s] = None THEN e ELSE signal[s]

Noted(stop, stage, streamed) ==
  IF stage \in {"ready", "running"} /\ streamed THEN "late" ELSE stop

CancelSession(s) ==
  /\ s \in sessions
  /\ signal' = [signal EXCEPT ![s] = Default(s, s)]
  /\ set' = set \cup {signal'[s]}
  /\ turn' = [t \in Turns |->
       IF turn[t].session = s
         THEN [turn[t] EXCEPT !.stop = Noted(@, turn[t].stage, turn[t].streamed)]
         ELSE turn[t]]
  /\ UNCHANGED <<store, serves, cache, flight>>

(***************************************************************************)
(* resolve_backend and what the handler does as soon as it returns.        *)
(***************************************************************************)

(* Whoever started before has its cancellation taken back by clear(). *)
Cleared(t, s) ==
  [r \in Turns |-> IF r # t /\ turn[r].session = s /\ turn[r].stop = "late"
                     THEN [turn[r] EXCEPT !.stop = "no"] ELSE turn[r]]

SharedEvent(t, s) == Default(s, t)
\* Fault: every turn installs an event of its own.
OwnEvent(t, s) == t

EventOf(t, s) == SharedEvent(t, s)

(* The backend is resolved: a session's turn arms its event. *)
Begin(t) ==
  LET s == turn[t].session
      e == EventOf(t, s)
      begun == [turn[t] EXCEPT !.stage = IF turn[t].streamed THEN "ready" ELSE "running",
                               !.node = None, !.read = None, !.model = None]
  IN  IF s = 0
        THEN /\ turn' = [turn EXCEPT ![t] = begun]
             /\ UNCHANGED <<signal, set>>
        ELSE /\ signal' = [signal EXCEPT ![s] = e]
             /\ set' = set \ {e}
             /\ turn' = [Cleared(t, s) EXCEPT ![t] = [begun EXCEPT !.holds = e]]

\* Fault: what the node serves is not compared.
MatchAnything(reading, m) == TRUE

(* A node that reports no model at all is given the benefit of the doubt. *)
Matches(reading, m) == reading = {} \/ m \in reading

(* _assert_serves, once there is a reading. *)
Decide(t, reading) ==
  \/ /\ Matches(reading, turn[t].model)
     /\ Begin(t)
  \/ /\ ~ Matches(reading, turn[t].model)
     /\ Over(t, "refused")
     /\ UNCHANGED <<signal, set>>

(* _direct_fallback: the configured node, or the only one. *)
Fallback == IF Direct # None THEN {Direct} ELSE {n \in Nodes : Nodes = {n}}

(* The plan names node n, or the control plane cannot be reached and n is  *)
(* the fallback.  A reading younger than the time to live decides at once. *)
Planned(t, n) ==
  /\ At(t, "planning")
  /\ IF cache[n] # None
       THEN Decide(t, cache[n].models)
       ELSE /\ turn' = [turn EXCEPT ![t].stage = "asking", ![t].node = n]
            /\ UNCHANGED <<signal, set>>
  /\ UNCHANGED <<store, serves, cache, flight>>

PlannedBy(t, reachable) == \E n \in IF reachable THEN Nodes ELSE Fallback : Planned(t, n)

(* Unknown model, infeasible or not executable plan, node without endpoint,*)
(* no fallback: the question stays in the session without an answer.       *)
PlanRefused(t) ==
  /\ At(t, "planning")
  /\ Over(t, "refused")
  /\ UNCHANGED <<store, signal, set, serves, cache, flight>>

(* The node answers GET /v1/models; the answer is on its way. *)
NodeAnswers(t) ==
  /\ At(t, "asking") /\ turn[t].read = None
  /\ turn' = [turn EXCEPT ![t].read = serves[turn[t].node].models]
  /\ UNCHANGED <<store, signal, set, serves, cache, flight>>

(* It is stored, also over a newer one that another call stored meanwhile. *)
AnswerArrives(t) ==
  LET n == turn[t].node IN
  /\ At(t, "asking") /\ turn[t].read # None
  /\ cache' = [cache EXCEPT ![n] = [models |-> turn[t].read, age |-> 0]]
  /\ Decide(t, turn[t].read)
  /\ flight' = [flight EXCEPT ![t] = 0]
  /\ UNCHANGED <<store, serves>>

(* "backend won't say: let the actual chat call report the failure". *)
NodeWontSay(t) ==
  /\ At(t, "asking")
  /\ Begin(t)
  /\ flight' = [flight EXCEPT ![t] = 0]
  /\ UNCHANGED <<store, serves, cache>>

(* An answer that is no list of models raises what nothing catches: 500.   *)
AskRaises(t) ==
  /\ At(t, "asking")
  /\ Over(t, "refused")
  /\ flight' = [flight EXCEPT ![t] = 0]
  /\ UNCHANGED <<store, signal, set, serves, cache>>

(* A reading older than the time to live is as good as none.               *)
Aged(kept) ==
  IF kept = None THEN None
  ELSE IF kept.age = TTL THEN None
  ELSE [kept EXCEPT !.age = @ + 1]

(* Time passes, unless an answer has been under way as long as it may.     *)
Tick ==
  /\ \A t \in Turns : turn[t].read # None => flight[t] < MaxFlight
  /\ flight' = [t \in Turns |-> IF turn[t].read = None THEN flight[t] ELSE flight[t] + 1]
  /\ cache' = [n \in Nodes |-> Aged(cache[n])]
  /\ serves' = [n \in Nodes |->
                  [serves[n] EXCEPT !.since = IF @ < Long THEN @ + 1 ELSE Long]]
  /\ UNCHANGED <<store, signal, set, turn>>

(* The node changes over to another channel, its backend loads or unloads  *)
(* a model, or it starts or stops to report any.                           *)
Swap(n, models) ==
  /\ serves[n].changes < MaxSwaps /\ models # serves[n].models
  /\ serves' = [serves EXCEPT ![n] = [models |-> models, changes |-> @.changes + 1, since |-> 0]]
  /\ UNCHANGED <<store, signal, set, turn, cache, flight>>

(***************************************************************************)
(* The answer.                                                             *)
(***************************************************************************)

(* The response object was returned; the client is gone before its first   *)
(* read, so the generator never runs and neither does its finally: the     *)
(* question stays without an answer, as after a refusal.                   *)
NeverRead(t) ==
  /\ At(t, "ready")
  /\ Over(t, "refused")
  /\ UNCHANGED <<store, signal, set, serves, cache, flight>>

FirstRead(t) ==
  /\ At(t, "ready")
  /\ Goes(t, "running")
  /\ UNCHANGED <<store, signal, set, serves, cache, flight>>

Cancelled(t) == turn[t].streamed /\ turn[t].holds \in set

Chunk(t) ==
  /\ At(t, "running") /\ ~ Cancelled(t)
  /\ turn[t].sent < MaxChunks
  /\ turn' = [turn EXCEPT ![t].sent = @ + 1]
  /\ UNCHANGED <<store, signal, set, serves, cache, flight>>

\* Fault: _append_event makes a new list when the session has none.
RecordAnyway(t) ==
  LET s == turn[t].session IN
  /\ events' = IF s = 0 THEN events ELSE [events EXCEPT ![s] = Append(@, Answer(t))]
  /\ Over(t, "ended")
  /\ UNCHANGED <<sessions, born, speaks, signal, set, serves, cache, flight>>

(* _append_event in the finally of the stream and after the aggregation;   *)
(* it raises KeyError when the session is forgotten.                       *)
Record(t) ==
  LET s == turn[t].session IN
  /\ events' = IF s \in sessions
                 THEN [events EXCEPT ![s] = Append(@, Answer(t))] ELSE events
  /\ Over(t, IF s = 0 \/ s \in sessions THEN "ended" ELSE "lost")
  /\ UNCHANGED <<sessions, born, speaks, signal, set, serves, cache, flight>>

(* The stream ends: the backend is done, a chunk arrives after the event   *)
(* was set, the backend fails (the client is told) or the client leaves.   *)
StreamEnds(t, why) ==
  /\ At(t, "running") /\ turn[t].streamed
  /\ why = "cancelled" => Cancelled(t)
  /\ Record(t)

\* Fault: the answer is appended after the loop and not in a finally.
EndsWithoutFinally(t, why) ==
  IF why = "left"
    THEN /\ At(t, "running") /\ turn[t].streamed
         /\ Over(t, "ended")
         /\ UNCHANGED <<store, signal, set, serves, cache, flight>>
    ELSE StreamEnds(t, why)

Ends(t, why) == StreamEnds(t, why)

Aggregated(t) ==
  /\ At(t, "running") /\ ~ turn[t].streamed
  /\ Record(t)

(* An httpx error during the aggregation: 502 and no event. *)
AggregateFails(t) ==
  /\ At(t, "running") /\ ~ turn[t].streamed
  /\ Over(t, "refused")
  /\ UNCHANGED <<store, signal, set, serves, cache, flight>>

Reasons == {"done", "cancelled", "failed", "left"}

TurnStep(t) ==
  \/ \E reachable \in BOOLEAN : PlannedBy(t, reachable)
  \/ PlanRefused(t)
  \/ NodeAnswers(t) \/ AnswerArrives(t) \/ NodeWontSay(t) \/ AskRaises(t)
  \/ NeverRead(t) \/ FirstRead(t) \/ Chunk(t)
  \/ \E why \in Reasons : Ends(t, why)
  \/ Aggregated(t) \/ AggregateFails(t)

Next ==
  \/ \E m \in Models : CreateSession(m)
  \/ \E s \in Sessions : DeleteSession(s) \/ CancelSession(s)
  \/ \E t \in Turns, streamed \in BOOLEAN :
       \/ \E s \in Sessions : PostMessage(t, s, streamed)
       \/ \E m \in Models : ChatCompletion(t, m, streamed)
  \/ \E t \in Turns : TurnStep(t)
  \/ \E n \in Nodes, models \in Reading : Swap(n, models)
  \/ Tick

Spec == Init /\ [][Next]_vars

-----------------------------------------------------------------------------

Stages == {"idle", "planning", "asking", "ready", "running",
           "refused", "ended", "lost"}
Message == [of : Turns, role : {"user", "assistant"}, chunks : 0..MaxChunks]
Turn == [stage : Stages, session : 0..MaxBorn, streamed : BOOLEAN, model : Models \cup {None},
         node : Nodes \cup {None}, read : Reading \cup {None},
         sent : 0..MaxChunks, holds : Events \cup {None},
         stop : {"no", "late"}]

(* Every variable has its type, and the store keeps to MAX_SESSIONS. *)
TypeOK ==
  /\ born \in 0..MaxBorn
  /\ sessions \subseteq 1..born /\ Cardinality(sessions) <= MAX_SESSIONS
  /\ speaks \in [Sessions -> Models \cup {None}]
  /\ \A s \in Sessions : \A i \in 1..Len(events[s]) : events[s][i] \in Message
  /\ signal \in [Sessions -> Events \cup {None}]
  /\ set \subseteq Events
  /\ turn \in [Turns -> Turn]
  /\ serves \in [Nodes -> Serving]
  /\ cache \in [Nodes -> Stored \cup {None}]
  /\ flight \in [Turns -> 0..MaxFlight]

Answers(t, s) == {i \in 1..Len(events[s]) : events[s][i].of = t /\ events[s][i].role = "assistant"}

(* However a stream ends (done, cancelled, failed, client gone), its text  *)
(* is in the session exactly once, after its question and with as much as  *)
(* was sent, as long as the session exists; a turn that was refused or     *)
(* never read leaves no answer.                                            *)
AnswersRecorded ==
  \A t \in Turns : \A s \in sessions :
    LET own == Answers(t, s) IN
    IF turn[t].session = s /\ turn[t].stage = "ended"
      THEN \E i \in 1..Len(events[s]) : /\ own = {i}
                                       /\ events[s][i] = Answer(t)
                                       /\ \E q \in 1..(i - 1) : events[s][q] = Question(t)
      ELSE own = {}

(* Turns that were waiting when their session was deleted or evicted bring *)
(* nothing of it back, except that each may leave one asyncio.Event in     *)
(* _cancel_events, which nobody can set any more.                          *)
ForgottenIsGone ==
  \A s \in (1..born) \ sessions :
    /\ events[s] = <<>>
    /\ signal[s] # None =>
         /\ signal[s] \in Turns \ set
         /\ turn[signal[s]].session = s

(* What a step decides for call t on this reading of node n fits what n    *)
(* serves, unless n changed in the last `ticks' or reported no model.      *)
Sound(t, n, reading, ticks) ==
  \/ serves[n].since <= ticks
  \/ IF turn'[t].stage = "refused"
       THEN turn[t].model \notin serves[n].models
       ELSE turn[t].model \in serves[n].models \/ reading = {}

(* A request goes to a node that does not serve its model, or is refused   *)
(* by one that does, only if the node would not say what it serves, said   *)
(* that it serves nothing, or changed so shortly before that the answer    *)
(* was under way or, for a reading kept, not yet expired.                  *)
MisroutedOnlyByChange ==
  [][\A t \in Turns :
       /\ AnswerArrives(t) => Sound(t, turn[t].node, turn[t].read, MaxFlight)
       /\ \A n \in Nodes : Planned(t, n) /\ cache[n] # None =>
            Sound(t, n, cache[n].models, TTL + MaxFlight)]_vars

(* Once the user has cancelled a session, no stream of it that was being   *)
(* sent sends another chunk, unless a later message of the session began.  *)
CancelStops ==
  [][\A t \in Turns : turn[t].stop = "late" => turn'[t].sent = turn[t].sent]_vars
=============================================================================
