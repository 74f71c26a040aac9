------------------------------- MODULE Relay -------------------------------
(***************************************************************************)
(* The relay of the control plane: tickets handed out by connect(), the    *)
(* table of queue pairs (rendezvous.py) and the websocket handlers that    *)
(* pump bytes between the two peers of a session (rendezvous_relay in      *)
(* app.py).                                                                *)
(*                                                                         *)
(* Every websocket is a connection of its own, whoever opened it: a peer   *)
(* that comes back is a new connection.  Connections are numbered as they  *)
(* arrive; a pair has the number of the connection that created it, 0 is   *)
(* no pair.  Message k of connection c is <<c, k>>.  A handler runs two    *)
(* tasks, pump_in and pump_out; each of their awaits is a place where the  *)
(* other tasks may run.                                                    *)
(***************************************************************************)
EXTENDS Naturals, Sequences, FiniteSets

CONSTANTS
  Sessions,  \* session ids
  None,      \* no session
  Cap,       \* maxsize of a queue
  MaxConns,  \* bound: websocket connections
  MaxSent    \* bound: messages that reach the relay

ASSUME RelayAssumption ==
  /\ None \notin Sessions
  /\ Cap \in Nat \ {0} /\ MaxConns \in Nat /\ MaxSent \in Nat

VARIABLES
  ticket,   \* _issued, by session: "unknown", "issued", "old" or "pruned"
  table,    \* _relays: the pair of each session, or 0
  claimed,  \* _claimed of each pair
  queue,    \* to_a and to_b of each pair, named for the reader
  state,    \* of each handler: "new", "open", "refused", "closed"
  session,  \* the session a handler serves
  pair,     \* the pair it holds on to
  side,     \* the side it claimed
  here,     \* the client is still connected
  sent,     \* how many messages the handler received
  hand,     \* pump_in: the message received and not yet put
  out,      \* pump_out: the message got and not yet sent
  got       \* what the handler sent to its client

tableVars   == <<ticket, table>>
handlerVars == <<state, session, pair, side>>
pumpVars    == <<sent, hand, out, got, queue>>
vars == <<tableVars, claimed, handlerVars, here, pumpVars>>

Conns   == 1 .. MaxConns
Sides   == {"a", "b"}
Other(x) == IF x = "a" THEN "b" ELSE "a"
Message == Conns \X (Nat \ {0})
Open    == {c \in Conns : state[c] = "open"}

TypeOK ==
  /\ ticket \in [Sessions -> {"unknown", "issued", "old", "pruned"}]
  /\ table \in [Sessions -> 0 .. MaxConns]
  /\ claimed \in [Conns -> SUBSET Sides]
  /\ \A p \in Conns, x \in Sides :
       queue[p][x] \in Seq(Message) /\ Len(queue[p][x]) <= Cap
  /\ state \in [Conns -> {"new", "open", "refused", "closed"}]
  /\ session \in [Conns -> Sessions \cup {None}]
  /\ pair \in [Conns -> 0 .. MaxConns]
  /\ side \in [Conns -> Sides]
  /\ here \in [Conns -> BOOLEAN]
  /\ sent \in [Conns -> Nat]
  /\ \A c \in Conns : /\ hand[c] \in Seq(Message) /\ Len(hand[c]) <= 1
                      /\ out[c] \in Seq(Message) /\ Len(out[c]) <= 1
                      /\ got[c] \in Seq(Message)

Init ==
  /\ ticket = [s \in Sessions |-> "unknown"]
  /\ table = [s \in Sessions |-> 0]
  /\ claimed = [p \in Conns |-> {}]
  /\ queue = [p \in Conns |-> [x \in Sides |-> <<>>]]
  /\ state = [c \in Conns |-> "new"]
  /\ session = [c \in Conns |-> None]
  /\ pair = [c \in Conns |-> 0]
  /\ side = [c \in Conns |-> "a"]
  /\ here = [c \in Conns |-> TRUE]
  /\ sent = [c \in Conns |-> 0]
  /\ hand = [c \in Conns |-> <<>>]
  /\ out = [c \in Conns |-> <<>>]
  /\ got = [c \in Conns |-> <<>>]

(***************************************************************************)
(* Tickets.                                                                *)
(***************************************************************************)
\* connect() issues a session and forgets the ones an hour past their expiry.
Connect(s) ==
  /\ ticket[s] = "unknown"
  /\ ticket' = [t \in Sessions |-> CASE t = s            -> "issued"
                                     [] ticket[t] = "old" -> "pruned"
                                     [] OTHER             -> ticket[t]]
  /\ UNCHANGED <<table, claimed, handlerVars, here, pumpVars>>

\* An hour passes after the expiry of the ticket.
GrowOld(s) ==
  /\ ticket[s] = "issued"
  /\ ticket' = [ticket EXCEPT ![s] = "old"]
  /\ UNCHANGED <<table, claimed, handlerVars, here, pumpVars>>

\* session_known: the expiry written into the ticket is not looked at.
Known(s) == ticket[s] \in {"issued", "old"}

(***************************************************************************)
(* The websocket endpoint.                                                 *)
(***************************************************************************)
\* Fault: every connection gets a pair of its own.
FreshPair(c, s) == c

\* relay_session: get or create.
RelayPair(c, s) == IF table[s] = 0 THEN c ELSE table[s]

\* Fault: a side may be claimed again.
ClaimAny(p) == Sides

\* claim_side: "a" before "b"; no third.
FreeSides(p) ==
  IF "a" \notin claimed[p] THEN {"a"} ELSE {"b"} \ claimed[p]

\* The next connection.
Arrives(c) == state[c] = "new" /\ \A d \in 1 .. c - 1 : state[d] # "new"

\* A connection of a known session takes a side of the session's pair.
Accept(c, s) ==
  /\ Arrives(c) /\ Known(s)
  /\ LET p == RelayPair(c, s)
     IN  /\ table' = [table EXCEPT ![s] = p]
         /\ \E x \in FreeSides(p) :
              /\ claimed' = [claimed EXCEPT ![p] = @ \cup {x}]
              /\ side' = [side EXCEPT ![c] = x]
         /\ pair' = [pair EXCEPT ![c] = p]
  /\ session' = [session EXCEPT ![c] = s]
  /\ state' = [state EXCEPT ![c] = "open"]
  /\ UNCHANGED <<ticket, here, pumpVars>>

\* Both sides are taken (the pair exists then), or the session is not known.
Refuse(c, s) ==
  /\ Arrives(c)
  /\ ~Known(s) \/ FreeSides(RelayPair(c, s)) = {}
  /\ state' = [state EXCEPT ![c] = "refused"]
  /\ UNCHANGED <<tableVars, claimed, session, pair, side, here, pumpVars>>

\* The messages handlers received so far.
Carried == UNION {{c} \X (1 .. sent[c]) : c \in Conns}

\* pump_in: receive_bytes returns.
Receive(c) ==
  /\ c \in Open /\ here[c] /\ hand[c] = <<>>
  /\ Cardinality(Carried) < MaxSent
  /\ sent' = [sent EXCEPT ![c] = @ + 1]
  /\ hand' = [hand EXCEPT ![c] = <<<<c, sent[c] + 1>>>>]
  /\ UNCHANGED <<tableVars, claimed, handlerVars, here, out, got, queue>>

\* pump_in: outbox.put, which waits while the queue is full.
Put(c) ==
  /\ c \in Open /\ hand[c] # <<>>
  /\ Len(queue[pair[c]][Other(side[c])]) < Cap
  /\ queue' = [queue EXCEPT ![pair[c]][Other(side[c])] = @ \o hand[c]]
  /\ hand' = [hand EXCEPT ![c] = <<>>]
  /\ UNCHANGED <<tableVars, claimed, handlerVars, here, sent, out, got>>

\* Fault: get is started again before the last message was sent.
GetEager(c) ==
  /\ c \in Open
  /\ queue[pair[c]][side[c]] # <<>>
  /\ out' = [out EXCEPT ![c] = <<Head(queue[pair[c]][side[c]])>>]
  /\ queue' = [queue EXCEPT ![pair[c]][side[c]] = Tail(@)]
  /\ UNCHANGED <<tableVars, claimed, handlerVars, here, sent, hand, got>>

\* Fault: one task pumps both ways and takes nothing while it waits in put.
GetInTurn(c) ==
  /\ c \in Open /\ out[c] = <<>> /\ hand[c] = <<>>
  /\ queue[pair[c]][side[c]] # <<>>
  /\ out' = [out EXCEPT ![c] = <<Head(queue[pair[c]][side[c]])>>]
  /\ queue' = [queue EXCEPT ![pair[c]][side[c]] = Tail(@)]
  /\ UNCHANGED <<tableVars, claimed, handlerVars, here, sent, hand, got>>

\* pump_out: inbox.get returns.
Get(c) ==
  /\ c \in Open /\ out[c] = <<>>
  /\ queue[pair[c]][side[c]] # <<>>
  /\ out' = [out EXCEPT ![c] = <<Head(queue[pair[c]][side[c]])>>]
  /\ queue' = [queue EXCEPT ![pair[c]][side[c]] = Tail(@)]
  /\ UNCHANGED <<tableVars, claimed, handlerVars, here, sent, hand, got>>

\* pump_out: send_bytes returns, once the client takes the message.
Send(c) ==
  /\ c \in Open /\ here[c] /\ out[c] # <<>>
  /\ got' = [got EXCEPT ![c] = @ \o out[c]]
  /\ out' = [out EXCEPT ![c] = <<>>]
  /\ UNCHANGED <<tableVars, claimed, handlerVars, here, sent, hand, queue>>

\* The client goes away.
Leave(c) ==
  /\ c \in Open /\ here[c]
  /\ here' = [here EXCEPT ![c] = FALSE]
  /\ UNCHANGED <<tableVars, claimed, handlerVars, pumpVars>>

\* A task ended: both are cancelled with what they hold, and the pair the
\* table has for the session by now is dropped, whether the handler's or not.
End(c) ==
  /\ state' = [state EXCEPT ![c] = "closed"]
  /\ table' = [table EXCEPT ![session[c]] = 0]
  /\ hand' = [hand EXCEPT ![c] = <<>>]
  /\ out' = [out EXCEPT ![c] = <<>>]
  /\ UNCHANGED <<ticket, claimed, session, pair, side, here, sent, got, queue>>

\* receive_bytes or send_bytes raises.  A pump_in that waits in put does not
\* hear of the disconnect.
Disconnected(c) ==
  /\ c \in Open /\ ~here[c]
  /\ hand[c] = <<>> \/ out[c] # <<>>
  /\ End(c)

\* Nothing came for RELAY_IDLE_TIMEOUT_S from the other side.
TimesOut(c) ==
  /\ c \in Open /\ out[c] = <<>> /\ queue[pair[c]][side[c]] = <<>>
  /\ End(c)

Pump(c) == Put(c) \/ Get(c) \/ Send(c)

Next ==
  \/ \E s \in Sessions : Connect(s) \/ GrowOld(s)
  \/ \E c \in Conns, s \in Sessions : Accept(c, s) \/ Refuse(c, s)
  \/ \E c \in Conns :
       Receive(c) \/ Pump(c) \/ Leave(c) \/ Disconnected(c) \/ TimesOut(c)

\* The event loop runs every task that can run; a client that stays takes what
\* it is sent; the timeout of a silent inbox fires.
Fairness ==
  \A c \in Conns :
    /\ WF_vars(Put(c)) /\ WF_vars(Get(c)) /\ WF_vars(Send(c))
    /\ WF_vars(Disconnected(c)) /\ WF_vars(TimesOut(c))

Spec == Init /\ [][Next]_vars /\ Fairness

-----------------------------------------------------------------------------
(***************************************************************************)
(* Properties.                                                             *)
(***************************************************************************)

Peer(c, d) == pair[c] # 0 /\ pair[c] = pair[d] /\ side[d] = Other(side[c])

Whole(d, n) == [k \in 1 .. n |-> <<d, k>>]

\* A client is sent what its partner sent and nothing else, in order, each
\* message once: no other session, no third connection, no earlier holder of
\* the side shows through, even after the pair left the table.
DeliveredInOrder ==
  \A c \in Conns : got[c] # <<>> =>
    \E d \in Conns : Peer(c, d) /\ got[c] = Whole(d, Len(got[c]))

\* While both handlers of a pair run, no message is lost between them: what
\* the receiver has, what waits on the way and what is in the sender's hand
\* are all the sender ever sent.
NothingLost ==
  \A c, d \in Open : Peer(c, d) =>
    got[c] \o out[c] \o queue[pair[c]][side[c]] \o hand[d] = Whole(d, sent[d])

\* Two running handlers of one session are partners, unless some handler of
\* the session ended: drop_relay removes the pair under whoever still uses it,
\* and whoever connects next waits for a partner in a new one.
ApartOnlyAfterEnd ==
  \A c, d \in Open : c # d /\ session[c] = session[d] =>
    \/ Peer(c, d)
    \/ \E e \in Conns : state[e] = "closed" /\ session[e] = session[c]

Delivered(c) == \E d \in Conns : Peer(c, d) /\ got[d] = Whole(c, sent[c])

Ended(c) == \E d \in Conns : state[d] = "closed" /\ (d = c \/ Peer(c, d))

\* What a client sent reaches the partner, unless one of the two handlers ends:
\* full queues in both directions do not block each other, and a handler
\* nobody joins does not wait for ever.
DeliveredOrEnded ==
  \A c \in Conns : (sent[c] > 0) ~> (Delivered(c) \/ Ended(c))
=============================================================================
