---------------------------- MODULE RelayProofs ----------------------------
(***************************************************************************)
(* Proofs about Relay, for any sessions, any size of the queues and any    *)
(* number of connections and messages: its types and bounds, the order and *)
(* completeness of what it delivers, and who may miss whom.                *)
(***************************************************************************)
EXTENDS Relay, SequenceTheorems, TLAPS

-----------------------------------------------------------------------------
(***************************************************************************)
(* Sequences of the messages of one connection.                            *)
(***************************************************************************)
\* s is what d sent first.
Starts(s, d) == s = Whole(d, Len(s))

LEMMA WholeIsSeq ==
  ASSUME NEW d \in Conns, NEW n \in Nat
  PROVE  /\ Whole(d, n) \in Seq(Message) /\ Len(Whole(d, n)) = n
         /\ \A k \in 1 .. n : Whole(d, n)[k] = <<d, k>>
         /\ Starts(Whole(d, n), d)
BY DEF Whole, Message, Starts

LEMMA NothingStarts ==
  ASSUME NEW d \in Conns
  PROVE  Starts(<<>>, d) /\ Whole(d, 0) = <<>>
<1>1. Whole(d, 0) = <<>>
  BY WholeIsSeq, EmptySeq, SeqEqual
<1> QED  BY <1>1 DEF Starts

\* A part of what d sent first is what d sent first.
LEMMA PartStarts ==
  ASSUME NEW d \in Conns, NEW s \in Seq(Message), NEW t \in Seq(Message), Starts(s \o t, d)
  PROVE  Starts(s, d)
<1>1. Len(s) \in Nat /\ Len(t) \in Nat
  BY LenProperties
<1>2. /\ s \o t \in Seq(Message) /\ Len(s \o t) = Len(s) + Len(t)
      /\ \A i \in 1 .. Len(s) : (s \o t)[i] = s[i]
  BY <1>1, ConcatProperties
<1>3. \A i \in 1 .. Len(s) : s[i] = <<d, i>>
  <2> DEFINE l == s \o t
  <2>1. l = Whole(d, Len(l)) /\ Len(l) \in Nat /\ Len(l) >= Len(s)
    BY <1>1, <1>2 DEF Starts
  <2>2. \A i \in 1 .. Len(s) : l[i] = s[i]
    BY <1>2
  <2> HIDE DEF l
  <2>3. \A i \in 1 .. Len(l) : Whole(d, Len(l))[i] = <<d, i>>
    BY <2>1, WholeIsSeq
  <2> QED  BY <1>1, <2>1, <2>2, <2>3
<1>4. /\ Whole(d, Len(s)) \in Seq(Message) /\ Len(Whole(d, Len(s))) = Len(s)
      /\ \A i \in 1 .. Len(s) : Whole(d, Len(s))[i] = <<d, i>>
  BY <1>1, WholeIsSeq
<1> QED  BY <1>3, <1>4, SeqEqual DEF Starts

\* The next message of d goes to the end.
LEMMA NextOfWhole ==
  ASSUME NEW d \in Conns, NEW n \in Nat
  PROVE  Whole(d, n) \o <<<<d, n + 1>>>> = Whole(d, n + 1)
<1> DEFINE m == <<<<d, n + 1>>>>
           l == Whole(d, n) \o m
           w == Whole(d, n + 1)
<1>1. m \in Seq(Message) /\ Len(m) = 1 /\ m[1] = <<d, n + 1>>
  BY DEF Message
<1>2. Whole(d, n) \in Seq(Message) /\ Len(Whole(d, n)) = n
      /\ \A k \in 1 .. n : Whole(d, n)[k] = <<d, k>>
  BY WholeIsSeq
<1>3. /\ l \in Seq(Message) /\ Len(l) = n + 1
      /\ \A i \in 1 .. n + 1 : l[i] = <<d, i>>
  <2> DEFINE u == Whole(d, n)
  <2> HIDE DEF m, u
  <2>0. u \in Seq(Message) /\ Len(u) = n
    BY <1>2 DEF u
  <2>1. l \in Seq(Message) /\ Len(l) = n + 1
        /\ \A i \in 1 .. n + 1 : l[i] = IF i <= n THEN Whole(d, n)[i] ELSE m[i - n]
    <3>1. u \o m \in Seq(Message) /\ Len(u \o m) = Len(u) + Len(m)
          /\ \A i \in 1 .. Len(u) + Len(m) :
               (u \o m)[i] = IF i <= Len(u) THEN u[i] ELSE m[i - Len(u)]
      BY <1>1, <2>0, ConcatProperties
    <3>2. u \o m \in Seq(Message) /\ Len(u \o m) = n + 1
          /\ \A i \in 1 .. n + 1 : (u \o m)[i] = IF i <= n THEN u[i] ELSE m[i - n]
      BY <1>1, <2>0, <3>1
    <3> QED  BY <3>2 DEF u
  <2>2. \A i \in 1 .. n + 1 : i <= n \/ i - n = 1
    OBVIOUS
  <2> HIDE DEF l
  <2> QED  BY <1>1, <1>2, <2>1, <2>2
<1>4. /\ w \in Seq(Message) /\ Len(w) = n + 1
      /\ \A i \in 1 .. n + 1 : w[i] = <<d, i>>
  BY WholeIsSeq
<1> HIDE DEF l, w
<1>5. l = w
  BY <1>3, <1>4, SeqEqual
<1> QED  BY <1>5 DEF l, w

\* A message moves from the head of one sequence to the end of the one before.
LEMMA HeadMoves ==
  ASSUME NEW g \in Seq(Message), NEW q \in Seq(Message), q # <<>>
  PROVE  /\ <<Head(q)>> \in Seq(Message) /\ Tail(q) \in Seq(Message)
         /\ (g \o <<>>) \o q = (g \o <<Head(q)>>) \o Tail(q)
<1>1. /\ <<Head(q)>> \in Seq(Message) /\ Tail(q) \in Seq(Message)
      /\ <<Head(q)>> \o Tail(q) = q
  OBVIOUS
<1>2. g \o <<>> = g
  BY ConcatEmptySeq
<1> QED  BY <1>1, <1>2, ConcatAssociative

\* Grouping does not matter.
LEMMA Regroup ==
  \A s, t, u \in Seq(Message) : (s \o t) \o u = s \o (t \o u)
BY ConcatAssociative

-----------------------------------------------------------------------------
(***************************************************************************)
(* Who serves which side.  A side of a pair is claimed once and for all,   *)
(* so each side has at most one connection, ever, and two connections of   *)
(* one pair are partners.                                                  *)
(***************************************************************************)
Types ==
  /\ table \in [Sessions -> 0 .. MaxConns]
  /\ claimed \in [Conns -> SUBSET Sides]
  /\ state \in [Conns -> {"new", "open", "refused", "closed"}]
  /\ session \in [Conns -> Sessions \cup {None}]
  /\ pair \in [Conns -> 0 .. MaxConns]
  /\ side \in [Conns -> Sides]
  /\ sent \in [Conns -> Nat]
  /\ hand \in [Conns -> Seq(Message)]
  /\ out \in [Conns -> Seq(Message)]
  /\ got \in [Conns -> Seq(Message)]
  /\ queue \in [Conns -> [Sides -> Seq(Message)]]

Sided ==
  /\ \A c \in Conns :
       /\ pair[c] = 0 <=> state[c] \in {"new", "refused"}
       /\ pair[c] = 0 => sent[c] = 0 /\ hand[c] = <<>> /\ out[c] = <<>> /\ got[c] = <<>>
       /\ pair[c] # 0 => side[c] \in claimed[pair[c]]
       /\ state[c] = "open" => session[c] \in Sessions
  /\ \A c, d \in Conns : c # d /\ pair[c] # 0 /\ pair[c] = pair[d] => side[c] # side[d]
  /\ \A p \in Conns : \A x \in claimed[p] : \E c \in Conns : pair[c] = p /\ side[c] = x

\* c takes side x of pair p for session s.
Takes(c, s, p, x) ==
  /\ state[c] = "new" /\ pair[c] = 0
  /\ x \notin claimed[p]
  /\ table[s] # 0 => p = table[s]
  /\ table' = [table EXCEPT ![s] = p]
  /\ pair' = [pair EXCEPT ![c] = p]
  /\ side' = [side EXCEPT ![c] = x]
  /\ claimed' = [claimed EXCEPT ![p] = @ \cup {x}]
  /\ state' = [state EXCEPT ![c] = "open"]
  /\ session' = [session EXCEPT ![c] = s]
  /\ UNCHANGED <<sent, hand, out, got, queue>>

LEMMA AcceptTakes ==
  ASSUME Types, Sided, NEW c \in Conns, NEW s \in Sessions, Accept(c, s)
  PROVE  \E p \in Conns, x \in Sides : Takes(c, s, p, x)
<1>1. state[c] = "new" /\ pair[c] = 0
  BY DEF Accept, Arrives, Sided
<1>2. RelayPair(c, s) \in Conns /\ (table[s] # 0 => RelayPair(c, s) = table[s])
  BY RelayAssumption DEF RelayAssumption, RelayPair, Types, Conns
<1>3. \A p \in Conns : FreeSides(p) \subseteq Sides \ claimed[p]
  BY DEF FreeSides, Sides, Types
<1>4. PICK x \in FreeSides(RelayPair(c, s)) :
        /\ claimed' = [claimed EXCEPT ![RelayPair(c, s)] = @ \cup {x}]
        /\ side' = [side EXCEPT ![c] = x]
  BY DEF Accept
<1>5. Takes(c, s, RelayPair(c, s), x)
  BY <1>1, <1>2, <1>3, <1>4 DEF Accept, pumpVars, Takes
<1> QED  BY <1>2, <1>3, <1>4, <1>5

\* Steps that move no message and seat no handler.
Quiet == UNCHANGED <<claimed, pair, side, session, sent, hand, out, got, queue, state, table>>

LEMMA QuietSteps ==
  /\ \A s \in Sessions : Connect(s) \/ GrowOld(s) => Quiet
  /\ \A c \in Conns : Leave(c) => Quiet
  /\ UNCHANGED vars => Quiet
BY DEF Connect, GrowOld, Leave, Quiet, vars, tableVars, handlerVars, pumpVars

LEMMA StepTypes ==
  ASSUME Types, Sided, [Next]_vars PROVE Types'
<1> USE DEF Types
<1>1. CASE Quiet BY <1>1 DEF Quiet
<1>2. ASSUME NEW c \in Conns, NEW s \in Sessions, Accept(c, s) PROVE Types'
  <2>1. PICK p \in Conns, x \in Sides : Takes(c, s, p, x)
    BY <1>2, AcceptTakes
  <2>2. p \in 0 .. MaxConns
    BY RelayAssumption DEF RelayAssumption, Conns
  <2> QED  BY <2>1, <2>2 DEF Takes
<1>3. ASSUME NEW c \in Conns, NEW s \in Sessions, Refuse(c, s) PROVE Types'
  BY <1>3 DEF Refuse, tableVars, pumpVars
<1>4. ASSUME NEW c \in Conns, Receive(c) PROVE Types'
  BY <1>4 DEF Receive, tableVars, handlerVars, Message
<1>5. ASSUME NEW c \in Conns, c \in Open PROVE pair[c] \in Conns /\ Other(side[c]) \in Sides
  BY <1>5 DEF Open, Sided, Conns, Other, Sides
<1>6. ASSUME NEW c \in Conns, Put(c) PROVE Types'
  BY <1>6, <1>5 DEF Put, tableVars, handlerVars
<1>7. ASSUME NEW c \in Conns, Get(c) PROVE Types'
  <2>1. /\ pair[c] \in Conns /\ queue[pair[c]][side[c]] \in Seq(Message)
        /\ queue[pair[c]][side[c]] # <<>>
    BY <1>7, <1>5 DEF Get
  <2>2. /\ <<Head(queue[pair[c]][side[c]])>> \in Seq(Message)
        /\ Tail(queue[pair[c]][side[c]]) \in Seq(Message)
    BY <2>1
  <2> QED  BY <1>7, <2>1, <2>2 DEF Get, tableVars, handlerVars
<1>8. ASSUME NEW c \in Conns, Send(c) PROVE Types'
  BY <1>8 DEF Send, tableVars, handlerVars
<1>9. ASSUME NEW c \in Conns, Disconnected(c) \/ TimesOut(c) PROVE Types'
  <2>1. End(c) /\ 0 \in 0 .. MaxConns /\ <<>> \in Seq(Message)
    BY <1>9, RelayAssumption DEF RelayAssumption, Disconnected, TimesOut
  <2> QED  BY <2>1 DEF End
<1> QED  BY <1>1, <1>2, <1>3, <1>4, <1>6, <1>7, <1>8, <1>9, QuietSteps DEF Next, Pump

LEMMA StepSided ==
  ASSUME Types, Sided, [Next]_vars PROVE Sided'
<1>1. CASE Quiet BY <1>1 DEF Quiet, Sided
<1>2. ASSUME NEW c \in Conns, NEW s \in Sessions, Accept(c, s) PROVE Sided'
  <2>1. PICK p \in Conns, x \in Sides : Takes(c, s, p, x)
    BY <1>2, AcceptTakes
  <2>2. /\ pair[c] = 0 /\ state[c] = "new" /\ p # 0 /\ x \notin claimed[p]
        /\ pair'[c] = p /\ side'[c] = x
        /\ UNCHANGED <<sent, hand, out, got>>
        /\ \A d \in Conns \ {c} : /\ pair'[d] = pair[d] /\ side'[d] = side[d]
                                   /\ state'[d] = state[d] /\ session'[d] = session[d]
        /\ state'[c] = "open" /\ session'[c] = s
        /\ claimed'[p] = claimed[p] \cup {x}
        /\ \A r \in Conns \ {p} : claimed'[r] = claimed[r]
    BY <2>1 DEF Takes, Types, Conns
  <2>3. \A d \in Conns : pair[d] \in Conns \/ pair[d] = 0
    BY RelayAssumption DEF RelayAssumption, Types, Conns
  <2>4. \A d \in Conns :
           /\ pair'[d] = 0 <=> state'[d] \in {"new", "refused"}
           /\ pair'[d] = 0 => sent'[d] = 0 /\ hand'[d] = <<>> /\ out'[d] = <<>> /\ got'[d] = <<>>
           /\ pair'[d] # 0 => side'[d] \in claimed'[pair'[d]]
           /\ state'[d] = "open" => session'[d] \in Sessions
    BY <2>2, <2>3 DEF Sided
  <2>5. \A d, e \in Conns : d # e /\ pair'[d] # 0 /\ pair'[d] = pair'[e] => side'[d] # side'[e]
    BY <2>2 DEF Sided
  <2>6. \A r \in Conns : \A y \in claimed'[r] : \E d \in Conns : pair'[d] = r /\ side'[d] = y
    <3> SUFFICES ASSUME NEW r \in Conns, NEW y \in claimed'[r]
                 PROVE  \E d \in Conns : pair'[d] = r /\ side'[d] = y
      OBVIOUS
    <3>1. CASE r = p /\ y = x
      BY <2>2, <3>1
    <3>2. CASE ~(r = p /\ y = x)
      <4>1. y \in claimed[r]
        BY <2>2, <3>2
      <4>2. PICK d \in Conns : pair[d] = r /\ side[d] = y
        BY <4>1 DEF Sided
      <4>3. d # c
        BY <2>2, <4>2, RelayAssumption DEF RelayAssumption, Conns
      <4> QED  BY <2>2, <4>2, <4>3
    <3> QED  BY <3>1, <3>2
  <2> QED  BY <2>4, <2>5, <2>6 DEF Sided
<1>3. ASSUME NEW c \in Conns, NEW s \in Sessions, Refuse(c, s) PROVE Sided'
  BY <1>3 DEF Refuse, Arrives, tableVars, pumpVars, Types, Sided
<1>4. ASSUME NEW c \in Conns, Receive(c) \/ Pump(c) PROVE Sided'
  <2>1. UNCHANGED <<claimed, pair, side, state, session>>
    BY <1>4 DEF Receive, Pump, Put, Get, Send, tableVars, handlerVars
  <2>2. /\ pair[c] # 0
        /\ \A d \in Conns \ {c} : /\ sent'[d] = sent[d] /\ hand'[d] = hand[d]
                                   /\ out'[d] = out[d] /\ got'[d] = got[d]
    BY <1>4 DEF Receive, Pump, Put, Get, Send, Open, Sided, Types
  <2> QED  BY <2>1, <2>2 DEF Sided
<1>5. ASSUME NEW c \in Conns, Disconnected(c) \/ TimesOut(c) PROVE Sided'
  <2>1. End(c) /\ state[c] = "open" /\ pair[c] # 0
    BY <1>5 DEF Disconnected, TimesOut, Open, Sided
  <2> QED  BY <2>1 DEF End, Types, Sided
<1> QED  BY <1>1, <1>2, <1>3, <1>4, <1>5, QuietSteps DEF Next

LEMMA InitSided == Init => Types /\ Sided
<1> SUFFICES ASSUME Init PROVE Types /\ Sided
  OBVIOUS
<1>1. 0 \in 0 .. MaxConns /\ <<>> \in Seq(Message) /\ "a" \in Sides
  BY RelayAssumption DEF RelayAssumption, Sides
<1>2. Types
  BY <1>1 DEF Init, Types
<1>3. Sided
  BY DEF Init, Sided
<1> QED  BY <1>2, <1>3

\* A connection has at most one partner, and is its partner's partner.
LEMMA OnePeer ==
  ASSUME Types, Sided, NEW c \in Conns, NEW d \in Conns, Peer(c, d)
  PROVE  /\ Peer(d, c) /\ c # d
         /\ \A e \in Conns : Peer(c, e) => e = d
         /\ pair[c] \in Conns /\ Other(side[d]) = side[c] /\ Other(side[c]) = side[d]
<1>1. side[c] \in Sides /\ side[d] \in Sides /\ pair[c] \in Conns
  <2>0. pair[c] # 0
    BY DEF Peer
  <2>1. pair[c] \in Conns
    BY <2>0 DEF Types, Conns
  <2>2. side[c] \in Sides /\ side[d] \in Sides
    BY DEF Types
  <2> QED  BY <2>1, <2>2
<1>2. Other(side[d]) = side[c] /\ Other(side[c]) = side[d] /\ side[c] # side[d]
  BY <1>1 DEF Peer, Other, Sides
<1> QED  BY <1>1, <1>2 DEF Peer, Sided

-----------------------------------------------------------------------------
(***************************************************************************)
(* What is under way between partners.                                     *)
(*                                                                         *)
(* Order and completeness need each other: what a client was sent is the   *)
(* start of what the partner sent because all that is under way behind it  *)
(* is the rest.  A handler that ends breaks completeness and not order,    *)
(* and a handler alone in its pair leaves in the queue what a partner that *)
(* comes later will find there.                                            *)
(***************************************************************************)
Inbox(c)  == queue[pair[c]][side[c]]
Outbox(c) == queue[pair[c]][Other(side[c])]
Behind(c) == (got[c] \o out[c]) \o Inbox(c)

Joined(c, d) ==
  /\ Starts(got[c], d)
  /\ state[c] = "open" => Starts(Behind(c), d)
  /\ state[c] = "open" /\ state[d] = "open" => Behind(c) \o hand[d] = Whole(d, sent[d])

Alone(c) == pair[c] # 0 /\ \A d \in Conns : ~Peer(c, d)

Waiting(c) ==
  /\ got[c] = <<>> /\ out[c] = <<>> /\ Inbox(c) = <<>>
  /\ Starts(Outbox(c), c)
  /\ state[c] = "open" => Outbox(c) \o hand[c] = Whole(c, sent[c])

Flow ==
  /\ \A c, d \in Conns : Peer(c, d) => Joined(c, d)
  /\ \A c \in Conns : Alone(c) => Waiting(c)
  /\ \A p \in Conns : claimed[p] = {} => \A x \in Sides : queue[p][x] = <<>>

\* The sequences these are made of.
LEMMA Sequences ==
  ASSUME Types, NEW c \in Conns, pair[c] # 0
  PROVE  /\ pair[c] \in Conns /\ side[c] \in Sides /\ Other(side[c]) \in Sides
         /\ Other(side[c]) # side[c]
         /\ got[c] \in Seq(Message) /\ out[c] \in Seq(Message) /\ hand[c] \in Seq(Message)
         /\ got[c] \o out[c] \in Seq(Message)
         /\ Inbox(c) \in Seq(Message) /\ Outbox(c) \in Seq(Message) /\ Behind(c) \in Seq(Message)
<1>1. /\ pair[c] \in Conns /\ side[c] \in Sides /\ Other(side[c]) \in Sides
      /\ Other(side[c]) # side[c]
      /\ got[c] \in Seq(Message) /\ out[c] \in Seq(Message) /\ hand[c] \in Seq(Message)
  BY DEF Types, Conns, Other, Sides
<1>2. Inbox(c) \in Seq(Message) /\ Outbox(c) \in Seq(Message)
  BY <1>1 DEF Types, Inbox, Outbox
<1>3. got[c] \o out[c] \in Seq(Message)
  BY <1>1, ConcatProperties
<1>4. Behind(c) \in Seq(Message)
  BY <1>2, <1>3, ConcatProperties DEF Behind
<1> QED  BY <1>1, <1>2, <1>3, <1>4

\* Two boxes are one queue exactly for partners.
LEMMA Boxes ==
  ASSUME Types, Sided, NEW c \in Conns, NEW d \in Conns, pair[c] # 0, pair[c] = pair[d]
  PROVE  /\ side[c] = side[d] <=> c = d
         /\ Other(side[c]) = Other(side[d]) <=> c = d
         /\ side[c] = Other(side[d]) <=> Peer(c, d)
<1>1. side[c] \in Sides /\ side[d] \in Sides
  BY DEF Types
<1>2. c # d => side[c] # side[d]
  BY DEF Sided
<1> QED  BY <1>1, <1>2 DEF Other, Sides, Peer

\* A step that seats nobody keeps who is whose partner.
LEMMA SamePeers ==
  ASSUME UNCHANGED <<pair, side>>
  PROVE  /\ \A c, d : Peer(c, d)' <=> Peer(c, d)
         /\ \A c : Alone(c)' <=> Alone(c)
BY DEF Peer, Alone

\* The message in hand goes into the queue.
LEMMA PutFlow ==
  ASSUME Types, Sided, Flow, NEW d \in Conns, Put(d)
  PROVE  Flow'
<1>1. /\ state[d] = "open" /\ pair[d] # 0
      /\ UNCHANGED <<claimed, pair, side, state, sent, out, got>>
      /\ hand'[d] = <<>> /\ \A e \in Conns \ {d} : hand'[e] = hand[e]
  BY DEF Put, Open, Sided, Types, handlerVars
<1>2. /\ pair[d] \in Conns /\ side[d] \in Sides /\ Other(side[d]) \in Sides
      /\ hand[d] \in Seq(Message)
  BY <1>1, Sequences
<1>3. /\ queue'[pair[d]][Other(side[d])] = Outbox(d) \o hand[d]
      /\ \A p \in Conns, x \in Sides :
           p # pair[d] \/ x # Other(side[d]) => queue'[p][x] = queue[p][x]
  BY <1>2 DEF Put, Types, Outbox
<1>4. \A c, e \in Conns : Peer(c, e)' <=> Peer(c, e)
  BY <1>1, SamePeers
<1>5. \A c \in Conns : Alone(c)' <=> Alone(c)
  BY <1>1, SamePeers
<1>6. ASSUME NEW c \in Conns, pair[c] # 0
      PROVE  /\ Peer(c, d) => Inbox(c)' = Inbox(c) \o hand[d]
             /\ ~Peer(c, d) => Inbox(c)' = Inbox(c)
             /\ c # d => Outbox(c)' = Outbox(c)
  <2>1. pair[c] \in Conns /\ side[c] \in Sides /\ Other(side[c]) \in Sides
    BY <1>6, Sequences
  <2>2. CASE pair[c] # pair[d]
    BY <1>1, <1>3, <2>1, <2>2 DEF Peer, Inbox, Outbox
  <2>3. CASE pair[c] = pair[d]
    <3>1. /\ Other(side[c]) = Other(side[d]) <=> c = d
          /\ side[c] = Other(side[d]) <=> Peer(c, d)
      BY <1>6, <2>3, Boxes
    <3>2. ~Peer(c, d) => Inbox(c)' = Inbox(c)
      BY <1>1, <1>3, <2>1, <2>3, <3>1 DEF Inbox
    <3>3. Peer(c, d) => Inbox(c)' = Inbox(c) \o hand[d]
      BY <1>1, <1>3, <2>1, <2>3, <3>1 DEF Inbox, Outbox
    <3>4. c # d => Outbox(c)' = Outbox(c)
      BY <1>1, <1>3, <2>1, <2>3, <3>1 DEF Outbox
    <3> QED  BY <3>2, <3>3, <3>4
  <2> QED  BY <2>2, <2>3
<1>7. ASSUME NEW c \in Conns, NEW e \in Conns, Peer(c, e)
      PROVE  Joined(c, e)'
  <2>1. pair[c] # 0 /\ Joined(c, e)
    BY <1>7 DEF Flow, Peer
  <2>2. CASE e = d
    <3>1. Behind(c)' = Behind(c) \o hand[d]
      <4>1. Inbox(c)' = Inbox(c) \o hand[d] /\ (got[c] \o out[c])' = got[c] \o out[c]
        BY <1>1, <1>6, <1>7, <2>1, <2>2
      <4>2. got[c] \o out[c] \in Seq(Message) /\ Inbox(c) \in Seq(Message)
        BY <2>1, Sequences
      <4>3. ((got[c] \o out[c]) \o Inbox(c)) \o hand[d]
              = (got[c] \o out[c]) \o (Inbox(c) \o hand[d])
        BY <1>2, <4>2, Regroup, Zenon
      <4> QED  BY <4>1, <4>3 DEF Behind
    <3>2. state[c] = "open" => Behind(c)' = Whole(d, sent[d])
      BY <1>1, <2>1, <2>2, <3>1 DEF Joined
    <3>3. /\ Whole(d, sent[d]) \in Seq(Message) /\ Starts(Whole(d, sent[d]), d)
          /\ Whole(d, sent[d]) \o <<>> = Whole(d, sent[d])
      BY WholeIsSeq, ConcatEmptySeq DEF Types
    <3> QED  BY <1>1, <2>1, <2>2, <3>2, <3>3 DEF Joined, Starts
  <2>3. CASE e # d
    <3>1. ~Peer(c, d)
      BY <1>7, <2>3, OnePeer
    <3>2. Behind(c)' = Behind(c)
      BY <1>1, <1>6, <2>1, <3>1 DEF Behind
    <3> QED  BY <1>1, <2>1, <2>3, <3>2 DEF Joined, Starts
  <2> QED  BY <2>2, <2>3
<1>8. ASSUME NEW c \in Conns, Alone(c)
      PROVE  Waiting(c)'
  <2>1. pair[c] # 0 /\ Waiting(c) /\ ~Peer(c, d)
    BY <1>8 DEF Flow, Alone
  <2>2. Inbox(c)' = Inbox(c)
    BY <1>6, <2>1
  <2>3. CASE c = d
    <3>1. Outbox(d)' = Whole(d, sent[d])
      BY <1>1, <1>3, <2>1, <2>3 DEF Waiting, Outbox
    <3>2. /\ Starts(Whole(d, sent[d]), d)
          /\ Whole(d, sent[d]) \o <<>> = Whole(d, sent[d])
      BY WholeIsSeq, ConcatEmptySeq DEF Types
    <3> QED  BY <1>1, <2>1, <2>2, <2>3, <3>1, <3>2 DEF Waiting, Starts
  <2>4. CASE c # d
    BY <1>1, <1>6, <2>1, <2>2, <2>4 DEF Waiting, Starts
  <2> QED  BY <2>3, <2>4
<1>9. ASSUME NEW p \in Conns, claimed'[p] = {} PROVE \A x \in Sides : queue'[p][x] = <<>>
  <2>1. p # pair[d] /\ claimed[p] = {}
    BY <1>1, <1>9 DEF Sided
  <2> QED  BY <1>3, <2>1 DEF Flow
<1> QED  BY <1>4, <1>5, <1>7, <1>8, <1>9 DEF Flow

\* A message is received: the sender's hand is the end of what it ever sent.
LEMMA ReceiveFlow ==
  ASSUME Types, Sided, Flow, NEW d \in Conns, Receive(d)
  PROVE  Flow'
<1>1. /\ state[d] = "open" /\ pair[d] # 0 /\ hand[d] = <<>>
      /\ UNCHANGED <<claimed, pair, side, state, out, got, queue>>
      /\ hand'[d] = <<<<d, sent[d] + 1>>>> /\ sent'[d] = sent[d] + 1
      /\ \A e \in Conns \ {d} : hand'[e] = hand[e] /\ sent'[e] = sent[e]
  <2>1. state[d] = "open" /\ pair[d] # 0
    BY DEF Receive, Open, Sided
  <2>2. /\ hand[d] = <<>>
        /\ UNCHANGED <<claimed, pair, side, state, out, got, queue>>
    BY DEF Receive, handlerVars
  <2>3. /\ hand'[d] = <<<<d, sent[d] + 1>>>>
        /\ \A e \in Conns \ {d} : hand'[e] = hand[e]
    BY DEF Receive, Types
  <2>4. /\ sent'[d] = sent[d] + 1
        /\ \A e \in Conns \ {d} : sent'[e] = sent[e]
    BY DEF Receive, Types
  <2> QED  BY <2>1, <2>2, <2>3, <2>4
<1>2. sent[d] \in Nat /\ Whole(d, sent[d]) \o hand'[d] = Whole(d, sent'[d])
  BY <1>1, NextOfWhole DEF Types
<1>3. \A c, e \in Conns : Peer(c, e)' <=> Peer(c, e)
  BY <1>1, SamePeers
<1>4. \A c \in Conns : Alone(c)' <=> Alone(c)
  BY <1>1, SamePeers
<1>5. \A c \in Conns : Inbox(c)' = Inbox(c) /\ Outbox(c)' = Outbox(c) /\ Behind(c)' = Behind(c)
  BY <1>1 DEF Inbox, Outbox, Behind
<1>6. ASSUME NEW c \in Conns, NEW e \in Conns, Peer(c, e)
      PROVE  Joined(c, e)'
  <2>1. pair[c] # 0 /\ Joined(c, e)
    BY <1>6 DEF Flow, Peer
  <2>2. CASE e = d
    <3>1. Behind(c) \o <<>> = Behind(c)
      BY <2>1, Sequences, ConcatEmptySeq
    <3>2. state[c] = "open" => Behind(c) = Whole(d, sent[d])
      BY <1>1, <2>1, <2>2, <3>1 DEF Joined
    <3> QED  BY <1>1, <1>2, <1>5, <2>1, <2>2, <3>2 DEF Joined, Starts
  <2>3. CASE e # d
    BY <1>1, <1>5, <2>1, <2>3 DEF Joined, Starts
  <2> QED  BY <2>2, <2>3
<1>7. ASSUME NEW c \in Conns, Alone(c)
      PROVE  Waiting(c)'
  <2>1. pair[c] # 0 /\ Waiting(c)
    BY <1>7 DEF Flow, Alone
  <2>2. CASE c = d
    <3>1. Outbox(d) \o <<>> = Outbox(d)
      BY <1>1, Sequences, ConcatEmptySeq
    <3>2. Outbox(d) = Whole(d, sent[d])
      BY <1>1, <2>1, <2>2, <3>1 DEF Waiting
    <3> QED  BY <1>1, <1>2, <1>5, <2>1, <2>2, <3>2 DEF Waiting, Starts
  <2>3. CASE c # d
    BY <1>1, <1>5, <2>1, <2>3 DEF Waiting, Starts
  <2> QED  BY <2>2, <2>3
<1>8. \A p \in Conns : claimed'[p] = {} => \A x \in Sides : queue'[p][x] = <<>>
  BY <1>1 DEF Flow
<1> QED  BY <1>3, <1>4, <1>6, <1>7, <1>8 DEF Flow

\* The head of the inbox goes out.  A handler alone in its pair has none.
LEMMA GetFlow ==
  ASSUME Types, Sided, Flow, NEW d \in Conns, Get(d)
  PROVE  Flow'
<1>1. /\ state[d] = "open" /\ pair[d] # 0 /\ out[d] = <<>> /\ Inbox(d) # <<>>
      /\ UNCHANGED <<claimed, pair, side, state, sent, hand, got>>
      /\ out'[d] = <<Head(Inbox(d))>> /\ \A e \in Conns \ {d} : out'[e] = out[e]
  <2>1. state[d] = "open" /\ pair[d] # 0
    BY DEF Get, Open, Sided
  <2>2. /\ out[d] = <<>> /\ Inbox(d) # <<>>
        /\ UNCHANGED <<claimed, pair, side, state, sent, hand, got>>
    BY DEF Get, handlerVars, Inbox
  <2>3. /\ out'[d] = <<Head(Inbox(d))>>
        /\ \A e \in Conns \ {d} : out'[e] = out[e]
    BY DEF Get, Types, Inbox
  <2> QED  BY <2>1, <2>2, <2>3
<1>2. pair[d] \in Conns /\ side[d] \in Sides /\ got[d] \in Seq(Message) /\ Inbox(d) \in Seq(Message)
  BY <1>1, Sequences
<1>3. /\ queue'[pair[d]][side[d]] = Tail(Inbox(d))
      /\ \A p \in Conns, x \in Sides :
           p # pair[d] \/ x # side[d] => queue'[p][x] = queue[p][x]
  BY <1>2 DEF Get, Types, Inbox
<1>4. \A c, e \in Conns : Peer(c, e)' <=> Peer(c, e)
  BY <1>1, SamePeers
<1>5. \A c \in Conns : Alone(c)' <=> Alone(c)
  BY <1>1, SamePeers
<1>6. ASSUME NEW c \in Conns, pair[c] # 0
      PROVE  /\ c # d => Inbox(c)' = Inbox(c)
             /\ ~Peer(d, c) => Outbox(c)' = Outbox(c)
  <2>1. pair[c] \in Conns /\ side[c] \in Sides /\ Other(side[c]) \in Sides
    BY <1>6, Sequences
  <2>2. CASE pair[c] # pair[d]
    BY <1>1, <1>3, <2>1, <2>2 DEF Inbox, Outbox
  <2>3. CASE pair[c] = pair[d]
    <3>1. /\ side[d] = side[c] <=> c = d
          /\ side[d] = Other(side[c]) <=> Peer(d, c)
      BY <1>1, <1>6, <2>3, Boxes
    <3>2. c # d => Inbox(c)' = Inbox(c)
      BY <1>1, <1>3, <2>1, <2>3, <3>1 DEF Inbox
    <3>3. ~Peer(d, c) => Outbox(c)' = Outbox(c)
      BY <1>1, <1>3, <2>1, <2>3, <3>1 DEF Outbox
    <3> QED  BY <3>2, <3>3
  <2> QED  BY <2>2, <2>3
<1>7. Inbox(d)' = Tail(Inbox(d)) /\ Behind(d)' = Behind(d)
  <2>1. Inbox(d)' = Tail(Inbox(d))
    BY <1>1, <1>3 DEF Inbox
  <2>2. (got[d] \o <<>>) \o Inbox(d) = (got[d] \o <<Head(Inbox(d))>>) \o Tail(Inbox(d))
    BY <1>1, <1>2, HeadMoves
  <2> QED  BY <1>1, <2>1, <2>2 DEF Behind
<1>8. ASSUME NEW c \in Conns, NEW e \in Conns, Peer(c, e)
      PROVE  Joined(c, e)'
  <2>1. pair[c] # 0 /\ Joined(c, e)
    BY <1>8 DEF Flow, Peer
  <2>2. Behind(c)' = Behind(c)
    BY <1>1, <1>6, <1>7, <2>1 DEF Behind
  <2> QED  BY <1>1, <2>1, <2>2 DEF Joined, Starts
<1>9. ASSUME NEW c \in Conns, Alone(c)
      PROVE  Waiting(c)'
  <2>1. pair[c] # 0 /\ Waiting(c) /\ ~Peer(c, d)
    BY <1>9 DEF Flow, Alone
  <2>2. c # d /\ ~Peer(d, c)
    BY <1>1, <2>1, OnePeer DEF Waiting
  <2> QED  BY <1>1, <1>6, <2>1, <2>2 DEF Waiting, Starts
<1>10. ASSUME NEW p \in Conns, claimed'[p] = {} PROVE \A x \in Sides : queue'[p][x] = <<>>
  <2>1. p # pair[d] /\ claimed[p] = {}
    BY <1>1, <1>10 DEF Sided
  <2> QED  BY <1>3, <2>1 DEF Flow
<1> QED  BY <1>4, <1>5, <1>8, <1>9, <1>10 DEF Flow

\* What went out has arrived.
LEMMA SendFlow ==
  ASSUME Types, Sided, Flow, NEW d \in Conns, Send(d)
  PROVE  Flow'
<1>1. /\ state[d] = "open" /\ pair[d] # 0 /\ out[d] # <<>>
      /\ UNCHANGED <<claimed, pair, side, state, sent, hand, queue>>
      /\ out'[d] = <<>> /\ got'[d] = got[d] \o out[d]
      /\ \A e \in Conns \ {d} : out'[e] = out[e] /\ got'[e] = got[e]
  BY DEF Send, Open, Sided, Types, handlerVars
<1>2. \A c, e \in Conns : Peer(c, e)' <=> Peer(c, e)
  BY <1>1, SamePeers
<1>3. \A c \in Conns : Alone(c)' <=> Alone(c)
  BY <1>1, SamePeers
<1>4. \A c \in Conns : Inbox(c)' = Inbox(c) /\ Outbox(c)' = Outbox(c)
  BY <1>1 DEF Inbox, Outbox
<1>5. got[d] \o out[d] \in Seq(Message) /\ Inbox(d) \in Seq(Message)
  BY <1>1, Sequences
<1>6. \A c \in Conns : Behind(c)' = Behind(c)
  <2>1. (got[d] \o out[d]) \o <<>> = got[d] \o out[d]
    BY <1>5, ConcatEmptySeq
  <2> QED  BY <1>1, <1>4, <2>1 DEF Behind
<1>7. ASSUME NEW c \in Conns, NEW e \in Conns, Peer(c, e)
      PROVE  Joined(c, e)'
  <2>1. Joined(c, e)
    BY <1>7 DEF Flow
  <2>2. Starts(got'[c], e)
    <3>1. CASE c = d
      <4>1. Starts((got[d] \o out[d]) \o Inbox(d), e)
        BY <1>1, <2>1, <3>1 DEF Joined, Behind
      <4>2. Starts(got[d] \o out[d], e)
        BY <1>5, <4>1, PartStarts
      <4> QED  BY <1>1, <3>1, <4>2
    <3>2. CASE c # d
      BY <1>1, <2>1, <3>2 DEF Joined
    <3> QED  BY <3>1, <3>2
  <2> QED  BY <1>1, <1>6, <2>1, <2>2 DEF Joined, Starts
<1>8. ASSUME NEW c \in Conns, Alone(c)
      PROVE  Waiting(c)'
  <2>1. Waiting(c)
    BY <1>8 DEF Flow
  <2>2. c # d
    BY <1>1, <2>1 DEF Waiting
  <2> QED  BY <1>1, <1>4, <2>1, <2>2 DEF Waiting, Starts
<1>9. \A p \in Conns : claimed'[p] = {} => \A x \in Sides : queue'[p][x] = <<>>
  BY <1>1 DEF Flow
<1> QED  BY <1>2, <1>3, <1>7, <1>8, <1>9 DEF Flow

\* A handler that ends loses what it holds and leaves what arrived.
LEMMA EndFlow ==
  ASSUME Types, Sided, Flow, NEW d \in Conns, state[d] = "open", End(d)
  PROVE  Flow'
<1>1. /\ pair[d] # 0 /\ state'[d] = "closed"
      /\ UNCHANGED <<claimed, pair, side, sent, got, queue>>
      /\ out'[d] = <<>> /\ hand'[d] = <<>>
      /\ \A e \in Conns \ {d} : /\ state'[e] = state[e]
                                 /\ out'[e] = out[e] /\ hand'[e] = hand[e]
  <2>1. pair[d] # 0
    BY DEF Sided
  <2>2. UNCHANGED <<claimed, pair, side, sent, got, queue>>
    BY DEF End
  <2>3. state'[d] = "closed" /\ \A e \in Conns \ {d} : state'[e] = state[e]
    BY DEF End, Types
  <2>4. /\ out'[d] = <<>> /\ hand'[d] = <<>>
        /\ \A e \in Conns \ {d} : out'[e] = out[e] /\ hand'[e] = hand[e]
    BY DEF End, Types
  <2> QED  BY <2>1, <2>2, <2>3, <2>4
<1>2. \A c, e \in Conns : Peer(c, e)' <=> Peer(c, e)
  BY <1>1, SamePeers
<1>3. \A c \in Conns : Alone(c)' <=> Alone(c)
  BY <1>1, SamePeers
<1>4. \A c \in Conns : Inbox(c)' = Inbox(c) /\ Outbox(c)' = Outbox(c)
  BY <1>1 DEF Inbox, Outbox
<1>5. ASSUME NEW c \in Conns, NEW e \in Conns, Peer(c, e)
      PROVE  Joined(c, e)'
  <2>1. Joined(c, e) /\ c # e
    BY <1>5, OnePeer DEF Flow
  <2>2. CASE c = d
    BY <1>1, <2>1, <2>2 DEF Joined, Starts
  <2>3. CASE c # d
    <3>1. Behind(c)' = Behind(c)
      BY <1>1, <1>4, <2>3 DEF Behind
    <3>2. e = d => state'[e] # "open"
      BY <1>1
    <3> QED  BY <1>1, <2>1, <2>3, <3>1, <3>2 DEF Joined, Starts
  <2> QED  BY <2>2, <2>3
<1>6. ASSUME NEW c \in Conns, Alone(c)
      PROVE  Waiting(c)'
  <2>1. Waiting(c)
    BY <1>6 DEF Flow
  <2> QED  BY <1>1, <1>4, <2>1 DEF Waiting, Starts
<1>7. \A p \in Conns : claimed'[p] = {} => \A x \in Sides : queue'[p][x] = <<>>
  BY <1>1 DEF Flow
<1> QED  BY <1>2, <1>3, <1>5, <1>6, <1>7 DEF Flow

\* A connection that takes the second side finds in its inbox what the first
\* sent since.
LEMMA AcceptFlow ==
  ASSUME Types, Sided, Flow, NEW c \in Conns, NEW s \in Sessions, Accept(c, s)
  PROVE  Flow'
<1>1. PICK p \in Conns, x \in Sides : Takes(c, s, p, x)
  BY AcceptTakes
<1>2. /\ pair[c] = 0 /\ p # 0 /\ x \notin claimed[p]
      /\ UNCHANGED <<sent, hand, out, got, queue>>
      /\ pair'[c] = p /\ side'[c] = x
      /\ \A e \in Conns \ {c} : pair'[e] = pair[e] /\ side'[e] = side[e] /\ state'[e] = state[e]
  BY <1>1 DEF Takes, Types, Conns
<1>3. /\ \A r \in Conns : claimed[r] \subseteq claimed'[r]
      /\ claimed'[p] # {}
      /\ \A r \in Conns \ {p} : claimed'[r] = claimed[r]
  BY <1>1 DEF Takes, Types
<1>4. /\ sent'[c] = 0 /\ hand'[c] = <<>> /\ out'[c] = <<>> /\ got'[c] = <<>>
      /\ Starts(<<>>, c) /\ Whole(c, 0) = <<>>
  BY <1>2, NothingStarts DEF Sided
\* Everybody else in the pair is on the other side, and is one connection.
<1>5. ASSUME NEW e \in Conns, pair[e] = p
      PROVE  /\ e # c /\ side[e] = Other(x) /\ x = Other(side[e])
             /\ side[e] \in claimed[p]
             /\ \A f \in Conns : pair[f] = p => f = e
             /\ Alone(e)
  <2>1. e # c /\ side[e] \in claimed[p]
    BY <1>2, <1>5 DEF Sided
  <2>2. \A f \in Conns : pair[f] = p => side[f] \in Sides /\ side[f] # x
    BY <1>2 DEF Sided, Types
  <2>3. \A f \in Conns : pair[f] = p => side[f] = Other(x)
    BY <2>2 DEF Sides, Other
  <2>4. \A f \in Conns : pair[f] = p => f = e
    BY <1>2, <1>5, <2>3 DEF Sided
  <2>5. x = Other(side[e])
    BY <1>5, <2>3 DEF Sides, Other
  <2>6. Alone(e)
    BY <1>2, <1>5, <2>3, <2>4, <2>5, <2>2 DEF Alone, Peer
  <2> QED  BY <1>5, <2>1, <2>3, <2>4, <2>5, <2>6
\* Nothing changes between the others.
<1>6. ASSUME NEW e \in Conns \ {c}
      PROVE  /\ Inbox(e)' = Inbox(e) /\ Outbox(e)' = Outbox(e) /\ Behind(e)' = Behind(e)
             /\ \A f \in Conns \ {c} : Peer(e, f)' <=> Peer(e, f)
             /\ ~Peer(e, c)
  BY <1>2 DEF Inbox, Outbox, Behind, Peer
<1>7. ASSUME NEW e \in Conns, Peer(e, c)' \/ Peer(c, e)'
      PROVE  pair[e] = p /\ e # c
  <2>1. e # c
    BY <1>2, <1>7 DEF Peer, Other, Sides
  <2> QED  BY <1>2, <1>7, <2>1 DEF Peer
\* The one who waited and the one who came.
<1>8. ASSUME NEW e \in Conns, pair[e] = p
      PROVE  Joined(e, c)' /\ Joined(c, e)'
  <2>1. /\ e # c /\ Waiting(e) /\ side[e] = Other(x) /\ x = Other(side[e])
    BY <1>5, <1>8 DEF Flow
  <2>2. /\ Behind(e)' = <<>> /\ got'[e] = <<>>
    <3>1. (<<>> \o <<>>) \o <<>> = <<>>
      OBVIOUS
    <3> QED  BY <1>2, <1>6, <2>1, <3>1 DEF Waiting, Behind
  <2>3. Behind(c)' = Outbox(e) /\ Behind(c)' \o hand'[e] = Outbox(e) \o hand[e]
    <3>1. Inbox(c)' = Outbox(e)
      BY <1>2, <1>8, <2>1 DEF Inbox, Outbox
    <3>2. Outbox(e) \in Seq(Message)
      BY <1>2, <1>8, Sequences
    <3>3. (<<>> \o <<>>) \o Outbox(e) = Outbox(e)
      BY <3>2, ConcatEmptySeq
    <3> QED  BY <1>2, <1>4, <3>1, <3>3 DEF Behind
  <2>4. Joined(e, c)'
    <3>1. <<>> \o <<>> = <<>>
      OBVIOUS
    <3> QED  BY <1>4, <2>2, <3>1 DEF Joined, Starts
  <2>5. Starts(<<>>, e)
    BY NothingStarts
  <2>6. Joined(c, e)'
    BY <1>2, <1>4, <2>1, <2>3, <2>5 DEF Joined, Starts, Waiting
  <2> QED  BY <2>4, <2>6
<1>9. ASSUME NEW e \in Conns, NEW f \in Conns, Peer(e, f)'
      PROVE  Joined(e, f)'
  <2>1. CASE e = c \/ f = c
    BY <1>7, <1>8, <1>9, <2>1
  <2>2. CASE e # c /\ f # c
    <3>1. Joined(e, f)
      BY <1>6, <1>9, <2>2 DEF Flow
    <3> QED  BY <1>2, <1>6, <2>2, <3>1 DEF Joined, Starts
  <2> QED  BY <2>1, <2>2
<1>10. ASSUME NEW e \in Conns, Alone(e)'
       PROVE  Waiting(e)'
  <2>1. CASE e = c
    <3>1. claimed[p] = {}
      <4> SUFFICES ASSUME NEW y \in claimed[p] PROVE FALSE
        OBVIOUS
      <4>1. PICK f \in Conns : pair[f] = p /\ side[f] = y
        BY DEF Sided
      <4>2. f # c /\ side[f] = Other(x)
        BY <1>5, <4>1
      <4>3. Peer(c, f)'
        BY <1>2, <4>1, <4>2 DEF Peer
      <4> QED  BY <1>10, <2>1, <4>3 DEF Alone
    <3>2. Other(x) \in Sides
      BY DEF Other, Sides
    <3>3. Inbox(c)' = <<>> /\ Outbox(c)' = <<>>
      BY <1>2, <3>1, <3>2 DEF Flow, Inbox, Outbox
    <3>4. <<>> \o <<>> = <<>>
      OBVIOUS
    <3> QED  BY <1>4, <2>1, <3>3, <3>4 DEF Waiting, Starts
  <2>2. CASE e # c
    <3>1. Alone(e)
      BY <1>2, <1>6, <1>10, <2>2 DEF Alone
    <3>2. Waiting(e)
      BY <3>1 DEF Flow
    <3> QED  BY <1>2, <1>6, <2>2, <3>2 DEF Waiting, Starts
  <2> QED  BY <2>1, <2>2
<1>11. ASSUME NEW r \in Conns, claimed'[r] = {} PROVE \A y \in Sides : queue'[r][y] = <<>>
  <2>1. claimed[r] = {}
    BY <1>3, <1>11
  <2> QED  BY <1>2, <2>1 DEF Flow
<1> QED  BY <1>9, <1>10, <1>11 DEF Flow

LEMMA StepFlow ==
  ASSUME Types, Sided, Flow, [Next]_vars PROVE Flow'
<1>1. CASE Quiet
  BY <1>1 DEF Quiet, Flow, Peer, Joined, Starts, Behind, Inbox, Outbox, Alone, Waiting
<1>2. ASSUME NEW c \in Conns, NEW s \in Sessions, Accept(c, s) PROVE Flow'
  BY <1>2, AcceptFlow
<1>3. ASSUME NEW c \in Conns, NEW s \in Sessions, Refuse(c, s) PROVE Flow'
  <2>1. /\ UNCHANGED <<claimed, pair, side, sent, hand, out, got, queue>>
        /\ \A d \in Conns : pair[d] # 0 => state'[d] = state[d]
    BY <1>3 DEF Refuse, Arrives, tableVars, pumpVars, Types, Sided
  <2>2. \A d, e \in Conns : Peer(d, e)' => Peer(d, e) /\ pair[d] # 0 /\ pair[e] # 0
    BY <2>1 DEF Peer
  <2>3. ASSUME NEW d \in Conns, NEW e \in Conns, Peer(d, e)' PROVE Joined(d, e)'
    <3>1. Joined(d, e) /\ state'[d] = state[d] /\ state'[e] = state[e]
      BY <2>1, <2>2, <2>3 DEF Flow
    <3>2. Behind(d)' = Behind(d)
      BY <2>1 DEF Behind, Inbox
    <3> QED  BY <2>1, <3>1, <3>2 DEF Joined, Starts
  <2>4. \A d \in Conns : Alone(d)' => Alone(d) /\ pair[d] # 0
    BY <2>1 DEF Alone, Peer
  <2>5. \A d \in Conns : Alone(d)' => Waiting(d)'
    BY <2>1, <2>4 DEF Flow, Waiting, Starts, Inbox, Outbox
  <2> QED  BY <2>1, <2>3, <2>5 DEF Flow
<1>4. ASSUME NEW c \in Conns, Receive(c) PROVE Flow'
  BY <1>4, ReceiveFlow
<1>5. ASSUME NEW c \in Conns, Pump(c) PROVE Flow'
  BY <1>5, PutFlow, GetFlow, SendFlow DEF Pump
<1>6. ASSUME NEW c \in Conns, Disconnected(c) \/ TimesOut(c) PROVE Flow'
  BY <1>6, EndFlow DEF Disconnected, TimesOut, Open
<1> QED  BY <1>1, <1>2, <1>3, <1>4, <1>5, <1>6, QuietSteps DEF Next

LEMMA InitFlow == Init => Flow
BY DEF Init, Flow, Peer, Alone

LEMMA Invariant == Spec => [](Types /\ Sided /\ Flow)
<1>1. Init => Types /\ Sided /\ Flow
  BY InitSided, InitFlow
<1>2. Types /\ Sided /\ Flow /\ [Next]_vars => (Types /\ Sided /\ Flow)'
  BY StepTypes, StepSided, StepFlow
<1> QED  BY <1>1, <1>2, PTL DEF Spec

-----------------------------------------------------------------------------
(***************************************************************************)
(* The table knows the pair of every running handler, unless a handler of  *)
(* the session ended.                                                      *)
(***************************************************************************)
EndedIn(s) == \E e \in Conns : state[e] = "closed" /\ session[e] = s

Listed ==
  \A c \in Conns : state[c] = "open" => table[session[c]] = pair[c] \/ EndedIn(session[c])

LEMMA StepListed ==
  ASSUME Types, Sided, Listed, [Next]_vars PROVE Listed'
<1>1. CASE Quiet
  BY <1>1 DEF Quiet, Listed, EndedIn
<1>2. ASSUME NEW c \in Conns, NEW s \in Sessions, Accept(c, s) PROVE Listed'
  <2>1. PICK p \in Conns, x \in Sides : Takes(c, s, p, x)
    BY <1>2, AcceptTakes
  <2>2. /\ state[c] = "new" /\ p # 0 /\ (table[s] # 0 => p = table[s])
        /\ pair'[c] = p /\ session'[c] = s /\ state'[c] = "open"
        /\ table'[s] = p /\ \A t \in Sessions \ {s} : table'[t] = table[t]
        /\ \A e \in Conns \ {c} : /\ pair'[e] = pair[e] /\ session'[e] = session[e]
                                   /\ state'[e] = state[e]
    BY <2>1 DEF Takes, Types, Conns
  <2>3. \A t : EndedIn(t) => EndedIn(t)'
    BY <2>2 DEF EndedIn
  <2>4. ASSUME NEW e \in Conns, state'[e] = "open"
        PROVE  (table[session[e]] = pair[e] \/ EndedIn(session[e]))'
    <3>1. CASE e = c
      BY <2>2, <3>1
    <3>2. CASE e # c
      <4>1. /\ state[e] = "open" /\ session'[e] = session[e] /\ pair'[e] = pair[e]
            /\ session[e] \in Sessions /\ pair[e] # 0
        BY <2>2, <2>4, <3>2 DEF Sided
      <4>2. table[session[e]] = pair[e] \/ EndedIn(session[e])
        BY <4>1 DEF Listed
      <4>3. table[session[e]] = pair[e] => table'[session[e]] = pair[e]
        BY <2>2, <4>1
      <4> QED  BY <2>3, <4>1, <4>2, <4>3
    <3> QED  BY <3>1, <3>2
  <2> QED  BY <2>4 DEF Listed, EndedIn
<1>3. ASSUME NEW c \in Conns, NEW s \in Sessions, Refuse(c, s) PROVE Listed'
  BY <1>3 DEF Refuse, Arrives, tableVars, Types, Listed, EndedIn
<1>4. ASSUME NEW c \in Conns, Receive(c) \/ Pump(c) PROVE Listed'
  <2>1. UNCHANGED <<table, pair, session, state>>
    BY <1>4 DEF Receive, Pump, Put, Get, Send, tableVars, handlerVars
  <2> QED  BY <2>1 DEF Listed, EndedIn
<1>5. ASSUME NEW d \in Conns, Disconnected(d) \/ TimesOut(d) PROVE Listed'
  <2>1. End(d) /\ state[d] = "open" /\ session[d] \in Sessions
    BY <1>5 DEF Disconnected, TimesOut, Open, Sided
  <2>2. /\ UNCHANGED <<pair, session>> /\ state'[d] = "closed"
        /\ \A e \in Conns \ {d} : state'[e] = state[e]
        /\ \A t \in Sessions \ {session[d]} : table'[t] = table[t]
    BY <2>1 DEF End, Types
  <2>3. /\ EndedIn(session[d])'
        /\ \A t : EndedIn(t) => EndedIn(t)'
    BY <2>2 DEF EndedIn
  <2>4. ASSUME NEW e \in Conns, state'[e] = "open"
        PROVE  (table[session[e]] = pair[e] \/ EndedIn(session[e]))'
    <3>1. /\ state[e] = "open" /\ session'[e] = session[e] /\ pair'[e] = pair[e]
          /\ session[e] \in Sessions
      BY <2>2, <2>4 DEF Sided
    <3>2. table[session[e]] = pair[e] \/ EndedIn(session[e])
      BY <3>1 DEF Listed
    <3> QED  BY <2>2, <2>3, <3>1, <3>2
  <2> QED  BY <2>4 DEF Listed, EndedIn
<1> QED  BY <1>1, <1>2, <1>3, <1>4, <1>5, QuietSteps DEF Next

-----------------------------------------------------------------------------
(***************************************************************************)
(* Queues never grow beyond their bound, and a task holds one message at    *)
(* most.                                                                   *)
(***************************************************************************)
Bounded ==
  /\ ticket \in [Sessions -> {"unknown", "issued", "old", "pruned"}]
  /\ here \in [Conns -> BOOLEAN]
  /\ \A p \in Conns, x \in Sides : Len(queue[p][x]) <= Cap
  /\ \A c \in Conns : Len(hand[c]) <= 1 /\ Len(out[c]) <= 1

LEMMA StepBounded ==
  ASSUME Types, Sided, Bounded, [Next]_vars PROVE Bounded'
<1>1. CASE UNCHANGED vars
  BY <1>1 DEF vars, tableVars, handlerVars, pumpVars, Bounded
<1>2. ASSUME NEW s \in Sessions, Connect(s) \/ GrowOld(s) PROVE Bounded'
  <2>1. ticket' \in [Sessions -> {"unknown", "issued", "old", "pruned"}]
    BY <1>2 DEF Connect, GrowOld, Bounded
  <2>2. UNCHANGED <<here, hand, out, queue>>
    BY <1>2 DEF Connect, GrowOld, pumpVars
  <2> QED  BY <2>1, <2>2 DEF Bounded
<1>3. ASSUME NEW c \in Conns, NEW s \in Sessions, Accept(c, s) \/ Refuse(c, s) PROVE Bounded'
  <2>1. UNCHANGED <<ticket, here, hand, out, queue>>
    BY <1>3 DEF Accept, Refuse, tableVars, pumpVars
  <2> QED  BY <2>1 DEF Bounded
<1>4. ASSUME NEW c \in Conns, Leave(c) PROVE Bounded'
  <2>1. UNCHANGED <<ticket, hand, out, queue>>
    BY <1>4 DEF Leave, tableVars, pumpVars
  <2>2. here' \in [Conns -> BOOLEAN]
    BY <1>4, Zenon DEF Leave, Bounded
  <2> QED  BY <2>1, <2>2 DEF Bounded
<1>5. ASSUME NEW c \in Conns, Receive(c) PROVE Bounded'
  <2>1. UNCHANGED <<ticket, here, out, queue>>
    BY <1>5 DEF Receive, tableVars
  <2>2. \A d \in Conns : Len(hand'[d]) <= 1
    BY <1>5 DEF Receive, Types, Bounded
  <2> QED  BY <2>1, <2>2 DEF Bounded
<1>6. ASSUME NEW c \in Conns, Put(c) PROVE Bounded'
  <2>1. UNCHANGED <<ticket, here, out>>
    BY <1>6 DEF Put, tableVars
  <2>2. hand'[c] = <<>> /\ \A d \in Conns \ {c} : hand'[d] = hand[d]
    BY <1>6 DEF Put, Types
  <2>3. /\ pair[c] \in Conns /\ Other(side[c]) \in Sides
        /\ hand[c] \in Seq(Message) /\ Outbox(c) \in Seq(Message)
    BY <1>6, Sequences DEF Put, Open, Sided
  <2>4. Len(Outbox(c) \o hand[c]) <= Cap
    <3>1. Len(Outbox(c)) < Cap /\ Len(hand[c]) <= 1
      BY <1>6 DEF Put, Outbox, Bounded
    <3>2. Len(Outbox(c) \o hand[c]) = Len(Outbox(c)) + Len(hand[c])
      BY <2>3, ConcatProperties
    <3>3. Len(Outbox(c)) \in Nat /\ Len(hand[c]) \in Nat /\ Cap \in Nat
      BY <2>3, LenProperties, RelayAssumption DEF RelayAssumption
    <3> QED  BY <3>1, <3>2, <3>3
  <2>5. \A p \in Conns, x \in Sides :
           queue'[p][x] = queue[p][x] \/ queue'[p][x] = Outbox(c) \o hand[c]
    BY <1>6, <2>3 DEF Put, Types, Outbox
  <2>6. \A p \in Conns, x \in Sides : Len(queue'[p][x]) <= Cap
    BY <2>4, <2>5 DEF Bounded
  <2> QED  BY <2>1, <2>2, <2>6 DEF Bounded
<1>7. ASSUME NEW c \in Conns, Get(c) PROVE Bounded'
  <2>1. UNCHANGED <<ticket, here, hand>>
    BY <1>7 DEF Get, tableVars
  <2>2. \A d \in Conns : Len(out'[d]) <= 1
    BY <1>7 DEF Get, Types, Bounded
  <2>3. /\ pair[c] \in Conns /\ side[c] \in Sides
        /\ Inbox(c) \in Seq(Message) /\ Inbox(c) # <<>>
    BY <1>7, Sequences DEF Get, Open, Sided, Inbox
  <2>4. Len(Tail(Inbox(c))) <= Cap
    <3>1. Len(Inbox(c)) <= Cap /\ Cap \in Nat
      BY <2>3, RelayAssumption DEF RelayAssumption, Bounded, Inbox
    <3>2. Len(Tail(Inbox(c))) = Len(Inbox(c)) - 1 /\ Len(Inbox(c)) \in Nat
      BY <2>3, HeadTailProperties, LenProperties
    <3> QED  BY <3>1, <3>2
  <2>5. \A p \in Conns, x \in Sides :
           queue'[p][x] = queue[p][x] \/ queue'[p][x] = Tail(Inbox(c))
    BY <1>7, <2>3 DEF Get, Types, Inbox
  <2> QED  BY <2>1, <2>2, <2>4, <2>5 DEF Bounded
<1>8. ASSUME NEW c \in Conns, Send(c) \/ Disconnected(c) \/ TimesOut(c) PROVE Bounded'
  <2>1. UNCHANGED <<ticket, here, queue>>
    BY <1>8 DEF Send, Disconnected, TimesOut, End, tableVars
  <2>2. \A d \in Conns : hand'[d] \in {hand[d], <<>>} /\ out'[d] \in {out[d], <<>>}
    BY <1>8 DEF Send, Disconnected, TimesOut, End, Types
  <2> QED  BY <2>1, <2>2 DEF Bounded
<1> QED  BY <1>1, <1>2, <1>3, <1>4, <1>5, <1>6, <1>7, <1>8 DEF Next, Pump

-----------------------------------------------------------------------------
(***************************************************************************)
(* The theorems.                                                           *)
(***************************************************************************)
\* Every reachable state of the relay is well typed, its queues within bounds.
THEOREM TypeCorrect == Spec => []TypeOK
<1>1. Init => Bounded
  BY RelayAssumption DEF RelayAssumption, Init, Bounded
<1>2. Types /\ Sided /\ Bounded /\ [Next]_vars => Bounded'
  BY StepBounded
<1>3. Types /\ Bounded => TypeOK
  BY DEF Types, Bounded, TypeOK
<1> QED  BY <1>1, <1>2, <1>3, Invariant, PTL DEF Spec

\* A client is only ever sent the first messages of its one partner, in order.
THEOREM InOrder == Spec => []DeliveredInOrder
<1>1. Types /\ Sided /\ Flow => DeliveredInOrder
  <2> SUFFICES ASSUME Types, Sided, Flow, NEW c \in Conns, got[c] # <<>>
               PROVE  \E d \in Conns : Peer(c, d) /\ got[c] = Whole(d, Len(got[c]))
    BY DEF DeliveredInOrder
  <2>1. ~Alone(c) /\ pair[c] # 0
    BY DEF Flow, Waiting, Sided
  <2> QED  BY <2>1 DEF Alone, Flow, Joined, Starts
<1> QED  BY <1>1, Invariant, PTL

\* Between two running partners everything received is delivered or under way.
THEOREM AllUnderWay == Spec => []NothingLost
<1>1. Types /\ Sided /\ Flow => NothingLost
  <2> SUFFICES ASSUME Types, Sided, Flow, NEW c \in Open, NEW d \in Open, Peer(c, d)
               PROVE  got[c] \o out[c] \o queue[pair[c]][side[c]] \o hand[d] = Whole(d, sent[d])
    BY DEF NothingLost
  <2> QED  BY DEF Open, Flow, Joined, Behind, Inbox
<1> QED  BY <1>1, Invariant, PTL

\* Two running handlers of a session miss each other only after one ended.
THEOREM ApartExplained == Spec => []ApartOnlyAfterEnd
<1>1. Init => Listed
  BY DEF Init, Listed
<1>2. Types /\ Sided /\ Listed /\ [Next]_vars => Listed'
  BY StepListed
<1>3. Types /\ Sided /\ Listed => ApartOnlyAfterEnd
  <2> SUFFICES ASSUME Types, Sided, Listed, NEW c \in Open, NEW d \in Open,
                      c # d, session[c] = session[d], ~EndedIn(session[c])
               PROVE  Peer(c, d)
    BY DEF ApartOnlyAfterEnd, EndedIn
  <2>1. pair[c] = pair[d] /\ pair[c] # 0
    BY DEF Listed, Open, Sided
  <2>2. side[c] \in Sides /\ side[d] \in Sides /\ side[c] # side[d]
    BY <2>1 DEF Open, Types, Sided
  <2> QED  BY <2>1, <2>2 DEF Peer, Other, Sides
<1> QED  BY <1>1, <1>2, <1>3, Invariant, PTL DEF Spec

=============================================================================
