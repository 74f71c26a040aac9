---------------------------- MODULE LedgerChain ----------------------------
(***************************************************************************)
(* The replicated credit ledger (protocol/ledger.py): replicas that append *)
(* signed blocks of credit entries to a hash-linked chain, exchange blocks *)
(* and chains in any order, and adopt the best valid chain they see.       *)
(*                                                                         *)
(* A header is signed, the entries under it are not: they travel beside it *)
(* and are bound to it only by entry_count and the Merkle root, so a       *)
(* header may arrive with other entries than its producer put there.       *)
(* Hashes are opaque and distinct; which of two blocks hashes lower is     *)
(* arbitrary, so a new block takes any unused hash.                        *)
(***************************************************************************)
EXTENDS WorkReceipt, Integers, FiniteSets, SequencesExt

CONSTANTS
  Replicas,   \* holders of a chain; each also produces blocks
  Bodies,     \* entry lists that can be put, or arrive, under a header
  NoReceipt,  \* the receipt field left out
  NoNonce,    \* the nonce field left empty
  MaxBlocks   \* bound: blocks produced

ASSUME LedgerChainAssumption ==
  /\ Bodies \subseteq Seq(UNION {{body[i] : i \in DOMAIN body} : body \in Bodies})
  /\ MaxBlocks \in Nat

VARIABLES
  headers,  \* headers signed so far
  chain,    \* Chain.blocks of each replica
  seen      \* Chain._seen_nonces of each replica

chainVars == <<headers, chain, seen>>

Hash == 1 .. MaxBlocks
GenesisPrev == 0

EntriesOf(body) == {body[i] : i \in DOMAIN body}

\* entry_hash leaves the receipt out.
EntryHash(e) ==
  [leaf |-> <<e.id, e.account, e.delta, e.reason, e.ref, e.nonce>>]

\* One level of the Merkle tree; an odd level duplicates its last node.
NextLevel(level) ==
  [i \in 1 .. (Len(level) + 1) \div 2 |->
     [left  |-> level[2 * i - 1],
      right |-> level[IF 2 * i > Len(level) THEN Len(level) ELSE 2 * i]]]

Leaves(body) == [i \in DOMAIN body |-> EntryHash(body[i])]

\* merkle_root: levels are folded until one node is left, which takes fewer
\* rounds than there are entries.
MerkleRoot(body) ==
  FoldLeft(LAMBDA level, e : IF Len(level) > 1 THEN NextLevel(level) ELSE level, Leaves(body), body)

Header(hash, index, prev, body) ==
  [hash |-> hash, index |-> index, prev |-> prev,
   root |-> MerkleRoot(body), count |-> Len(body)]

(***************************************************************************)
(* verify_block, entry by entry.                                           *)
(***************************************************************************)
\* A receipt that backs an earn: signed by its node, naming the account and
\* the receipt id of the entry, and worth the entry's delta, but for the tolerance of 1e-6.
Backs(receipt, e) ==
  /\ receipt # NoReceipt
  /\ receipt.signed
  /\ receipt.node = e.account
  /\ receipt.id = e.ref
  /\ CreditFor(receipt.work) - e.delta \in -1 .. 1

Earn(e) == e.reason = "verified_work"

EntryValid(e) ==
  /\ e.reason \in {"verified_work", "consumption", "correction"}
  /\ e.delta > 0 => Earn(e)
  /\ Earn(e) => Backs(e.receipt, e) /\ e.nonce # NoNonce
  /\ e.reason = "consumption" => e.delta < 0

\* Nonces the earns of a body use up.
Nonces(body) == {e.nonce : e \in {x \in EntriesOf(body) : Earn(x)}}

NoncesDistinct(body) ==
  \A i, j \in DOMAIN body :
    Earn(body[i]) /\ Earn(body[j]) /\ body[i].nonce = body[j].nonce => i = j

\* Fault: entry_count is not compared with the entries.
BodyMatchesRoot(header, body) == header.root = MerkleRoot(body)

BodyMatches(header, body) ==
  /\ header.count = Len(body)
  /\ header.root = MerkleRoot(body)

\* Fault: nonces of earlier blocks do not count.
VerifyBlockLocal(header, body, prev, index, used) ==
  /\ header.index = index
  /\ header.prev = prev
  /\ BodyMatches(header, body)
  /\ \A e \in EntriesOf(body) : EntryValid(e)
  /\ NoncesDistinct(body)

VerifyBlock(header, body, prev, index, used) ==
  /\ header.index = index
  /\ header.prev = prev
  /\ BodyMatches(header, body)
  /\ \A e \in EntriesOf(body) : EntryValid(e)
  /\ NoncesDistinct(body)
  /\ Nonces(body) \cap used = {}

HeadHash(c) == IF c = <<>> THEN GenesisPrev ELSE c[Len(c)].header.hash

\* Nonces used up by the first n blocks.
ChainNonces(c, n) == UNION {Nonces(c[i].body) : i \in 1 .. n}

\* verify_full: every block again, from genesis, against those before it.
VerifyFull(c) ==
  \A i \in DOMAIN c :
    VerifyBlock(c[i].header, c[i].body,
                IF i = 1 THEN GenesisPrev ELSE c[i - 1].header.hash, i - 1,
                ChainNonces(c, i - 1))

\* Longer, or as long with the lower head hash.
Better(c, d) ==
  \/ Len(c) > Len(d)
  \/ Len(c) = Len(d) /\ HeadHash(c) <= HeadHash(d)

\* Fault: sorted by height ascending.
PickAscending(candidates) ==
  LET valid == {c \in candidates : VerifyFull(c)}
  IN  CHOOSE c \in valid : \A d \in valid : Better(d, c)

\* pick_best_chain
PickBest(candidates) ==
  LET valid == {c \in candidates : VerifyFull(c)}
  IN  CHOOSE c \in valid : \A d \in valid : Better(c, d)

(***************************************************************************)
(* Balances: one running sum per account over all entries.                 *)
(***************************************************************************)
\* What an account has after a block, from what it had before.
Credited(before, body, account) ==
  FoldLeft(LAMBDA sum, e : IF e.account = account THEN sum + e.delta ELSE sum, before, body)

Balance(c, account) ==
  FoldLeft(LAMBDA sum, block : Credited(sum, block.body, account), 0, c)

Accounts == {e.account : e \in UNION {EntriesOf(b) : b \in Bodies}}

-----------------------------------------------------------------------------
ChainInit ==
  /\ headers = {}
  /\ chain = [r \in Replicas |-> <<>>]
  /\ seen = [r \in Replicas |-> {}]

\* Block.produce: a signed header over some entries, on top of the producer's
\* head.  Nothing is verified yet; the first block on <<>> is a genesis.
Produce(r, body) ==
  /\ \E hash \in Hash \ {h.hash : h \in headers} :
       headers' = headers \cup {Header(hash, Len(chain[r]), HeadHash(chain[r]), body)}
  /\ UNCHANGED <<chain, seen>>

\* Fault: the nonces of a refused block stay in seen_nonces.
AppendBurns(r, header, body) ==
  /\ seen' = [seen EXCEPT ![r] = @ \cup Nonces(body)]
  /\ chain' = IF VerifyBlock(header, body, HeadHash(chain[r]), Len(chain[r]), seen[r])
              THEN [chain EXCEPT ![r] = Append(@, [header |-> header, body |-> body])]
              ELSE chain
  /\ UNCHANGED headers

\* Chain.append: the block is verified against the head and the nonces seen; a
\* refused block changes nothing.
AppendBlock(r, header, body) ==
  /\ VerifyBlock(header, body, HeadHash(chain[r]), Len(chain[r]), seen[r])
  /\ chain' = [chain EXCEPT ![r] = Append(@, [header |-> header, body |-> body])]
  /\ seen' = [seen EXCEPT ![r] = @ \cup Nonces(body)]
  /\ UNCHANGED headers

\* What can arrive when the chain of q is asked for: the chain, or the chain
\* with other entries under one of its headers.
Arrives(q) ==
  {chain[q]} \cup {[chain[q] EXCEPT ![i].body = body] : i \in DOMAIN chain[q], body \in Bodies}

\* A replica takes the better of its chain and one that arrived.
Adopt(r, other) ==
  /\ LET best == PickBest({chain[r], other})
     IN  /\ chain' = [chain EXCEPT ![r] = best]
         /\ seen' = [seen EXCEPT ![r] = ChainNonces(best, Len(best))]
  /\ UNCHANGED headers

ChainNext ==
  \/ \E r \in Replicas, body \in Bodies : Produce(r, body)
  \/ \E r \in Replicas, header \in headers, body \in Bodies : AppendBlock(r, header, body)
  \/ \E r, q \in Replicas : \E other \in Arrives(q) : Adopt(r, other)

ChainSpec == ChainInit /\ [][ChainNext]_chainVars

-----------------------------------------------------------------------------
(***************************************************************************)
(* Properties.                                                             *)
(***************************************************************************)

Block == [header : headers, body : Bodies]

AllNonces == {e.nonce : e \in UNION {EntriesOf(body) : body \in Bodies}}

ChainTypeOK ==
  /\ \A h \in headers : h.hash \in Hash /\ h.index \in Nat /\ h.prev \in Hash \cup {GenesisPrev}
  /\ \A g, h \in headers : g.hash = h.hash => g = h
  /\ chain \in [Replicas -> Seq(Block)]
  /\ seen \in [Replicas -> SUBSET AllNonces]

\* What a replica built block by block, with the nonces it remembers, is what a
\* peer joining later accepts from genesis: _seen_nonces never drifts from the
\* blocks, whatever was refused, adopted or abandoned on the way.
AcceptedIsVerifiable ==
  \A r \in Replicas :
    /\ VerifyFull(chain[r])
    /\ seen[r] = ChainNonces(chain[r], Len(chain[r]))

\* Two earns of a chain are the same entry of the same block, or differ in what
\* `token` reads off them.
OncePerChain(c, token(_)) ==
  \A i, j \in DOMAIN c : \A k \in DOMAIN c[i].body, l \in DOMAIN c[j].body :
    LET e == c[i].body[k]
        f == c[j].body[l]
    IN  Earn(e) /\ Earn(f) /\ token(e) = token(f) => i = j /\ k = l

\* No nonce is credited twice in a chain, however its blocks were put together
\* from branches that each used the nonce.
NonceCreditedOnce ==
  \A r \in Replicas : OncePerChain(chain[r], LAMBDA e : e.nonce)

\* Replicas with the same head pay every account the same, although the entries
\* under a header are not signed and may have been exchanged on the way.
SameHeadSameBalances ==
  \A r, q \in Replicas :
    HeadHash(chain[r]) = HeadHash(chain[q]) =>
      \A a \in Accounts : Balance(chain[r], a) = Balance(chain[q], a)

\* A replica never gives up a chain for one that fork choice ranks below it.
HeadOnlyImproves ==
  [][\A r \in Replicas : Better(chain'[r], chain[r])]_chainVars

\* docs/DECENTRALIZATION.md: "Every receipt's challenge_nonce may be credited at
\* most once across the entire chain."
ReceiptNonceOnce ==
  \A r \in Replicas : OncePerChain(chain[r], LAMBDA e : e.receipt.nonce)
=============================================================================
