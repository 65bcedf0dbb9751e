------------------------------ MODULE Dispute -------------------------------
(***************************************************************************)
(* Fraud and its resolution, consensus/avail: the fraud resolver of every  *)
(* sequencer (fraud.go) with the three threads that share it (Run's main   *)
(* loop, the writer, ShouldStopProducingBlocks), the watchtowers that      *)
(* accuse, the begin-dispute transactions in the pools, the validator and  *)
(* the fraud server.  All participants have staked and joined long ago, so *)
(* the join fence and the snapshots of Sequencing play no part.            *)
(*                                                                         *)
(* A block stands for its own hash; b.st is the staking contract after it. *)
(* b.ok says whether executing b gives what its header says, b.full that   *)
(* it carries ordinary transactions.  A bad block carries a transaction    *)
(* that was never executed, so the contract after it is its parent's.      *)
(***************************************************************************)
EXTENDS ChainOps, Integers, Sequences, FiniteSetsExt

CONSTANTS
    Sequencer, Tower,   \* the staked participants
    Nil,                \* nothing
    WindowLen,          \* availBlockWindowLen
    Leader(_, _),       \* first of the list shuffled with a seed
    Primable,           \* sequencers whose fraud server listens
    Mistaken,           \* watchtowers whose check may fail on a correct block
    WithTxs,            \* ordinary blocks carry transactions
    FineEvicts,         \* a fined participant drops below the threshold
    Synchronous,        \* nodes keep up with Avail, see NewAvailBlock
    MaxAvail,           \* bound on the length of Avail
    MaxLag,             \* bound on the Avail blocks a stream is behind
    LastTick,           \* bound: no new block is begun after this Avail block
    MaxBuilt,           \* bound on the blocks of the writers
    MaxPrimes,          \* bound on requests to the fraud servers
    MaxFailures         \* bound on failed submissions

ASSUME ConstantAssumption ==
    /\ Sequencer \cap Tower = {}
    /\ Primable \subseteq Sequencer /\ Mistaken \subseteq Tower
    /\ WindowLen \in Nat \ {0, 1}
    /\ {WithTxs, FineEvicts, Synchronous} \subseteq BOOLEAN
    /\ {MaxAvail, MaxLag, LastTick, MaxBuilt, MaxPrimes, MaxFailures} \subseteq Nat

ASSUME LeaderAssumption ==
    \A w \in 0..MaxAvail, S \in (SUBSET Sequencer) \ {{}} : Leader(w, S) \in S

Node == Sequencer \cup Tower

\* The begin-dispute transactions.
Tx == [from : Tower, accused : Node, nonce : Nat]

ASSUME NilAssumption == Nil \notin Tx

VARIABLES
    \* Avail and the gossip of transactions
    avail,       \* the Avail blocks
    inflight,    \* edge blocks submitted and not yet in an Avail block
    gossip,      \* begin-dispute transactions on their way, by receiver
    \* every node
    chain,       \* its block store
    pool,        \* the begin-dispute transactions in its pool
    t,           \* number of the last Avail block taken from its stream
    \* the main loop of a sequencer
    pc, cache,   \* as in Sequencing
    enabled,     \* blockProductionEnabled
    own,         \* the block slashNode has submitted
    \* its fraud resolver and the thread that watches the pool
    disabled,    \* chainProcessStatus = ChainProcessingDisabled
    fraudBlock, lastTx,
    found,       \* the transaction that thread is looking at
    \* its writer and its fraud server
    wpc, wblk, primed,
    \* a watchtower
    rest,        \* blocks of the current Avail block not yet processed
    proof,       \* the fraud proof it has submitted
    \* bounds
    built, primes, failures

net == <<avail, inflight, gossip>>
loop == <<pc, cache, enabled, own>>
resolver == <<disabled, fraudBlock, lastTx, found>>
writer == <<wpc, wblk, primed>>
tower == <<rest, proof>>
bounds == <<built, primes, failures>>
vars == <<net, chain, pool, t, loop, resolver, writer, tower, bounds>>

-----------------------------------------------------------------------------
(* The staking contract as the code uses it: the staked sequencers and     *)
(* watchtowers, the open disputes, and the account nonce of each           *)
(* watchtower.                                                             *)

Genesis == [parent |-> Nil, number |-> 0, difficulty |-> 0, miner |-> Nil,
            tx |-> Nil, fined |-> Nil, ok |-> TRUE, full |-> FALSE,
            proofOf |-> Nil, endOf |-> Nil, id |-> 0,
            st |-> [staked |-> Sequencer, towers |-> Tower, disputes |-> {},
                    nonce |-> [w \in Tower |-> 0]]]

\* QueryActiveSequencers: staked and not in probation.
Active(st) == {s \in st.staked : \A d \in st.disputes : d[1] # s}

\* BeginDisputeResolution(sequencerAddr), for watchtowers only.
BeginDispute(st, tx) ==
    [st EXCEPT !.nonce[tx.from] = @ + 1,
               !.disputes = IF tx.from \in st.towers THEN @ \cup {<<tx.accused, tx.from>>} ELSE @]

\* slash(addr), for sequencers only: ends the dispute and takes a fine.
SlashStaker(st, by, addr) ==
    IF by \notin st.staked THEN st
    ELSE [st EXCEPT !.disputes = {d \in @ : addr \notin {d[1], d[2]}},
                    !.staked = IF FineEvicts THEN @ \ {addr} ELSE @,
                    !.towers = IF FineEvicts THEN @ \ {addr} ELSE @]

\* The pool takes a new transaction unless it is known or its nonce is used.
AddTx(p, c, tx) == IF tx.nonce >= c.head.st.nonce[tx.from] THEN p \cup {tx} ELSE p

\* ResetWithHeaders drops what a stored block has executed.
ResetWithHeaders(p, c, b) ==
    IF b \notin DOMAIN c.td THEN p
    ELSE {tx \in p : tx # b.tx /\ tx.nonce >= c.head.st.nonce[tx.from]}

Seed(i) == i \div WindowLen
InAvail(b) == \E i \in DOMAIN avail : b \in Range(avail[i])

-----------------------------------------------------------------------------
Init ==
    /\ avail = [i \in 1..WindowLen - 1 |-> <<>>]
    /\ inflight = {} /\ gossip = [n \in Node |-> {}]
    /\ chain = [n \in Node |-> NewStore(Genesis)]
    /\ pool = [n \in Node |-> {}]
    /\ t = [n \in Node |-> WindowLen - 1]
    /\ pc = [n \in Sequencer |-> "recv"]
    /\ cache = [n \in Sequencer |-> [seed |-> 0, list |-> {}]]
    /\ enabled = [n \in Sequencer |-> FALSE]
    /\ own = [n \in Sequencer |-> Nil]
    /\ disabled = [n \in Sequencer |-> FALSE]
    /\ fraudBlock = [n \in Sequencer |-> Nil]
    /\ lastTx = [n \in Sequencer |-> Nil]
    /\ found = [n \in Sequencer |-> Nil]
    /\ wpc = [n \in Sequencer |-> "idle"]
    /\ wblk = [n \in Sequencer |-> Nil]
    /\ primed = [n \in Sequencer |-> FALSE]
    /\ rest = [w \in Tower |-> <<>>]
    /\ proof = [w \in Tower |-> Nil]
    /\ built = 0 /\ primes = 0 /\ failures = 0

\* A begin-dispute transaction the watching thread would act on.
Stopper(n, tx) ==
    /\ tx \in pool[n]
    /\ tx.from \in chain[n].head.st.towers
    /\ tx # lastTx[n]

\* Nothing is left to do at n before the next Avail block.
Settled(n) ==
    /\ gossip[n] = {}
    /\ n \in Sequencer =>
           /\ (pc[n] = "recv" /\ t[n] = Len(avail)) \/ own[n] \in inflight
           /\ wpc[n] = "idle" \/ wblk[n] \in inflight
           /\ found[n] = Nil
           /\ ~disabled[n] => ~\E tx \in pool[n] : Stopper(n, tx)
    /\ n \in Tower => (rest[n] = <<>> /\ t[n] = Len(avail)) \/ proof[n] \in inflight

\* The stream of n is as far behind as it may be, and n does not wait for a
\* submission.
Behind(n) ==
    /\ t[n] + MaxLag <= Len(avail)
    /\ n \in Sequencer => own[n] = Nil
    /\ n \in Tower => proof[n] = Nil

\* Avail makes a block of submitted edge blocks, in any order.  When nodes
\* keep up, each has done all it can and Avail takes everything submitted.
NewAvailBlock ==
    /\ Len(avail) < MaxAvail
    /\ \A n \in Node : IF Synchronous THEN Settled(n) ELSE ~Behind(n)
    /\ \E S \in IF Synchronous THEN {inflight} ELSE SUBSET inflight :
           /\ \E q \in Bijection(1..Cardinality(S), S) : avail' = Append(avail, q)
           /\ inflight' = inflight \ S
    /\ UNCHANGED <<gossip, chain, pool, t, loop, resolver, writer, tower, bounds>>

\* A gossiped transaction reaches the pool of n.
Gossip(n) ==
    /\ \E tx \in gossip[n] :
           /\ gossip' = [gossip EXCEPT ![n] = @ \ {tx}]
           /\ pool' = [pool EXCEPT ![n] = AddTx(@, chain[n], tx)]
    /\ UNCHANGED <<avail, inflight, chain, t, loop, resolver, writer, tower, bounds>>

-----------------------------------------------------------------------------
(* The main loop of a sequencer.                                           *)

\* validator.Check: whoever the header names has sealed it, the parent is known,
\* and the number follows it unless every transaction begins a dispute.
\* Nothing is executed.
Valid(c, b) ==
    /\ b.miner \in Node
    /\ b.parent \in DOMAIN c.td
    /\ b.number = b.parent.number + 1 \/ ~b.full

\* Mutant: the end is compared with the accused block, not with the proof.
EndsOfAccused(fraud, b) == fraud # Nil /\ b.endOf = fraud.proofOf

\* IsDisputeResolutionEnded
Ends(fraud, b) == fraud # Nil /\ b.endOf = fraud

\* One edge block from Avail.  A fraud proof is left alone only if known.
HandleBlock(s, b) ==
    LET write == /\ ~(b \in DOMAIN s.chain.td /\ b.proofOf # Nil)
                 /\ Valid(s.chain, b)
        c == IF write THEN Insert(s.chain, b) ELSE s.chain
    IN  [chain |-> c,
         pool |-> IF write THEN ResetWithHeaders(s.pool, c, b) ELSE s.pool,
         fraud |-> IF Ends(s.fraud, b) THEN Nil ELSE s.fraud,
         ended |-> s.ended \/ Ends(s.fraud, b)]

\* The edge blocks of an Avail block, one after the other.
HandleBlocks(s, blocks) ==
    LET after[k \in 0..Len(blocks)] ==
            IF k = 0 THEN s ELSE HandleBlock(after[k - 1], blocks[k])
    IN  after[Len(blocks)]

\* CheckAndSetFraudBlock: the first fraud proof of the Avail block.
FirstProof(blocks, old) ==
    LET proofs == {k \in DOMAIN blocks : blocks[k].proofOf # Nil}
    IN  IF proofs = {} THEN old ELSE blocks[Min(proofs)]

\* Run takes the next Avail block: ended disputes, writes, fraud proofs.
\* EndDisputeResolution lifts the stop and enables production.
Apply(n) ==
    /\ pc[n] = "recv"
    /\ t[n] < Len(avail)
    /\ t' = [t EXCEPT ![n] = @ + 1]
    /\ LET blocks == avail[t[n] + 1]
           s == HandleBlocks([chain |-> chain[n], pool |-> pool[n],
                              fraud |-> fraudBlock[n], ended |-> FALSE], blocks)
       IN  /\ chain' = [chain EXCEPT ![n] = s.chain]
           /\ pool' = [pool EXCEPT ![n] = s.pool]
           /\ fraudBlock' = [fraudBlock EXCEPT ![n] = FirstProof(blocks, s.fraud)]
           /\ disabled' = [disabled EXCEPT ![n] = @ /\ ~s.ended]
           /\ enabled' = [enabled EXCEPT ![n] = @ \/ s.ended]
    /\ pc' = [pc EXCEPT ![n] = "decide"]
    /\ UNCHANGED <<net, cache, own, lastTx, found, writer, tower, bounds>>

\* The cached list of active sequencers, read again when the window changes.
Listed(n) == IF cache[n].seed = Seed(t[n]) THEN cache[n].list ELSE Active(chain[n].head.st)

\* IsNextSequencer, and the gate that leaves out the last Avail block.
IsNextSequencer(n) == Listed(n) # {} /\ Leader(Seed(t[n]), Listed(n)) = n
Gate(n) == IsNextSequencer(n) /\ t[n] % WindowLen < WindowLen - 1

Refresh(n) == cache' = [cache EXCEPT ![n] = [seed |-> Seed(t[n]), list |-> Listed(n)]]

\* IsReadyToSlash
ReadyToSlash(n) == disabled[n] /\ fraudBlock[n] # Nil

\* The iteration ends without CheckAndSlash having anything to slash: the
\* node is not in the list, or the turn decides about production.
Decide(n) ==
    /\ pc[n] = "decide"
    /\ n \notin Listed(n) \/ ~ReadyToSlash(n)
    /\ Refresh(n)
    /\ enabled' = [enabled EXCEPT ![n] = IF n \in Listed(n) THEN Gate(n) ELSE @]
    /\ pc' = [pc EXCEPT ![n] = "recv"]
    /\ UNCHANGED <<net, chain, pool, t, own, resolver, writer, tower, bounds>>

-----------------------------------------------------------------------------
(* CheckAndSlash, in the main loop, and slashNode, which waits for Avail   *)
(* twice.                                                                  *)

Carries(b) == b.full \/ ~b.ok \/ b.tx # Nil \/ b.fined # Nil

\* The verifier of the consensus: an active sequencer of the head signed b.
VerifyHeader(st, b) == Active(st) # {} => b.miner \in Active(st)

\* The block store's own rule: one transaction that begins a dispute excuses
\* the number.
VerifyBlockParent(c, b) ==
    /\ b.parent \in DOMAIN c.td
    /\ b.number = b.parent.number + 1 \/ b.tx # Nil

\* The transactions are those the header promises, and running them gives
\* what it says.
VerifyBlockBody(b, withBody) == b.ok /\ (withBody \/ ~Carries(b))

VerifyFinalizedBlock(c, b, withBody) ==
    VerifyHeader(c.head.st, b) /\ VerifyBlockParent(c, b) /\ VerifyBlockBody(b, withBody)

\* watchTower.Check of the block as GetBlockByHash(hash, false) returns it,
\* without its body.
CheckFails(n, b) == ~VerifyFinalizedBlock(chain[n], b, FALSE)

\* Who is slashed for fraud proof f: the sequencer, or the watchtower.
Guilty(n, f) == IF CheckFails(n, f.proofOf) THEN f.proofOf.miner ELSE f.miner

\* DiscoverDisputeResolutionTx finds the transaction the fraud proof names.
Discovered(n) == fraudBlock[n].tx \in pool[n]

\* Mutant: the begin block is no heavier than any other.
BeginBlockLight(n, f) ==
    LET c == chain[n]
        p == IF Guilty(n, f) # f.miner THEN f.proofOf.parent ELSE c.head
    IN  [Genesis EXCEPT !.parent = p, !.number = c.head.number + 1,
                        !.miner = n, !.tx = f.tx, !.st = BeginDispute(p.st, f.tx)]

\* The begin block.  Against a sequencer it forks off before the accused
\* block, numbered after the head and heavier than the whole chain; against a
\* watchtower it extends the head.
BeginBlock(n, f) ==
    LET c == chain[n]
        fork == Guilty(n, f) # f.miner
        p == IF fork THEN f.proofOf.parent ELSE c.head
    IN  [Genesis EXCEPT !.parent = p, !.number = c.head.number + 1,
                        !.difficulty = IF fork THEN c.td[c.head] + 1 ELSE 0,
                        !.miner = n, !.tx = f.tx, !.st = BeginDispute(p.st, f.tx)]

\* The slash block, on the head, against the one the begin block was made for.
\* It also names the fraud proof it settles.
SlashBlock(n, c, begin, f) ==
    LET p == c.head
        guilty == IF begin.difficulty > 0 THEN f.proofOf.miner ELSE f.miner
    IN  [Genesis EXCEPT !.parent = p, !.number = p.number + 1, !.miner = n,
                        !.fined = guilty, !.endOf = f,
                        !.st = SlashStaker(p.st, n, guilty)]

\* CheckAndSlash returns an error: the accused block is unknown or its own, or
\* the transaction is not in the pool or taken by the writer just now.  The
\* turn is not looked at.
CannotSlash(n) ==
    /\ pc[n] = "decide"
    /\ n \in Listed(n) /\ ReadyToSlash(n)
    /\ \/ fraudBlock[n].proofOf \notin DOMAIN chain[n].td
       \/ fraudBlock[n].proofOf.miner = n
       \/ ~Discovered(n)
       \/ wpc[n] = "build"
    /\ Refresh(n)
    /\ pc' = [pc EXCEPT ![n] = "recv"]
    /\ UNCHANGED <<net, chain, pool, t, enabled, own, resolver, writer, tower, bounds>>

\* The transaction leaves the pool, and the begin block is submitted unless
\* the state it builds on has used the nonce.
BeginSlash(n) ==
    /\ pc[n] = "decide"
    /\ n \in Listed(n) /\ ReadyToSlash(n)
    /\ fraudBlock[n].proofOf \in DOMAIN chain[n].td
    /\ fraudBlock[n].proofOf.miner # n
    /\ Discovered(n)
    /\ pool' = [pool EXCEPT ![n] = @ \ {fraudBlock[n].tx}]
    /\ LET b == BeginBlock(n, fraudBlock[n])
       IN  IF b.tx.nonce = b.parent.st.nonce[b.tx.from]
           THEN /\ inflight' = inflight \cup {b}
                /\ own' = [own EXCEPT ![n] = b]
                /\ pc' = [pc EXCEPT ![n] = "begin"]
           ELSE pc' = [pc EXCEPT ![n] = "recv"] /\ UNCHANGED <<inflight, own>>
    /\ Refresh(n)
    /\ UNCHANGED <<avail, gossip, chain, t, enabled, resolver, writer, tower, bounds>>

\* Mutant: the begin block is left for the main loop to write.
BeginIncludedUnwritten(n) ==
    /\ pc[n] = "begin"
    /\ InAvail(own[n])
    /\ LET b == SlashBlock(n, chain[n], own[n], fraudBlock[n])
       IN  /\ inflight' = inflight \cup {b}
           /\ own' = [own EXCEPT ![n] = b]
    /\ pc' = [pc EXCEPT ![n] = "slash"]
    /\ UNCHANGED <<avail, gossip, chain, pool, t, cache, enabled, resolver, writer, tower, bounds>>

\* The begin block is in Avail and written, if its number is still free; the
\* slash block is built on the head and submitted.
BeginIncluded(n) ==
    /\ pc[n] = "begin"
    /\ InAvail(own[n])
    /\ LET c == Insert(chain[n], own[n])
           b == SlashBlock(n, c, own[n], fraudBlock[n])
       IN  /\ chain' = [chain EXCEPT ![n] = c]
           /\ pool' = [pool EXCEPT ![n] = ResetWithHeaders(@, c, own[n])]
           /\ inflight' = inflight \cup {b}
           /\ own' = [own EXCEPT ![n] = b]
    /\ pc' = [pc EXCEPT ![n] = "slash"]
    /\ UNCHANGED <<avail, gossip, t, cache, enabled, resolver, writer, tower, bounds>>

\* Mutant: the slash block is built and submitted until the dispute is over.
SlashIncludedRepeats(n) ==
    /\ pc[n] = "slash"
    /\ InAvail(own[n])
    /\ LET c == Insert(chain[n], own[n])
           b == SlashBlock(n, c, [own[n] EXCEPT !.difficulty = 1], fraudBlock[n])
       IN  /\ chain' = [chain EXCEPT ![n] = c]
           /\ inflight' = inflight \cup {b}
           /\ own' = [own EXCEPT ![n] = b]
    /\ UNCHANGED <<avail, gossip, pool, t, pc, cache, enabled, resolver, writer, tower, bounds>>

\* The slash block is in Avail and written, the dispute ends, and the
\* iteration goes on to the turn.
SlashIncluded(n) ==
    /\ pc[n] = "slash"
    /\ InAvail(own[n])
    /\ LET c == Insert(chain[n], own[n])
       IN  /\ chain' = [chain EXCEPT ![n] = c]
           /\ pool' = [pool EXCEPT ![n] = ResetWithHeaders(@, c, own[n])]
    /\ own' = [own EXCEPT ![n] = Nil]
    /\ fraudBlock' = [fraudBlock EXCEPT ![n] = Nil]
    /\ disabled' = [disabled EXCEPT ![n] = FALSE]
    /\ enabled' = [enabled EXCEPT ![n] = Gate(n)]
    /\ pc' = [pc EXCEPT ![n] = "recv"]
    /\ UNCHANGED <<net, t, cache, lastTx, found, writer, tower, bounds>>

\* SendAndWaitForStatus returns an error for either block; the extrinsic is
\* lost, or gets into Avail all the same.
SlashFailed(n) ==
    /\ pc[n] \in {"begin", "slash"}
    /\ failures < MaxFailures
    /\ failures' = failures + 1
    /\ inflight' \in {inflight, inflight \ {own[n]}}
    /\ own' = [own EXCEPT ![n] = Nil]
    /\ pc' = [pc EXCEPT ![n] = "recv"]
    /\ UNCHANGED <<avail, gossip, chain, pool, t, cache, enabled, resolver, writer,
                   tower, built, primes>>

-----------------------------------------------------------------------------
(* ShouldStopProducingBlocks: the thread looks at a transaction of the     *)
(* pool and asks the contract about its sender, then stops the chain.      *)

Peek(n) ==
    /\ ~disabled[n] /\ found[n] = Nil
    /\ \E tx \in pool[n] : Stopper(n, tx) /\ found' = [found EXCEPT ![n] = tx]
    /\ UNCHANGED <<net, chain, pool, t, loop, disabled, fraudBlock, lastTx, writer,
                   tower, bounds>>

Stop(n) ==
    /\ found[n] # Nil
    /\ disabled' = [disabled EXCEPT ![n] = TRUE]
    /\ enabled' = [enabled EXCEPT ![n] = FALSE]
    /\ lastTx' = [lastTx EXCEPT ![n] = found[n]]
    /\ found' = [found EXCEPT ![n] = Nil]
    /\ UNCHANGED <<net, chain, pool, t, pc, cache, own, fraudBlock, writer, tower, bounds>>

-----------------------------------------------------------------------------
(* The writer thread and the fraud server.                                 *)

\* PrimeFraud: a request to the fraud server.
Prime(n) ==
    /\ n \in Primable /\ ~primed[n] /\ primes < MaxPrimes
    /\ primed' = [primed EXCEPT ![n] = TRUE]
    /\ primes' = primes + 1
    /\ UNCHANGED <<net, chain, pool, t, loop, resolver, wpc, wblk, tower, built, failures>>

\* A tick that finds production enabled, no dispute, and the node's turn.
Tick(n) ==
    /\ wpc[n] = "idle" /\ enabled[n] /\ ~disabled[n]
    /\ Len(avail) <= LastTick /\ built < MaxBuilt
    /\ IsNextSequencer(n)
    /\ Refresh(n)
    /\ wpc' = [wpc EXCEPT ![n] = "build"]
    /\ UNCHANGED <<net, chain, pool, t, pc, enabled, own, resolver, wblk, primed, tower, bounds>>

\* writeBlock up to the submission.  No transaction of a dispute gets in:
\* writeTransactions stops at it.  PerformFraud adds one that was never run.
Build(n) ==
    /\ wpc[n] = "build"
    /\ LET p == chain[n].head
           b == [Genesis EXCEPT !.parent = p, !.number = p.number + 1, !.miner = n,
                                !.full = WithTxs, !.ok = ~primed[n], !.st = p.st, !.id = built]
       IN  /\ wblk' = [wblk EXCEPT ![n] = b]
           /\ inflight' = inflight \cup {b}
    /\ primed' = [primed EXCEPT ![n] = FALSE]
    /\ wpc' = [wpc EXCEPT ![n] = "wait"]
    /\ built' = built + 1
    /\ UNCHANGED <<avail, gossip, chain, pool, t, loop, resolver, tower, primes, failures>>

\* The rest of writeBlock, once the block is in Avail.
Included(n) ==
    /\ wpc[n] = "wait"
    /\ InAvail(wblk[n])
    /\ LET c == Insert(chain[n], wblk[n])
       IN  /\ chain' = [chain EXCEPT ![n] = c]
           /\ pool' = [pool EXCEPT ![n] = ResetWithHeaders(@, c, wblk[n])]
    /\ wpc' = [wpc EXCEPT ![n] = "idle"]
    /\ wblk' = [wblk EXCEPT ![n] = Nil]
    /\ UNCHANGED <<net, t, loop, resolver, primed, tower, bounds>>

SendFailed(n) ==
    /\ wpc[n] = "wait"
    /\ failures < MaxFailures
    /\ failures' = failures + 1
    /\ inflight' \in {inflight, inflight \ {wblk[n]}}
    /\ wpc' = [wpc EXCEPT ![n] = "idle"]
    /\ wblk' = [wblk EXCEPT ![n] = Nil]
    /\ UNCHANGED <<avail, gossip, chain, pool, t, loop, resolver, primed, tower, built, primes>>

-----------------------------------------------------------------------------
(* A watchtower, runWatchTower.                                            *)

TowerReceive(w) ==
    /\ rest[w] = <<>> /\ proof[w] = Nil
    /\ t[w] < Len(avail)
    /\ t' = [t EXCEPT ![w] = @ + 1]
    /\ rest' = [rest EXCEPT ![w] = avail[t[w] + 1]]
    /\ UNCHANGED <<net, chain, pool, loop, resolver, writer, proof, bounds>>

\* The transaction that accuses the miner of b, with the nonce the account of
\* w has before b.  It does not name the block.
Accusation(w, b) == [from |-> w, accused |-> b.miner, nonce |-> b.parent.st.nonce[w]]

\* Mutant: the fraud proof is built on the accused block.
FraudProofOnAccused(w, b) ==
    [Genesis EXCEPT !.parent = b, !.number = b.number + 1, !.miner = w,
                    !.tx = Accusation(w, b), !.proofOf = b,
                    !.st = BeginDispute(b.st, Accusation(w, b))]

\* ConstructFraudproof, a block beside the accused one.
FraudProof(w, b) ==
    [Genesis EXCEPT !.parent = b.parent, !.number = b.parent.number + 1, !.miner = w,
                    !.tx = Accusation(w, b), !.proofOf = b,
                    !.st = BeginDispute(b.parent.st, Accusation(w, b))]

\* Mutant: the verification is not asked.
AccusesAll(w, c, p, b) ==
    /\ w \in c.head.st.towers
    /\ VerifyHeader(c.head.st, b)
    /\ b.proofOf = Nil
    /\ b.parent \in DOMAIN c.td
    /\ Accusation(w, b) \in AddTx(p, c, Accusation(w, b)) \ p

\* Whether w, after writing b, accuses it: w is staked, the signer of b active,
\* b no fraud proof and its parent known, and the execution of b fails or w is
\* mistaken.  The pool must take the transaction.
Accuses(w, c, p, b) ==
    /\ w \in c.head.st.towers
    /\ VerifyHeader(c.head.st, b)
    /\ b.proofOf = Nil
    /\ b.parent \in DOMAIN c.td
    /\ ~VerifyFinalizedBlock(c, b, TRUE) \/ w \in Mistaken
    /\ Accusation(w, b) \in AddTx(p, c, Accusation(w, b)) \ p

\* One edge block: written whatever it is, then checked.  The transaction is
\* in the pool and gossiped before the fraud proof is submitted.
TowerBlock(w) ==
    /\ rest[w] # <<>> /\ proof[w] = Nil
    /\ rest' = [rest EXCEPT ![w] = Tail(@)]
    /\ LET b == Head(rest[w])
           c == Insert(chain[w], b)
           p == ResetWithHeaders(pool[w], c, b)
           tx == Accusation(w, b)
       IN  /\ chain' = [chain EXCEPT ![w] = c]
           /\ \/ /\ Accuses(w, c, p, b)
                 /\ pool' = [pool EXCEPT ![w] = p \cup {tx}]
                 /\ gossip' = [n \in Node |-> IF n = w THEN gossip[n] ELSE gossip[n] \cup {tx}]
                 /\ proof' = [proof EXCEPT ![w] = FraudProof(w, b)]
                 /\ inflight' = inflight \cup {FraudProof(w, b)}
              \/ /\ ~Accuses(w, c, p, b) \/ VerifyFinalizedBlock(c, b, TRUE)
                 /\ pool' = [pool EXCEPT ![w] = p]
                 /\ UNCHANGED <<gossip, proof, inflight>>
    /\ UNCHANGED <<avail, t, loop, resolver, writer, bounds>>

ProofIncluded(w) ==
    /\ proof[w] # Nil /\ InAvail(proof[w])
    /\ proof' = [proof EXCEPT ![w] = Nil]
    /\ UNCHANGED <<net, chain, pool, t, loop, resolver, writer, rest, bounds>>

ProofFailed(w) ==
    /\ proof[w] # Nil
    /\ failures < MaxFailures
    /\ failures' = failures + 1
    /\ inflight' \in {inflight, inflight \ {proof[w]}}
    /\ proof' = [proof EXCEPT ![w] = Nil]
    /\ UNCHANGED <<avail, gossip, chain, pool, t, loop, resolver, writer, rest, built, primes>>

-----------------------------------------------------------------------------
\* The bounded Avail is used up.
Horizon == Len(avail) = MaxAvail /\ UNCHANGED vars

MainLoop(n) ==
    \/ Apply(n) \/ Decide(n)
    \/ CannotSlash(n) \/ BeginSlash(n) \/ BeginIncluded(n) \/ SlashIncluded(n)
Watcher(n) == Peek(n) \/ Stop(n)
Writer(n) == Build(n) \/ Included(n)
WatchTower(w) == TowerReceive(w) \/ TowerBlock(w) \/ ProofIncluded(w)

\* What a running system goes on doing: Avail makes blocks, gossip arrives,
\* and the threads of the nodes work.
Progress ==
    \/ NewAvailBlock
    \/ \E n \in Node : Gossip(n)
    \/ \E n \in Sequencer : MainLoop(n) \/ Watcher(n) \/ Writer(n)
    \/ \E w \in Tower : WatchTower(w)

Next ==
    \/ Progress \/ Horizon
    \/ \E n \in Sequencer : Tick(n) \/ Prime(n) \/ SlashFailed(n) \/ SendFailed(n)
    \/ \E w \in Tower : ProofFailed(w)

Spec == Init /\ [][Next]_vars

\* No thread is starved.  Every step leaves its state for good, so the
\* fairness of Progress is that of each of its disjuncts.
FairSpec == Spec /\ WF_vars(Progress)
-----------------------------------------------------------------------------

\* The blocks of the chain that ends in h.
Path(h) ==
    LET up[i \in 0..h.number] ==
            IF i = 0 THEN h
            ELSE IF up[i - 1].parent = Nil THEN up[i - 1] ELSE up[i - 1].parent
    IN  Range(up)

\* "We cannot write the fraud proof block to the blockchain at all": although
\* the guard lets an unknown fraud proof through to WriteBlock, no node ever
\* stores one, because the accused block has taken its number before.
FraudProofUnwritten ==
    \A n \in Node : \A b \in DOMAIN chain[n].td : b.proofOf = Nil

\* No participant is fined on anyone's chain except for a bad block of its
\* own.
FairFine ==
    \A n \in Node : \A b \in DOMAIN chain[n].td :
        b.fined # Nil => b.fined = b.endOf.proofOf.miner /\ ~b.endOf.proofOf.ok

\* On the chain of any node a bad block is fined at most once.
SingleFine ==
    \A n \in Node : \A a, b \in Path(chain[n].head) :
        a.fined # Nil /\ b.fined # Nil /\ a.endOf.proofOf = b.endOf.proofOf => a = b

OnBadChain(n) == \E b \in Path(chain[n].head) : ~b.ok

\* "Following the production of a fraudulent block by the "malicious"
\* sequencer, normal operations will be resumed": the stop that a begin-dispute
\* transaction imposes on a sequencer is lifted again.
ResumesAfterFraud == \A n \in Sequencer : disabled[n] ~> ~disabled[n]

\* The same as far as it holds, and for all sequencers at once: only a failed
\* submission keeps a chain disabled for good.
Resumes == []<>(failures > 0 \/ \A n \in Sequencer : ~disabled[n])

\* Unless a submission fails, in the end all nodes, the fined one and the
\* watchtowers included, are on one chain, with no bad block on it.
Recovers ==
    <>[](\/ failures > 0
         \/ /\ \A m, n \in Node : chain[m].head = chain[n].head
            /\ \A n \in Node : ~OnBadChain(n))

\* "it can get node into the disputed mode even if dispute mode is already
\* resolved for that specific transaction. This check makes sure we bypass that
\* situation": no transaction stops a chain that has handled the end of its
\* dispute.
StaysResolved ==
    [][\A n \in Sequencer : ~disabled[n] /\ disabled'[n] =>
           \A i \in 1..t[n] : \A b \in Range(avail[i]) :
               b.endOf # Nil => b.endOf.tx # lastTx'[n]]_vars

\* "It first generates a "begin dispute resolution" block, followed by a
\* "slash" block": the slash block has the begin block behind it.
SlashFollowsBegin ==
    \A n \in Sequencer : pc[n] = "slash" =>
        \E b \in Path(own[n]) : b.tx = fraudBlock[n].tx

=============================================================================
