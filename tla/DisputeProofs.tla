--------------------------- MODULE DisputeProofs ----------------------------
(***************************************************************************)
(* Who is fined, for any number of sequencers and watchtowers, however far *)
(* the nodes are behind Avail and whichever submissions fail.              *)
(*                                                                         *)
(* FairFine speaks of the blocks in the stores.  What is inductive speaks  *)
(* of the blocks that were ever submitted, U: whoever makes a block makes  *)
(* it from such blocks, and Just says of each what the next one needs.  A  *)
(* slash block names its victim after the begin block of its sequencer,    *)
(* so Loops follows that block from BeginSlash to BeginIncluded.           *)
(***************************************************************************)
EXTENDS Dispute, WellFoundedInduction, FiniteSetTheorems, TLAPS

-----------------------------------------------------------------------------
(* Numbers.                                                                *)

\* A set with 0 and the successor of each of its numbers has all of them.
LEMMA NumberInduction ==
    ASSUME NEW S, 0 \in S, \A k \in Nat : k \in S => k + 1 \in S
    PROVE  Nat \subseteq S
<1> DEFINE T == Nat \ S
           R == OpToRel(<, Nat)
<1>1. SUFFICES ASSUME T # {} PROVE FALSE
  BY Zenon
<1>2. IsWellFoundedOn(R, Nat)
  BY NatLessThanWellFounded, Zenon
<1>3. PICK x \in T : \A y \in T : <<y, x>> \notin R
  <2>1. T \subseteq Nat
    BY Zenon
  <2> HIDE DEF R, T
  <2> QED
    BY <1>1, <1>2, <2>1, WFMin, Zenon
<1>4. x \in Nat /\ x # 0
  BY <1>3, Zenon
<1>5. x - 1 \in Nat /\ <<x - 1, x>> \in R
  BY <1>4 DEF OpToRel
<1>6. x - 1 \in S
  BY <1>3, <1>5, Zenon
<1>7. (x - 1) + 1 \in S
  BY <1>5, <1>6, Zenon
<1>8. (x - 1) + 1 = x
  BY <1>4
<1> QED
  BY <1>7, <1>8, Zenon

\* A sequence is a function on 1..n, for any n.
LEMMA FunctionIsSeq ==
    ASSUME NEW S, NEW n \in Nat, NEW f \in [1..n -> S]
    PROVE  f \in Seq(S)
OBVIOUS

\* A sequence over a set is one over any larger set.
LEMMA SeqMonotonic ==
    ASSUME NEW S, NEW T, S \subseteq T
    PROVE  Seq(S) \subseteq Seq(T)
OBVIOUS

\* One more element.
LEMMA Appended ==
    ASSUME NEW S, NEW s \in Seq(S), NEW e \in S
    PROVE  Append(s, e) \in Seq(S)
OBVIOUS

\* A set of numbers has a least one.
LEMMA Least ==
    ASSUME NEW S, S \subseteq Nat, S # {}
    PROVE  Min(S) \in S
<1> DEFINE R == OpToRel(<, Nat)
<1>1. IsWellFoundedOn(R, Nat)
  BY NatLessThanWellFounded, Zenon
<1>2. PICK x \in S : \A y \in S : <<y, x>> \notin R
  <2> HIDE DEF R
  <2> QED
    BY <1>1, WFMin, Zenon
<1>3. ASSUME NEW y \in S PROVE x <= y
  <2>1. x \in Nat /\ y \in Nat
    BY Zenon
  <2>2. <<y, x>> \in R <=> y < x
    BY <2>1, Zenon DEF OpToRel
  <2> HIDE DEF R
  <2>3. ~(y < x)
    BY <1>2, <2>2, Zenon
  <2> QED
    BY <2>1, <2>3, SMTT(30)
<1> QED
  BY <1>3, Zenon DEF Min

-----------------------------------------------------------------------------
(* The inductive invariant.                                                *)

\* The states of the staking contract.
State == [staked : SUBSET Sequencer, towers : SUBSET Tower,
          disputes : SUBSET (Node \X Tower), nonce : [Tower -> Nat]]

\* A fraud proof is a watchtower's and accuses a bad block of a sequencer.
Proves(f) ==
    /\ f.proofOf # Nil
    /\ ~f.proofOf.ok /\ f.proofOf.miner \in Sequencer /\ f.proofOf.parent.st \in State
    /\ f.miner \in Tower /\ f.tx \in Tx

\* A submitted block.  Only a block that begins a dispute may have a number
\* that does not follow its parent's, and a fine is for the accused block.
Just(b) ==
    /\ b.miner \in Node /\ b.difficulty \in Nat /\ b.st \in State
    /\ b.tx = Nil => b.number = b.parent.number + 1
    /\ b.ok \/ b.miner \in Sequencer
    /\ b.proofOf # Nil => Proves(b)
    /\ b.fined # Nil => b.fined = b.endOf.proofOf.miner /\ ~b.endOf.proofOf.ok

\* A store of blocks in V, with its weights.
Store(c, V) ==
    /\ DOMAIN c.td \subseteq V /\ c.head \in DOMAIN c.td
    /\ \A h \in DOMAIN c.td : c.td[h] \in Nat

Net(U) ==
    /\ \A b \in U : Just(b)
    /\ IsFiniteSet(inflight) /\ inflight \in SUBSET U
    /\ avail \in Seq(Seq(U)) /\ t \in [Node -> Nat]

Stores(U) == DOMAIN chain = Node /\ \A n \in Node : Store(chain[n], U \cup {Genesis})

\* The fraud block is a fraud proof of Avail; while slashNode waits it stays,
\* and the begin block is one that forks off before the accused block.
Loops(U) ==
    /\ DOMAIN pc = Sequencer /\ DOMAIN own = Sequencer /\ DOMAIN fraudBlock = Sequencer
    /\ \A n \in Sequencer :
           /\ fraudBlock[n] # Nil => fraudBlock[n] \in U /\ fraudBlock[n].proofOf # Nil
           /\ pc[n] \in {"begin", "slash"} => fraudBlock[n] # Nil
           /\ pc[n] = "begin" => own[n].difficulty > 0

Towers(U) == rest \in [Tower -> Seq(U)]

Made(U) == Net(U) /\ Stores(U) /\ Loops(U) /\ Towers(U)

IInv == \E U : Made(U)

-----------------------------------------------------------------------------
(* What a store holds after a write, and after the blocks of Avail.        *)

\* A write keeps a store within its blocks and its difficulties numbers.
LEMMA InsertStore ==
    ASSUME NEW c, NEW b, NEW V, Store(c, V), b \in V, b.difficulty \in Nat
    PROVE  Store(Insert(c, b), V)
<1>1. CASE b.number <= c.head.number \/ b.parent \notin DOMAIN c.td
  BY <1>1, Zenon DEF Insert
<1>2. CASE ~(b.number <= c.head.number \/ b.parent \notin DOMAIN c.td)
  <2> DEFINE w == c.td[b.parent] + b.difficulty
             d == Insert(c, b)
  <2>1. w \in Nat
    BY <1>2 DEF Store
  <2>2. d.td = Put(c.td, b, w) /\ d.head \in {b, c.head}
    BY <1>2, Zenon DEF Insert
  <2> HIDE DEF d, w
  <2>3. Store(d, V)
    BY <2>1, <2>2, Zenon DEF Store, Put
  <2> QED
    BY <2>3, Zenon DEF d
<1> QED
  BY <1>1, <1>2, Zenon

\* One edge block is written or not, and the fraud block stays or is cleared.
LEMMA HandleBlockKeeps ==
    ASSUME NEW s, NEW b, NEW V, Store(s.chain, V), b \in V, b.difficulty \in Nat
    PROVE  /\ Store(HandleBlock(s, b).chain, V)
           /\ HandleBlock(s, b).fraud \in {Nil, s.fraud}
<1>1. HandleBlock(s, b).chain \in {s.chain, Insert(s.chain, b)}
  BY Zenon DEF HandleBlock
<1>2. HandleBlock(s, b).fraud \in {Nil, s.fraud}
  BY Zenon DEF HandleBlock
<1> QED
  BY <1>1, <1>2, InsertStore, Zenon

\* All edge blocks of an Avail block.
LEMMA HandleBlocksKeep ==
    ASSUME NEW s, NEW bs, NEW V, Len(bs) \in Nat, Store(s.chain, V),
           \A k \in 1..Len(bs) : bs[k] \in V /\ bs[k].difficulty \in Nat
    PROVE  /\ Store(HandleBlocks(s, bs).chain, V)
           /\ HandleBlocks(s, bs).fraud \in {Nil, s.fraud}
<1> DEFINE Steps(w, k) ==
               w = [j \in 0..k |-> IF j = 0 THEN s ELSE HandleBlock(w[j - 1], bs[j])]
           Reached == {k \in Nat : \E w : Steps(w, k)}
<1>1. \E w : Steps(w, Len(bs))
  <2>1. 0 \in Reached
    <3>1. Steps([j \in 0..0 |-> s], 0)
      OBVIOUS
    <3> QED
      BY <3>1, Zenon
  <2>2. ASSUME NEW k \in Nat, k \in Reached PROVE k + 1 \in Reached
    <3>1. PICK w : Steps(w, k)
      BY <2>2, Zenon
    <3> DEFINE v == [j \in 0..k + 1 |-> IF j = k + 1 THEN HandleBlock(w[k], bs[k + 1]) ELSE w[j]]
    <3>2. ASSUME NEW j \in 0..k + 1
          PROVE  v[j] = IF j = 0 THEN s ELSE HandleBlock(v[j - 1], bs[j])
      <4>1. CASE j = k + 1
        <5>1. v[k] = w[k]
          OBVIOUS
        <5> QED
          BY <4>1, <5>1
      <4>2. CASE j \in 1..k
        <5>1. v[j] = w[j] /\ v[j - 1] = w[j - 1]
          BY <4>2
        <5>2. w[j] = HandleBlock(w[j - 1], bs[j])
          BY <3>1, <4>2
        <5> QED
          BY <4>2, <5>1, <5>2, SMTT(30)
      <4>3. CASE j = 0
        BY <3>1, <4>3
      <4> QED
        BY <4>1, <4>2, <4>3
    <3>3. Steps(v, k + 1)
      BY <3>2, Zenon
    <3>4. \E w1 : Steps(w1, k + 1)
      <4> HIDE DEF v, Steps
      <4> QED
        BY <3>3, Zenon
    <3> QED
      BY <3>4, SMTT(30)
  <2>3. Nat \subseteq Reached
    <3> HIDE DEF Reached
    <3> QED
      BY <2>1, <2>2, NumberInduction, Zenon
  <2> QED
    BY <2>3, Zenon
<1> DEFINE after == CHOOSE w : Steps(w, Len(bs))
<1>2. Steps(after, Len(bs))
  <2> HIDE DEF Steps
  <2> QED
    BY <1>1, Zenon
<1>3. HandleBlocks(s, bs) = after[Len(bs)]
  BY Zenon DEF HandleBlocks
<1> HIDE DEF after
<1> DEFINE Keeps(r) == Store(r.chain, V) /\ r.fraud \in {Nil, s.fraud}
           Good == {k \in Nat : k <= Len(bs) => Keeps(after[k])}
<1>4. 0 \in Good
  BY <1>2
<1>5. ASSUME NEW k \in Nat, k \in Good PROVE k + 1 \in Good
  <2>1. SUFFICES ASSUME k + 1 <= Len(bs) PROVE Keeps(after[k + 1])
    OBVIOUS
  <2>2. Keeps(after[k])
    BY <1>5, <2>1
  <2>3. after[k + 1] = HandleBlock(after[k], bs[k + 1])
    BY <1>2, <2>1
  <2>4. bs[k + 1] \in V /\ bs[k + 1].difficulty \in Nat
    BY <2>1
  <2> QED
    BY <2>2, <2>3, <2>4, HandleBlockKeeps, SMTT(30)
<1>6. Nat \subseteq Good
  <2> HIDE DEF Good
  <2> QED
    BY <1>4, <1>5, NumberInduction
<1> QED
  BY <1>3, <1>6

\* CheckAndSetFraudBlock takes a fraud proof of the Avail block or changes nothing.
LEMMA FirstProofIs ==
    ASSUME NEW bs, NEW old, Len(bs) \in Nat, DOMAIN bs = 1..Len(bs), FirstProof(bs, old) # old
    PROVE  \E k \in 1..Len(bs) : FirstProof(bs, old) = bs[k] /\ bs[k].proofOf # Nil
<1> DEFINE S == {k \in DOMAIN bs : bs[k].proofOf # Nil}
<1>1. S # {} /\ FirstProof(bs, old) = bs[Min(S)]
  BY Zenon DEF FirstProof
<1>2. Min(S) \in S
  <2>1. S \subseteq Nat
    OBVIOUS
  <2> HIDE DEF S
  <2> QED
    BY <1>1, <2>1, Least, Zenon
<1> DEFINE m == Min(S)
<1> HIDE DEF m
<1>3. m \in 1..Len(bs) /\ bs[m].proofOf # Nil /\ FirstProof(bs, old) = bs[m]
  BY <1>1, <1>2, Zenon DEF m
<1> QED
  BY <1>3, Zenon
-----------------------------------------------------------------------------
(* Every block that is made is just.                                       *)

\* The genesis block carries a well-formed contract and fines nobody.
LEMMA GenesisState == Genesis.st \in State /\ Genesis.fined = Nil
BY Zenon DEF Genesis, State

\* A transaction against a sequencer or a slash leaves the contract well-formed.
LEMMA ContractState ==
    ASSUME NEW st \in State
    PROVE  /\ \A tx \in Tx : BeginDispute(st, tx) \in State
           /\ \A by, addr : SlashStaker(st, by, addr) \in State
<1>1. ASSUME NEW tx \in Tx PROVE BeginDispute(st, tx) \in State
  <2>1. tx.from \in Tower /\ tx.accused \in Node
    BY Zenon DEF Tx
  <2>2. [st.nonce EXCEPT ![tx.from] = @ + 1] \in [Tower -> Nat]
    BY <2>1 DEF State
  <2> DEFINE d == IF tx.from \in st.towers THEN st.disputes \cup {<<tx.accused, tx.from>>}
                  ELSE st.disputes
             k == [st.nonce EXCEPT ![tx.from] = @ + 1]
  <2>3. d \in SUBSET (Node \X Tower)
    BY <2>1 DEF State
  <2>4. BeginDispute(st, tx) =
            [staked |-> st.staked, towers |-> st.towers, disputes |-> d, nonce |-> k]
    <3>1. BeginDispute(st, tx) = [st EXCEPT !.nonce = k, !.disputes = d]
      BY <2>1, Zenon DEF BeginDispute
    <3>2. st = [staked |-> st.staked, towers |-> st.towers,
                disputes |-> st.disputes, nonce |-> st.nonce]
      BY Zenon DEF State
    <3> HIDE DEF d, k
    <3> QED
      BY <3>1, <3>2, Zenon
  <2>5. st.staked \in SUBSET Sequencer /\ st.towers \in SUBSET Tower
    BY Zenon DEF State
  <2> HIDE DEF d, k
  <2>6. k \in [Tower -> Nat]
    BY <2>2, Zenon DEF k
  <2> QED
    BY <2>3, <2>4, <2>5, <2>6 DEF State
<1>2. ASSUME NEW by, NEW addr PROVE SlashStaker(st, by, addr) \in State
  BY Zenon DEF SlashStaker, State
<1> QED
  BY <1>1, <1>2, Zenon

\* A writer's block.
LEMMA BuildJust ==
    ASSUME NEW n \in Sequencer, NEW p, p.st \in State, NEW full, NEW ok, NEW id
    PROVE  Just([Genesis EXCEPT !.parent = p, !.number = p.number + 1, !.miner = n,
                                !.full = full, !.ok = ok, !.st = p.st, !.id = id])
BY Zenon DEF Just, Genesis, Node

\* The begin block: its sequencer finds the accused block bad as well, and it
\* is heavier than the head.
LEMMA BeginJust ==
    ASSUME NEW n \in Sequencer, NEW f, Proves(f),
           chain[n].td[chain[n].head] \in Nat
    PROVE  Just(BeginBlock(n, f)) /\ BeginBlock(n, f).difficulty > 0
<1> DEFINE c == chain[n]
           b == BeginBlock(n, f)
<1>1. Guilty(n, f) # f.miner
  BY ConstantAssumption, Zenon DEF Proves, Guilty, CheckFails, VerifyFinalizedBlock, VerifyBlockBody
<1>2. f.tx # Nil /\ f.tx \in Tx
  BY NilAssumption, Zenon DEF Proves
<1>3. BeginDispute(f.proofOf.parent.st, f.tx) \in State
  BY <1>2, ContractState, Zenon DEF Proves
<1>4. /\ b.difficulty = c.td[c.head] + 1 /\ b.miner = n /\ b.tx = f.tx /\ b.ok
      /\ b.proofOf = Nil /\ b.fined = Nil /\ b.st = BeginDispute(f.proofOf.parent.st, f.tx)
  BY <1>1, Zenon DEF BeginBlock, Genesis
<1> HIDE DEF b
<1>5. b.difficulty \in Nat /\ b.difficulty > 0
  BY <1>4
<1>6. b.miner \in Node /\ b.st \in State /\ b.tx # Nil
  BY <1>2, <1>3, <1>4, Zenon DEF Node
<1>7. Just(b)
  BY <1>4, <1>5, <1>6, Zenon DEF Just
<1> QED
  BY <1>5, <1>7, Zenon DEF b

\* The slash block is against the accused when the begin block forks off.
LEMMA SlashJust ==
    ASSUME NEW n \in Sequencer, NEW c, c.head.st \in State,
           NEW begin, begin.difficulty > 0, NEW f, Proves(f)
    PROVE  Just(SlashBlock(n, c, begin, f))
<1> DEFINE b == SlashBlock(n, c, begin, f)
<1>1. SlashStaker(c.head.st, n, f.proofOf.miner) \in State
  BY ContractState, Zenon
<1>2. /\ b.difficulty = 0 /\ b.miner = n /\ b.ok /\ b.proofOf = Nil
      /\ b.parent = c.head /\ b.number = c.head.number + 1
      /\ b.fined = f.proofOf.miner /\ b.endOf = f
      /\ b.st = SlashStaker(c.head.st, n, f.proofOf.miner)
  BY Zenon DEF SlashBlock, Genesis
<1> HIDE DEF b
<1>3. Just(b)
  BY <1>1, <1>2 DEF Just, Node, Proves
<1> QED
  BY <1>3, Zenon DEF b

\* A fraud proof, of a watchtower that is not mistaken: the accused block has
\* the number it should have, so its execution fails.
LEMMA ProofJust ==
    ASSUME Mistaken = {}, NEW w \in Tower, NEW c, NEW p, NEW b, Just(b), b.parent.st \in State,
           Accuses(w, c, p, b)
    PROVE  Just(FraudProof(w, b))
<1> DEFINE f == FraudProof(w, b)
<1>1. ~b.ok /\ b.miner \in Sequencer
  BY Zenon DEF Accuses, VerifyFinalizedBlock, VerifyBlockParent, VerifyBlockBody, Just
<1>2. Accusation(w, b) \in Tx
  BY Zenon DEF Accusation, Tx, State, Just
<1>3. BeginDispute(b.parent.st, Accusation(w, b)) \in State
  BY <1>2, ContractState, Zenon
<1>4. /\ f.difficulty = 0 /\ f.miner = w /\ f.ok /\ f.proofOf = b
      /\ f.parent = b.parent /\ f.number = b.parent.number + 1
      /\ f.fined = Nil /\ f.tx = Accusation(w, b)
      /\ f.st = BeginDispute(b.parent.st, Accusation(w, b))
  BY ZenonT(30) DEF FraudProof, Genesis
<1> HIDE DEF f
<1>5. f.proofOf # Nil => Proves(f)
  BY <1>1, <1>2, <1>4, Zenon DEF Proves
<1>6. f.miner \in Node /\ f.difficulty \in Nat /\ f.st \in State
  BY <1>3, <1>4 DEF Node
<1>7. Just(f)
  BY <1>4, <1>5, <1>6, Zenon DEF Just
<1> QED
  BY <1>7, Zenon DEF f
-----------------------------------------------------------------------------
(* The invariant is inductive.                                             *)

\* The initial state satisfies the invariant: nothing is submitted yet.
LEMMA Start == Init => IInv
<1> SUFFICES ASSUME Init PROVE Made({})
  BY Zenon DEF IInv
<1>1. Net({})
  <2>1. WindowLen - 1 \in Nat
    BY ConstantAssumption
  <2>2. avail \in [1..WindowLen - 1 -> Seq({})]
    BY DEF Init
  <2>3. avail \in Seq(Seq({}))
    BY <2>1, <2>2, FunctionIsSeq, Zenon
  <2> QED
    BY <2>1, <2>3, FS_EmptySet, Zenon DEF Init, Net
<1>2. Stores({})
  <2>1. Genesis.difficulty = 0
    BY Zenon DEF Genesis
  <2> QED
    BY <2>1 DEF Init, Stores, Store, NewStore
<1>3. Loops({}) /\ Towers({})
  BY DEF Init, Loops, Towers
<1> QED
  BY <1>1, <1>2, <1>3, Zenon DEF Made

\* One more block.
LEMMA Widen ==
    ASSUME NEW U, Made(U), NEW b, Just(b)
    PROVE  Made(U \cup {b})
<1> DEFINE V == U \cup {b}
<1>1. U \subseteq V /\ \A a \in V : a \in U \/ a = b
  BY Zenon
<1> HIDE DEF V
<1>2. Seq(U) \subseteq Seq(V)
  BY <1>1, SeqMonotonic, Zenon
<1>3. Seq(Seq(U)) \subseteq Seq(Seq(V))
  BY <1>2, SeqMonotonic, Zenon
<1>4. Net(V)
  BY <1>1, <1>3, Zenon DEF Made, Net
<1>5. Stores(V)
  BY <1>1, Zenon DEF Made, Stores, Store
<1>6. Loops(V)
  BY <1>1, Zenon DEF Made, Loops
<1>7. Towers(V)
  BY <1>2, Zenon DEF Made, Towers
<1> QED
  BY <1>4, <1>5, <1>6, <1>7, Zenon DEF Made, V

\* What is in Avail was submitted, and a store that writes such a block
\* remains one.
LEMMA AvailIn ==
    ASSUME NEW U, Made(U)
    PROVE  /\ Len(avail) \in Nat
           /\ \A i \in 1..Len(avail) :
                  /\ avail[i] \in Seq(U) /\ Len(avail[i]) \in Nat
                  /\ DOMAIN avail[i] = 1..Len(avail[i])
                  /\ \A k \in 1..Len(avail[i]) : avail[i][k] \in U
           /\ \A b : InAvail(b) => b \in U
<1>1. avail \in Seq(Seq(U))
  BY Zenon DEF Made, Net
<1>2. Len(avail) \in Nat /\ DOMAIN avail = 1..Len(avail)
  BY <1>1
<1>3. ASSUME NEW i \in 1..Len(avail)
      PROVE  /\ avail[i] \in Seq(U) /\ Len(avail[i]) \in Nat
             /\ DOMAIN avail[i] = 1..Len(avail[i])
             /\ \A k \in 1..Len(avail[i]) : avail[i][k] \in U
  <2>1. avail[i] \in Seq(U)
    BY <1>1
  <2> QED
    BY <2>1
<1>4. ASSUME NEW b, InAvail(b) PROVE b \in U
  <2>1. PICK i \in DOMAIN avail : b \in Range(avail[i])
    BY <1>4, Zenon DEF InAvail
  <2> QED
    BY <1>2, <1>3, <2>1, Zenon DEF Range
<1> QED
  BY <1>2, <1>3, <1>4, Zenon

\* A node that writes a submitted block still has only submitted blocks, each with a
\* well-formed contract.
LEMMA StoreWrites ==
    ASSUME NEW U, Made(U), NEW n \in Node, NEW b \in U
    PROVE  /\ Store(Insert(chain[n], b), U \cup {Genesis})
           /\ Insert(chain[n], b).head.st \in State
           /\ \A h \in DOMAIN Insert(chain[n], b).td : h.st \in State
<1> DEFINE c == chain[n]
           d == Insert(chain[n], b)
           V == U \cup {Genesis}
<1>1. Store(c, V) /\ b \in V /\ b.difficulty \in Nat
  BY Zenon DEF Made, Stores, Net, Just
<1>2. \A h \in V : h.st \in State
  BY GenesisState, Zenon DEF Made, Net, Just
<1> HIDE DEF V
<1>3. Store(d, V)
  BY <1>1, InsertStore, Zenon
<1> HIDE DEF d
<1>4. \A h \in DOMAIN d.td : h.st \in State
  BY <1>2, <1>3, Zenon DEF Store
<1>5. d.head.st \in State
  BY <1>3, <1>4, Zenon DEF Store
<1> QED
  BY <1>3, <1>4, <1>5, Zenon DEF d, V

\* What an action does not touch.
LEMMA Frame ==
    ASSUME NEW U, Made(U)
    PROVE  /\ UNCHANGED <<avail, inflight, t>> => Net(U)'
           /\ UNCHANGED chain => Stores(U)'
           /\ UNCHANGED <<pc, own, fraudBlock>> => Loops(U)'
           /\ UNCHANGED rest => Towers(U)'
<1>1. UNCHANGED <<avail, inflight, t>> => Net(U)'
  BY Zenon DEF Made, Net
<1>2. UNCHANGED chain => Stores(U)'
  BY Zenon DEF Made, Stores
<1>3. UNCHANGED <<pc, own, fraudBlock>> => Loops(U)'
  BY Zenon DEF Made, Loops
<1>4. UNCHANGED rest => Towers(U)'
  BY Zenon DEF Made, Towers
<1> QED
  BY <1>1, <1>2, <1>3, <1>4, Zenon

\* Avail and the submissions that fail.
LEMMA NetStep ==
    ASSUME NEW U, Made(U),
           \/ NewAvailBlock
           \/ \E n \in Sequencer : SlashFailed(n) \/ SendFailed(n)
           \/ \E w \in Tower : ProofFailed(w)
    PROVE  Made(U)'
<1>1. CASE NewAvailBlock
  <2>0. PICK S \in SUBSET inflight :
            /\ \E q \in Bijection(1..Cardinality(S), S) : avail' = Append(avail, q)
            /\ inflight' = inflight \ S
    BY <1>1, Zenon DEF NewAvailBlock
  <2>1. PICK q \in Bijection(1..Cardinality(S), S) : avail' = Append(avail, q)
    BY <2>0, Zenon
  <2>2. IsFiniteSet(inflight) /\ inflight \in SUBSET U /\ avail \in Seq(Seq(U))
    BY Zenon DEF Made, Net
  <2>3. IsFiniteSet(S) /\ IsFiniteSet(inflight')
    <3>1. inflight' \in SUBSET inflight
      BY <2>0, Zenon
    <3> QED
      BY <2>0, <2>2, <3>1, FS_Subset, Zenon
  <2>4. Cardinality(S) \in Nat
    BY <2>3, FS_CardinalityType, Zenon
  <2>5. q \in [1..Cardinality(S) -> S]
    BY <2>1, Zenon DEF Bijection, Injection, Surjection
  <2>6. q \in Seq(U)
    <3>1. q \in [1..Cardinality(S) -> U]
      BY <2>2, <2>5, Zenon
    <3> QED
      BY <2>4, <3>1, FunctionIsSeq, Zenon
  <2>7. avail' \in Seq(Seq(U))
    BY <2>1, <2>2, <2>6, Appended, Zenon
  <2>8. UNCHANGED <<t, chain, pc, own, fraudBlock, rest>>
    BY <1>1, Zenon DEF NewAvailBlock, loop, resolver, tower
  <2>9. Net(U)'
    BY <2>0, <2>2, <2>3, <2>7, <2>8, Zenon DEF Made, Net
  <2> QED
    BY <2>8, <2>9, Frame, Zenon DEF Made
<1>2. ASSUME NEW n \in Sequencer, SlashFailed(n) PROVE Made(U)'
  <2>1. /\ inflight' \in SUBSET inflight
        /\ UNCHANGED <<avail, t, chain, fraudBlock, rest>>
    BY <1>2, Zenon DEF SlashFailed, resolver, tower
  <2>2. own' = [own EXCEPT ![n] = Nil] /\ pc' = [pc EXCEPT ![n] = "recv"]
    BY <1>2, Zenon DEF SlashFailed
  <2>3. Net(U)'
    BY <2>1, FS_Subset, Zenon DEF Made, Net
  <2>4. Loops(U)'
    BY <2>1, <2>2, Zenon DEF Made, Loops
  <2> QED
    BY <2>1, <2>3, <2>4, Frame, Zenon DEF Made
<1>3. ASSUME inflight' \in SUBSET inflight,
             UNCHANGED <<avail, t, chain, pc, own, fraudBlock, rest>>
      PROVE  Made(U)'
  <2>1. Net(U)'
    BY <1>3, FS_Subset, Zenon DEF Made, Net
  <2> QED
    BY <1>3, <2>1, Frame, Zenon DEF Made
<1>4. ASSUME NEW n \in Sequencer, SendFailed(n) PROVE Made(U)'
  BY <1>3, <1>4, Zenon DEF SendFailed, loop, resolver, tower
<1>5. ASSUME NEW w \in Tower, ProofFailed(w) PROVE Made(U)'
  BY <1>3, <1>5, Zenon DEF ProofFailed, loop, resolver, tower
<1> QED
  BY <1>1, <1>2, <1>4, <1>5, Zenon

\* A block is submitted: V is U with it.
LEMMA Submission ==
    ASSUME NEW U, Made(U), NEW b, Just(b), inflight' = inflight \cup {b}, UNCHANGED <<avail, t>>
    PROVE  Made(U \cup {b}) /\ Net(U \cup {b})'
<1> DEFINE V == U \cup {b}
<1>1. Made(V) /\ b \in V
  BY Widen, Zenon
<1> HIDE DEF V
<1>2. IsFiniteSet(inflight')
  BY FS_AddElement, Zenon DEF Made, Net
<1>3. Net(V)'
  BY <1>1, <1>2, Zenon DEF Made, Net
<1> QED
  BY <1>1, <1>3, Zenon DEF V

\* The main loop takes an Avail block.
LEMMA ApplyStep ==
    ASSUME NEW U, Made(U), NEW n \in Sequencer, Apply(n)
    PROVE  Made(U)'
<1> DEFINE bs == avail[t[n] + 1]
           s0 == [chain |-> chain[n], pool |-> pool[n], fraud |-> fraudBlock[n], ended |-> FALSE]
           s == HandleBlocks(s0, bs)
           V == U \cup {Genesis}
<1>1. /\ t[n] < Len(avail) /\ t' = [t EXCEPT ![n] = @ + 1]
      /\ chain' = [chain EXCEPT ![n] = s.chain]
      /\ fraudBlock' = [fraudBlock EXCEPT ![n] = FirstProof(bs, s.fraud)]
      /\ pc' = [pc EXCEPT ![n] = "decide"]
      /\ UNCHANGED <<avail, inflight, own, rest>>
  BY Zenon DEF Apply, net, tower
<1>2. n \in Node /\ t \in [Node -> Nat]
  BY Zenon DEF Node, Made, Net
<1>3. /\ bs \in Seq(U) /\ Len(bs) \in Nat /\ DOMAIN bs = 1..Len(bs)
      /\ \A k \in 1..Len(bs) : bs[k] \in U
  <2>1. t[n] + 1 \in 1..Len(avail)
    <3>1. t[n] \in Nat /\ Len(avail) \in Nat /\ t[n] < Len(avail)
      BY <1>1, <1>2, AvailIn, Zenon
    <3> QED
      BY <3>1
  <2> QED
    BY <2>1, AvailIn, Zenon
<1>4. \A k \in 1..Len(bs) : bs[k] \in V /\ bs[k].difficulty \in Nat
  BY <1>3, Zenon DEF Made, Net, Just
<1>5. Store(s0.chain, V) /\ s0.fraud = fraudBlock[n]
  BY <1>2, Zenon DEF Made, Stores
<1> HIDE DEF bs, s0
<1>6. Store(s.chain, V) /\ s.fraud \in {Nil, fraudBlock[n]}
  <2> HIDE DEF V
  <2> QED
    BY <1>3, <1>4, <1>5, HandleBlocksKeep, Zenon
<1> HIDE DEF s
<1>7. Net(U)'
  BY <1>1, <1>2 DEF Made, Net
<1>8. Stores(U)'
  BY <1>1, <1>2, <1>6, Zenon DEF Made, Stores
<1>9. Loops(U)'
  <2> DEFINE f == FirstProof(bs, s.fraud)
  <2>1. f # Nil => f \in U /\ f.proofOf # Nil
    <3>1. CASE f = s.fraud
      <4>1. fraudBlock[n] # Nil => fraudBlock[n] \in U /\ fraudBlock[n].proofOf # Nil
        BY Zenon DEF Made, Loops
      <4> HIDE DEF f
      <4> QED
        BY <1>6, <3>1, <4>1, Zenon
    <3>2. CASE f # s.fraud
      <4>1. \E k \in 1..Len(bs) : f = bs[k] /\ bs[k].proofOf # Nil
        BY <1>3, <3>2, FirstProofIs, Zenon
      <4> HIDE DEF f
      <4> QED
        BY <1>3, <4>1, Zenon
    <3> QED
      BY <3>1, <3>2, Zenon
  <2> HIDE DEF f
  <2>2. fraudBlock' = [fraudBlock EXCEPT ![n] = f]
    BY <1>1, Zenon DEF f
  <2> QED
    BY <1>1, <2>1, <2>2, Zenon DEF Made, Loops
<1> QED
  BY <1>1, <1>7, <1>8, <1>9, Frame, Zenon DEF Made

\* The blocks that slashNode submits.
LEMMA SlashStep ==
    ASSUME NEW U, Made(U), NEW n \in Sequencer,
           BeginSlash(n) \/ BeginIncluded(n) \/ SlashIncluded(n)
    PROVE  IInv'
<1>1. /\ n \in Node
      /\ Store(chain[n], U \cup {Genesis}) /\ chain[n].td[chain[n].head] \in Nat
  BY Zenon DEF Node, Made, Stores, Store
<1>2. fraudBlock[n] # Nil => Proves(fraudBlock[n])
  BY Zenon DEF Made, Loops, Net, Just
<1>3. CASE BeginSlash(n)
  <2> DEFINE f == fraudBlock[n]
  <2>1. f # Nil
    BY <1>3, Zenon DEF BeginSlash, ReadyToSlash
  <2>2. Just(BeginBlock(n, f)) /\ BeginBlock(n, f).difficulty > 0
    BY <1>1, <1>2, <2>1, BeginJust, Zenon
  <2>3. /\ UNCHANGED <<avail, t, chain, fraudBlock, rest>>
        /\ \/ /\ inflight' = inflight \cup {BeginBlock(n, f)}
              /\ own' = [own EXCEPT ![n] = BeginBlock(n, f)]
              /\ pc' = [pc EXCEPT ![n] = "begin"]
           \/ pc' = [pc EXCEPT ![n] = "recv"] /\ UNCHANGED <<inflight, own>>
    BY <1>3, Zenon DEF BeginSlash, resolver, tower
  <2>4. CASE pc' = [pc EXCEPT ![n] = "recv"] /\ UNCHANGED <<inflight, own>>
    <3>1. Loops(U)'
      BY <2>3, <2>4, Zenon DEF Made, Loops
    <3>2. Made(U)'
      BY <2>3, <2>4, <3>1, Frame, Zenon DEF Made
    <3> QED
      BY <3>2, Zenon DEF IInv
  <2>5. CASE ~(pc' = [pc EXCEPT ![n] = "recv"] /\ UNCHANGED <<inflight, own>>)
    <3>1. PICK b : /\ inflight' = inflight \cup {b} /\ own' = [own EXCEPT ![n] = b]
                   /\ pc' = [pc EXCEPT ![n] = "begin"]
                   /\ Just(b) /\ b.difficulty > 0
      BY <2>2, <2>3, <2>5, Zenon
    <3> DEFINE V == U \cup {b}
    <3>2. Made(V) /\ Net(V)'
      BY <2>3, <3>1, Submission, Zenon
    <3> HIDE DEF V
    <3>3. Loops(V)'
      BY <2>1, <2>3, <3>1, <3>2, Zenon DEF Made, Loops
    <3>4. Made(V)'
      BY <2>3, <3>2, <3>3, Frame, Zenon DEF Made
    <3> QED
      BY <3>4, Zenon DEF IInv
  <2> QED
    BY <2>4, <2>5, Zenon
<1>4. CASE BeginIncluded(n)
  <2> DEFINE c == Insert(chain[n], own[n])
  <2>1. /\ own[n] \in U /\ own[n].difficulty > 0 /\ fraudBlock[n] # Nil
    BY <1>4, AvailIn, Zenon DEF BeginIncluded, Made, Loops
  <2>2. Store(c, U \cup {Genesis}) /\ c.head.st \in State
    BY <1>1, <2>1, StoreWrites, Zenon
  <2>3. /\ UNCHANGED <<avail, t, fraudBlock, rest>>
        /\ chain' = [chain EXCEPT ![n] = c] /\ pc' = [pc EXCEPT ![n] = "slash"]
    BY <1>4, Zenon DEF BeginIncluded, resolver, tower
  <2>4. PICK b : /\ inflight' = inflight \cup {b} /\ own' = [own EXCEPT ![n] = b]
                 /\ b = SlashBlock(n, c, own[n], fraudBlock[n])
    BY <1>4, Zenon DEF BeginIncluded
  <2>5. Just(b)
    BY <1>2, <2>1, <2>2, <2>4, SlashJust, Zenon
  <2> HIDE DEF c
  <2> DEFINE V == U \cup {b}
  <2>6. Made(V) /\ Net(V)'
    BY <2>3, <2>4, <2>5, Submission, Zenon
  <2>7. Store(c, V \cup {Genesis})
    BY <2>2, Zenon DEF Store
  <2> HIDE DEF V
  <2>8. Stores(V)'
    BY <2>3, <2>6, <2>7, Zenon DEF Made, Stores
  <2>9. Loops(V)'
    BY <2>1, <2>3, <2>4, <2>6, Zenon DEF Made, Loops
  <2>10. Made(V)'
    BY <2>3, <2>6, <2>8, <2>9, Frame, Zenon DEF Made
  <2> QED
    BY <2>10 DEF IInv
<1>5. CASE SlashIncluded(n)
  <2> DEFINE c == Insert(chain[n], own[n])
  <2>1. own[n] \in U
    BY <1>5, AvailIn, Zenon DEF SlashIncluded
  <2>2. Store(c, U \cup {Genesis})
    BY <1>1, <2>1, StoreWrites, Zenon
  <2>3. /\ UNCHANGED <<avail, inflight, t, rest>> /\ chain' = [chain EXCEPT ![n] = c]
        /\ pc' = [pc EXCEPT ![n] = "recv"] /\ own' = [own EXCEPT ![n] = Nil]
        /\ fraudBlock' = [fraudBlock EXCEPT ![n] = Nil]
    BY <1>5, Zenon DEF SlashIncluded, net, tower
  <2> HIDE DEF c
  <2>4. Stores(U)'
    BY <2>2, <2>3, Zenon DEF Made, Stores
  <2>5. Loops(U)'
    BY <2>3, Zenon DEF Made, Loops
  <2>6. Made(U)'
    BY <2>3, <2>4, <2>5, Frame, Zenon DEF Made
  <2> QED
    BY <2>6 DEF IInv
<1> QED
  BY <1>3, <1>4, <1>5, Zenon

\* The writer.
LEMMA WriterStep ==
    ASSUME NEW U, Made(U), NEW n \in Sequencer, Build(n) \/ Included(n)
    PROVE  IInv'
<1>1. n \in Node /\ Store(chain[n], U \cup {Genesis}) /\ chain[n].head.st \in State
  BY GenesisState, Zenon DEF Node, Made, Stores, Store, Net, Just
<1>2. CASE Build(n)
  <2> DEFINE p == chain[n].head
  <2>1. UNCHANGED <<avail, t, chain, pc, own, fraudBlock, rest>>
    BY <1>2, Zenon DEF Build, loop, resolver, tower
  <2>2. PICK b : /\ inflight' = inflight \cup {b}
                 /\ b = [Genesis EXCEPT !.parent = p, !.number = p.number + 1, !.miner = n,
                                        !.full = WithTxs, !.ok = ~primed[n], !.st = p.st,
                                        !.id = built]
    BY <1>2, Zenon DEF Build
  <2>3. p.st \in State
    BY <1>1, Zenon
  <2> HIDE DEF p
  <2>4. Just(b)
    BY <2>2, <2>3, BuildJust, Zenon
  <2> DEFINE V == U \cup {b}
  <2>5. Made(V) /\ Net(V)'
    BY <2>1, <2>2, <2>4, Submission, Zenon
  <2> HIDE DEF V
  <2>6. Made(V)'
    BY <2>1, <2>5, Frame, Zenon DEF Made
  <2> QED
    BY <2>6, Zenon DEF IInv
<1>3. CASE Included(n)
  <2> DEFINE c == Insert(chain[n], wblk[n])
  <2>1. wblk[n] \in U
    BY <1>3, AvailIn, Zenon DEF Included
  <2>2. Store(c, U \cup {Genesis})
    BY <1>1, <2>1, StoreWrites, Zenon
  <2>3. /\ UNCHANGED <<avail, inflight, t, pc, own, fraudBlock, rest>>
        /\ chain' = [chain EXCEPT ![n] = c]
    BY <1>3, Zenon DEF Included, net, loop, resolver, tower
  <2> HIDE DEF c
  <2>4. Stores(U)'
    BY <2>2, <2>3, Zenon DEF Made, Stores
  <2>5. Made(U)'
    BY <2>3, <2>4, Frame, Zenon DEF Made
  <2> QED
    BY <2>5, Zenon DEF IInv
<1> QED
  BY <1>2, <1>3, Zenon

\* A watchtower that is not mistaken.
LEMMA TowerStep ==
    ASSUME Mistaken = {}, NEW U, Made(U), NEW w \in Tower, TowerReceive(w) \/ TowerBlock(w)
    PROVE  IInv'
<1>1. w \in Node /\ t \in [Node -> Nat] /\ rest \in [Tower -> Seq(U)]
  BY Zenon DEF Node, Made, Net, Towers
<1>2. CASE TowerReceive(w)
  <2>1. /\ t[w] < Len(avail) /\ t' = [t EXCEPT ![w] = @ + 1]
        /\ rest' = [rest EXCEPT ![w] = avail[t[w] + 1]]
        /\ UNCHANGED <<avail, inflight, chain, pc, own, fraudBlock>>
    BY <1>2, Zenon DEF TowerReceive, net, loop, resolver
  <2>2. t[w] + 1 \in 1..Len(avail)
    <3>1. t[w] \in Nat /\ Len(avail) \in Nat
      BY <1>1, AvailIn, Zenon
    <3> QED
      BY <2>1, <3>1
  <2>3. avail[t[w] + 1] \in Seq(U)
    BY <2>2, AvailIn, Zenon
  <2>4. Net(U)'
    BY <1>1, <2>1 DEF Made, Net
  <2>5. Towers(U)'
    BY <1>1, <2>1, <2>3, Zenon DEF Towers
  <2>6. Made(U)'
    BY <2>1, <2>4, <2>5, Frame, Zenon DEF Made
  <2> QED
    BY <2>6, Zenon DEF IInv
<1>3. CASE TowerBlock(w)
  <2> DEFINE a == Head(rest[w])
             c == Insert(chain[w], a)
             p == ResetWithHeaders(pool[w], c, a)
  <2>1. /\ rest[w] # <<>> /\ rest' = [rest EXCEPT ![w] = Tail(@)]
        /\ chain' = [chain EXCEPT ![w] = c]
        /\ UNCHANGED <<avail, t, pc, own, fraudBlock>>
    BY <1>3, Zenon DEF TowerBlock, loop, resolver
  <2>2. /\ \/ inflight' = inflight
           \/ Accuses(w, c, p, a) /\ inflight' = inflight \cup {FraudProof(w, a)}
    BY <1>3, Zenon DEF TowerBlock
  <2>3. a \in U /\ Tail(rest[w]) \in Seq(U)
    <3>1. rest[w] \in Seq(U)
      BY <1>1, Zenon
    <3> QED
      BY <2>1, <3>1
  <2>4. /\ Store(c, U \cup {Genesis})
        /\ \A h \in DOMAIN c.td : h.st \in State
    BY <1>1, <2>3, StoreWrites, Zenon
  <2>5. Stores(U)'
    <3> HIDE DEF c
    <3> QED
      BY <2>1, <2>4, Zenon DEF Made, Stores
  <2>6. Towers(U)'
    BY <1>1, <2>1, <2>3, SMTT(30) DEF Towers
  <2>7. CASE inflight' = inflight
    <3>1. Made(U)'
      BY <2>1, <2>5, <2>6, <2>7, Frame, Zenon DEF Made
    <3> QED
      BY <3>1, SMTT(30) DEF IInv
  <2>8. CASE Accuses(w, c, p, a) /\ inflight' = inflight \cup {FraudProof(w, a)}
    <3>1. Just(a)
      BY <2>3, Zenon DEF Made, Net
    <3>2. a.parent.st \in State
      <4>1. a.parent \in DOMAIN c.td
        BY <2>8, Zenon DEF Accuses
      <4> QED
        BY <2>4, <4>1, Zenon
    <3> HIDE DEF a, c, p
    <3>3. Just(FraudProof(w, a))
      BY <2>8, <3>1, <3>2, ProofJust, Zenon
    <3>4. PICK b : inflight' = inflight \cup {b} /\ Just(b)
      BY <2>8, <3>3, Zenon
    <3> DEFINE V == U \cup {b}
    <3>5. Made(V) /\ Net(V)'
      BY <2>1, <3>4, Submission, Zenon
    <3>6. U \subseteq V /\ Store(c, V \cup {Genesis})
      BY <2>4, Zenon DEF Store
    <3> HIDE DEF V
    <3>7. Stores(V)'
      BY <2>1, <3>5, <3>6, Zenon DEF Made, Stores
    <3>8. Towers(V)'
      <4>1. Seq(U) \subseteq Seq(V)
        BY <3>6, SeqMonotonic, Zenon
      <4> QED
        BY <2>6, <4>1, Zenon DEF Towers
    <3>9. Made(V)'
      BY <2>1, <3>5, <3>7, <3>8, Frame, ZenonT(30) DEF Made
    <3> QED
      BY <3>9, Zenon DEF IInv
  <2> QED
    BY <2>2, <2>7, <2>8, Zenon
<1> QED
  BY <1>2, <1>3, Zenon

\* The steps that none of it is about.
LEMMA OtherStep ==
    ASSUME NEW U, Made(U),
           \/ Horizon \/ UNCHANGED vars
           \/ \E n \in Node : Gossip(n)
           \/ \E n \in Sequencer : \/ Decide(n) \/ CannotSlash(n) \/ Peek(n) \/ Stop(n)
                                   \/ Tick(n) \/ Prime(n)
           \/ \E w \in Tower : ProofIncluded(w)
    PROVE  Made(U)'
<1>1. ASSUME UNCHANGED <<avail, inflight, t, chain, pc, own, fraudBlock, rest>>
      PROVE  Made(U)'
  BY <1>1, Frame, Zenon DEF Made
<1>2. ASSUME Horizon \/ UNCHANGED vars PROVE Made(U)'
  BY <1>1, <1>2, Zenon DEF Horizon, vars, net, loop, resolver, tower
<1>3. ASSUME NEW n \in Node, Gossip(n) PROVE Made(U)'
  BY <1>1, <1>3, Zenon DEF Gossip, loop, resolver, tower
<1>4. ASSUME NEW n \in Sequencer, Decide(n) \/ CannotSlash(n) PROVE Made(U)'
  <2>1. /\ pc' = [pc EXCEPT ![n] = "recv"]
        /\ UNCHANGED <<avail, inflight, t, chain, own, fraudBlock, rest>>
    BY <1>4, Zenon DEF Decide, CannotSlash, net, resolver, tower
  <2>2. Loops(U)'
    BY <2>1, Zenon DEF Made, Loops
  <2> QED
    BY <2>1, <2>2, Frame, Zenon DEF Made
<1>5. ASSUME NEW n \in Sequencer, Peek(n) \/ Stop(n) PROVE Made(U)'
  BY <1>1, <1>5, Zenon DEF Peek, Stop, net, loop, tower
<1>6. ASSUME NEW n \in Sequencer, Tick(n) \/ Prime(n) PROVE Made(U)'
  BY <1>1, <1>6, Zenon DEF Tick, Prime, net, loop, resolver, tower
<1>7. ASSUME NEW w \in Tower, ProofIncluded(w) PROVE Made(U)'
  BY <1>1, <1>7, Zenon DEF ProofIncluded, net, loop, resolver
<1> QED
  BY <1>2, <1>3, <1>4, <1>5, <1>6, <1>7, SMTT(30)

\* Every step preserves the invariant while no watchtower is mistaken.
LEMMA Step ==
    ASSUME Mistaken = {}, IInv, [Next]_vars
    PROVE  IInv'
<1>1. PICK U : Made(U)
  BY Zenon DEF IInv
<1>2. ASSUME Made(U)' PROVE IInv'
  BY <1>2, Zenon DEF IInv
<1>3. ASSUME NEW n \in Sequencer, MainLoop(n) PROVE IInv'
  BY <1>1, <1>2, <1>3, ApplyStep, SlashStep, OtherStep, SMTT(30) DEF MainLoop
<1>4. ASSUME NEW n \in Sequencer, Watcher(n) \/ Writer(n) PROVE IInv'
  BY <1>1, <1>2, <1>4, WriterStep, OtherStep, SMTT(30) DEF Watcher, Writer
<1>5. ASSUME NEW w \in Tower, WatchTower(w) PROVE IInv'
  BY <1>1, <1>2, <1>5, TowerStep, OtherStep, SMTT(30) DEF WatchTower
<1>6. ASSUME Progress PROVE IInv'
  BY <1>1, <1>2, <1>3, <1>4, <1>5, <1>6, NetStep, OtherStep, SMTT(30) DEF Progress
<1>7. ASSUME NEW n \in Sequencer, Tick(n) \/ Prime(n) \/ SlashFailed(n) \/ SendFailed(n)
      PROVE  IInv'
  BY <1>1, <1>2, <1>7, NetStep, OtherStep, Zenon
<1>8. ASSUME NEW w \in Tower, ProofFailed(w) PROVE IInv'
  BY <1>1, <1>2, <1>8, NetStep, Zenon
<1>9. ASSUME Horizon \/ UNCHANGED vars PROVE IInv'
  BY <1>1, <1>2, <1>9, OtherStep, Zenon
<1> QED
  BY <1>6, <1>7, <1>8, <1>9, SMTT(30) DEF Next

-----------------------------------------------------------------------------
(* The result.                                                             *)

\* Where no watchtower is mistaken, no participant is fined on anyone's chain
\* except for a bad block of its own, whatever the delays and the failures.
THEOREM FairFineTheorem == ASSUME Mistaken = {} PROVE Spec => []FairFine
<1>1. IInv => FairFine
  <2> SUFFICES ASSUME NEW U, Made(U), NEW n \in Node, NEW b \in DOMAIN chain[n].td, b.fined # Nil
               PROVE  b.fined = b.endOf.proofOf.miner /\ ~b.endOf.proofOf.ok
    BY Zenon DEF IInv, FairFine
  <2>1. b \in U
    BY GenesisState, Zenon DEF Made, Stores, Store
  <2> QED
    BY <2>1, Zenon DEF Made, Net, Just
<1>2. IInv /\ [Next]_vars => IInv'
  BY Step, Zenon
<1> QED
  BY <1>1, <1>2, Start, PTL DEF Spec
=============================================================================
