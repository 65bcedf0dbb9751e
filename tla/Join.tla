-------------------------------- MODULE Join --------------------------------
(***************************************************************************)
(* How a sequencer or watchtower joins (consensus/avail/avail.go,          *)
(* staking.go): it syncs to Avail's head, has the faucet fund its account, *)
(* stakes through the transaction pool and runs.                           *)
(*                                                                         *)
(* The chain is what its state says of faucet and nodes; it is produced by *)
(* the sequencers that run already, from one pool.  A transaction is added *)
(* to the pool of its sender and gossiped to the others.  A pool refuses a *)
(* nonce that is used up, and keeps the first of two transactions with the *)
(* same nonce and price.  The minimum balance is 15 ETH and a stake takes  *)
(* 10, so that a node that has staked is short of the minimum.             *)
(***************************************************************************)
EXTENDS Integers, FiniteSets

CONSTANTS
    Node,          \* the nodes that join
    Producer,      \* the pool that blocks are made from
    MaxEnds        \* bound on crashes and orderly ends

ASSUME JoinAssumption ==
    Producer \notin Node /\ "faucet" \notin Node

VARIABLES
    faucet,        \* nonce of the faucet's account
    acct,          \* nonce of each node's account
    low, staked,   \* whether it is below the minimum balance, whether it is staked
    pools,         \* the pool of each node and of the producer
    msgs,          \* gossip under way: a transaction and who is to get it
    pc,            \* "new", "sync", "stake", "running", "crashed", "off"
    once,          \* balanceOnce of the process
    seen,          \* the node's own account as of its local head
    submitted,     \* the pool took the node's stake transaction
    together,      \* some node was started while another had not joined
    restarts, closes

chain == <<faucet, acct, low, staked>>
vars == <<chain, pools, msgs, pc, once, seen, submitted, together, restarts, closes>>

Txs == [from : {"faucet"}, to : Node, nonce : Nat] \cup [from : Node, nonce : Nat]

Init ==
    /\ faucet = 0
    /\ acct = [n \in Node |-> 0]
    /\ low = [n \in Node |-> TRUE]
    /\ staked = [n \in Node |-> FALSE]
    /\ pools = [x \in Node \cup {Producer} |-> {}]
    /\ msgs = {}
    /\ pc = [n \in Node |-> "new"]
    /\ once = [n \in Node |-> FALSE]
    /\ seen = [n \in Node |-> [acct |-> 0, staked |-> FALSE]]
    /\ submitted = [n \in Node |-> FALSE]
    /\ together = FALSE /\ restarts = 0 /\ closes = 0

-----------------------------------------------------------------------------
(* The pools and the producer.                                             *)

\* Whether a pool that knows the given nonce of the account takes a transaction.
Accepts(x, tx, nonce) ==
    /\ tx.nonce >= nonce
    /\ \A t \in pools[x] : t.from = tx.from => t.nonce # tx.nonce

\* AddTx: into the node's own pool and out to all others.
AddTx(n, tx) ==
    /\ pools' = [pools EXCEPT ![n] = @ \cup {tx}]
    /\ msgs' = msgs \cup {<<tx, x>> : x \in (Node \cup {Producer}) \ {n}}

ChainNonce(from) == IF from = "faucet" THEN faucet ELSE acct[from]

Gossip ==
    \E m \in msgs :
        /\ msgs' = msgs \ {m}
        /\ pools' = IF Accepts(m[2], m[1], ChainNonce(m[1].from))
                       /\ (m[2] \in Node => pc[m[2]] \in {"sync", "stake", "running"})
                    THEN [pools EXCEPT ![m[2]] = @ \cup {m[1]}] ELSE pools
        /\ UNCHANGED <<chain, pc, once, seen, submitted, together, restarts, closes>>

\* A block with the next transaction of some account; the producer's pool loses
\* what is used up.  A stake that the account cannot pay is dropped.
NewBlock ==
    \E tx \in pools[Producer] :
        /\ tx.nonce = ChainNonce(tx.from)
        /\ IF tx.from = "faucet"
           THEN /\ faucet' = faucet + 1
                /\ low' = [low EXCEPT ![tx.to] = FALSE]
                /\ UNCHANGED <<acct, staked>>
           ELSE IF low[tx.from] THEN UNCHANGED chain
           ELSE /\ acct' = [acct EXCEPT ![tx.from] = @ + 1]
                /\ staked' = [staked EXCEPT ![tx.from] = TRUE]
                /\ low' = [low EXCEPT ![tx.from] = TRUE]
                /\ UNCHANGED faucet
        /\ pools' = [pools EXCEPT ![Producer] =
                       {t \in @ : t.from # tx.from \/ t.nonce > tx.nonce}]
        /\ UNCHANGED <<msgs, pc, once, seen, submitted, together, restarts, closes>>

-----------------------------------------------------------------------------
(* A node.                                                                 *)

Joined(n) == pc[n] = "new" \/ (pc[n] = "running" /\ staked[n])

Start(n) ==
    /\ pc[n] \in {"new", "off", "crashed"}
    /\ pc' = [pc EXCEPT ![n] = "sync"]
    /\ once' = [once EXCEPT ![n] = FALSE]
    /\ submitted' = [submitted EXCEPT ![n] = FALSE]
    /\ together' = (together \/ \E m \in Node \ {n} : ~Joined(m))
    /\ UNCHANGED <<chain, pools, msgs, seen, restarts, closes>>

\* Mutant: the deposit takes the first nonce that no known transaction has.
ensureAccountBalancePending(n) ==
    LET nonce == faucet + Cardinality({t \in pools[n] : t.from = "faucet"})
        tx == [from |-> "faucet", to |-> n, nonce |-> nonce]
    IN AddTx(n, tx) /\ UNCHANGED pc

\* A deposit with the faucet's nonce as of the local head; when the pool refuses
\* it the node panics.  Whether AddTx reports a second transaction of the same nonce
\* or drops it later is the pool's affair: both are possible.
ensureAccountBalance(n) ==
    LET tx == [from |-> "faucet", to |-> n, nonce |-> faucet]
    IN IF Accepts(n, tx, faucet)
       THEN AddTx(n, tx) /\ UNCHANGED pc
       ELSE /\ pc' \in {pc, [pc EXCEPT ![n] = "crashed"]}
            /\ UNCHANGED <<pools, msgs>>

\* syncConditionFn, when the node is at Avail's head: it goes on once its account is
\* funded, and asks the faucet once.
syncConditionFn(n) ==
    /\ pc[n] = "sync"
    /\ seen' = [seen EXCEPT ![n] = [acct |-> acct[n], staked |-> staked[n]]]
    /\ IF ~low[n]
       THEN pc' = [pc EXCEPT ![n] = "stake"] /\ UNCHANGED <<pools, msgs, once>>
       ELSE IF once[n] THEN UNCHANGED <<pools, msgs, once, pc>>
       ELSE once' = [once EXCEPT ![n] = TRUE] /\ ensureAccountBalance(n)
    /\ UNCHANGED <<chain, submitted, together, restarts, closes>>

\* Mutant: the stake transaction has the nonce after the account's.
stakeThroughTxPoolNext(n) ==
    /\ AddTx(n, [from |-> n, nonce |-> seen[n].acct + 1])
    /\ submitted' = [submitted EXCEPT ![n] = TRUE]

\* The stake transaction has the nonce 0; a pool that refuses it ten times is not
\* an error.
stakeParticipantThroughTxPool(n) ==
    LET tx == [from |-> n, nonce |-> 0]
    IN IF Accepts(n, tx, seen[n].acct)
       THEN AddTx(n, tx) /\ submitted' = [submitted EXCEPT ![n] = TRUE]
       ELSE UNCHANGED <<pools, msgs, submitted>>

\* ensureStaked; nobody is in probation here.
ensureStaked(n) ==
    /\ pc[n] = "stake"
    /\ pc' = [pc EXCEPT ![n] = "running"]
    /\ IF seen[n].staked THEN UNCHANGED <<pools, msgs, submitted>>
       ELSE stakeParticipantThroughTxPool(n)
    /\ UNCHANGED <<chain, once, seen, together, restarts, closes>>

Running(n) == pc[n] \in {"sync", "stake", "running"}

Crash(n) ==
    /\ Running(n) /\ restarts + closes < MaxEnds
    /\ restarts' = restarts + 1
    /\ pc' = [pc EXCEPT ![n] = "off"]
    /\ pools' = [pools EXCEPT ![n] = {}]
    /\ UNCHANGED <<chain, msgs, once, seen, submitted, together, closes>>

\* The account can pay for gas: it has been funded.
HasGas(n) == ~low[n] \/ acct[n] > 0

\* Close: the loop that syncs or runs submits a block of its own with an unstake
\* transaction, staked or not, and the process ends.  The block's nonce is the
\* account's and its fee goes to the node itself.  It may fail or lose its height.
Close(n) ==
    /\ pc[n] \in {"sync", "running"} /\ restarts + closes < MaxEnds
    /\ closes' = closes + 1
    /\ pc' = [pc EXCEPT ![n] = "off"]
    /\ pools' = [pools EXCEPT ![n] = {}]
    /\ \/ UNCHANGED chain
       \/ /\ HasGas(n)
          /\ acct' = [acct EXCEPT ![n] = @ + 1]
          /\ staked' = [staked EXCEPT ![n] = FALSE]
          /\ UNCHANGED <<faucet, low>>
    /\ UNCHANGED <<msgs, once, seen, submitted, together, restarts>>

\* Nothing but empty blocks.
EmptyBlock ==
    /\ msgs = {}
    /\ UNCHANGED vars

NodeStep(n) == Start(n) \/ syncConditionFn(n) \/ ensureStaked(n)

Next ==
    \/ Gossip \/ NewBlock \/ EmptyBlock
    \/ \E n \in Node : NodeStep(n) \/ Crash(n) \/ Close(n)

Spec == Init /\ [][Next]_vars

\* Gossip arrives, sequencers produce and the nodes go on; one that has ended is
\* started again, but a new one need never be started.
FairSpec ==
    /\ Spec /\ WF_vars(Gossip) /\ WF_vars(NewBlock)
    /\ \A n \in Node : WF_vars(pc[n] # "new" /\ NodeStep(n))

-----------------------------------------------------------------------------
\* However nodes crash, come back and ask again, the faucet never pays into an
\* account that has the minimum balance: the nonce makes every repeated deposit one
\* with the first.
NoIdleDeposit == [][faucet' # faucet => \E n \in Node : low[n] /\ ~low'[n]]_vars

\* A node that starts comes to be staked, or ends before, however often it has
\* crashed: as long as nodes join one after the other and none has unstaked.
Joins ==
    \A n \in Node : pc[n] = "sync" ~> staked[n] \/ ~Running(n) \/ together \/ closes > 0

\* "tops up the account balance by depositing additional tokens from the faucet
\* account": a node that is short while it syncs comes to be funded, or ends before.
ToppedUp == \A n \in Node : (pc[n] = "sync" /\ low[n]) ~> (~low[n] \/ ~Running(n))

\* "tries to stake it and returns an error if staking fails": a node that runs is
\* staked or its stake is in the pools.
StakedOrError == \A n \in Node : pc[n] = "running" => seen[n].staked \/ submitted[n]
=============================================================================
