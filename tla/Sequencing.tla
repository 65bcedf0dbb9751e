----------------------------- MODULE Sequencing -----------------------------
(***************************************************************************)
(* How the sequencers share one chain, consensus/avail: SequencerWorker's  *)
(* main loop and its writer thread, the cached list of active sequencers   *)
(* both consult, start-up (Avail.Start, syncNode, ensureStaked), the       *)
(* snapshots sent to peers, and a crash with a restart from the database.  *)
(* No fraud is in progress.                                                *)
(*                                                                         *)
(* A block stands for its own hash; b.active is the set of sequencers the  *)
(* staking contract holds in the state after b.  ChainOps!Insert is the    *)
(* store.  Avail is a sequence of blocks, each a sequence of edge blocks.  *)
(***************************************************************************)
EXTENDS ChainOps, Sequences, Functions

CONSTANTS
    Node,           \* the sequencers
    Bootstrap,      \* those of type BootstrapSequencer, staked at the start
    Nil,            \* nothing yet
    WindowLen,      \* availBlockWindowLen
    Leader(_, _),   \* first of the list shuffled with a seed
    Synchronous,    \* nodes keep up with Avail, see NewAvailBlock
    Crashing,       \* the nodes that may crash
    MaxAvail,       \* bound on the length of Avail
    MaxStarts,      \* bound on the starts of a process
    MaxFailures     \* bound on failed submissions and failed queries

ASSUME ConstantAssumption ==
    /\ Bootstrap \subseteq Node /\ Crashing \subseteq Node
    /\ WindowLen \in Nat \ {0, 1}
    /\ Synchronous \in BOOLEAN
    /\ MaxAvail \in Nat /\ MaxStarts \in Nat /\ MaxFailures \in Nat

ASSUME LeaderAssumption ==
    \A w \in 0..MaxAvail, S \in (SUBSET Node) \ {{}} : Leader(w, S) \in S

VARIABLES
    \* Avail and the peer-to-peer network
    avail,      \* the Avail blocks
    inflight,   \* edge blocks submitted and not yet in an Avail block
    snapshots,  \* snapshots on their way, by receiver
    \* the database of each node
    chain,
    \* the process of each node
    pc,         \* what its main loop does next
    t,          \* number of the last Avail block received
    cache,      \* lastSeed, lastSequencers and the seed they were shuffled with
    enabled,    \* blockProductionEnabled
    stakedAt,   \* availBlockNumWhenStaked
    wpc,        \* what its writer does next
    wblk,       \* the block the writer has submitted
    changes,    \* what the snapshotter has collected, Nil between blocks
    \* bounds
    built, starts, failures

net == <<avail, inflight, snapshots>>
loop == <<pc, t, cache, enabled, stakedAt>>
writer == <<wpc, wblk, changes>>
bounds == <<built, starts, failures>>
vars == <<net, chain, loop, writer, bounds>>

Genesis == [parent |-> Nil, number |-> 0, difficulty |-> 0, miner |-> Nil,
            active |-> {}, id |-> 0]

\* The block with which stakeParticipant stakes the bootstrap sequencers.
StakeBlock == [parent |-> Genesis, number |-> 1, difficulty |-> 0, miner |-> Nil,
               active |-> Bootstrap, id |-> 0]

NewBlock(n, joining) ==
    LET p == chain[n].head
    IN  [parent |-> p, number |-> p.number + 1, difficulty |-> 0, miner |-> n,
         active |-> p.active \cup joining, id |-> built]

Seed(i) == i \div WindowLen
Up(n) == pc[n] \notin {"down", "resync", "staking"}
InAvail(b) == \E i \in DOMAIN avail : b \in Range(avail[i])

\* Blocks of an Avail block, checked and written in their order.
WriteAll(c, blocks) ==
    LET after[k \in 0..Len(blocks)] ==
            IF k = 0 THEN c ELSE Insert(after[k - 1], blocks[k])
    IN  after[Len(blocks)]

\* The Avail blocks from number first on.
Replay(c, first) ==
    LET after[i \in 0..Len(avail)] ==
            IF i < first THEN c ELSE WriteAll(after[i - 1], avail[i])
    IN  after[Len(avail)]

\* The snapshotter records what a write to the database changes.
Recorded(d, old, new) ==
    [td |-> [b \in DOMAIN d.td \cup (DOMAIN new.td \ DOMAIN old.td) |-> new.td[b]],
     head |-> IF new.head # old.head THEN new.head ELSE d.head]

NoChanges == [td |-> [b \in {} |-> 0], head |-> Nil]

-----------------------------------------------------------------------------
\* The bootstrap sequencers have staked and streamed the first window, in which
\* the cached list is never filled: its seed is 0 from the start.
Init ==
    /\ avail = [i \in 1..WindowLen - 1 |-> IF i = 1 THEN <<StakeBlock>> ELSE <<>>]
    /\ inflight = {}
    /\ snapshots = [n \in Node |-> {}]
    /\ chain = [n \in Node |-> IF n \in Bootstrap THEN Insert(NewStore(Genesis), StakeBlock)
                               ELSE NewStore(Genesis)]
    /\ pc = [n \in Node |-> IF n \in Bootstrap THEN "recv" ELSE "down"]
    /\ t = [n \in Node |-> WindowLen - 1]
    /\ cache = [n \in Node |-> [seed |-> 0, list |-> {}, order |-> 0]]
    /\ enabled = [n \in Node |-> FALSE]
    /\ stakedAt = [n \in Node |-> Nil]
    /\ wpc = [n \in Node |-> "idle"]
    /\ wblk = [n \in Node |-> Nil]
    /\ changes = [n \in Node |-> Nil]
    /\ built = 0 /\ starts = 0 /\ failures = 0

-----------------------------------------------------------------------------
\* Avail makes a block of submitted edge blocks, in any order.  When nodes
\* keep up, each has handled the last one, no writer is between its check and
\* its submission, a start takes no longer than one Avail block, and Avail
\* takes everything submitted.  No more blocks are on their way than were built.
NewAvailBlock ==
    /\ Len(avail) < MaxAvail
    /\ Synchronous => \A n \in Node :
           /\ Up(n) => pc[n] = "recv" /\ t[n] = Len(avail) /\ wpc[n] # "build"
           /\ pc[n] \in {"resync", "staking"} => t[n] = Len(avail)
    /\ \E S \in IF Synchronous THEN {inflight} ELSE SUBSET inflight :
           /\ \E k \in 0..built : \E q \in Bijection(1..k, S) : avail' = Append(avail, q)
           /\ inflight' = inflight \ S
    /\ UNCHANGED <<snapshots, chain, loop, writer, bounds>>

\* Run receives the next Avail block and advances its clock.
Receive(n) ==
    /\ pc[n] = "recv"
    /\ t[n] < Len(avail)
    /\ t' = [t EXCEPT ![n] = t[n] + 1]
    /\ pc' = [pc EXCEPT ![n] = "apply"]
    /\ UNCHANGED <<net, chain, cache, enabled, stakedAt, writer, bounds>>

\* It writes the edge blocks, then calls Contains, and Get: on a new seed
\* lastSeed is stored before the list has been read.
Apply(n) ==
    /\ pc[n] = "apply"
    /\ chain' = [chain EXCEPT ![n] = WriteAll(chain[n], avail[t[n]])]
    /\ changes' = [changes EXCEPT ![n] =
           IF wpc[n] = "wait" THEN Recorded(@, chain[n], chain'[n]) ELSE @]
    /\ cache' = [cache EXCEPT ![n].seed = Seed(t[n])]
    /\ pc' = [pc EXCEPT ![n] = IF cache[n].seed = Seed(t[n]) THEN "decide" ELSE "query"]
    /\ UNCHANGED <<net, t, enabled, stakedAt, wpc, wblk, bounds>>

\* Get reads the active sequencers from the state of the head.
Query(n) ==
    /\ pc[n] = "query"
    /\ cache' = [cache EXCEPT ![n].list = chain[n].head.active, ![n].order = Seed(t[n])]
    /\ pc' = [pc EXCEPT ![n] = "decide"]
    /\ UNCHANGED <<net, chain, t, enabled, stakedAt, writer, bounds>>

\* The query fails, and with it the iteration.  The seed is stored already: for the
\* rest of the window Get answers with the list of an earlier one.
QueryFailed(n) ==
    /\ pc[n] = "query"
    /\ failures < MaxFailures
    /\ failures' = failures + 1
    /\ pc' = [pc EXCEPT ![n] = "recv"]
    /\ UNCHANGED <<net, chain, t, cache, enabled, stakedAt, writer, built, starts>>

\* IsNextSequencer: the first of a list shuffled with the seed of some window.
MyTurn(n, order, list) == Leader(order, list) = n

\* Mutant: the last Avail block of a window does not stop the production.
GateAlways(n) == MyTurn(n, cache[n].order, cache[n].list)

Gate(n) == MyTurn(n, cache[n].order, cache[n].list) /\ t[n] % WindowLen < WindowLen - 1

\* Mutant: nobody waits for a fresh window.
FencedNever(n, at) == FALSE

\* Whether n waits for the window after the one it joined in.
Fenced(n, at) == n \notin Bootstrap /\ Seed(at) = Seed(t[n])

\* The rest of the iteration.  A node that is not in the list, or waits for a
\* fresh window, goes on to the next Avail block with enabled as it was.
Decide(n) ==
    /\ pc[n] = "decide"
    /\ pc' = [pc EXCEPT ![n] = "recv"]
    /\ LET at == IF stakedAt[n] = Nil THEN t[n] ELSE stakedAt[n]
       IN  IF n \notin cache[n].list THEN UNCHANGED <<enabled, stakedAt>>
           ELSE /\ stakedAt' = [stakedAt EXCEPT ![n] = at]
                /\ enabled' = [enabled EXCEPT ![n] = IF Fenced(n, at) THEN @ ELSE Gate(n)]
    /\ UNCHANGED <<net, chain, t, cache, writer, bounds>>

-----------------------------------------------------------------------------
(* The writer thread, runWriteBlocksLoop and writeBlock.                   *)

\* A tick that finds production enabled and the node first in the list.
Tick(n) ==
    /\ Up(n) /\ wpc[n] = "idle" /\ enabled[n]
    /\ Len(avail) < MaxAvail
    /\ LET seed == Seed(t[n])
           c == IF cache[n].seed = seed THEN cache[n]
                ELSE [seed |-> seed, list |-> chain[n].head.active, order |-> seed]
       IN  MyTurn(n, c.order, c.list) /\ cache' = [cache EXCEPT ![n] = c]
    /\ wpc' = [wpc EXCEPT ![n] = "build"]
    /\ UNCHANGED <<net, chain, pc, t, enabled, stakedAt, wblk, changes, bounds>>

\* Nodes whose stake transaction may be in the pool.
Applicants(n) == {m \in Node : pc[m] # "down"} \ chain[n].head.active

\* Mutant: the block is written before it is known to be in Avail.
BuildUnconfirmed(n) ==
    /\ wpc[n] = "build"
    /\ \E joining \in SUBSET Applicants(n) :
           LET b == NewBlock(n, joining)
           IN  /\ chain' = [chain EXCEPT ![n] = Insert(chain[n], b)]
               /\ wblk' = [wblk EXCEPT ![n] = b]
               /\ inflight' = inflight \cup {b}
    /\ wpc' = [wpc EXCEPT ![n] = "wait"]
    /\ changes' = [changes EXCEPT ![n] = NoChanges]
    /\ built' = built + 1
    /\ UNCHANGED <<avail, snapshots, loop, starts, failures>>

\* writeBlock up to the submission: a block on the head with transactions of
\* the pool, stakes among them.
Build(n) ==
    /\ wpc[n] = "build"
    /\ \E joining \in SUBSET Applicants(n) :
           LET b == NewBlock(n, joining)
           IN  /\ wblk' = [wblk EXCEPT ![n] = b]
               /\ inflight' = inflight \cup {b}
    /\ wpc' = [wpc EXCEPT ![n] = "wait"]
    /\ changes' = [changes EXCEPT ![n] = NoChanges]
    /\ built' = built + 1
    /\ UNCHANGED <<avail, snapshots, chain, loop, starts, failures>>

\* The rest of writeBlock: the status InBlock arrives, the block is written,
\* and what changed in the database since Build goes to the peers.  Gossip may
\* miss a peer, and the model keeps one undelivered snapshot for each.
Included(n) ==
    /\ wpc[n] = "wait"
    /\ InAvail(wblk[n])
    /\ LET c == Insert(chain[n], wblk[n])
           d == Recorded(changes[n], chain[n], c)
           s == [number |-> wblk[n].number, td |-> d.td, head |-> d.head]
       IN  /\ chain' = [chain EXCEPT ![n] = c]
           /\ \E R \in SUBSET {m \in Node \ {n} : pc[m] # "down" /\ snapshots[m] = {}} :
                  snapshots' = [m \in Node |-> IF m \in R THEN {s} ELSE snapshots[m]]
    /\ wpc' = [wpc EXCEPT ![n] = "idle"]
    /\ wblk' = [wblk EXCEPT ![n] = Nil]
    /\ changes' = [changes EXCEPT ![n] = Nil]
    /\ UNCHANGED <<avail, inflight, loop, bounds>>

\* SendAndWaitForStatus returns an error: Avail dropped the extrinsic, or the
\* subscription broke and the block may still get into Avail.
SendFailed(n) ==
    /\ wpc[n] = "wait"
    /\ failures < MaxFailures
    /\ failures' = failures + 1
    /\ inflight' \in {inflight, inflight \ {wblk[n]}}
    /\ wpc' = [wpc EXCEPT ![n] = "idle"]
    /\ wblk' = [wblk EXCEPT ![n] = Nil]
    /\ changes' = [changes EXCEPT ![n] = Nil]
    /\ UNCHANGED <<avail, snapshots, chain, loop, built, starts>>

\* processStorageSnapshot: only the number says whether it continues the
\* local chain.  A snapshot without a head leaves the head alone.
ProcessSnapshot(n) ==
    /\ pc[n] = "recv"
    /\ \E s \in snapshots[n] :
           /\ snapshots' = [snapshots EXCEPT ![n] = @ \ {s}]
           /\ IF s.number = chain[n].head.number + 1
              THEN chain' = [chain EXCEPT ![n] =
                       [td |-> [b \in DOMAIN @.td \cup DOMAIN s.td |->
                                   IF b \in DOMAIN s.td THEN s.td[b] ELSE @.td[b]],
                        head |-> IF s.head = Nil THEN @.head ELSE s.head]]
              ELSE UNCHANGED chain
    /\ UNCHANGED <<avail, inflight, loop, writer, bounds>>

-----------------------------------------------------------------------------
(* Start and crash.                                                        *)

\* syncFunc: how far it says the block with the target number is from Avail
\* block i.  For a neighbour with another number that is a position in Avail,
\* not a distance; the smallest one counts.
Offset(i, target) ==
    LET away(k) == i + target - avail[i][k].number
        abs(x) == IF x < 0 THEN -x ELSE x
        nearest == CHOOSE k \in DOMAIN avail[i] : \A j \in DOMAIN avail[i] :
                       abs(away(k)) < abs(away(j)) \/ (abs(away(k)) = abs(away(j)) /\ k <= j)
    IN  IF avail[i] = <<>> THEN -1
        ELSE IF \E k \in DOMAIN avail[i] : avail[i][k].number = target THEN i
        ELSE away(nearest)

\* SearchBlock from the latest Avail block, whose own match is not looked at:
\* the block found, 0 after an error, or no result when it goes in circles.
SearchBlock(target) ==
    LET found(i) == \E b \in Range(avail[i]) : b.number = target
        done(i) == i \notin DOMAIN avail \/ found(i) \/ Offset(i, target) = 0
        at[k \in 0..Len(avail) + 1] ==
            IF k = 0 THEN Len(avail)
            ELSE LET i == at[k - 1]
                 IN  IF k > 1 /\ done(i) THEN i ELSE i + Offset(i, target)
        last == at[Len(avail) + 1]
    IN  IF last \notin DOMAIN avail THEN {0} ELSE IF done(last) THEN {last} ELSE {}

\* getNextAvailBlockNumber
NextAvailBlock(n) ==
    IF chain[n].head.number = 0 THEN {1} ELSE SearchBlock(chain[n].head.number)

\* Start: the node replays Avail up to its latest block and asks for a stake.
\* From number 0 the stream skips what there is and waits for the next block.
Sync(n) ==
    /\ pc[n] = "down"
    /\ starts < MaxStarts
    /\ starts' = starts + 1
    /\ \E i \in NextAvailBlock(n) :
           IF i = 0 THEN pc' = [pc EXCEPT ![n] = "resync"] /\ UNCHANGED chain
           ELSE /\ chain' = [chain EXCEPT ![n] = Replay(@, i)]
                /\ pc' = [pc EXCEPT ![n] = "staking"]
    /\ t' = [t EXCEPT ![n] = Len(avail)]
    /\ UNCHANGED <<net, cache, enabled, stakedAt, writer, built, failures>>

\* The sync that skipped.  syncNode, of a bootstrap sequencer, waits for the
\* block that was the latest when it started and never ends.
Resync(n) ==
    /\ pc[n] = "resync"
    /\ t[n] < Len(avail)
    /\ chain' = [chain EXCEPT ![n] = Replay(@, t[n] + 1)]
    /\ t' = [t EXCEPT ![n] = Len(avail)]
    /\ pc' = [pc EXCEPT ![n] = IF n \in Bootstrap THEN @ ELSE "staking"]
    /\ UNCHANGED <<net, cache, enabled, stakedAt, writer, bounds>>

\* Mutant: every worker is made before the sync.
RunAfterLatest(n) ==
    /\ pc[n] = "staking"
    /\ t' = [t EXCEPT ![n] = Len(avail)]
    /\ pc' = [pc EXCEPT ![n] = "recv"]
    /\ UNCHANGED <<net, chain, cache, enabled, stakedAt, writer, bounds>>

\* Run opens the stream at the block the sync ended with, which comes again.
\* The worker of a bootstrap sequencer was made before the sync: its index is
\* 0 and its stream starts after the latest block.
Run(n) ==
    /\ pc[n] = "staking"
    /\ t' = [t EXCEPT ![n] = IF n \in Bootstrap THEN Len(avail) ELSE @ - 1]
    /\ pc' = [pc EXCEPT ![n] = "recv"]
    /\ UNCHANGED <<net, chain, cache, enabled, stakedAt, writer, bounds>>

\* The process dies; the database stays.
Crash(n) ==
    /\ n \in Crashing /\ pc[n] # "down" /\ starts < MaxStarts
    /\ pc' = [pc EXCEPT ![n] = "down"]
    /\ cache' = [cache EXCEPT ![n] = [seed |-> 0, list |-> {}, order |-> 0]]
    /\ enabled' = [enabled EXCEPT ![n] = FALSE]
    /\ stakedAt' = [stakedAt EXCEPT ![n] = Nil]
    /\ wpc' = [wpc EXCEPT ![n] = "idle"]
    /\ wblk' = [wblk EXCEPT ![n] = Nil]
    /\ changes' = [changes EXCEPT ![n] = Nil]
    /\ snapshots' = [snapshots EXCEPT ![n] = {}]
    /\ UNCHANGED <<avail, inflight, chain, t, bounds>>

\* The bounded Avail is used up.
Horizon == Len(avail) = MaxAvail /\ UNCHANGED vars

MainLoop(n) == Receive(n) \/ Apply(n) \/ Query(n) \/ Decide(n) \/ Resync(n) \/ Run(n)
Writer(n) == Build(n) \/ Included(n)

Next ==
    \/ NewAvailBlock \/ Horizon
    \/ \E n \in Node : \/ MainLoop(n) \/ Writer(n) \/ Tick(n) \/ SendFailed(n) \/ QueryFailed(n)
                       \/ ProcessSnapshot(n) \/ Sync(n) \/ Crash(n)

Spec == Init /\ [][Next]_vars

\* Avail goes on making blocks, and the threads of a running node run.
FairSpec == /\ Spec /\ WF_vars(NewAvailBlock)
            /\ \A n \in Node : WF_vars(MainLoop(n)) /\ WF_vars(Writer(n))
-----------------------------------------------------------------------------

\* The block with number k on the chain that ends in h.
Ancestor(h, k) ==
    LET up[i \in 0..h.number] == IF i = 0 THEN h ELSE up[i - 1].parent
    IN  up[h.number - k]

OnChain(b, h) == b.number <= h.number /\ Ancestor(h, b.number) = b

\* Production is enabled only within the window for which the cache was asked and
\* only for the first of the cached list: the writer never has Get renew the list,
\* nor meets the moment in which Get has stored lastSeed and not yet the list.
TurnIsCurrent ==
    \A n \in Node : enabled[n] =>
        /\ pc[n] # "query"
        /\ cache[n].seed = Seed(t[n])
        /\ MyTurn(n, cache[n].order, cache[n].list)

\* Whatever a node has in its store is in Avail, although the writer, the
\* main loop, snapshots of peers and a restart all write to it.
Published ==
    \A n \in Node : \A b \in DOMAIN chain[n].td \ {Genesis} : InAvail(b)

\* The nodes' heads are on one chain.
Agreement ==
    \A m, n \in Node : OnChain(chain[m].head, chain[n].head)
                         \/ OnChain(chain[n].head, chain[m].head)

\* Every edge block of an Avail block that a node has handled is on its chain:
\* none is lost to a competitor with its number.
NoLostBlock ==
    \A n \in Node : pc[n] = "recv" =>
        \A i \in 1..t[n] : \A b \in Range(avail[i]) : OnChain(b, chain[n].head)

\* "When all the nodes renew their active sequencer list on a start of the new
\* block window, they gain coherent view into who is the next "leader" (i.e.
\* the active sequencer allowed to produce a block)": no two nodes are allowed
\* to produce in the same window.
CoherentLeader ==
    \A m, n \in Node : enabled[m] /\ enabled[n] /\ Seed(t[m]) = Seed(t[n]) => m = n

\* processStorageSnapshot applies a snapshot only if it "is immediate
\* continuation to current local blockchain".
SnapshotContinues ==
    [][\A n \in Node : snapshots'[n] # snapshots[n] /\ chain'[n].head # chain[n].head =>
           chain'[n].head.parent = chain[n].head]_vars

\* Nodes that keep up with Avail end with one head.
Converges ==
    <>[](\A m, n \in Node : Up(m) /\ Up(n) => chain[m].head = chain[n].head)
=============================================================================
