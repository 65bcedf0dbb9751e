----------------------------- MODULE Blockchain -----------------------------
(***************************************************************************)
(* The block store of one node, pkg/blockchain/blockchain.go: the writer   *)
(* (WriteBlock, writeHeaderImpl, handleReorg, writeFork, advanceHead), the *)
(* start-up (ComputeGenesis), and the crash of the process between any two *)
(* writes to its database.                                                 *)
(*                                                                         *)
(* A block stands for its own hash, so b.parent is the block whose hash is *)
(* b's ParentHash.  b.body says what executing the block gives: "good", a  *)
(* result that matches the header; "badroot", a result that does not; or   *)
(* "fails", no result.  The header, difficulty and receipt caches are left *)
(* out: what they hold for a hash never differs from the database.         *)
(***************************************************************************)
EXTENDS ChainOps, Sequences

CONSTANTS
    Block,       \* every block that may be handed to WriteBlock, and Genesis
    Genesis,     \* the genesis block of the chain configuration
    Nil,         \* no block
    MaxCrashes   \* bound on the number of crashes

Body == {"good", "badroot", "fails"}

ASSUME BlockAssumption ==
    /\ Nil \notin Block
    /\ Genesis \in Block
    /\ Genesis.parent = Nil
    /\ Genesis.number = 0
    /\ \A b \in Block : /\ b.number \in Nat
                        /\ b.difficulty \in Nat
                        /\ b.body \in Body
    /\ \A b \in Block \ {Genesis} : b.parent \in Block

ASSUME BoundAssumption == MaxCrashes \in Nat

VARIABLES
    \* the database, which survives a crash
    headers,        \* headers stored by hash
    td,             \* total difficulty by hash
    canonical,      \* canonical hash by number
    headHash,       \* hash of the head
    bodies,         \* bodies stored by hash
    forks,          \* fork tips
    receipts,       \* blocks whose receipts are stored
    states,         \* blocks whose state root is in the state database
    \* the process
    pc,             \* what the holder of writeLock does next
    currentHeader,  \* what Header() returns
    blk,            \* the block being written
    oldHeader,      \* locals of handleReorg
    newHeader,
    oldChain,
    newChain,
    progress,
    crashes         \* crashes so far

store == <<headers, td, canonical, headHash, bodies, forks, receipts, states>>
walk == <<oldHeader, newHeader, oldChain, newChain, progress>>
vars == <<store, pc, currentHeader, blk, walk, crashes>>

-----------------------------------------------------------------------------
(* Helpers.                                                                *)

\* The stored forks after writeFork(h): h replaces its parent.
WithFork(h) == (forks \ {h.parent}) \cup {h}

IncomingTD(b) == td[b.parent] + b.difficulty

ForgetWalk ==
    /\ oldHeader' = Nil
    /\ newHeader' = Nil
    /\ oldChain' = <<>>
    /\ newChain' = <<>>
    /\ progress' = TRUE

-----------------------------------------------------------------------------
Init ==
    /\ headers = {} /\ bodies = {} /\ receipts = {} /\ states = {}
    /\ td = [b \in {} |-> 0]
    /\ canonical = [n \in {} |-> Genesis]
    /\ headHash = Nil
    /\ forks = {}
    /\ pc = "down"
    /\ currentHeader = Nil /\ blk = Nil
    /\ oldHeader = Nil /\ newHeader = Nil
    /\ oldChain = <<>> /\ newChain = <<>> /\ progress = TRUE
    /\ crashes = 0

\* ComputeGenesis on an empty store: writeGenesis stores the header and
\* advanceHead writes the head hash ...
WriteGenesis ==
    /\ pc = "down" /\ headHash = Nil
    /\ headers' = headers \cup {Genesis}
    /\ states' = states \cup {Genesis}
    /\ headHash' = Genesis
    /\ pc' = "genesisHash"
    /\ UNCHANGED <<td, canonical, bodies, forks, receipts, currentHeader, blk, walk, crashes>>

\* ... then the canonical hash of number 0 ...
GenesisCanonical ==
    /\ pc = "genesisHash"
    /\ canonical' = Put(canonical, 0, Genesis)
    /\ pc' = "genesisTD"
    /\ UNCHANGED <<headers, td, headHash, bodies, forks, receipts, states,
                   currentHeader, blk, walk, crashes>>

\* ... then the total difficulty, and publishes the head.
GenesisTD ==
    /\ pc = "genesisTD"
    /\ td' = Put(td, Genesis, Genesis.difficulty)
    /\ currentHeader' = Genesis
    /\ pc' = "idle"
    /\ UNCHANGED <<headers, canonical, headHash, bodies, forks, receipts, states,
                   blk, walk, crashes>>

\* What ComputeGenesis demands of an initialised store.
Loadable ==
    /\ 0 \in DOMAIN canonical /\ canonical[0] = Genesis
    /\ headHash \in headers
    /\ headHash \in DOMAIN td

\* ComputeGenesis on an initialised store: load the head or return an error,
\* which ends the process.
ComputeGenesis ==
    /\ pc = "down" /\ headHash # Nil
    /\ IF Loadable
       THEN currentHeader' = headHash /\ pc' = "idle"
       ELSE currentHeader' = Nil /\ pc' = "failed"
    /\ UNCHANGED <<store, blk, walk, crashes>>

\* The operator starts the process again.
Restart ==
    /\ pc = "failed"
    /\ pc' = "down"
    /\ UNCHANGED <<store, currentHeader, blk, walk, crashes>>

-----------------------------------------------------------------------------
(* WriteBlock.  A block whose number is not above the head's is reported   *)
(* as already inserted and changes nothing.                                *)

AlreadyInserted(b) ==
    /\ pc = "idle"
    /\ b.number <= currentHeader.number
    /\ UNCHANGED vars

WriteBlock(b) ==
    /\ pc = "idle"
    /\ b.number > currentHeader.number
    /\ bodies' = bodies \cup {b}
    /\ blk' = b
    /\ pc' = "header"
    /\ UNCHANGED <<headers, td, canonical, headHash, forks, receipts, states,
                   currentHeader, walk, crashes>>

\* writeHeaderImpl, fast path: the block extends the head.  The storage's
\* WriteCanonicalHeader writes one key after the other, taken to be in the order
\* in which writeGenesisImpl and advanceHead write the same keys: the header ...
WriteCanonicalHeader ==
    /\ pc = "header"
    /\ blk.parent = currentHeader
    /\ headers' = headers \cup {blk}
    /\ pc' = "newHead"
    /\ UNCHANGED <<td, canonical, headHash, bodies, forks, receipts, states,
                   currentHeader, blk, walk, crashes>>

\* ... the head hash ...
WriteCanonicalHead ==
    /\ pc = "newHead"
    /\ headHash' = blk
    /\ pc' = "newTD"
    /\ UNCHANGED <<headers, td, canonical, bodies, forks, receipts, states,
                   currentHeader, blk, walk, crashes>>

\* ... canonical hash and difficulty; then the new head is published.
WriteCanonicalTD ==
    /\ pc = "newTD"
    /\ canonical' = Put(canonical, blk.number, blk)
    /\ td' = Put(td, blk, IncomingTD(blk))
    /\ currentHeader' = blk
    /\ pc' = "receipts"
    /\ UNCHANGED <<headers, headHash, bodies, forks, receipts, states, blk, walk, crashes>>

\* writeHeaderImpl, any other parent: the header is stored first.
WriteHeader ==
    /\ pc = "header"
    /\ blk.parent # currentHeader
    /\ headers' = headers \cup {blk}
    /\ pc' = "difficulty"
    /\ UNCHANGED <<td, canonical, headHash, bodies, forks, receipts, states,
                   currentHeader, blk, walk, crashes>>

\* "parent of %s (%d) not found": the write ends with an error.
ParentNotFound ==
    /\ pc = "difficulty"
    /\ blk.parent \notin DOMAIN td
    /\ blk' = Nil
    /\ pc' = "idle"
    /\ UNCHANGED <<store, currentHeader, walk, crashes>>

\* Mutant: an unknown parent counts as difficulty 0, as in advanceHead.
WriteTotalDifficultyOrphan ==
    /\ pc = "difficulty"
    /\ LET parentTD == IF blk.parent \in DOMAIN td THEN td[blk.parent] ELSE 0
       IN  /\ td' = Put(td, blk, parentTD + blk.difficulty)
           /\ IF parentTD + blk.difficulty > td[currentHeader]
              THEN /\ pc' = "fillNew"
                   /\ oldHeader' = currentHeader
                   /\ newHeader' = blk
                   /\ UNCHANGED <<oldChain, newChain, progress>>
              ELSE pc' = "fork" /\ UNCHANGED walk
    /\ UNCHANGED <<headers, canonical, headHash, bodies, forks, receipts, states,
                   currentHeader, blk, crashes>>

\* Mutant: the comparison is the wrong way round.
WriteTotalDifficultyLess ==
    /\ pc = "difficulty"
    /\ blk.parent \in DOMAIN td
    /\ td' = Put(td, blk, IncomingTD(blk))
    /\ IF IncomingTD(blk) < td[currentHeader]
       THEN /\ pc' = "fillNew"
            /\ oldHeader' = currentHeader
            /\ newHeader' = blk
            /\ UNCHANGED <<oldChain, newChain, progress>>
       ELSE pc' = "fork" /\ UNCHANGED walk
    /\ UNCHANGED <<headers, canonical, headHash, bodies, forks, receipts, states,
                   currentHeader, blk, crashes>>

\* Mutant: the difficulty of a block that becomes the head is left to advanceHead.
WriteTotalDifficultyLater ==
    /\ pc = "difficulty"
    /\ blk.parent \in DOMAIN td
    /\ IF IncomingTD(blk) > td[currentHeader]
       THEN /\ pc' = "fillNew"
            /\ oldHeader' = currentHeader
            /\ newHeader' = blk
            /\ UNCHANGED <<td, oldChain, newChain, progress>>
       ELSE pc' = "fork" /\ td' = Put(td, blk, IncomingTD(blk)) /\ UNCHANGED walk
    /\ UNCHANGED <<headers, canonical, headHash, bodies, forks, receipts, states,
                   currentHeader, blk, crashes>>

\* The difficulty is stored and compared with that of the head.
WriteTotalDifficulty ==
    /\ pc = "difficulty"
    /\ blk.parent \in DOMAIN td
    /\ td' = Put(td, blk, IncomingTD(blk))
    /\ IF IncomingTD(blk) > td[currentHeader]
       THEN /\ pc' = "fillNew"
            /\ oldHeader' = currentHeader
            /\ newHeader' = blk
            /\ UNCHANGED <<oldChain, newChain, progress>>
       ELSE pc' = "fork" /\ UNCHANGED walk
    /\ UNCHANGED <<headers, canonical, headHash, bodies, forks, receipts, states,
                   currentHeader, blk, crashes>>

\* Mutant: a fork returns before the receipts are written.
WriteForkOnly ==
    /\ pc = "fork"
    /\ forks' = WithFork(blk)
    /\ blk' = Nil
    /\ pc' = "idle"
    /\ UNCHANGED <<headers, td, canonical, headHash, bodies, receipts, states,
                   currentHeader, walk, crashes>>

WriteFork ==
    /\ pc = "fork"
    /\ forks' = WithFork(blk)
    /\ pc' = "receipts"
    /\ UNCHANGED <<headers, td, canonical, headHash, bodies, receipts, states,
                   currentHeader, blk, walk, crashes>>

\* handleReorg: "Fill up the new headers array".  The loop before it, over
\* the old headers, has no iteration: WriteBlock lets no lower number in.  A
\* missing header makes the code dereference nil.
FillNewChain ==
    /\ pc = "fillNew"
    /\ newHeader.number > oldHeader.number
    /\ IF newHeader.parent \in headers
       THEN /\ newHeader' = newHeader.parent
            /\ newChain' = Append(newChain, newHeader.parent)
            /\ pc' = pc
       ELSE pc' = "nilPanic" /\ UNCHANGED <<newHeader, newChain>>
    /\ UNCHANGED <<store, currentHeader, blk, oldHeader, oldChain, progress, crashes>>

FilledNewChain ==
    /\ pc = "fillNew"
    /\ newHeader.number <= oldHeader.number
    /\ pc' = "common"
    /\ UNCHANGED <<store, currentHeader, blk, walk, crashes>>

\* One iteration of the search for the common ancestor.
Searching == oldHeader # newHeader /\ progress

StepOld == IF oldHeader.number > newHeader.number THEN oldHeader.parent ELSE oldHeader
StepNew == IF StepOld.number < newHeader.number THEN newHeader.parent ELSE newHeader

\* Every header the iteration reads is stored.
StepFound ==
    /\ oldHeader.number > newHeader.number => oldHeader.parent \in headers
    /\ StepOld.number < newHeader.number => newHeader.parent \in headers

\* Mutant: nothing notices an iteration that moves neither header.
CommonAncestorNoProgress ==
    /\ pc = "common"
    /\ Searching
    /\ StepFound
    /\ oldHeader' = StepOld
    /\ newHeader' = StepNew
    /\ oldChain' = IF oldChain = <<>> \/ oldChain[Len(oldChain)] # StepOld
                   THEN Append(oldChain, StepOld) ELSE oldChain
    /\ UNCHANGED <<store, pc, currentHeader, blk, newChain, progress, crashes>>

\* Mutant: the headers passed on the old chain are not collected.
CommonAncestorUncollected ==
    /\ pc = "common"
    /\ Searching
    /\ StepFound
    /\ oldHeader' = StepOld
    /\ newHeader' = StepNew
    /\ progress' = (oldHeader.number > newHeader.number
                      \/ StepOld.number < newHeader.number)
    /\ UNCHANGED <<store, pc, currentHeader, blk, oldChain, newChain, crashes>>

CommonAncestor ==
    /\ pc = "common"
    /\ Searching
    /\ IF StepFound
       THEN /\ oldHeader' = StepOld
            /\ newHeader' = StepNew
            /\ progress' = (oldHeader.number > newHeader.number
                              \/ StepOld.number < newHeader.number)
            /\ oldChain' = IF oldChain = <<>> \/ oldChain[Len(oldChain)] # StepOld
                           THEN Append(oldChain, StepOld) ELSE oldChain
            /\ pc' = pc
       ELSE pc' = "nilPanic" /\ UNCHANGED <<oldHeader, newHeader, progress, oldChain>>
    /\ UNCHANGED <<store, currentHeader, blk, newChain, crashes>>

\* Mutant: the old head is not recorded.
WriteOldForkForgotten ==
    /\ pc = "common"
    /\ ~Searching
    /\ pc' = IF oldChain = <<>> THEN "slicePanic" ELSE "canonical"
    /\ UNCHANGED <<store, currentHeader, blk, walk, crashes>>

\* The old head becomes a fork; slicing oldChain panics when it is empty.
WriteOldFork ==
    /\ pc = "common"
    /\ ~Searching
    /\ IF oldChain = <<>>
       THEN pc' = "slicePanic" /\ UNCHANGED forks
       ELSE pc' = "canonical" /\ forks' = WithFork(currentHeader)
    /\ UNCHANGED <<headers, td, canonical, headHash, bodies, receipts, states,
                   currentHeader, blk, walk, crashes>>

\* "Update canonical chain numbers", one write per header of newChain.
WriteCanonicalHash ==
    /\ pc = "canonical" /\ newChain # <<>>
    /\ canonical' = Put(canonical, Head(newChain).number, Head(newChain))
    /\ newChain' = Tail(newChain)
    /\ UNCHANGED <<headers, td, headHash, bodies, forks, receipts, states, pc,
                   currentHeader, blk, oldHeader, newHeader, oldChain, progress, crashes>>

\* advanceHead, first write.
WriteHeadHash ==
    /\ pc = "canonical" /\ newChain = <<>>
    /\ headHash' = blk
    /\ pc' = "head"
    /\ UNCHANGED <<headers, td, canonical, bodies, forks, receipts, states,
                   currentHeader, blk, walk, crashes>>

\* advanceHead, the rest: canonical hash, difficulty, and the published head.
AdvanceHead ==
    /\ pc = "head"
    /\ canonical' = Put(canonical, blk.number, blk)
    /\ td' = Put(td, blk, IncomingTD(blk))
    /\ currentHeader' = blk
    /\ pc' = "receipts"
    /\ ForgetWalk
    /\ UNCHANGED <<headers, headHash, bodies, forks, receipts, states, blk, crashes>>

\* executeBlockTransactions needs the state of the parent.
Executes(b) == b.parent \in states /\ b.body # "fails"

\* extractBlockReceipts and WriteReceipts.  When execution fails the write
\* returns an error although the header is stored.
WriteReceipts ==
    /\ pc = "receipts"
    /\ receipts' = IF Executes(blk) THEN receipts \cup {blk} ELSE receipts
    /\ states' = IF Executes(blk) /\ blk.body = "good" THEN states \cup {blk} ELSE states
    /\ blk' = Nil
    /\ pc' = "idle"
    /\ UNCHANGED <<headers, td, canonical, headHash, bodies, forks,
                   currentHeader, walk, crashes>>

-----------------------------------------------------------------------------
\* The process dies; what it had in memory is gone.
Crash ==
    /\ crashes < MaxCrashes
    /\ pc \notin {"down", "failed", "nilPanic", "slicePanic"}
    /\ crashes' = crashes + 1
    /\ pc' = "down"
    /\ currentHeader' = Nil /\ blk' = Nil
    /\ ForgetWalk
    /\ UNCHANGED store

Startup == WriteGenesis \/ GenesisCanonical \/ GenesisTD \/ ComputeGenesis \/ Restart

Write ==
    \/ WriteCanonicalHeader \/ WriteCanonicalHead \/ WriteCanonicalTD
    \/ WriteHeader \/ ParentNotFound \/ WriteTotalDifficulty
    \/ WriteFork \/ FillNewChain \/ FilledNewChain \/ CommonAncestor \/ WriteOldFork
    \/ WriteCanonicalHash \/ WriteHeadHash \/ AdvanceHead \/ WriteReceipts

Next == Startup \/ (\E b \in Block : WriteBlock(b) \/ AlreadyInserted(b)) \/ Write \/ Crash

Spec == Init /\ [][Next]_vars

\* The goroutine that starts the process and the one that holds writeLock run.
FairSpec == Spec /\ WF_vars(Startup) /\ WF_vars(Write)
-----------------------------------------------------------------------------
Phase == {"down", "failed", "genesisHash", "genesisTD", "idle", "header", "newHead",
          "newTD", "difficulty", "fork", "fillNew", "common", "canonical", "head", "receipts",
          "nilPanic", "slicePanic"}

\* The store and the writer hold values of the types blockchain.go gives them.
TypeOK ==
    /\ headers \subseteq Block /\ bodies \subseteq Block
    /\ receipts \subseteq Block /\ states \subseteq Block /\ forks \subseteq Block
    /\ DOMAIN td \subseteq Block /\ td \in [DOMAIN td -> Nat]
    /\ DOMAIN canonical \subseteq Nat /\ canonical \in [DOMAIN canonical -> Block]
    /\ headHash \in Block \cup {Nil}
    /\ pc \in Phase
    /\ {currentHeader, blk, oldHeader, newHeader} \subseteq Block \cup {Nil}
    /\ oldChain \in Seq(Block) /\ newChain \in Seq(Block)
    /\ progress \in BOOLEAN
    /\ crashes \in 0..MaxCrashes

\* A stored total difficulty belongs to a stored header and is the parent's
\* stored total difficulty plus the block's own: writeHeaderImpl stores none
\* for a block whose parent it does not know, in whatever order blocks come
\* and wherever the process dies.
DifficultyChain ==
    \A h \in DOMAIN td :
        /\ h \in headers
        /\ h # Genesis => /\ h.parent \in DOMAIN td
                          /\ td[h] = td[h.parent] + h.difficulty

\* handleReorg finds every parent header it walks to; with one missing it
\* would dereference nil.
NoNilHeader == pc # "nilPanic"

\* In a process that never died, the old head is no ancestor of the block that
\* replaces it: oldChain[:len(oldChain)-1] has an element to drop.
NoEmptySlice == crashes = 0 => pc # "slicePanic"

\* Between writes of a process that never died, no known block is heavier
\* than the head: writeHeaderImpl switches to every heavier chain.
HeaviestHead ==
    crashes = 0 /\ pc = "idle" => \A h \in DOMAIN td : td[h] <= td[currentHeader]

\* Between writes of a process that never died, GetForks has the tip of every
\* chain the node knows and has not chosen.
ForksCoverTips ==
    crashes = 0 /\ pc = "idle" =>
        \A h \in DOMAIN td \ {currentHeader} :
            h \in forks \/ \E c \in DOMAIN td : c.parent = h

\* At whatever write a started process dies, half-done reorganisations included,
\* ComputeGenesis can load what it leaves, unless the storage is between the head
\* hash and the difficulty of a block that extends the head.
DiesLoadable ==
    pc \notin {"down", "failed", "genesisHash", "genesisTD", "newTD"} => Loadable

\* Once the genesis block is complete, ComputeGenesis can load the store at
\* whatever write the process dies.
AlwaysLoadable == Genesis \in DOMAIN td => Loadable

\* Between writes of a process that never died, every block of known
\* difficulty that can be executed has its receipts: WriteBlock leaves out
\* only the receipts of blocks that fail.
ReceiptsComplete ==
    crashes = 0 /\ pc = "idle" =>
        \A h \in DOMAIN td \ {Genesis} : Executes(h) => h \in receipts

\* The stored head never goes back: a new one has a higher number and no less
\* total difficulty, be it stored yet or not.
HeadAdvances ==
    [][headHash # Nil /\ headHash' # headHash =>
           /\ headHash'.number > headHash.number
           /\ IncomingTD(headHash') >= td[headHash]]_vars

\* Every write ends, or the process dies in it: handleReorg's loops
\* terminate.
WriteEnds == pc = "header" ~> pc \in {"idle", "down"}

\* The store as its users see it.  A reorganisation takes effect when the new
\* head is published, although its difficulty is stored before.
Reorganising == pc \in {"fillNew", "common", "canonical", "head"}

StoreView ==
    IF Genesis \notin DOMAIN td THEN NewStore(Genesis)
    ELSE LET known == IF Reorganising THEN DOMAIN td \ {blk} ELSE DOMAIN td
         IN  [td |-> [h \in known |-> td[h]], head |-> currentHeader]

Abstract == INSTANCE ChainStore WITH chain <- StoreView

\* As long as the process has not died, every WriteBlock takes effect
\* atomically: the writes of writeHeaderImpl, handleReorg and advanceHead
\* implement Insert.
ImplementsChainStore ==
    Abstract!Init /\ [][crashes' = 0 => Abstract!Next]_StoreView

\* The blocks on the path from h down to the genesis block.
Path(h) == LET up[n \in Nat] == IF n = 0 THEN h
                                ELSE IF up[n - 1] \in {Genesis, Nil} THEN Nil
                                ELSE up[n - 1].parent
           IN  {up[n] : n \in 0..h.number} \ {Nil}

\* TestInsertHeaders looks the chain of the head up by number after its forks
\* and reorganisations: each block of the head's chain is the canonical block
\* of its number.
CanonicalIsHeadChain ==
    pc = "idle" => \A h \in Path(currentHeader) : canonical[h.number] = h
=============================================================================
