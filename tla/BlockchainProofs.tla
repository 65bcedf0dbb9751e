-------------------------- MODULE BlockchainProofs --------------------------
(***************************************************************************)
(* Proofs about Blockchain, for every set of blocks, every order of        *)
(* delivery and any number of crashes.                                     *)
(*                                                                         *)
(* The inductive invariant has three parts beside TypeOK and               *)
(* DifficultyChain: what the phase of the writer says of its locals        *)
(* (WriterInv), what every crash leaves in the store (StoreInv), and what  *)
(* holds until the first crash (CrashFreeInv).  The last one rests on an   *)
(* observation the code never states: no block of known difficulty is a    *)
(* child of the head, so a chain that overtakes the head never contains it.*)
(*                                                                         *)
(* Forks and receipts come last, with an invariant each that says what is  *)
(* still missing in the middle of a write (ForkInv, ReceiptInv).           *)
(*                                                                         *)
(* The last section is about the accounts on the chain of nodes that join  *)
(* (Join): no deposit of the faucet goes to an account that needs none,    *)
(* for any set of nodes and any number of crashes, restarts and orderly    *)
(* ends.                                                                   *)
(***************************************************************************)
EXTENDS Blockchain, TLAPS

Loaded == pc \notin {"down", "failed", "genesisHash", "genesisTD"}
Reorg == pc \in {"fillNew", "common", "canonical", "head"}

StoreInv ==
    /\ pc \in {"genesisHash", "genesisTD"} => /\ headHash = Genesis
                                              /\ Genesis \in headers
                                              /\ Genesis \notin DOMAIN td
    /\ pc = "genesisTD" => 0 \in DOMAIN canonical /\ canonical[0] = Genesis
    /\ Genesis \in DOMAIN td => /\ 0 \in DOMAIN canonical
                                /\ canonical[0] = Genesis
                                /\ headHash \in headers
    /\ \A h \in DOMAIN td : h.number = 0 => h = Genesis
    /\ DOMAIN td # {} => Genesis \in DOMAIN td

WriterInv ==
    /\ Loaded => Genesis \in DOMAIN td /\ currentHeader \in DOMAIN td
    /\ Loaded /\ pc \notin {"head", "newTD"} => headHash = currentHeader
    /\ pc \in {"head", "newTD"} => headHash = blk
    /\ pc \in {"header", "newHead", "newTD", "difficulty", "fork"} \/ Reorg =>
           blk \in Block /\ blk.number > currentHeader.number
    /\ pc \in {"newHead", "newTD"} => blk \in headers /\ blk.parent = currentHeader
    /\ pc = "receipts" => blk \in DOMAIN td
    /\ pc = "difficulty" => blk \in headers /\ blk.parent # currentHeader
    /\ pc = "fork" \/ Reorg => blk \in DOMAIN td
    /\ Reorg => td[blk] > td[currentHeader]
    /\ pc \in {"fillNew", "common"} => oldHeader \in DOMAIN td /\ newHeader \in DOMAIN td
    /\ \A i \in 1..Len(newChain) : newChain[i] \in DOMAIN td
    /\ pc # "nilPanic"

CrashFreeInv ==
    crashes = 0 =>
        /\ ~Loaded => td = [b \in {} |-> 0] /\ pc # "failed"
        /\ pc = "down" => headHash = Nil
        /\ Loaded => \A h \in DOMAIN td : h.parent # currentHeader
        /\ Loaded /\ ~Reorg => \A h \in DOMAIN td : td[h] <= td[currentHeader]
        /\ Reorg => \A h \in DOMAIN td : h.parent # blk /\ td[h] <= td[blk]
        /\ pc \in {"fillNew", "common"} \/ ~Reorg => (oldChain = <<>> => progress)
        /\ pc = "fillNew" => /\ oldHeader = currentHeader
                             /\ newHeader # currentHeader
        /\ pc = "common" => (oldChain = <<>> => oldHeader # newHeader)
        /\ pc # "slicePanic"

IInv == TypeOK /\ DifficultyChain /\ StoreInv /\ WriterInv /\ CrashFreeInv
-----------------------------------------------------------------------------
(* Facts about the steps of handleReorg.                                   *)

\* Appending a block to a list of headers gives a non-empty list of headers.
LEMMA AppendBlock ==
    ASSUME NEW S, NEW s \in Seq(S), NEW x \in S
    PROVE  Append(s, x) \in Seq(S) /\ Append(s, x) # <<>>
<1>1. Append(s, x) \in Seq(S)
    OBVIOUS
<1>2. Len(Append(s, x)) = Len(s) + 1 /\ Len(s) \in Nat
    OBVIOUS
<1>3. Len(Append(s, x)) # Len(<<>>)
    BY <1>2
<1> QED
    BY <1>1, <1>3, Zenon

\* Appending a known header to a list of known headers keeps them known.
LEMMA AppendKnown ==
    ASSUME NEW S, NEW T, NEW s \in Seq(T), NEW x \in S, \A i \in 1..Len(s) : s[i] \in S
    PROVE  \A i \in 1..Len(Append(s, x)) : Append(s, x)[i] \in S
    OBVIOUS

\* A write to a table of the database keeps the type of the table.
LEMMA PutTyped ==
    ASSUME NEW K, NEW V, NEW f, DOMAIN f \subseteq K, f \in [DOMAIN f -> V], NEW k \in K, NEW v \in V
    PROVE  /\ DOMAIN Put(f, k, v) \subseteq K
           /\ Put(f, k, v) \in [DOMAIN Put(f, k, v) -> V]
    BY Zenon DEF Put

\* A walk stands on blocks of known difficulty, so the parent it moves to is
\* one too: only the genesis block has none, and the walk stops above it.
LEMMA ParentKnown ==
    ASSUME TypeOK, DifficultyChain, NEW h \in DOMAIN td, NEW n \in Nat, h.number > n
    PROVE  h.parent \in DOMAIN td /\ h.parent \in headers
    BY BlockAssumption, SMTT(30) DEF TypeOK, DifficultyChain

\* The headers still to be indexed have known difficulties.
LEMMA NewChainHead ==
    ASSUME TypeOK, newChain # <<>>, \A i \in 1..Len(newChain) : newChain[i] \in DOMAIN td
    PROVE  /\ Head(newChain) \in DOMAIN td
           /\ Tail(newChain) \in Seq(Block)
           /\ \A i \in 1..Len(Tail(newChain)) : Tail(newChain)[i] \in DOMAIN td
<1>1. newChain \in Seq(Block)
    BY Zenon DEF TypeOK
<1>2. Len(newChain) \in Nat \ {0}
    BY <1>1
<1>3. Head(newChain) = newChain[1]
    BY <1>1
<1>4. /\ Len(Tail(newChain)) = Len(newChain) - 1
      /\ \A i \in 1..Len(newChain) - 1 : Tail(newChain)[i] = newChain[i + 1]
    BY <1>1, <1>2
<1> QED
    BY <1>1, <1>2, <1>3, <1>4

\* Where one iteration of the common-ancestor search leads.
LEMMA SearchStep ==
    ASSUME IInv, CommonAncestor
    PROVE  /\ StepFound
           /\ StepOld \in DOMAIN td /\ StepNew \in DOMAIN td
           /\ oldHeader' = StepOld /\ newHeader' = StepNew
           /\ progress' \in BOOLEAN
           /\ oldChain' \in Seq(Block) /\ oldChain' # <<>>
<1> USE DEF IInv
<1>1. oldHeader \in DOMAIN td /\ newHeader \in DOMAIN td
    BY Zenon DEF CommonAncestor, WriterInv
<1>2. oldHeader.number \in Nat /\ newHeader.number \in Nat
    BY <1>1, BlockAssumption, Zenon DEF TypeOK
<1>3. oldHeader.number > newHeader.number =>
          oldHeader.parent \in DOMAIN td /\ oldHeader.parent \in headers
    BY <1>1, <1>2, ParentKnown, Zenon
<1>4. StepOld \in DOMAIN td
    BY <1>1, <1>3, Zenon DEF StepOld
<1>5. StepOld.number \in Nat
    BY <1>4, BlockAssumption, Zenon DEF TypeOK
<1>6. StepOld.number < newHeader.number =>
          newHeader.parent \in DOMAIN td /\ newHeader.parent \in headers
    BY <1>1, <1>2, <1>5, ParentKnown, Zenon
<1>7. StepFound
    BY <1>3, <1>6, Zenon DEF StepFound
<1>8. StepNew \in DOMAIN td
    BY <1>1, <1>6, Zenon DEF StepNew
<1>9. progress' \in BOOLEAN
    BY <1>7, Zenon DEF CommonAncestor
<1>10. oldChain' \in Seq(Block) /\ oldChain' # <<>>
  <2>1. StepOld \in Block /\ oldChain \in Seq(Block)
    BY <1>4, Zenon DEF TypeOK
  <2>2. (oldChain' = oldChain /\ oldChain # <<>>) \/ oldChain' = Append(oldChain, StepOld)
    BY <1>7, Zenon DEF CommonAncestor
  <2> QED
    BY <2>1, <2>2, SMTT(30)
<1> QED
    BY <1>4, <1>7, <1>8, <1>9, <1>10, Zenon DEF CommonAncestor

-----------------------------------------------------------------------------
(* Every step preserves every part of the invariant.                       *)

\* The types of the store and of the writer are preserved.
LEMMA TypeOKStep ==
    ASSUME IInv, [Next]_vars
    PROVE  TypeOK'
<1> USE BlockAssumption, BoundAssumption
    DEF IInv, TypeOK, Phase, WriterInv, Loaded, Reorg, Put, Body, store, walk
<1>1. CASE WriteGenesis
    BY <1>1, Zenon DEF WriteGenesis
<1>2. CASE GenesisCanonical
    BY <1>2, Zenon DEF GenesisCanonical
<1>3. CASE GenesisTD
    BY <1>3, Zenon DEF GenesisTD
<1>4. CASE ComputeGenesis
    BY <1>4, Zenon DEF ComputeGenesis, Loadable
<1>5. CASE Restart
    BY <1>5, Zenon DEF Restart
<1>6. ASSUME NEW b \in Block, WriteBlock(b) PROVE TypeOK'
    BY <1>6, ZenonT(30) DEF WriteBlock
<1>7. CASE WriteCanonicalHeader
    BY <1>7, Zenon DEF WriteCanonicalHeader
<1>8. CASE WriteHeader
    BY <1>8, Zenon DEF WriteHeader
<1>9. CASE ParentNotFound
    BY <1>9, Zenon DEF ParentNotFound
<1>10. CASE WriteTotalDifficulty
  <2>1. blk \in Block /\ IncomingTD(blk) \in Nat /\ currentHeader \in Block
    BY <1>10, SMTT(30) DEF WriteTotalDifficulty, IncomingTD
  <2> HIDE DEF Put
  <2>2. td' = Put(td, blk, IncomingTD(blk))
    BY <1>10, Zenon DEF WriteTotalDifficulty
  <2>3. DOMAIN td' \subseteq Block /\ td' \in [DOMAIN td' -> Nat]
    <3>1. DOMAIN td \subseteq Block /\ td \in [DOMAIN td -> Nat]
      BY Zenon
    <3> HIDE BlockAssumption, BoundAssumption DEF IInv, TypeOK, WriterInv
    <3> QED
      BY <2>1, <2>2, <3>1, PutTyped, Zenon
  <2> QED
    BY <1>10, <2>1, <2>3, Zenon DEF WriteTotalDifficulty
<1>11. CASE WriteFork
    BY <1>11, Zenon DEF WriteFork, WithFork
<1>12. CASE FillNewChain
  <2>1. newHeader \in DOMAIN td /\ oldHeader.number \in Nat /\ newHeader.number > oldHeader.number
    BY <1>12, Zenon DEF FillNewChain
  <2>2. newHeader.parent \in DOMAIN td
    BY <2>1, ParentKnown, Zenon
  <2>3. Append(newChain, newHeader.parent) \in Seq(Block)
    BY <2>2, AppendBlock, Zenon
  <2>4. newHeader' \in Block /\ newChain' \in Seq(Block)
    <3> HIDE DEF Phase, Body, Put
    <3> QED
      BY <1>12, <2>1, <2>2, <2>3, Zenon DEF FillNewChain
  <2> QED
    BY <1>12, <2>4, Zenon DEF FillNewChain
<1>13. CASE FilledNewChain
    BY <1>13, Zenon DEF FilledNewChain
<1>14. CASE CommonAncestor
    BY <1>14, SearchStep, Zenon DEF CommonAncestor
<1>15. CASE WriteOldFork
    BY <1>15, Zenon DEF WriteOldFork, WithFork, Searching
<1>16. CASE WriteCanonicalHash
  <2>1. newChain # <<>> /\ \A i \in 1..Len(newChain) : newChain[i] \in DOMAIN td
    BY <1>16, Zenon DEF WriteCanonicalHash
  <2>2. Head(newChain) \in DOMAIN td /\ Tail(newChain) \in Seq(Block)
    BY <2>1, NewChainHead, Zenon
  <2>3. Head(newChain) \in Block /\ Head(newChain).number \in Nat
    BY <2>2, Zenon
  <2> HIDE DEF Put
  <2>4. canonical' = Put(canonical, Head(newChain).number, Head(newChain))
    BY <1>16, Zenon DEF WriteCanonicalHash
  <2>5. DOMAIN canonical' \subseteq Nat /\ canonical' \in [DOMAIN canonical' -> Block]
    <3>1. DOMAIN canonical \subseteq Nat /\ canonical \in [DOMAIN canonical -> Block]
      BY Zenon
    <3> HIDE BlockAssumption, BoundAssumption DEF IInv, TypeOK, WriterInv
    <3> QED
      BY <2>3, <2>4, <3>1, PutTyped, Zenon
  <2> QED
    BY <1>16, <2>2, <2>5, Zenon DEF WriteCanonicalHash
<1>17. CASE WriteHeadHash
    BY <1>17, Zenon DEF WriteHeadHash
<1>18. CASE AdvanceHead
  <2>1. blk \in DOMAIN td /\ IncomingTD(blk) \in Nat
    BY <1>18, SMTT(30) DEF AdvanceHead, IncomingTD, DifficultyChain
  <2> QED
    BY <1>18, <2>1, SMTT(30) DEF AdvanceHead, ForgetWalk
<1>19. CASE WriteReceipts
    BY <1>19, Zenon DEF WriteReceipts
<1>20. CASE Crash
    BY <1>20, SMTT(30) DEF Crash, ForgetWalk
<1>21. CASE UNCHANGED vars
    BY <1>21, Zenon DEF vars
<1>22. CASE WriteCanonicalHead
    BY <1>22, Zenon DEF WriteCanonicalHead
<1>23. CASE WriteCanonicalTD
  <2>1. blk \in Block /\ blk.number \in Nat /\ IncomingTD(blk) \in Nat
    BY <1>23, SMTT(30) DEF WriteCanonicalTD, IncomingTD
  <2> HIDE DEF Put
  <2>2. td' = Put(td, blk, IncomingTD(blk)) /\ canonical' = Put(canonical, blk.number, blk)
    BY <1>23, Zenon DEF WriteCanonicalTD
  <2>3. /\ DOMAIN td' \subseteq Block /\ td' \in [DOMAIN td' -> Nat]
        /\ DOMAIN canonical' \subseteq Nat /\ canonical' \in [DOMAIN canonical' -> Block]
    <3>1. /\ DOMAIN td \subseteq Block /\ td \in [DOMAIN td -> Nat]
          /\ DOMAIN canonical \subseteq Nat /\ canonical \in [DOMAIN canonical -> Block]
      BY Zenon
    <3> HIDE BlockAssumption, BoundAssumption DEF IInv, TypeOK, WriterInv
    <3>2. DOMAIN td' \subseteq Block /\ td' \in [DOMAIN td' -> Nat]
      BY <2>1, <2>2, <3>1, PutTyped, Zenon
    <3>3. DOMAIN canonical' \subseteq Nat /\ canonical' \in [DOMAIN canonical' -> Block]
      BY <2>1, <2>2, <3>1, PutTyped, Zenon
    <3> QED
      BY <3>2, <3>3, Zenon
  <2> QED
    BY <1>23, <2>1, <2>3, Zenon DEF WriteCanonicalTD
<1> QED
    BY Zenon, <1>1, <1>2, <1>3, <1>4, <1>5, <1>6, <1>7, <1>8, <1>9, <1>10, <1>11,
       <1>12, <1>13, <1>14, <1>15, <1>16, <1>17, <1>18, <1>19, <1>20, <1>21, <1>22, <1>23
    DEF Next, Startup, Write, AlreadyInserted

\* No write breaks the chain of total difficulties.
LEMMA DifficultyChainStep ==
    ASSUME IInv, [Next]_vars
    PROVE  DifficultyChain'
<1> USE BlockAssumption DEF IInv, TypeOK, DifficultyChain, StoreInv, WriterInv, Loaded, Reorg, Put, store, walk
<1>1. CASE WriteGenesis
    BY <1>1, Zenon DEF WriteGenesis
<1>2. CASE GenesisCanonical
    BY <1>2, Zenon DEF GenesisCanonical
<1>3. CASE GenesisTD
    BY <1>3, Zenon DEF GenesisTD
<1>4. CASE ComputeGenesis
    BY <1>4, Zenon DEF ComputeGenesis, Loadable
<1>5. CASE Restart
    BY <1>5, Zenon DEF Restart
<1>6. ASSUME NEW b \in Block, WriteBlock(b) PROVE DifficultyChain'
    BY <1>6, Zenon DEF WriteBlock
<1>7. CASE WriteCanonicalHeader
    BY <1>7, Zenon DEF WriteCanonicalHeader
<1>8. CASE WriteHeader
    BY <1>8, Zenon DEF WriteHeader
<1>9. CASE ParentNotFound
    BY <1>9, Zenon DEF ParentNotFound
<1>10. CASE WriteTotalDifficulty
  <2>1. blk \in Block \ {Genesis} /\ blk \in headers /\ blk.parent \in DOMAIN td
    BY <1>10, Zenon DEF WriteTotalDifficulty
  <2>2. blk \in DOMAIN td => td[blk] = IncomingTD(blk)
    BY <2>1, Zenon DEF IncomingTD
  <2>3. /\ DOMAIN td' = DOMAIN td \cup {blk}
        /\ td'[blk] = IncomingTD(blk)
        /\ \A h \in DOMAIN td : td'[h] = td[h]
    BY <1>10, <2>2, Zenon DEF WriteTotalDifficulty
  <2>4. headers' = headers
    BY <1>10, Zenon DEF WriteTotalDifficulty
  <2> QED
    BY <2>1, <2>3, <2>4, ZenonT(30) DEF IncomingTD
<1>11. CASE WriteFork
    BY <1>11, Zenon DEF WriteFork, WithFork
<1>12. CASE FillNewChain
    BY <1>12, Zenon DEF FillNewChain
<1>13. CASE FilledNewChain
    BY <1>13, Zenon DEF FilledNewChain
<1>14. CASE CommonAncestor
    BY <1>14, Zenon DEF CommonAncestor
<1>15. CASE WriteOldFork
    BY <1>15, Zenon DEF WriteOldFork, WithFork, Searching
<1>16. CASE WriteCanonicalHash
    BY <1>16, Zenon DEF WriteCanonicalHash
<1>17. CASE WriteHeadHash
    BY <1>17, Zenon DEF WriteHeadHash
<1>18. CASE AdvanceHead
  <2>1. blk \in DOMAIN td /\ blk # Genesis /\ headers' = headers
    BY <1>18 DEF AdvanceHead
  <2>2. td[blk] = IncomingTD(blk)
    BY <2>1, Zenon DEF IncomingTD
  <2>3. DOMAIN td' = DOMAIN td /\ \A h \in DOMAIN td : td'[h] = td[h]
    BY <1>18, <2>1, <2>2, SMTT(30) DEF AdvanceHead
  <2> QED
    BY <2>1, <2>3, Zenon
<1>19. CASE WriteReceipts
    BY <1>19, Zenon DEF WriteReceipts
<1>20. CASE Crash
    BY <1>20, Zenon DEF Crash, ForgetWalk
<1>21. CASE UNCHANGED vars
    BY <1>21, Zenon DEF vars
<1>22. CASE WriteCanonicalHead
    BY <1>22, Zenon DEF WriteCanonicalHead
<1>23. CASE WriteCanonicalTD
  <2>1. blk \in Block \ {Genesis} /\ blk.parent \in DOMAIN td
    BY <1>23, Zenon DEF WriteCanonicalTD
  <2>2. blk \in DOMAIN td => td[blk] = IncomingTD(blk)
    BY <2>1, Zenon DEF IncomingTD
  <2>3. /\ DOMAIN td' = DOMAIN td \cup {blk}
        /\ td'[blk] = IncomingTD(blk)
        /\ \A h \in DOMAIN td : td'[h] = td[h]
    BY <1>23, <2>2, Zenon DEF WriteCanonicalTD
  <2>4. headers' = headers /\ blk \in headers
    BY <1>23, Zenon DEF WriteCanonicalTD
  <2> QED
    BY <2>1, <2>3, <2>4, Zenon DEF IncomingTD
<1> QED
    BY Zenon, <1>1, <1>2, <1>3, <1>4, <1>5, <1>6, <1>7, <1>8, <1>9, <1>10, <1>11,
       <1>12, <1>13, <1>14, <1>15, <1>16, <1>17, <1>18, <1>19, <1>20, <1>21, <1>22, <1>23
    DEF Next, Startup, Write, AlreadyInserted

\* No write, and no crash, leaves a head without its header.
LEMMA StoreInvStep ==
    ASSUME IInv, [Next]_vars
    PROVE  StoreInv'
<1> USE BlockAssumption DEF IInv, TypeOK, DifficultyChain, StoreInv, WriterInv, Loaded, Reorg, Put, store, walk
<1>1. CASE WriteGenesis
    BY <1>1, Zenon DEF WriteGenesis
<1>2. CASE GenesisCanonical
    BY <1>2, Zenon DEF GenesisCanonical
<1>3. CASE GenesisTD
    BY <1>3, Zenon DEF GenesisTD
<1>4. CASE ComputeGenesis
    BY <1>4, Zenon DEF ComputeGenesis, Loadable
<1>5. CASE Restart
    BY <1>5, Zenon DEF Restart
<1>6. ASSUME NEW b \in Block, WriteBlock(b) PROVE StoreInv'
    BY <1>6, Zenon DEF WriteBlock
<1>7. CASE WriteCanonicalHeader
    BY <1>7, Zenon DEF WriteCanonicalHeader
<1>8. CASE WriteHeader
    BY <1>8, Zenon DEF WriteHeader
<1>9. CASE ParentNotFound
    BY <1>9, Zenon DEF ParentNotFound
<1>10. CASE WriteTotalDifficulty
    BY <1>10 DEF WriteTotalDifficulty, IncomingTD
<1>11. CASE WriteFork
    BY <1>11, Zenon DEF WriteFork, WithFork
<1>12. CASE FillNewChain
    BY <1>12, Zenon DEF FillNewChain
<1>13. CASE FilledNewChain
    BY <1>13, Zenon DEF FilledNewChain
<1>14. CASE CommonAncestor
    BY <1>14, Zenon DEF CommonAncestor
<1>15. CASE WriteOldFork
    BY <1>15, Zenon DEF WriteOldFork, WithFork, Searching
<1>16. CASE WriteCanonicalHash
  <2>1. Head(newChain) \in DOMAIN td
    BY <1>16, NewChainHead, Zenon DEF WriteCanonicalHash
  <2> QED
    BY <1>16, <2>1, Zenon DEF WriteCanonicalHash
<1>17. CASE WriteHeadHash
    BY <1>17, Zenon DEF WriteHeadHash
<1>18. CASE AdvanceHead
    BY <1>18, Zenon DEF AdvanceHead, IncomingTD, ForgetWalk
<1>19. CASE WriteReceipts
    BY <1>19, Zenon DEF WriteReceipts
<1>20. CASE Crash
    BY <1>20, Zenon DEF Crash, ForgetWalk
<1>21. CASE UNCHANGED vars
    BY <1>21, Zenon DEF vars
<1>22. CASE WriteCanonicalHead
    BY <1>22, Zenon DEF WriteCanonicalHead
<1>23. CASE WriteCanonicalTD
    BY <1>23 DEF WriteCanonicalTD, IncomingTD
<1> QED
    BY Zenon, <1>1, <1>2, <1>3, <1>4, <1>5, <1>6, <1>7, <1>8, <1>9, <1>10, <1>11,
       <1>12, <1>13, <1>14, <1>15, <1>16, <1>17, <1>18, <1>19, <1>20, <1>21, <1>22, <1>23
    DEF Next, Startup, Write, AlreadyInserted

\* The phases of the writer follow one another.
LEMMA WriterInvStep ==
    ASSUME IInv, [Next]_vars
    PROVE  WriterInv'
<1> USE BlockAssumption DEF IInv, TypeOK, DifficultyChain, StoreInv, WriterInv, Loaded, Reorg, Put, store, walk
<1>1. CASE WriteGenesis
    BY <1>1, Zenon DEF WriteGenesis
<1>2. CASE GenesisCanonical
    BY <1>2, Zenon DEF GenesisCanonical
<1>3. CASE GenesisTD
    BY <1>3, Zenon DEF GenesisTD
<1>4. CASE ComputeGenesis
    BY <1>4, Zenon DEF ComputeGenesis, Loadable
<1>5. CASE Restart
    BY <1>5, Zenon DEF Restart
<1>6. ASSUME NEW b \in Block, WriteBlock(b) PROVE WriterInv'
    BY <1>6, Zenon DEF WriteBlock
<1>7. CASE WriteCanonicalHeader
    BY <1>7, Zenon DEF WriteCanonicalHeader
<1>8. CASE WriteHeader
    BY <1>8, Zenon DEF WriteHeader
<1>9. CASE ParentNotFound
    BY <1>9, Zenon DEF ParentNotFound
<1>10. CASE WriteTotalDifficulty
    BY <1>10, SMTT(30) DEF WriteTotalDifficulty, IncomingTD
<1>11. CASE WriteFork
    BY <1>11, Zenon DEF WriteFork, WithFork
<1>12. CASE FillNewChain
  <2>1. newHeader \in DOMAIN td /\ oldHeader.number \in Nat /\ newHeader.number > oldHeader.number
    BY <1>12, Zenon DEF FillNewChain
  <2>2. newHeader.parent \in DOMAIN td /\ newHeader.parent \in headers
    BY <2>1, ParentKnown, Zenon
  <2>3. newChain' = Append(newChain, newHeader.parent)
    BY <1>12, <2>2, Zenon DEF FillNewChain
  <2>4. \A i \in 1..Len(newChain') : newChain'[i] \in DOMAIN td
    BY <2>2, <2>3, AppendKnown, Zenon
  <2> QED
    BY <1>12, <2>2, <2>4, Zenon DEF FillNewChain
<1>13. CASE FilledNewChain
    BY <1>13, Zenon DEF FilledNewChain
<1>14. CASE CommonAncestor
    BY <1>14, SearchStep, Zenon DEF CommonAncestor
<1>15. CASE WriteOldFork
    BY <1>15, Zenon DEF WriteOldFork, WithFork, Searching
<1>16. CASE WriteCanonicalHash
  <2>1. \A i \in 1..Len(newChain') : newChain'[i] \in DOMAIN td
    BY <1>16, NewChainHead, Zenon DEF WriteCanonicalHash
  <2> QED
    BY <1>16, <2>1, Zenon DEF WriteCanonicalHash
<1>17. CASE WriteHeadHash
    BY <1>17, Zenon DEF WriteHeadHash
<1>18. CASE AdvanceHead
    BY <1>18 DEF AdvanceHead, IncomingTD, ForgetWalk
<1>19. CASE WriteReceipts
    BY <1>19, Zenon DEF WriteReceipts
<1>20. CASE Crash
    BY <1>20 DEF Crash, ForgetWalk
<1>21. CASE UNCHANGED vars
    BY <1>21, ZenonT(30) DEF vars
<1>22. CASE WriteCanonicalHead
    BY <1>22, Zenon DEF WriteCanonicalHead
<1>23. CASE WriteCanonicalTD
    BY <1>23, Zenon DEF WriteCanonicalTD, IncomingTD
<1> QED
    BY Zenon, <1>1, <1>2, <1>3, <1>4, <1>5, <1>6, <1>7, <1>8, <1>9, <1>10, <1>11,
       <1>12, <1>13, <1>14, <1>15, <1>16, <1>17, <1>18, <1>19, <1>20, <1>21, <1>22, <1>23
    DEF Next, Startup, Write, AlreadyInserted

\* Without a crash the head stays the heaviest block, and a leaf.
LEMMA CrashFreeInvStep ==
    ASSUME IInv, [Next]_vars
    PROVE  CrashFreeInv'
<1> USE BlockAssumption DEF IInv, TypeOK, DifficultyChain, StoreInv, WriterInv, CrashFreeInv, Loaded, Reorg, Put, store, walk
<1>1. CASE WriteGenesis
    BY <1>1, Zenon DEF WriteGenesis
<1>2. CASE GenesisCanonical
    BY <1>2, Zenon DEF GenesisCanonical
<1>3. CASE GenesisTD
    BY <1>3 DEF GenesisTD
<1>4. CASE ComputeGenesis
    BY <1>4, Zenon DEF ComputeGenesis, Loadable
<1>5. CASE Restart
    BY <1>5, Zenon DEF Restart
<1>6. ASSUME NEW b \in Block, WriteBlock(b) PROVE CrashFreeInv'
    BY <1>6, Zenon DEF WriteBlock
<1>7. CASE WriteCanonicalHeader
    BY <1>7, Zenon DEF WriteCanonicalHeader
<1>8. CASE WriteHeader
    BY <1>8, Zenon DEF WriteHeader
<1>9. CASE ParentNotFound
    BY <1>9, Zenon DEF ParentNotFound
<1>10. CASE WriteTotalDifficulty
  <2>1. /\ blk \in Block \ {Genesis} /\ blk.parent # currentHeader
        /\ blk.parent \in DOMAIN td /\ currentHeader \in DOMAIN td
    BY <1>10, Zenon DEF WriteTotalDifficulty
  <2>2. blk \in DOMAIN td => td[blk] = IncomingTD(blk)
    BY <2>1, Zenon DEF IncomingTD
  <2>3. /\ DOMAIN td' = DOMAIN td \cup {blk}
        /\ td'[blk] = IncomingTD(blk)
        /\ \A h \in DOMAIN td : td'[h] = td[h]
    BY <1>10, <2>2, Zenon DEF WriteTotalDifficulty
  <2>4. \A h \in DOMAIN td' : td'[h] \in Nat
    BY <2>1, <2>3 DEF IncomingTD
  <2>5. UNCHANGED <<currentHeader, blk, oldChain, newChain, progress, crashes>>
    BY <1>10, Zenon DEF WriteTotalDifficulty
  <2>6. ASSUME crashes = 0, NEW h \in DOMAIN td
        PROVE  h.parent # currentHeader /\ td[h] <= td[currentHeader]
    BY <1>10, <2>6, Zenon DEF WriteTotalDifficulty
  <2>7. CASE IncomingTD(blk) > td[currentHeader]
    <3>1. pc' = "fillNew" /\ oldHeader' = currentHeader /\ newHeader' = blk
      BY <1>10, <2>7, Zenon DEF WriteTotalDifficulty
    <3>2. ASSUME crashes = 0 PROVE blk \notin DOMAIN td
      BY <2>1, <2>2, <2>6, <2>7, <3>2
    <3>3. ASSUME crashes = 0, NEW h \in DOMAIN td'
          PROVE  h.parent # currentHeader /\ h.parent # blk /\ td'[h] <= td'[blk]
      <4>1. CASE h = blk
        BY <2>1, <2>3, <2>4, <3>2, <3>3, <4>1
      <4>2. CASE h \in DOMAIN td
        <5>1. h.parent # currentHeader /\ td[h] <= td[currentHeader]
          BY <2>6, <3>3, <4>2, Zenon
        <5>2. h.parent # blk
          BY <2>1, <3>2, <3>3, <4>2, ZenonT(30)
        <5>3. td'[h] = td[h] /\ td'[blk] = IncomingTD(blk)
          BY <2>3, <4>2, Zenon
        <5>4. td[h] \in Nat /\ td[currentHeader] \in Nat /\ IncomingTD(blk) \in Nat
          BY <2>1, <2>3, <2>4, <4>2
        <5> HIDE BlockAssumption DEF IInv, TypeOK, DifficultyChain, StoreInv, WriterInv, CrashFreeInv
        <5> QED
          BY <2>7, <5>1, <5>2, <5>3, <5>4
      <4> QED
        BY <2>3, <4>1, <4>2, Zenon
    <3>4. crashes = 0 => (oldChain = <<>> => progress) /\ blk # currentHeader
      BY <1>10, <2>1, <3>2, Zenon DEF WriteTotalDifficulty
    <3> HIDE DEF IInv, TypeOK, DifficultyChain, StoreInv, WriterInv
    <3> QED
      BY <2>5, <3>1, <3>3, <3>4, Zenon
  <2>8. CASE ~(IncomingTD(blk) > td[currentHeader])
    <3>1. pc' = "fork" /\ UNCHANGED <<oldHeader, newHeader>>
      BY <1>10, <2>8, Zenon DEF WriteTotalDifficulty
    <3>2. ASSUME crashes = 0, NEW h \in DOMAIN td'
          PROVE  h.parent # currentHeader /\ td'[h] <= td'[currentHeader]
      <4>1. CASE h = blk
        BY <2>1, <2>3, <2>4, <2>8, <4>1
      <4>2. CASE h \in DOMAIN td
        BY <2>1, <2>3, <2>6, <3>2, <4>2, Zenon
      <4> QED
        BY <2>3, <4>1, <4>2, Zenon
    <3> QED
      BY <1>10, <2>5, <3>1, <3>2, Zenon DEF WriteTotalDifficulty
  <2> QED
    BY <2>7, <2>8, Zenon
<1>11. CASE WriteFork
    BY <1>11, Zenon DEF WriteFork, WithFork
<1>12. CASE FillNewChain
  <2>1. newHeader \in DOMAIN td /\ oldHeader.number \in Nat /\ newHeader.number > oldHeader.number
    BY <1>12, Zenon DEF FillNewChain
  <2>2. newHeader.parent \in headers
    BY <2>1, ParentKnown, Zenon
  <2>3. /\ newHeader' = newHeader.parent
        /\ UNCHANGED <<pc, td, currentHeader, blk, headHash, oldHeader, oldChain, progress, crashes>>
    BY <1>12, <2>2, Zenon DEF FillNewChain
  <2>4. pc = "fillNew"
    BY <1>12, Zenon DEF FillNewChain
  <2> HIDE DEF TypeOK, DifficultyChain, StoreInv, WriterInv
  <2> QED
    BY <2>1, <2>3, <2>4, Zenon
<1>13. CASE FilledNewChain
    BY <1>13, Zenon DEF FilledNewChain
<1>14. CASE CommonAncestor
    BY <1>14, SearchStep, Zenon DEF CommonAncestor
<1>15. CASE WriteOldFork
    BY <1>15, Zenon DEF WriteOldFork, WithFork, Searching
<1>16. CASE WriteCanonicalHash
    BY <1>16, Zenon DEF WriteCanonicalHash
<1>17. CASE WriteHeadHash
    BY <1>17, Zenon DEF WriteHeadHash
<1>18. CASE AdvanceHead
    BY <1>18, SMTT(30) DEF AdvanceHead, IncomingTD, ForgetWalk
<1>19. CASE WriteReceipts
    BY <1>19, Zenon DEF WriteReceipts
<1>20. CASE Crash
    BY <1>20 DEF Crash, ForgetWalk
<1>21. CASE UNCHANGED vars
    BY <1>21, Zenon DEF vars
<1>22. CASE WriteCanonicalHead
    BY <1>22, Zenon DEF WriteCanonicalHead
<1>23. CASE WriteCanonicalTD
  <2>1. blk \in Block \ {Genesis} /\ blk.parent = currentHeader /\ currentHeader \in DOMAIN td
    BY <1>23, Zenon DEF WriteCanonicalTD
  <2>2. /\ DOMAIN td' = DOMAIN td \cup {blk}
        /\ td'[blk] = td[currentHeader] + blk.difficulty
        /\ \A h \in DOMAIN td \ {blk} : td'[h] = td[h]
    BY <1>23, <2>1, Zenon DEF WriteCanonicalTD, IncomingTD
  <2>3. currentHeader' = blk /\ pc' = "receipts" /\ UNCHANGED <<walk, crashes>>
    BY <1>23, Zenon DEF WriteCanonicalTD
  <2>4. ASSUME crashes = 0 PROVE blk \notin DOMAIN td
    BY <1>23, <2>1, <2>4, Zenon DEF WriteCanonicalTD
  <2>5. ASSUME crashes = 0, NEW h \in DOMAIN td' PROVE h.parent # blk /\ td'[h] <= td'[blk]
    BY <1>23, <2>1, <2>2, <2>4, <2>5, SMTT(30) DEF WriteCanonicalTD
  <2> QED
    <3> HIDE DEF IInv, TypeOK, DifficultyChain, StoreInv, WriterInv
    <3>1. crashes = 0 => (oldChain = <<>> => progress)
      BY <1>23, Zenon DEF WriteCanonicalTD, IInv
    <3> QED
      BY <2>3, <2>5, <3>1, Zenon
<1> QED
    BY Zenon, <1>1, <1>2, <1>3, <1>4, <1>5, <1>6, <1>7, <1>8, <1>9, <1>10, <1>11,
       <1>12, <1>13, <1>14, <1>15, <1>16, <1>17, <1>18, <1>19, <1>20, <1>21, <1>22, <1>23
    DEF Next, Startup, Write, AlreadyInserted

-----------------------------------------------------------------------------
(* The theorems.                                                           *)

\* The empty store and the process that has not started satisfy the inductive
\* invariant.
LEMMA InitIInv == Init => IInv
    BY BlockAssumption, BoundAssumption
    DEF Init, IInv, TypeOK, Phase, DifficultyChain, StoreInv, WriterInv, CrashFreeInv, Loaded, Reorg

\* The invariant holds in every behaviour of the block store.
THEOREM Invariance == Spec => []IInv
<1>1. IInv /\ [Next]_vars => IInv'
    BY TypeOKStep, DifficultyChainStep, StoreInvStep, WriterInvStep, CrashFreeInvStep, Zenon DEF IInv
<1> QED
    BY InitIInv, <1>1, PTL DEF Spec

\* Type correctness of the store and of the writer.
THEOREM TypeCorrect == Spec => []TypeOK
    BY Invariance, PTL DEF IInv

\* Total difficulties form a chain down to the genesis block, whatever the
\* order of delivery and wherever the process dies.
THEOREM DifficultiesChained == Spec => []DifficultyChain
    BY Invariance, PTL DEF IInv

\* handleReorg never dereferences a missing header, crashes included.
THEOREM ReorgFindsHeaders == Spec => []NoNilHeader
<1>1. IInv => NoNilHeader
    BY Zenon DEF IInv, WriterInv, NoNilHeader
<1> QED
    BY Invariance, <1>1, PTL

\* handleReorg never slices an empty oldChain in a process that never died.
THEOREM ReorgHasOldChain == Spec => []NoEmptySlice
<1>1. IInv => NoEmptySlice
    BY Zenon DEF IInv, CrashFreeInv, NoEmptySlice
<1> QED
    BY Invariance, <1>1, PTL

\* In a process that never died the head is a heaviest known block.
THEOREM HeadIsHeaviest == Spec => []HeaviestHead
<1>1. IInv => HeaviestHead
    BY Zenon DEF IInv, CrashFreeInv, HeaviestHead, Loaded, Reorg
<1> QED
    BY Invariance, <1>1, PTL

\* A started process leaves a store that ComputeGenesis loads at whatever write it
\* dies, but between the head hash and the difficulty of a block on the fast path.
THEOREM CrashLeavesLoadable == Spec => []DiesLoadable
<1>1. IInv => DiesLoadable
  <2> SUFFICES ASSUME IInv, pc \notin {"down", "failed", "genesisHash", "genesisTD", "newTD"}
               PROVE  Loadable
    BY Zenon DEF DiesLoadable
  <2>1. Genesis \in DOMAIN td /\ headHash \in DOMAIN td
    BY Zenon DEF IInv, WriterInv, Loaded, Reorg
  <2> QED
    BY <2>1, Zenon DEF IInv, StoreInv, DifficultyChain, Loadable
<1> QED
    BY Invariance, <1>1, PTL

\* The stored head moves only to higher numbers and never loses difficulty.
THEOREM HeadMovesForward == Spec => HeadAdvances
<1> DEFINE Forward == headHash # Nil /\ headHash' # headHash =>
                          /\ headHash'.number > headHash.number
                          /\ IncomingTD(headHash') >= td[headHash]
<1>1. IInv /\ [Next]_vars => [Forward]_vars
  <2> SUFFICES ASSUME IInv, [Next]_vars, headHash # Nil, headHash' # headHash
               PROVE  headHash'.number > headHash.number /\ IncomingTD(headHash') >= td[headHash]
      BY Zenon DEF vars
  <2>1. WriteCanonicalHead \/ WriteHeadHash
      BY Zenon DEF Next, Startup, Write, WriteGenesis, GenesisCanonical, GenesisTD, ComputeGenesis, Restart,
             WriteBlock, AlreadyInserted, WriteCanonicalHeader, WriteCanonicalTD, WriteHeader,
             ParentNotFound, WriteTotalDifficulty, WriteFork,
             FillNewChain, FilledNewChain, CommonAncestor, WriteOldFork, WriteCanonicalHash,
             AdvanceHead, WriteReceipts, Crash, store, vars
  <2>2. CASE WriteCanonicalHead
    <3>1. /\ blk \in Block /\ blk.number > headHash.number
          /\ headHash \in DOMAIN td /\ blk.parent = headHash /\ headHash' = blk
        BY <2>2, Zenon DEF IInv, WriterInv, Loaded, WriteCanonicalHead
    <3>2. IncomingTD(blk) = td[headHash] + blk.difficulty
        BY <3>1, Zenon DEF IncomingTD
    <3>3. td[headHash] \in Nat /\ blk.difficulty \in Nat
        BY <3>1, BlockAssumption, Zenon DEF IInv, TypeOK
    <3> QED
        BY <3>1, <3>2, <3>3
  <2>3. CASE WriteHeadHash
    <3>1. /\ blk.number > headHash.number /\ td[blk] > td[headHash]
          /\ {blk, headHash} \subseteq DOMAIN td
          /\ headHash' = blk
        BY <2>3, Zenon DEF IInv, WriterInv, Loaded, Reorg, WriteHeadHash
    <3>2. {blk, headHash} \subseteq Block /\ td[blk] \in Nat /\ td[headHash] \in Nat
        BY <3>1, Zenon DEF IInv, TypeOK
    <3>3. blk # Genesis
        BY <3>1, <3>2, BlockAssumption
    <3>4. td[blk] = IncomingTD(blk)
        BY <3>1, <3>3, Zenon DEF IInv, DifficultyChain, IncomingTD
    <3> QED
        BY <3>1, <3>2, <3>4
  <2> QED
      BY <2>1, <2>2, <2>3, Zenon
<1> QED
    BY Invariance, <1>1, PTL DEF Spec, HeadAdvances

-----------------------------------------------------------------------------
\* Crashes are only counted up: a process that has not died after a step had not
\* died before it.
LEMMA NoCrashBefore ==
    ASSUME IInv, [Next]_vars, crashes' = 0
    PROVE  crashes = 0 /\ ~Crash
<1>1. crashes \in Nat
    BY DEF IInv, TypeOK
<1>2. crashes' = crashes \/ (Crash /\ crashes' = crashes + 1)
    BY Zenon DEF Next, Startup, Write, WriteGenesis, GenesisCanonical, GenesisTD, ComputeGenesis,
           Restart, AlreadyInserted, WriteBlock, WriteCanonicalHeader, WriteCanonicalHead,
           WriteCanonicalTD, WriteHeader,
           ParentNotFound, WriteTotalDifficulty, WriteFork, FillNewChain, FilledNewChain,
           CommonAncestor, WriteOldFork, WriteCanonicalHash, WriteHeadHash, AdvanceHead,
           WriteReceipts, Crash, vars
<1>3. Crash => crashes' = crashes + 1
    BY Zenon DEF Crash
<1> QED
    BY <1>1, <1>2, <1>3

-----------------------------------------------------------------------------
(* The writes of a process that does not die implement the atomic store.   *)

\* An Insert of the store a user sees is a step of the atomic store.
LEMMA InsertStep ==
    ASSUME NEW b \in Block, StoreView' = Insert(StoreView, b)
    PROVE  Abstract!Next
<1>1. Abstract!Insert(StoreView, b) = Insert(StoreView, b)
    BY Zenon DEF Insert, Abstract!Insert, Put, Abstract!Put
<1> QED
    BY <1>1, Zenon DEF Abstract!Next, Abstract!WriteBlock

\* Abstractly, each step is one Insert or nothing.
LEMMA StoreStep ==
    ASSUME IInv, IInv', [Next]_vars, crashes = 0, crashes' = 0
    PROVE  [Abstract!Next]_StoreView
<1> USE BlockAssumption DEF IInv
<1>1. CASE UNCHANGED <<td, currentHeader>> /\ Reorganising' = Reorganising
                                          /\ (Reorganising => blk' = blk)
    BY <1>1, Zenon DEF StoreView
<1>2. CASE GenesisTD
  <2>1. td = [b \in {} |-> 0] /\ Genesis \notin DOMAIN td
    BY <1>2, Zenon DEF GenesisTD, CrashFreeInv, Loaded
  <2>2. td' = [h \in {Genesis} |-> Genesis.difficulty]
    BY <1>2, <2>1, Zenon DEF GenesisTD, Put
  <2>3. StoreView' = NewStore(Genesis) /\ StoreView = NewStore(Genesis)
    BY <1>2, <2>1, <2>2, Zenon DEF GenesisTD, StoreView, NewStore, Reorganising
  <2> QED
    BY <2>3, Zenon
<1>3. CASE WriteCanonicalTD
  <2>1. /\ Genesis \in DOMAIN td /\ currentHeader \in DOMAIN td
        /\ blk \in Block /\ blk.number > currentHeader.number /\ blk.parent = currentHeader
        /\ blk.number \in Nat /\ currentHeader.number \in Nat
    BY <1>3, Zenon DEF WriteCanonicalTD, WriterInv, Loaded, TypeOK
  <2>2. StoreView = [td |-> td, head |-> currentHeader]
    BY <1>3, <2>1, Zenon DEF WriteCanonicalTD, StoreView, Reorganising, TypeOK
  <2>3. StoreView' = [td |-> Put(td, blk, td[blk.parent] + blk.difficulty), head |-> blk]
    BY <1>3, <2>1, Zenon DEF WriteCanonicalTD, StoreView, Reorganising, Put, IncomingTD
  <2>4. StoreView' = Insert(StoreView, blk)
    <3> DEFINE c == StoreView
    <3>1. c.td = td /\ c.head = currentHeader
      BY <2>2, Zenon
    <3> HIDE DEF c
    <3>2. ~(blk.number <= c.head.number) /\ blk.parent \in DOMAIN c.td /\ blk.parent = c.head
      BY <2>1, <3>1
    <3>3. Insert(c, blk) = [td |-> Put(c.td, blk, c.td[blk.parent] + blk.difficulty), head |-> blk]
      BY <3>2, Zenon DEF Insert
    <3> QED
      BY <2>3, <3>1, <3>3, Zenon DEF c
  <2> QED
    BY <2>1, <2>4, InsertStep, Zenon
<1>4. CASE WriteTotalDifficulty
  <2>1. /\ Genesis \in DOMAIN td /\ currentHeader \in DOMAIN td
        /\ blk \in Block /\ blk.number > currentHeader.number
        /\ blk.parent \in DOMAIN td /\ blk.parent # currentHeader
        /\ blk.number \in Nat /\ currentHeader.number \in Nat /\ blk # Genesis
    BY <1>4, Zenon DEF WriteTotalDifficulty, WriterInv, Loaded, TypeOK
  <2>2. StoreView = [td |-> td, head |-> currentHeader]
    BY <1>4, <2>1, Zenon DEF WriteTotalDifficulty, StoreView, Reorganising, TypeOK
  <2>3. blk \in DOMAIN td => td[blk] = IncomingTD(blk) /\ td[blk] <= td[currentHeader]
    BY <1>4, <2>1, Zenon DEF WriteTotalDifficulty, CrashFreeInv, Loaded, Reorg, DifficultyChain, IncomingTD
  <2>4. /\ IncomingTD(blk) \in Nat /\ td[currentHeader] \in Nat
        /\ IncomingTD(blk) = td[blk.parent] + blk.difficulty
    BY <2>1, SMTT(30) DEF IncomingTD, TypeOK
  <2>5. td' = Put(td, blk, IncomingTD(blk)) /\ currentHeader' = currentHeader /\ blk' = blk
    BY <1>4, Zenon DEF WriteTotalDifficulty
  <2>6. CASE IncomingTD(blk) > td[currentHeader]
    <3>1. blk \notin DOMAIN td /\ Reorganising'
      BY <1>4, <2>3, <2>4, <2>6 DEF WriteTotalDifficulty, Reorganising
    <3>2. [h \in DOMAIN td' \ {blk} |-> td'[h]] = td
      <4>1. DOMAIN td' \ {blk} = DOMAIN td /\ \A h \in DOMAIN td : td'[h] = td[h]
        BY <2>5, <3>1, Zenon DEF Put
      <4>2. td = [h \in DOMAIN td |-> td[h]]
        BY Zenon DEF TypeOK
      <4> QED
        BY <4>1, <4>2, Zenon
    <3>3. Genesis \in DOMAIN td'
      BY <2>1, <2>5, Zenon DEF Put
    <3>4. StoreView' = [td |-> td, head |-> currentHeader]
      BY <2>5, <3>1, <3>2, <3>3, Zenon DEF StoreView
    <3> QED
      BY <2>2, <3>4, Zenon
  <2>7. CASE ~(IncomingTD(blk) > td[currentHeader])
    <3>1. ~Reorganising'
      BY <1>4, <2>7, Zenon DEF WriteTotalDifficulty, Reorganising
    <3>2. StoreView' = [td |-> Put(td, blk, IncomingTD(blk)), head |-> currentHeader]
      BY <2>1, <2>5, <3>1, Zenon DEF StoreView, Put
    <3>3. StoreView' = Insert(StoreView, blk)
      BY <2>1, <2>2, <2>4, <2>7, <3>2 DEF Insert
    <3> QED
      BY <2>1, <3>3, InsertStep, Zenon
  <2> QED
    BY <2>6, <2>7, Zenon
<1>5. CASE AdvanceHead
  <2>1. /\ Genesis \in DOMAIN td /\ currentHeader \in DOMAIN td /\ blk \in DOMAIN td
        /\ blk \in Block /\ blk.number > currentHeader.number /\ td[blk] > td[currentHeader]
        /\ blk.number \in Nat /\ currentHeader.number \in Nat /\ blk # Genesis
    <3>1. pc = "head" /\ Loaded /\ Reorg
      BY <1>5, Zenon DEF AdvanceHead, Loaded, Reorg
    <3>2. /\ Genesis \in DOMAIN td /\ currentHeader \in DOMAIN td /\ blk \in DOMAIN td
          /\ blk \in Block /\ blk.number > currentHeader.number /\ td[blk] > td[currentHeader]
      BY <3>1, Zenon DEF WriterInv
    <3>3. blk.number \in Nat /\ currentHeader.number \in Nat
      BY <3>2, Zenon DEF TypeOK
    <3>4. blk # Genesis
      BY <3>2, <3>3
    <3> QED
      BY <3>2, <3>3, <3>4, Zenon
  <2>2. /\ blk.parent \in DOMAIN td /\ td[blk] = IncomingTD(blk)
        /\ IncomingTD(blk) = td[blk.parent] + blk.difficulty
        /\ blk.parent # currentHeader /\ blk.parent # blk /\ blk # currentHeader
    <3>1. pc = "head" /\ Reorg
      BY <1>5, Zenon DEF AdvanceHead, Reorg
    <3>2. blk.parent \in DOMAIN td /\ td[blk] = td[blk.parent] + blk.difficulty
      BY <2>1, Zenon DEF DifficultyChain
    <3>3. blk.parent # blk
      BY <2>1, <3>1, Zenon DEF CrashFreeInv
    <3>4. blk.parent # currentHeader
      BY <2>1, <3>1, Zenon DEF CrashFreeInv, Loaded
    <3>5. blk # currentHeader
      BY <2>1
    <3> QED
      BY <3>2, <3>3, <3>4, <3>5, Zenon DEF IncomingTD
  <2> DEFINE before == [h \in DOMAIN td \ {blk} |-> td[h]]
  <2>3. StoreView = [td |-> before, head |-> currentHeader]
    BY <1>5, <2>1, Zenon DEF AdvanceHead, StoreView, Reorganising
  <2>4. Put(before, blk, IncomingTD(blk)) = Put(td, blk, IncomingTD(blk))
    BY <2>1, Zenon DEF Put
  <2>5. StoreView' = [td |-> Put(td, blk, IncomingTD(blk)), head |-> blk]
    BY <1>5, <2>1, Zenon DEF AdvanceHead, StoreView, Reorganising, Put
  <2>6. /\ before[blk.parent] = td[blk.parent] /\ blk.parent \in DOMAIN before
        /\ before[currentHeader] = td[currentHeader]
    BY <2>1, <2>2, Zenon
  <2> HIDE DEF before
  <2>7. StoreView' = Insert(StoreView, blk)
    <3>1. /\ StoreView.td = before /\ StoreView.head = currentHeader
          /\ ~(blk.number <= StoreView.head.number \/ blk.parent \notin DOMAIN StoreView.td)
      BY <2>1, <2>3, <2>6
    <3>2. /\ before[blk.parent] + blk.difficulty = IncomingTD(blk)
          /\ before[blk.parent] + blk.difficulty > before[currentHeader]
      BY <2>1, <2>2, <2>6, Zenon
    <3> HIDE BlockAssumption DEF IInv
    <3> QED
      BY <2>4, <2>5, <3>1, <3>2, Zenon DEF Insert
  <2> QED
    BY <2>1, <2>7, InsertStep, Zenon
<1>6. CASE Startup /\ ~GenesisTD
  <2>1. Genesis \notin DOMAIN td /\ td' = td
    BY <1>6, Zenon DEF Startup, WriteGenesis, GenesisCanonical, ComputeGenesis, Restart, CrashFreeInv, Loaded, store
  <2> QED
    BY <2>1, Zenon DEF StoreView
<1>7. CASE \E b \in Block : WriteBlock(b)
    BY <1>1, <1>7 DEF WriteBlock, Reorganising
<1>8. CASE Write /\ ~WriteCanonicalTD /\ ~WriteTotalDifficulty /\ ~AdvanceHead
  <2>1. UNCHANGED <<td, currentHeader>>
    BY <1>8, Zenon DEF Write, WriteCanonicalHeader, WriteCanonicalHead, WriteHeader, ParentNotFound, WriteFork, FillNewChain, FilledNewChain,
                CommonAncestor, WriteOldFork, WriteCanonicalHash, WriteHeadHash, WriteReceipts, store
  <2>2. /\ Reorganising' = Reorganising
        /\ Reorganising => blk' = blk
    <3>1. CASE \/ WriteCanonicalHeader \/ WriteCanonicalHead \/ WriteHeader
               \/ ParentNotFound \/ WriteFork \/ WriteReceipts
      BY <3>1 DEF WriteCanonicalHeader, WriteCanonicalHead, WriteHeader, ParentNotFound, WriteFork, WriteReceipts, store, Reorganising
    <3>2. CASE FillNewChain
      <4>1. newHeader \in DOMAIN td /\ newHeader.number > oldHeader.number /\ oldHeader \in DOMAIN td
        BY <3>2, Zenon DEF FillNewChain, WriterInv
      <4>2. oldHeader.number \in Nat
        BY <4>1, Zenon DEF TypeOK
      <4>3. newHeader.parent \in headers
        BY <4>1, <4>2, ParentKnown, Zenon
      <4> QED
        BY <3>2, <4>3, Zenon DEF FillNewChain, Reorganising
    <3>3. CASE FilledNewChain
      BY <3>3 DEF FilledNewChain, store, Reorganising
    <3>4. CASE CommonAncestor
      BY <3>4, SearchStep, Zenon DEF CommonAncestor, store, Reorganising
    <3>5. CASE WriteOldFork
      BY <3>5 DEF WriteOldFork, store, Reorganising, CrashFreeInv
    <3>6. CASE WriteCanonicalHash \/ WriteHeadHash
      BY <3>6 DEF WriteCanonicalHash, WriteHeadHash, store, Reorganising
    <3> QED
      BY <1>8, <3>1, <3>2, <3>3, <3>4, <3>5, <3>6, Zenon DEF Write
  <2> QED
    BY <1>1, <2>1, <2>2, Zenon
<1>9. CASE UNCHANGED vars
    BY <1>1, <1>9, Zenon DEF vars, store, Reorganising
<1>10. ~Crash
    BY DEF Crash
<1> QED
    BY <1>2, <1>3, <1>4, <1>5, <1>6, <1>7, <1>8, <1>9, <1>10, Zenon DEF Next, AlreadyInserted

\* As long as the process has not died, every WriteBlock takes effect
\* atomically: the writes of writeHeaderImpl implement one Insert.
THEOREM Refinement == Spec => ImplementsChainStore
<1>1. Init => Abstract!Init
    BY Zenon DEF Init, Abstract!Init, StoreView, NewStore, Abstract!NewStore
<1>2. IInv /\ IInv' /\ [Next]_vars => [crashes' = 0 => Abstract!Next]_StoreView
    BY NoCrashBefore, StoreStep, Zenon
<1> QED
    BY Invariance, <1>1, <1>2, PTL DEF Spec, ImplementsChainStore
-----------------------------------------------------------------------------
(* What a process that never died has recorded: fork tips and receipts.    *)

\* GetForks or a known child accounts for h.
Recorded(h) == h \in forks \/ \E c \in DOMAIN td : c.parent = h

\* The blocks that the write in progress leaves to be recorded: the head never is, a
\* new block not before writeFork or the head's move, and the old head not before
\* handleReorg makes it a fork.
Unrecorded ==
    (IF pc \in {"canonical", "head"} THEN {} ELSE {currentHeader})
        \cup (IF pc = "fork" \/ Reorg THEN {blk} ELSE {})

ForkInv == crashes = 0 /\ Loaded => \A h \in DOMAIN td \ Unrecorded : Recorded(h)

\* The difficulty of blk is stored and its receipts are not yet.
Pending == pc \in {"fork", "receipts"} \/ Reorg

Settled(h) == Executes(h) => h \in receipts

\* A block gets its state together with its receipts.  When that happens, no child of
\* it can be waiting for the state: either it had its receipts before, or its
\* difficulty is new and it has no children.
ReceiptInv ==
    crashes = 0 =>
        /\ \A h \in receipts : h.body = "good" => h \in states
        /\ Loaded => \A h \in DOMAIN td \ {Genesis} : (Pending /\ h = blk) \/ Settled(h)
        /\ Pending => Settled(blk) \/ \A h \in DOMAIN td : h.parent # blk

\* The phases of a write that only look: they move nothing that forks and receipts
\* are about.
LEMMA LookingStep ==
    ASSUME IInv, IInv', crashes' = 0,
           \/ \E b \in Block : WriteBlock(b)
           \/ WriteCanonicalHeader \/ WriteCanonicalHead \/ WriteHeader
           \/ FillNewChain \/ FilledNewChain \/ CommonAncestor
           \/ WriteCanonicalHash \/ WriteHeadHash
    PROVE  /\ UNCHANGED <<td, forks, receipts, states, currentHeader>>
           /\ Loaded /\ Pending' = Pending /\ Unrecorded' = Unrecorded
           /\ Pending => blk' = blk
<1> USE DEF Loaded, Pending, Unrecorded, Reorg, store
<1>1. pc' # "nilPanic"
    BY Zenon DEF IInv, WriterInv
<1>2. CASE \E b \in Block : WriteBlock(b)
    BY <1>2, Zenon DEF WriteBlock
<1>3. CASE WriteCanonicalHeader \/ WriteCanonicalHead \/ WriteHeader
    BY <1>3, Zenon DEF WriteCanonicalHeader, WriteCanonicalHead, WriteHeader
<1>4. CASE FillNewChain
    BY <1>1, <1>4, Zenon DEF FillNewChain
<1>5. CASE FilledNewChain
    BY <1>5, Zenon DEF FilledNewChain
<1>6. CASE CommonAncestor
    BY <1>1, <1>6, Zenon DEF CommonAncestor
<1>7. CASE WriteCanonicalHash \/ WriteHeadHash
    BY <1>7, Zenon DEF WriteCanonicalHash, WriteHeadHash
<1> QED
    BY <1>2, <1>3, <1>4, <1>5, <1>6, <1>7, Zenon

\* Starting up a process that never died is writing the genesis block.
LEMMA StartupStep ==
    ASSUME IInv, Startup, crashes = 0
    PROVE  ~Loaded /\ DOMAIN td = {} /\ (Loaded' => GenesisTD)
<1>1. ~Loaded /\ DOMAIN td = {} /\ ~Restart /\ ~ComputeGenesis
  <2>1. ~Loaded
    BY Zenon DEF Startup, WriteGenesis, GenesisCanonical, GenesisTD, ComputeGenesis, Restart, Loaded
  <2>2. td = [b \in {} |-> 0] /\ pc # "failed" /\ (pc = "down" => headHash = Nil)
    BY <2>1, Zenon DEF IInv, CrashFreeInv
  <2> QED
    BY <2>1, <2>2, Zenon DEF Restart, ComputeGenesis
<1> QED
    BY <1>1, Zenon DEF Startup, WriteGenesis, GenesisCanonical, Loaded

\* Whatever is written, a block whose difficulty is known stays recorded.
LEMMA ForkInvStep ==
    ASSUME IInv, IInv', ForkInv, [Next]_vars
    PROVE  ForkInv'
<1> SUFFICES ASSUME crashes' = 0, Loaded', NEW h \in DOMAIN td' \ Unrecorded'
             PROVE  Recorded(h)'
    BY Zenon DEF ForkInv
<1>0. crashes = 0 /\ ~Crash
    BY NoCrashBefore, Zenon
<1>1. ASSUME Loaded, h \in DOMAIN td, h \notin Unrecorded PROVE Recorded(h)
    BY <1>0, <1>1, Zenon DEF ForkInv
<1>2. CASE Startup
  <2>1. GenesisTD /\ DOMAIN td = {}
    BY <1>0, <1>2, StartupStep, Zenon
  <2> QED
    BY <2>1, Zenon DEF GenesisTD, Put, Unrecorded, Reorg
<1>3. CASE \/ \E b \in Block : WriteBlock(b)
           \/ WriteCanonicalHeader \/ WriteCanonicalHead \/ WriteHeader
           \/ FillNewChain \/ FilledNewChain \/ CommonAncestor
           \/ WriteCanonicalHash \/ WriteHeadHash
  <2>1. UNCHANGED <<td, forks>> /\ Loaded /\ Unrecorded' = Unrecorded
    BY <1>3, LookingStep, Zenon
  <2> QED
    BY <2>1, <1>1, Zenon DEF Recorded
<1>4. CASE WriteCanonicalTD
  <2>1. /\ pc = "newTD" /\ pc' = "receipts" /\ blk.parent = currentHeader /\ forks' = forks
        /\ currentHeader' = blk /\ DOMAIN td' = DOMAIN td \cup {blk}
    BY <1>4, Zenon DEF WriteCanonicalTD, Put, IInv, WriterInv
  <2>2. Loaded /\ Unrecorded = {currentHeader} /\ Unrecorded' = {blk}
    BY <2>1, Zenon DEF Loaded, Unrecorded, Reorg
  <2>3. CASE h = currentHeader
    BY <2>1, <2>3, Zenon DEF Recorded
  <2>4. CASE h # currentHeader
    BY <2>1, <2>2, <2>4, <1>1, Zenon DEF Recorded
  <2> QED
    BY <2>3, <2>4, Zenon
<1>5. CASE ParentNotFound
  <2>1. UNCHANGED <<td, forks>> /\ Loaded /\ Unrecorded' = Unrecorded
    BY <1>5, Zenon DEF ParentNotFound, store, Loaded, Unrecorded, Reorg
  <2> QED
    BY <2>1, <1>1 DEF Recorded
<1>6. CASE WriteTotalDifficulty
  <2>1. /\ pc = "difficulty" /\ pc' \in {"fillNew", "fork"} /\ forks' = forks
        /\ UNCHANGED <<currentHeader, blk>> /\ DOMAIN td' = DOMAIN td \cup {blk}
    BY <1>6, Zenon DEF WriteTotalDifficulty, Put
  <2>2. Loaded /\ Unrecorded' = Unrecorded \cup {blk}
    BY <2>1, Zenon DEF Loaded, Unrecorded, Reorg
  <2> QED
    BY <2>1, <2>2, <1>1, Zenon DEF Recorded
<1>7. CASE WriteFork
  <2>1. /\ pc = "fork" /\ pc' = "receipts" /\ UNCHANGED <<td, currentHeader>>
        /\ forks' = (forks \ {blk.parent}) \cup {blk}
    BY <1>7, Zenon DEF WriteFork, WithFork
  <2>2. blk \in DOMAIN td /\ Loaded
    BY <2>1, Zenon DEF IInv, WriterInv, Loaded
  <2>3. Unrecorded = {currentHeader, blk} /\ Unrecorded' = {currentHeader}
    BY <2>1, Zenon DEF Unrecorded, Reorg
  <2>4. CASE h \in {blk, blk.parent}
    BY <2>1, <2>2, <2>4, Zenon DEF Recorded
  <2>5. CASE h \notin {blk, blk.parent}
    BY <2>1, <2>2, <2>3, <2>5, <1>1, Zenon DEF Recorded
  <2> QED
    BY <2>4, <2>5, Zenon
<1>8. CASE WriteOldFork
  <2>1. /\ pc = "common" /\ pc' = "canonical" /\ UNCHANGED <<td, currentHeader, blk>>
        /\ forks' = (forks \ {currentHeader.parent}) \cup {currentHeader}
    BY <1>8, Zenon DEF WriteOldFork, WithFork, IInv, CrashFreeInv
  <2>2. currentHeader \in DOMAIN td /\ Loaded
    BY <2>1, Zenon DEF IInv, WriterInv, Loaded
  <2>3. Unrecorded = {currentHeader, blk} /\ Unrecorded' = {blk}
    BY <2>1, Zenon DEF Unrecorded, Reorg
  <2>4. CASE h \in {currentHeader, currentHeader.parent}
    BY <2>1, <2>2, <2>4, Zenon DEF Recorded
  <2>5. CASE h \notin {currentHeader, currentHeader.parent}
    BY <2>1, <2>2, <2>3, <2>5, <1>1, Zenon DEF Recorded
  <2> QED
    BY <2>4, <2>5
<1>9. CASE AdvanceHead
  <2>1. /\ pc = "head" /\ pc' = "receipts" /\ forks' = forks /\ currentHeader' = blk
        /\ DOMAIN td' = DOMAIN td \cup {blk}
    BY <1>9, Zenon DEF AdvanceHead, Put
  <2>2. Loaded /\ Unrecorded = {blk} /\ Unrecorded' = {blk}
    BY <2>1, Zenon DEF Loaded, Unrecorded, Reorg
  <2> QED
    BY <2>1, <2>2, <1>1, Zenon DEF Recorded
<1>10. CASE WriteReceipts
  <2>1. UNCHANGED <<td, forks>> /\ Loaded /\ Unrecorded' = Unrecorded
    BY <1>10, Zenon DEF WriteReceipts, Loaded, Unrecorded, Reorg
  <2> QED
    BY <2>1, <1>1 DEF Recorded
<1>11. CASE UNCHANGED vars
  <2>1. UNCHANGED <<td, forks>> /\ Loaded /\ Unrecorded' = Unrecorded
    BY <1>11, Zenon DEF vars, store, Loaded, Unrecorded, Reorg
  <2> QED
    BY <2>1, <1>1 DEF Recorded
<1> QED
    BY <1>0, <1>2, <1>3, <1>4, <1>5, <1>6, <1>7, <1>8, <1>9, <1>10, <1>11, Zenon
    DEF Next, Write, AlreadyInserted

\* A block gets into the table of difficulties with its receipts pending and, unless
\* it had them before, without children.
LEMMA NewlyPending ==
    ASSUME IInv, ReceiptInv, crashes = 0, Loaded, ~Pending,
           blk \in Block, blk.parent \in DOMAIN td,
           DOMAIN td' = DOMAIN td \cup {blk}, blk' = blk,
           UNCHANGED <<receipts, states>>, Pending', Loaded'
    PROVE  ReceiptInv'
<1>1. \A h : Settled(h)' = Settled(h)
    BY Zenon DEF Settled, Executes
<1>2. \A h \in DOMAIN td' \ {Genesis} : h = blk \/ Settled(h)
    BY Zenon DEF ReceiptInv
<1>3. Settled(blk) \/ \A h \in DOMAIN td' : h.parent # blk
  <2>1. CASE blk \in DOMAIN td
    <3>1. CASE blk = Genesis
      BY <3>1, BlockAssumption, Zenon DEF IInv, TypeOK, Settled, Executes
    <3>2. CASE blk # Genesis
      BY <2>1, <3>2, Zenon DEF ReceiptInv
    <3> QED
      BY <3>1, <3>2, Zenon
  <2>2. CASE blk \notin DOMAIN td
    <3> SUFFICES ASSUME NEW h \in DOMAIN td', h.parent = blk PROVE FALSE
      BY Zenon
    <3>1. CASE h \in DOMAIN td /\ h # Genesis
      BY <2>2, <3>1, Zenon DEF IInv, DifficultyChain
    <3>2. CASE h = Genesis
      BY <3>2, BlockAssumption, Zenon
    <3>3. CASE h = blk
      BY <2>2, <3>3, Zenon
    <3> QED
      BY <3>1, <3>2, <3>3, Zenon
  <2> QED
    BY <2>1, <2>2, Zenon
<1>4. \A h \in receipts' : h.body = "good" => h \in states'
    BY Zenon DEF ReceiptInv
<1> QED
    BY <1>1, <1>2, <1>3, <1>4, Zenon DEF ReceiptInv

\* Whatever is written, every block that can be executed has its receipts, or is
\* about to get them.
LEMMA ReceiptInvStep ==
    ASSUME IInv, IInv', ReceiptInv, [Next]_vars
    PROVE  ReceiptInv'
<1> SUFFICES ASSUME crashes' = 0 PROVE ReceiptInv'
    BY Zenon DEF ReceiptInv
<1>0. crashes = 0 /\ ~Crash
    BY NoCrashBefore, Zenon
<1>1. ASSUME Loaded, DOMAIN td' = DOMAIN td, UNCHANGED <<receipts, states>>,
             Pending' = Pending, Pending => blk' = blk
      PROVE  ReceiptInv'
  <2>1. \A h : Settled(h)' = Settled(h)
    BY <1>1, Zenon DEF Settled, Executes
  <2>2. \A h \in DOMAIN td' \ {Genesis} : (Pending' /\ h = blk') \/ Settled(h)
    BY <1>0, <1>1, Zenon DEF ReceiptInv
  <2>3. Pending' => Settled(blk') \/ \A h \in DOMAIN td' : h.parent # blk'
    BY <1>0, <1>1, Zenon DEF ReceiptInv
  <2>4. \A h \in receipts' : h.body = "good" => h \in states'
    BY <1>0, <1>1, Zenon DEF ReceiptInv
  <2> QED
    BY <2>1, <2>2, <2>3, <2>4, Zenon DEF ReceiptInv
<1>2. CASE Startup
  <2>1. ~Loaded /\ DOMAIN td = {} /\ (Loaded' => GenesisTD)
    BY <1>0, <1>2, StartupStep, Zenon
  <2>2. receipts' = receipts /\ states \subseteq states' /\ ~Pending'
    BY <1>2, Zenon DEF Startup, WriteGenesis, GenesisCanonical, GenesisTD, ComputeGenesis, Restart,
                store, Pending, Reorg
  <2>3. Loaded' => DOMAIN td' = {Genesis}
    BY <2>1, Zenon DEF GenesisTD, Put
  <2>4. \A h \in receipts' : h.body = "good" => h \in states'
    BY <1>0, <2>2, Zenon DEF ReceiptInv
  <2> QED
    BY <2>2, <2>3, <2>4, Zenon DEF ReceiptInv
<1>3. CASE \/ \E b \in Block : WriteBlock(b)
           \/ WriteCanonicalHeader \/ WriteCanonicalHead \/ WriteHeader
           \/ FillNewChain \/ FilledNewChain \/ CommonAncestor
           \/ WriteCanonicalHash \/ WriteHeadHash
    BY <1>1, <1>3, LookingStep, Zenon
<1>4. CASE WriteCanonicalTD
  <2>1. /\ pc = "newTD" /\ pc' = "receipts" /\ blk.parent = currentHeader /\ blk' = blk
        /\ DOMAIN td' = DOMAIN td \cup {blk} /\ UNCHANGED <<receipts, states>>
    BY <1>4, Zenon DEF WriteCanonicalTD, Put, IInv, WriterInv
  <2>2. Loaded /\ ~Pending /\ Loaded' /\ Pending'
    BY <2>1, Zenon DEF Loaded, Pending, Reorg
  <2>3. blk \in Block /\ currentHeader \in DOMAIN td
    BY <2>1, <2>2, Zenon DEF IInv, WriterInv
  <2> QED
    BY <1>0, <2>1, <2>2, <2>3, NewlyPending, Zenon
<1>5. CASE ParentNotFound
    BY <1>1, <1>5, Zenon DEF ParentNotFound, store, Loaded, Pending, Reorg
<1>6. CASE WriteTotalDifficulty
  <2>1. /\ pc = "difficulty" /\ pc' \in {"fillNew", "fork"} /\ blk' = blk
        /\ blk.parent \in DOMAIN td
        /\ DOMAIN td' = DOMAIN td \cup {blk} /\ UNCHANGED <<receipts, states>>
    BY <1>6, Zenon DEF WriteTotalDifficulty, Put
  <2>2. Loaded /\ ~Pending /\ Loaded' /\ Pending'
    BY <2>1, Zenon DEF Loaded, Pending, Reorg
  <2>3. blk \in Block
    BY <2>1, Zenon DEF IInv, WriterInv
  <2> QED
    BY <1>0, <2>1, <2>2, <2>3, NewlyPending, Zenon
<1>7. CASE WriteFork
    BY <1>1, <1>7, Zenon DEF WriteFork, Loaded, Pending, Reorg
<1>8. CASE WriteOldFork
  <2>1. pc' = "canonical"
    BY <1>8, Zenon DEF WriteOldFork, IInv, CrashFreeInv
  <2> QED
    BY <1>1, <1>8, <2>1, Zenon DEF WriteOldFork, Loaded, Pending, Reorg
<1>9. CASE AdvanceHead
  <2>1. blk \in DOMAIN td
    BY <1>9, Zenon DEF AdvanceHead, IInv, WriterInv, Reorg
  <2> QED
    BY <1>1, <1>9, <2>1, Zenon DEF AdvanceHead, Put, Loaded, Pending, Reorg
<1>10. CASE WriteReceipts
  <2>1. /\ pc = "receipts" /\ pc' = "idle" /\ td' = td
        /\ receipts' = IF Executes(blk) THEN receipts \cup {blk} ELSE receipts
        /\ states' = IF Executes(blk) /\ blk.body = "good" THEN states \cup {blk} ELSE states
    BY <1>10, Zenon DEF WriteReceipts
  <2>2. Loaded /\ Pending /\ ~Pending' /\ blk \in DOMAIN td
    BY <2>1, Zenon DEF Loaded, Pending, Reorg, IInv, WriterInv
  <2>3. \A h \in receipts' : h.body = "good" => h \in states'
    BY <1>0, <2>1, Zenon DEF ReceiptInv
  <2>4. ASSUME NEW h \in DOMAIN td \ {Genesis}, Executes(h)' PROVE h \in receipts'
    <3>1. Executes(h) => h \in receipts'
      BY <1>0, <2>1, <2>2, Zenon DEF ReceiptInv, Settled
    <3>2. CASE states' = states
      BY <2>4, <3>1, <3>2, Zenon DEF Executes
    <3>3. CASE states' # states
      <4>1. Executes(blk) /\ blk.body = "good" /\ blk \notin states
        BY <2>1, <3>3, Zenon
      <4>2. blk \notin receipts
        BY <1>0, <4>1, Zenon DEF ReceiptInv
      <4>3. h.parent # blk
        BY <1>0, <2>2, <4>1, <4>2, Zenon DEF ReceiptInv, Settled
      <4>4. Executes(h)
        BY <2>1, <2>4, <4>3, Zenon DEF Executes
      <4> QED
        BY <3>1, <4>4, Zenon
    <3> QED
      BY <3>2, <3>3, Zenon
  <2>5. \A h \in DOMAIN td' \ {Genesis} : Settled(h)'
    BY <2>1, <2>4, Zenon DEF Settled
  <2> QED
    BY <2>2, <2>3, <2>5, Zenon DEF ReceiptInv
<1>11. CASE UNCHANGED vars
  <2>1. CASE Loaded
    BY <1>1, <1>11, <2>1, Zenon DEF vars, store, Pending, Reorg
  <2>2. CASE ~Loaded
    BY <1>0, <1>11, <2>2, Zenon DEF vars, store, Pending, Reorg, Loaded, ReceiptInv
  <2> QED
    BY <2>1, <2>2, Zenon
<1> QED
    BY <1>0, <1>2, <1>3, <1>4, <1>5, <1>6, <1>7, <1>8, <1>9, <1>10, <1>11, Zenon
    DEF Next, Write, AlreadyInserted

\* In a process that never died GetForks has the tip of every known chain but the
\* chosen one, whatever the order of delivery and the reorganisations.
THEOREM ForksAreTips == Spec => []ForksCoverTips
<1>1. Init => ForkInv
    BY Zenon DEF Init, ForkInv, Loaded
<1>2. IInv /\ IInv' /\ ForkInv /\ [Next]_vars => ForkInv'
    BY ForkInvStep, Zenon
<1>3. ForkInv => ForksCoverTips
    BY Zenon DEF ForkInv, ForksCoverTips, Recorded, Unrecorded, Loaded, Reorg
<1> QED
    BY Invariance, <1>1, <1>2, <1>3, PTL DEF Spec

\* In a process that never died every block of known difficulty that can be executed
\* has its receipts, also one that is delivered again and one whose parent came late.
THEOREM ReceiptsAreComplete == Spec => []ReceiptsComplete
<1>1. Init => ReceiptInv
    BY Zenon DEF Init, ReceiptInv, Loaded, Pending, Reorg
<1>2. IInv /\ IInv' /\ ReceiptInv /\ [Next]_vars => ReceiptInv'
    BY ReceiptInvStep
<1>3. ReceiptInv => ReceiptsComplete
    BY Zenon DEF ReceiptInv, ReceiptsComplete, Settled, Loaded, Pending, Reorg
<1> QED
    BY Invariance, <1>1, <1>2, <1>3, PTL DEF Spec

-----------------------------------------------------------------------------
(* Deposits.                                                               *)

\* Of Join, whose pc is called status here.
CONSTANTS Node, Producer, MaxEnds
VARIABLES faucet, acct, low, staked, pools, msgs, status, once, seen, submitted, together,
          restarts, closes

Deposits == INSTANCE Join WITH pc <- status

\* What Join assumes of its constants.
Apart == Producer \notin Node /\ "faucet" \notin Node

Pool == Node \cup {Producer}

\* What the deposits depend on.
DepositTypes ==
    /\ faucet \in Nat
    /\ acct \in [Node -> Nat]
    /\ low \in [Node -> BOOLEAN]
    /\ pools \in [Pool -> SUBSET Deposits!Txs]
    /\ msgs \subseteq Deposits!Txs \X Pool
    /\ seen \in [Node -> [acct : Nat, staked : BOOLEAN]]
    /\ staked \in [Node -> BOOLEAN]

\* A deposit has a nonce the faucet has reached, and while it can still be executed
\* its account is short.
GoodDeposit(t) == t.from = "faucet" => t.nonce <= faucet /\ (t.nonce = faucet => low[t.to])

\* Every deposit in a pool or on its way is a good one.
DepositInv ==
    /\ DepositTypes
    /\ \A x \in Pool : \A t \in pools[x] : GoodDeposit(t)
    /\ \A m \in msgs : GoodDeposit(m[1])

\* A deposit and a stake are transactions, and a deposit goes to a node.
LEMMA TxFacts ==
  ASSUME Apart
  PROVE  /\ \A n \in Node, k \in Nat :
              /\ [from |-> "faucet", to |-> n, nonce |-> k] \in Deposits!Txs
              /\ [from |-> n, nonce |-> k] \in Deposits!Txs
         /\ \A t \in Deposits!Txs : /\ t.nonce \in Nat
                                    /\ t.from = "faucet" => t.to \in Node
                                    /\ t.from # "faucet" => t.from \in Node
  BY Zenon DEF Apart, Deposits!Txs

\* At first there is no deposit.
LEMMA DepositInit == Deposits!Init => DepositInv
  BY DEF Deposits!Init, DepositInv, DepositTypes, Pool, GoodDeposit

\* A good transaction that is added makes the pool and the gossip no worse.
LEMMA AddGood ==
  ASSUME DepositInv, NEW n \in Node, NEW tx \in Deposits!Txs, GoodDeposit(tx), Deposits!AddTx(n, tx)
  PROVE  /\ pools' \in [Pool -> SUBSET Deposits!Txs] /\ msgs' \subseteq Deposits!Txs \X Pool
         /\ \A x \in Pool : \A t \in pools'[x] : GoodDeposit(t)
         /\ \A m \in msgs' : GoodDeposit(m[1])
  <1> USE DEF DepositInv, DepositTypes, Pool
  <1>1. pools' = [pools EXCEPT ![n] = @ \cup {tx}]
    BY Zenon DEF Deposits!AddTx
  <1>2. msgs' = msgs \cup {<<tx, x>> : x \in Pool \ {n}}
    BY Zenon DEF Deposits!AddTx
  <1>3. pools' \in [Pool -> SUBSET Deposits!Txs]
    BY <1>1, Zenon
  <1>4. msgs' \subseteq Deposits!Txs \X Pool
    BY <1>2
  <1>5. ASSUME NEW x \in Pool, NEW t \in pools'[x] PROVE GoodDeposit(t)
    <2>1. t \in pools[x] \/ t = tx
      BY <1>1, <1>5, Zenon
    <2> QED  BY <2>1, Zenon
  <1>6. ASSUME NEW m \in msgs' PROVE GoodDeposit(m[1])
    <2>1. m \in msgs \/ \E x \in Pool : m = <<tx, x>>
      BY <1>2, <1>6, Zenon
    <2> QED  BY <2>1
  <1> QED  BY <1>3, <1>4, <1>5, <1>6, Zenon

\* Every step keeps the deposits good.
LEMMA DepositStep ==
  ASSUME Apart, DepositInv, [Deposits!Next]_(Deposits!vars) PROVE DepositInv'
  <1> USE DEF DepositInv, DepositTypes, Pool
  <1>1. CASE Deposits!Gossip
    <2>1. PICK m \in msgs :
            /\ msgs' = msgs \ {m}
            /\ pools' = pools \/ pools' = [pools EXCEPT ![m[2]] = @ \cup {m[1]}]
      BY <1>1, Zenon DEF Deposits!Gossip
    <2>2. UNCHANGED <<faucet, acct, low, staked, seen>>
      BY <1>1, Zenon DEF Deposits!Gossip, Deposits!chain
    <2>3. m[1] \in Deposits!Txs /\ m[2] \in Pool /\ GoodDeposit(m[1])
      BY Zenon
    <2>4. pools' \in [Pool -> SUBSET Deposits!Txs] /\ msgs' \subseteq Deposits!Txs \X Pool
      BY <2>1, <2>3
    <2>5. \A x \in Pool : \A t \in pools'[x] : t \in pools[x] \/ t = m[1]
      BY <2>1, <2>3
    <2>6. \A x \in Pool : \A t \in pools'[x] : GoodDeposit(t)'
      BY <2>2, <2>3, <2>5, Zenon DEF GoodDeposit
    <2>7. \A k \in msgs' : GoodDeposit(k[1])'
      BY <2>1, <2>2, Zenon DEF GoodDeposit
    <2> QED  BY <2>2, <2>4, <2>6, <2>7, Zenon
  <1>2. CASE Deposits!NewBlock
    <2>1. PICK tx \in pools[Producer] :
            /\ tx.nonce = Deposits!ChainNonce(tx.from)
            /\ IF tx.from = "faucet"
               THEN /\ faucet' = faucet + 1
                    /\ low' = [low EXCEPT ![tx.to] = FALSE]
                    /\ UNCHANGED <<acct, staked>>
               ELSE IF low[tx.from] THEN UNCHANGED Deposits!chain
               ELSE /\ acct' = [acct EXCEPT ![tx.from] = @ + 1]
                    /\ staked' = [staked EXCEPT ![tx.from] = TRUE]
                    /\ low' = [low EXCEPT ![tx.from] = TRUE]
                    /\ UNCHANGED faucet
            /\ pools' = [pools EXCEPT ![Producer] =
                           {t \in @ : t.from # tx.from \/ t.nonce > tx.nonce}]
      BY <1>2, Zenon DEF Deposits!NewBlock
    <2>2. UNCHANGED <<msgs, seen>>
      BY <1>2, Zenon DEF Deposits!NewBlock
    <2>3. tx \in Deposits!Txs
      BY Zenon
    <2>4. \A x \in Pool : pools'[x] \subseteq pools[x]
      BY <2>1, Zenon
    <2>5. pools' \in [Pool -> SUBSET Deposits!Txs]
      BY <2>1, Zenon
    <2>6. CASE tx.from = "faucet"
      <3>1. faucet' = faucet + 1 /\ low' = [low EXCEPT ![tx.to] = FALSE]
            /\ UNCHANGED <<acct, staked>> /\ tx.to \in Node
        BY <2>1, <2>3, <2>6, TxFacts, Zenon
      <3>2. ASSUME NEW t \in Deposits!Txs, GoodDeposit(t) PROVE GoodDeposit(t)'
        <4>1. t.nonce \in Nat
          BY TxFacts, Zenon
        <4> QED  BY <3>1, <3>2, <4>1 DEF GoodDeposit
      <3>3. \A x \in Pool : \A t \in pools'[x] : GoodDeposit(t)'
        BY <2>4, <2>5, <3>2, Zenon
      <3>4. \A m \in msgs' : GoodDeposit(m[1])'
        BY <2>2, <3>2, Zenon
      <3> QED  BY <2>2, <2>5, <3>1, <3>3, <3>4
    <2>7. CASE tx.from # "faucet"
      <3>1. tx.from \in Node
        BY <2>3, <2>7, TxFacts, Zenon
      <3>2. /\ faucet' = faucet /\ acct' \in [Node -> Nat] /\ staked' \in [Node -> BOOLEAN]
            /\ low' \in [Node -> BOOLEAN] /\ \A n \in Node : low[n] => low'[n]
        <4>1. CASE low[tx.from]
          BY <2>1, <2>7, <4>1, Zenon DEF Deposits!chain
        <4>2. CASE ~low[tx.from]
          <5>1. /\ acct' = [acct EXCEPT ![tx.from] = @ + 1]
                /\ staked' = [staked EXCEPT ![tx.from] = TRUE]
                /\ low' = [low EXCEPT ![tx.from] = TRUE]
                /\ faucet' = faucet
            BY <2>1, <2>7, <4>2, Zenon
          <5>2. acct' \in [Node -> Nat]
            BY <3>1, <5>1
          <5>3. staked' \in [Node -> BOOLEAN] /\ low' \in [Node -> BOOLEAN]
            BY <5>1, Zenon
          <5>4. \A n \in Node : low[n] => low'[n]
            BY <5>1, Zenon
          <5> QED  BY <5>1, <5>2, <5>3, <5>4, Zenon
        <4> QED  BY <4>1, <4>2, Zenon
      <3>3. ASSUME NEW t \in Deposits!Txs, GoodDeposit(t) PROVE GoodDeposit(t)'
        <4>1. t.from = "faucet" => t.to \in Node
          BY TxFacts, Zenon
        <4> QED  BY <3>2, <3>3, <4>1, Zenon DEF GoodDeposit
      <3>4. \A x \in Pool : \A t \in pools'[x] : GoodDeposit(t)'
        BY <2>4, <2>5, <3>3
      <3>5. \A m \in msgs' : GoodDeposit(m[1])'
        BY <2>2, <3>3
      <3> QED  BY <2>2, <2>5, <3>2, <3>4, <3>5, Zenon
    <2> QED  BY <2>6, <2>7, Zenon
  <1>3. ASSUME NEW n \in Node, Deposits!syncConditionFn(n) PROVE DepositInv'
    <2> DEFINE tx == [from |-> "faucet", to |-> n, nonce |-> faucet]
    <2>1. /\ UNCHANGED <<faucet, acct, low, staked>>
          /\ seen' \in [Node -> [acct : Nat, staked : BOOLEAN]]
      BY <1>3, Zenon DEF Deposits!syncConditionFn, Deposits!chain
    <2>2. UNCHANGED <<pools, msgs>> \/ (low[n] /\ Deposits!AddTx(n, tx))
      BY <1>3, Zenon DEF Deposits!syncConditionFn, Deposits!ensureAccountBalance
    <2>3. CASE UNCHANGED <<pools, msgs>>
      BY <2>1, <2>3, Zenon DEF GoodDeposit
    <2>4. CASE low[n] /\ Deposits!AddTx(n, tx)
      <3>1. tx \in Deposits!Txs /\ GoodDeposit(tx)
        <4>1. tx \in Deposits!Txs
          BY TxFacts, Zenon
        <4>2. tx.nonce = faucet /\ tx.to = n
          BY Zenon
        <4>3. GoodDeposit(tx)
          <5> HIDE DEF tx
          <5> QED  BY <2>4, <4>2 DEF GoodDeposit
        <4> QED  BY <4>1, <4>3, Zenon
      <3>2. /\ pools' \in [Pool -> SUBSET Deposits!Txs] /\ msgs' \subseteq Deposits!Txs \X Pool
            /\ \A x \in Pool : \A t \in pools'[x] : GoodDeposit(t)
            /\ \A m \in msgs' : GoodDeposit(m[1])
        <4> HIDE DEF tx
        <4> QED  BY <2>4, <3>1, AddGood, Zenon
      <3> QED  BY <2>1, <3>2, Zenon DEF GoodDeposit
    <2> QED  BY <2>2, <2>3, <2>4, Zenon
  <1>4. ASSUME NEW n \in Node, Deposits!ensureStaked(n) PROVE DepositInv'
    <2> DEFINE tx == [from |-> n, nonce |-> 0]
    <2>1. UNCHANGED <<faucet, acct, low, staked, seen>>
      BY <1>4, Zenon DEF Deposits!ensureStaked, Deposits!chain
    <2>2. UNCHANGED <<pools, msgs>> \/ Deposits!AddTx(n, tx)
      BY <1>4, Zenon DEF Deposits!ensureStaked, Deposits!stakeParticipantThroughTxPool
    <2>3. CASE UNCHANGED <<pools, msgs>>
      BY <2>1, <2>3, Zenon DEF GoodDeposit
    <2>4. CASE Deposits!AddTx(n, tx)
      <3>1. tx \in Deposits!Txs /\ GoodDeposit(tx)
        BY TxFacts, Zenon DEF GoodDeposit, Apart
      <3>2. /\ pools' \in [Pool -> SUBSET Deposits!Txs] /\ msgs' \subseteq Deposits!Txs \X Pool
            /\ \A x \in Pool : \A t \in pools'[x] : GoodDeposit(t)
            /\ \A m \in msgs' : GoodDeposit(m[1])
        <4> HIDE DEF tx
        <4> QED  BY <2>4, <3>1, AddGood, Zenon
      <3> QED  BY <2>1, <3>2, Zenon DEF GoodDeposit
    <2> QED  BY <2>2, <2>3, <2>4, Zenon
  <1>5. ASSUME NEW n \in Node, Deposits!Start(n) PROVE DepositInv'
    BY <1>5, Zenon DEF Deposits!Start, Deposits!chain, GoodDeposit
  <1>6. ASSUME NEW n \in Node, Deposits!Crash(n) \/ Deposits!Close(n) PROVE DepositInv'
    <2>1. UNCHANGED <<faucet, low, msgs, seen>> /\ pools' = [pools EXCEPT ![n] = {}]
      BY <1>6, Zenon DEF Deposits!Crash, Deposits!Close, Deposits!chain
    <2>2. acct' \in [Node -> Nat] /\ staked' \in [Node -> BOOLEAN]
      <3>1. \/ UNCHANGED <<acct, staked>>
            \/ /\ acct' = [acct EXCEPT ![n] = @ + 1]
               /\ staked' = [staked EXCEPT ![n] = FALSE]
        BY <1>6, Zenon DEF Deposits!Crash, Deposits!Close, Deposits!chain
      <3>2. acct' \in [Node -> Nat]
        BY <3>1
      <3>3. staked' \in [Node -> BOOLEAN]
        BY <3>1, Zenon
      <3> QED  BY <3>2, <3>3, Zenon
    <2>3. pools' \in [Pool -> SUBSET Deposits!Txs] /\ \A x \in Pool : pools'[x] \subseteq pools[x]
      BY <2>1, Zenon
    <2> QED  BY <2>1, <2>2, <2>3, Zenon DEF GoodDeposit
  <1>7. CASE UNCHANGED Deposits!vars
    BY <1>7, Zenon DEF Deposits!vars, Deposits!chain, GoodDeposit
  <1> QED  BY <1>1, <1>2, <1>3, <1>4, <1>5, <1>6, <1>7, Zenon
           DEF Deposits!Next, Deposits!NodeStep, Deposits!EmptyBlock

\* However often nodes ask the faucet, crash and ask again, ensureAccountBalance never
\* leads to a deposit into an account that has the minimum balance: a deposit carries
\* the faucet's nonce of the moment at which the account was short.
THEOREM NoIdleDepositTheorem == ASSUME Apart PROVE Deposits!Spec => Deposits!NoIdleDeposit
  <1>1. Deposits!Init => DepositInv
    BY DepositInit, Zenon
  <1>2. DepositInv /\ [Deposits!Next]_(Deposits!vars) => DepositInv'
    BY DepositStep, Zenon
  <1>3. DepositInv /\ [Deposits!Next]_(Deposits!vars) =>
            [faucet' # faucet => \E n \in Node : low[n] /\ ~low'[n]]_(Deposits!vars)
    <2> SUFFICES ASSUME DepositInv, Deposits!Next, faucet' # faucet
                 PROVE  \E n \in Node : low[n] /\ ~low'[n]
      BY Zenon
    <2>1. Deposits!NewBlock
      BY Zenon DEF Deposits!Next, Deposits!NodeStep, Deposits!Gossip, Deposits!EmptyBlock,
             Deposits!vars, Deposits!Start, Deposits!syncConditionFn, Deposits!ensureStaked,
             Deposits!Crash, Deposits!Close, Deposits!chain
    <2>2. PICK tx \in pools[Producer] :
            /\ tx.nonce = Deposits!ChainNonce(tx.from) /\ tx.from = "faucet"
            /\ low' = [low EXCEPT ![tx.to] = FALSE]
      BY <2>1, Zenon DEF Deposits!NewBlock, Deposits!chain
    <2>3. tx \in Deposits!Txs /\ GoodDeposit(tx) /\ tx.to \in Node
      BY <2>2, TxFacts, Zenon DEF DepositInv, DepositTypes, Pool
    <2>4. low[tx.to] /\ ~low'[tx.to]
      BY <2>2, <2>3, Zenon DEF GoodDeposit, Deposits!ChainNonce, DepositInv, DepositTypes
    <2> QED  BY <2>3, <2>4, Zenon
  <1> QED  BY <1>1, <1>2, <1>3, PTL DEF Deposits!Spec, Deposits!NoIdleDeposit
=============================================================================
