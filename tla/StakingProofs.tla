--------------------------- MODULE StakingProofs ----------------------------
(***************************************************************************)
(* Proofs about Staking for any nodes, any number of calls and queries in  *)
(* progress at once, and any failures.                                     *)
(*                                                                         *)
(* StoreInv: every block there is, in a store, submitted or under          *)
(* construction, has no weight and carries a well-formed contract, so that *)
(* a block becomes the head only on top of it.  CallInv and QueryInv say   *)
(* what a call and a query in progress have done so far.                   *)
(*                                                                         *)
(* The last section proves of EventStream that every subscriber that stays *)
(* gets each event of the blockchain since it came, in order, for any      *)
(* writers, clients and channel capacity.                                  *)
(***************************************************************************)
EXTENDS Staking, TLAPS

Sent == {"stake", "unstake", "begin", "end"}

State == [sequencers : SUBSET Node, watchtowers : SUBSET Node,
          disputes : SUBSET (Node \X Node), param : [Parameter -> Value \cup {0}]]

Good(b) == b.difficulty = 0 /\ b.st \in State

GoodTx(tx) ==
    /\ tx.from \in Node
    /\ tx.method \in {"begin", "end"} => tx.arg \in Node
    /\ IF tx.method = "set" THEN tx.arg \in Parameter /\ tx.value \in Value
                            ELSE tx.arg \notin Parameter

\* What has been submitted.
Out == inflight \cup Range(avail)

\* Every block that was submitted is good.
OutOf(U) == avail \in Seq(U) /\ inflight \in SUBSET U /\ \A b \in U : Good(b)
OutInv == \E U : OutOf(U)

StoreInv ==
    /\ DOMAIN chain = Node /\ seen \in [Node -> Nat]
    /\ \A n \in Node :
           /\ chain[n].head \in DOMAIN chain[n].td
           /\ \A b \in DOMAIN chain[n].td : Good(b) /\ chain[n].td[b] = 0

\* A call in progress has a good parent, and its block is submitted once the
\* call has no more to send.
CallInv ==
    /\ DOMAIN call = Node
    /\ \A n \in Node : call[n] # Nil =>
           /\ call[n] = [tx |-> call[n].tx, parent |-> call[n].parent, send |-> call[n].send]
           /\ call[n].send \in BOOLEAN
           /\ Good(call[n].parent) /\ GoodTx(call[n].tx)
           /\ ~call[n].send /\ call[n].tx.method \in Sent => Build(n) \in Out

\* A query in progress reads the state of one of the heads since it began, and
\* the head now is among them.
QueryInv ==
    /\ DOMAIN query = Node /\ DOMAIN heads = Node
    /\ \A n \in Node : query[n] # Nil =>
           /\ query[n].k \in Question
           /\ chain[n].head \in heads[n]
           /\ \E h \in heads[n] : query[n].st = h.st

LastInv == DOMAIN last = Node

-----------------------------------------------------------------------------
(* The contract and the store.                                             *)

\* A transaction leaves the contract well-formed, and changes the parameters
\* only if it sets one.
LEMMA ContractState ==
    ASSUME NEW st \in State, NEW tx, GoodTx(tx)
    PROVE  /\ Contract(st, tx) \in State
           /\ Contract(st, tx).param =
                  IF tx.method = "set" THEN [st.param EXCEPT ![tx.arg] = tx.value] ELSE st.param
<1> DEFINE new == Contract(st, tx)
<1>1. CASE tx.method = "stake"
  <2>1. new = st \/ new = [st EXCEPT !.sequencers = @ \cup {tx.from}]
                 \/ new = [st EXCEPT !.watchtowers = @ \cup {tx.from}]
    BY <1>1, Zenon DEF Contract
  <2> QED
    BY <1>1, <2>1 DEF State, GoodTx
<1>2. CASE tx.method = "unstake"
  <2>1. new = st \/ new = [st EXCEPT !.sequencers = @ \ {tx.from},
                                     !.watchtowers = @ \ {tx.from}]
    BY <1>2, Zenon DEF Contract
  <2> QED
    BY <1>2, <2>1, ZenonT(30) DEF State
<1>3. CASE tx.method = "begin"
  <2>1. new = st \/ new = [st EXCEPT !.disputes = @ \cup {<<tx.arg, tx.from>>}]
    BY <1>3, Zenon DEF Contract
  <2> QED
    BY <1>3, <2>1 DEF State, GoodTx
<1>4. CASE tx.method = "end"
  <2>1. new = st \/ new = [st EXCEPT !.disputes = {d \in @ : d # <<tx.arg, tx.from>>}]
    BY <1>4, Zenon DEF Contract
  <2> QED
    BY <1>4, <2>1 DEF State
<1>5. CASE tx.method = "slash"
  <2>1. new = st \/ new = [st EXCEPT !.disputes = {d \in @ : tx.arg \notin {d[1], d[2]}}]
    BY <1>5, Zenon DEF Contract
  <2> QED
    BY <1>5, <2>1 DEF State
<1>6. CASE tx.method = "set"
  <2>1. new = [st EXCEPT !.param[tx.arg] = tx.value]
    BY <1>6, Zenon DEF Contract
  <2> QED
    BY <1>6, <2>1 DEF State, GoodTx
<1>7. CASE tx.method \notin {"stake", "unstake", "begin", "end", "slash", "set"}
  <2>1. new = st
    BY <1>7, Zenon DEF Contract
  <2> QED
    BY <1>7, <2>1, Zenon
<1> QED
  BY <1>1, <1>2, <1>3, <1>4, <1>5, <1>6, <1>7, Zenon

\* The block of a call.
LEMMA BuildGood ==
    ASSUME CallInv, NEW n \in Node, call[n] # Nil
    PROVE  /\ Good(Build(n))
           /\ Build(n).tx = call[n].tx /\ Build(n).parent = call[n].parent
           /\ Build(n).st = Contract(call[n].parent.st, call[n].tx)
<1>1. Good(call[n].parent) /\ GoodTx(call[n].tx)
  BY Zenon DEF CallInv
<1>2. Contract(call[n].parent.st, call[n].tx) \in State
  BY <1>1, ContractState, Zenon DEF Good
<1>3. Build(n).difficulty = 0 /\ Build(n).st = Contract(call[n].parent.st, call[n].tx)
  BY Zenon DEF Build, Genesis
<1>4. Build(n).tx = call[n].tx /\ Build(n).parent = call[n].parent
  BY Zenon DEF Build, Genesis
<1> QED
  BY <1>2, <1>3, <1>4, Zenon DEF Good

\* A block without weight is stored with none, and becomes the head only on
\* top of it.
LEMMA InsertLight ==
    ASSUME NEW c, NEW b, Good(b), c.head \in DOMAIN c.td,
           \A a \in DOMAIN c.td : Good(a) /\ c.td[a] = 0
    PROVE  LET d == Insert(c, b)
           IN  /\ d.head \in DOMAIN d.td
               /\ \A a \in DOMAIN d.td : Good(a) /\ d.td[a] = 0
               /\ DOMAIN d.td \subseteq DOMAIN c.td \cup {b}
               /\ d.head = c.head \/ (d.head = b /\ b.parent = c.head)
<1> DEFINE d == Insert(c, b)
<1>1. CASE b.number <= c.head.number \/ b.parent \notin DOMAIN c.td
  <2>1. d = c
    BY <1>1, Zenon DEF Insert
  <2> QED
    BY <2>1, Zenon
<1>2. CASE ~(b.number <= c.head.number \/ b.parent \notin DOMAIN c.td)
  <2>1. c.td[b.parent] + b.difficulty = 0 /\ ~(0 > c.td[c.head])
    BY <1>2 DEF Good
  <2>2. /\ d.td = Put(c.td, b, 0)
        /\ d.head = IF b.parent = c.head THEN b ELSE c.head
    BY <1>2, <2>1, Zenon DEF Insert
  <2>3. DOMAIN d.td = DOMAIN c.td \cup {b} /\ \A a \in DOMAIN d.td : d.td[a] = 0
    BY <2>2, Zenon DEF Put
  <2> QED
    BY <2>2, <2>3, Zenon
<1> QED
  BY <1>1, <1>2, Zenon

-----------------------------------------------------------------------------
(* The invariants are inductive.                                           *)

\* Every call begins with a good transaction, and sends what Submitted speaks
\* of.
LEMMA CallBegins ==
    ASSUME NEW n \in Node, Call(n)
    PROVE  \E tx : \E sends \in BOOLEAN :
               /\ FromBlockchainHead(n, tx, sends) /\ GoodTx(tx)
               /\ tx.method \in Sent => sends
<1>0. "sequencer" \notin Parameter /\ "watchtower" \notin Parameter /\ Nil \notin Parameter
      /\ NodeType[n] \in {"sequencer", "watchtower"} /\ \A a \in Node : a \notin Parameter
  BY ConstantAssumption, ParameterAssumption, Zenon DEF Parameter
<1>1. CASE Stake(n)
  <2>1. GoodTx(StakeTx(n, NodeType[n]))
    BY <1>0, Zenon DEF StakeTx, Tx, GoodTx
  <2> QED
    BY <1>1, <2>1, Zenon DEF Stake
<1>2. CASE UnStake(n)
  <2>1. GoodTx(UnStakeTx(n))
    BY <1>0, Zenon DEF UnStakeTx, Tx, GoodTx
  <2> QED
    BY <1>2, <2>1, Zenon DEF UnStake
<1>3. CASE Begin(n)
  <2>1. \A a \in Node : GoodTx(BeginDisputeResolutionTx(n, a))
    BY <1>0, Zenon DEF BeginDisputeResolutionTx, Tx, GoodTx
  <2> QED
    BY <1>3, <2>1, Zenon DEF Begin
<1>4. CASE End(n)
  <2>1. \A a \in Node : GoodTx(EndDisputeResolutionTx(n, a))
    BY <1>0, Zenon DEF EndDisputeResolutionTx, Tx, GoodTx
  <2> QED
    BY <1>4, <2>1, Zenon DEF End
<1>5. CASE Slash(n)
  <2>1. \A a \in Node : GoodTx(SlashStakerTx(n, a)) /\ SlashStakerTx(n, a).method \notin Sent
    BY <1>0, Zenon DEF SlashStakerTx, Tx, GoodTx, Sent
  <2> QED
    BY <1>5, <2>1, Zenon DEF Slash
<1>6. ASSUME NEW p \in Parameter, NEW v \in Value, FromBlockchainHead(n, Tx("set", n, p, v), FALSE)
      PROVE  \E tx : \E sends \in BOOLEAN :
                 /\ FromBlockchainHead(n, tx, sends) /\ GoodTx(tx)
                 /\ tx.method \in Sent => sends
  <2>1. GoodTx(Tx("set", n, p, v)) /\ Tx("set", n, p, v).method \notin Sent
    BY Zenon DEF Tx, GoodTx, Sent
  <2> QED
    BY <1>6, <2>1, Zenon
<1>7. CASE SetThreshold(n) \/ SetParticipants(n) \/ SetSequencers(n) \/ SetWatchtowers(n)
  <2>1. \E p \in Parameter, v \in Value : FromBlockchainHead(n, Tx("set", n, p, v), FALSE)
    BY <1>7, Zenon DEF Parameter, SetThreshold, SetParticipants, SetSequencers, SetWatchtowers,
           SetThresholdTx, SetMinimumParticipantsTx, SetMaximumParticipantsTx,
           SetMinimumSequencersTx, SetMaximumSequencersTx, SetMinimumWatchtowersTx,
           SetMaximumWatchtowersTx
  <2> QED
    BY <1>6, <2>1, Zenon
<1> QED
  BY <1>1, <1>2, <1>3, <1>4, <1>5, <1>7, Zenon DEF Call

\* Every submitted block is good, and stays submitted.
LEMMA OutStep ==
    ASSUME OutInv, CallInv, [Next]_vars
    PROVE  OutInv' /\ Out \subseteq Out'
<1>1. PICK U : OutOf(U)
  BY Zenon DEF OutInv
<1>2. CASE NewAvailBlock
  <2>1. PICK b \in inflight : avail' = Append(avail, b) /\ inflight' = inflight \ {b}
    BY <1>2, Zenon DEF NewAvailBlock
  <2>2. /\ avail' \in Seq(U) /\ Len(avail') = Len(avail) + 1
        /\ \A i \in 1..Len(avail) : avail'[i] = avail[i]
        /\ avail'[Len(avail) + 1] = b
    BY <1>1, <2>1 DEF OutOf
  <2>3. Len(avail) \in Nat /\ DOMAIN avail = 1..Len(avail) /\ DOMAIN avail' = 1..Len(avail')
    BY <1>1, <2>2 DEF OutOf
  <2>4. Range(avail) \subseteq Range(avail')
    BY <2>2, <2>3 DEF Range
  <2>5. b \in Range(avail')
    <3>1. Len(avail) + 1 \in DOMAIN avail'
      BY <2>2, <2>3
    <3> QED
      BY <2>2, <3>1, Zenon DEF Range
  <2>6. OutOf(U)'
    BY <1>1, <2>1, <2>2, Zenon DEF OutOf
  <2> QED
    BY <2>1, <2>4, <2>5, <2>6, Zenon DEF OutInv, Out
<1>3. ASSUME NEW n \in Node, Send(n) PROVE OutInv' /\ Out \subseteq Out'
  <2>1. inflight' = inflight \cup {Build(n)} /\ avail' = avail /\ call[n] # Nil
    BY <1>3, Zenon DEF Send
  <2>2. Good(Build(n))
    BY <2>1, BuildGood, Zenon
  <2> DEFINE V == U \cup {Build(n)}
  <2>3. avail' \in Seq(V)
    BY <1>1, <2>1 DEF OutOf
  <2>4. inflight' \in SUBSET V /\ \A b \in V : Good(b)
    BY <1>1, <2>1, <2>2, Zenon DEF OutOf
  <2> HIDE DEF V
  <2> QED
    BY <2>1, <2>3, <2>4, Zenon DEF OutInv, OutOf, Out
<1>4. CASE UNCHANGED <<avail, inflight>>
  BY <1>1, <1>4, Zenon DEF OutInv, OutOf, Out
<1>5. UNCHANGED <<avail, inflight>> \/ NewAvailBlock \/ \E n \in Node : Send(n)
  <2>1. ASSUME NEW n \in Node, Call(n) PROVE UNCHANGED <<avail, inflight>>
    BY <2>1, CallBegins, Zenon DEF FromBlockchainHead
  <2> QED
    BY <2>1, Zenon DEF Next, vars, Done, MainLoop, WriteBlock, CallFails, SetTxFails, Ask, Answer
<1> QED
  BY <1>2, <1>3, <1>4, <1>5, Zenon

\* The steps that write to a store, and what they write.
LEMMA Writes ==
    ASSUME OutInv, StoreInv, CallInv, [Next]_vars
    PROVE  \/ UNCHANGED chain
           \/ \E n \in Node : \E b :
                  /\ Store(n, b) /\ Good(b) /\ UNCHANGED query
                  /\ b \in Out \/ b.tx.method \notin Sent
<1>1. ASSUME NEW n \in Node, MainLoop(n)
      PROVE  \E b : /\ Store(n, b) /\ Good(b) /\ UNCHANGED query
                    /\ b \in Out \/ b.tx.method \notin Sent
  <2> DEFINE b == avail[seen[n] + 1]
  <2>1. Store(n, b) /\ UNCHANGED query /\ seen[n] < Len(avail)
    BY <1>1, Zenon DEF MainLoop
  <2>2. PICK U : OutOf(U)
    BY Zenon DEF OutInv
  <2>3. seen[n] + 1 \in 1..Len(avail) /\ DOMAIN avail = 1..Len(avail)
    BY <2>1, <2>2 DEF OutOf, StoreInv
  <2>4. b \in U /\ b \in Out
    BY <2>2, <2>3 DEF OutOf, Out, Range
  <2> QED
    BY <2>1, <2>2, <2>4, Zenon DEF OutOf
<1>2. ASSUME NEW n \in Node, WriteBlock(n)
      PROVE  \E b : /\ Store(n, b) /\ Good(b) /\ UNCHANGED query
                    /\ b \in Out \/ b.tx.method \notin Sent
  <2>1. Store(n, Build(n)) /\ UNCHANGED query /\ call[n] # Nil /\ ~call[n].send
    BY <1>2, Zenon DEF WriteBlock
  <2>2. Good(Build(n)) /\ Build(n).tx = call[n].tx
    BY <2>1, BuildGood, Zenon
  <2>3. Build(n) \in Out \/ Build(n).tx.method \notin Sent
    BY <2>1, <2>2, Zenon DEF CallInv
  <2> QED
    BY <2>1, <2>2, <2>3, Zenon
<1>3. UNCHANGED chain \/ \E n \in Node : MainLoop(n) \/ WriteBlock(n)
  <2>1. ASSUME NEW n \in Node, Call(n) PROVE UNCHANGED chain
    BY <2>1, CallBegins, Zenon DEF FromBlockchainHead
  <2> QED
    BY <2>1, Zenon DEF Next, vars, Done, NewAvailBlock, Send, CallFails, SetTxFails, Ask, Answer
<1> QED
  BY <1>1, <1>2, <1>3, Zenon

\* Every step leaves stores of blocks without weight and with a well-formed contract.
LEMMA StoreStep ==
    ASSUME OutInv, StoreInv, CallInv, [Next]_vars
    PROVE  StoreInv'
<1>1. seen' \in [Node -> Nat]
  <2>1. ASSUME NEW n \in Node, Call(n) PROVE UNCHANGED seen
    BY <2>1, CallBegins, Zenon DEF FromBlockchainHead
  <2>2. UNCHANGED seen \/ \E n \in Node : seen' = [seen EXCEPT ![n] = @ + 1]
    BY <2>1, Zenon DEF Next, vars, Done, NewAvailBlock, MainLoop, Send, WriteBlock, CallFails,
                SetTxFails, Ask, Answer
  <2> QED
    BY <2>2 DEF StoreInv
<1>2. CASE UNCHANGED chain
  BY <1>1, <1>2, Zenon DEF StoreInv
<1>3. ASSUME NEW n \in Node, NEW b, Store(n, b), Good(b) PROVE StoreInv'
  <2> DEFINE d == Insert(chain[n], b)
  <2>1. chain' = [chain EXCEPT ![n] = d]
    BY <1>3, Zenon DEF Store
  <2>2. d.head \in DOMAIN d.td /\ \A a \in DOMAIN d.td : Good(a) /\ d.td[a] = 0
    BY <1>3, InsertLight DEF StoreInv
  <2> HIDE DEF d
  <2> QED
    BY <1>1, <2>1, <2>2, Zenon DEF StoreInv
<1> QED
  BY <1>2, <1>3, Writes, Zenon

\* Every step preserves what a call has submitted.
LEMMA CallStep ==
    ASSUME OutInv, StoreInv, CallInv, [Next]_vars
    PROVE  CallInv'
<1> DEFINE Well(n) ==
               /\ call[n] = [tx |-> call[n].tx, parent |-> call[n].parent, send |-> call[n].send]
               /\ call[n].send \in BOOLEAN
               /\ Good(call[n].parent) /\ GoodTx(call[n].tx)
               /\ ~call[n].send /\ call[n].tx.method \in Sent => Build(n) \in Out
<1>1. Out \subseteq Out'
  BY OutStep, Zenon
<1>2. ASSUME NEW m \in Node, call'[m] = call[m], call[m] # Nil PROVE Well(m)'
  <2>1. Well(m)
    BY <1>2, Zenon DEF CallInv
  <2>2. Build(m)' = Build(m)
    BY <1>2, Zenon DEF Build
  <2> HIDE DEF Out
  <2> QED
    BY <1>1, <1>2, <2>1, <2>2, Zenon
<1>3. ASSUME NEW n \in Node, DOMAIN call' = Node, \A m \in Node \ {n} : call'[m] = call[m],
             call'[n] # Nil => Well(n)'
      PROVE  CallInv'
  BY <1>2, <1>3, Zenon DEF CallInv
<1>4. CASE UNCHANGED call
  BY <1>2, <1>4, Zenon DEF CallInv
<1>5. ASSUME NEW n \in Node, Call(n) PROVE CallInv'
  <2>1. PICK tx : \E sends \in BOOLEAN :
            FromBlockchainHead(n, tx, sends) /\ GoodTx(tx) /\ (tx.method \in Sent => sends)
    BY <1>5, CallBegins, Zenon
  <2>2. PICK sends \in BOOLEAN :
            FromBlockchainHead(n, tx, sends) /\ GoodTx(tx) /\ (tx.method \in Sent => sends)
    BY <2>1, Zenon
  <2>3. call' = [call EXCEPT ![n] = [tx |-> tx, parent |-> chain[n].head, send |-> sends]]
    BY <2>2, Zenon DEF FromBlockchainHead
  <2>4. /\ call'[n] = [tx |-> tx, parent |-> chain[n].head, send |-> sends]
        /\ DOMAIN call' = Node /\ \A m \in Node \ {n} : call'[m] = call[m]
    BY <2>3, Zenon DEF CallInv
  <2>5. Good(chain[n].head)
    BY Zenon DEF StoreInv
  <2>6. Well(n)'
    BY <2>2, <2>4, <2>5
  <2> HIDE DEF Well
  <2> QED
    BY <1>3, <2>4, <2>6, Zenon
<1>6. ASSUME NEW n \in Node, Send(n) PROVE CallInv'
  <2>1. /\ inflight' = inflight \cup {Build(n)} /\ call[n] # Nil
        /\ call' = [call EXCEPT ![n].send = FALSE]
    BY <1>6, Zenon DEF Send
  <2>2. Well(n)
    BY <2>1, Zenon DEF CallInv
  <2>3. /\ call'[n] = [tx |-> call[n].tx, parent |-> call[n].parent, send |-> FALSE]
        /\ DOMAIN call' = Node /\ \A m \in Node \ {n} : call'[m] = call[m]
    BY <2>1, <2>2, Zenon DEF CallInv
  <2>4. Build(n)' = Build(n)
    BY <2>3 DEF Build
  <2>5. Build(n)' \in Out'
    BY <2>1, <2>4, Zenon DEF Out
  <2>6. Well(n)'
    BY <2>2, <2>3, <2>5
  <2> HIDE DEF Well
  <2> QED
    BY <1>3, <2>3, <2>6, Zenon
<1>7. ASSUME NEW n \in Node, WriteBlock(n) \/ CallFails(n) \/ SetTxFails(n) PROVE CallInv'
  <2>1. call' = [call EXCEPT ![n] = Nil]
    BY <1>7, Zenon DEF WriteBlock, CallFails, SetTxFails
  <2>2. call'[n] = Nil /\ DOMAIN call' = Node /\ \A m \in Node \ {n} : call'[m] = call[m]
    BY <2>1, Zenon DEF CallInv
  <2> HIDE DEF Well
  <2> QED
    BY <1>3, <2>2, Zenon
<1>8. UNCHANGED call \/ \E n \in Node : \/ Call(n) \/ Send(n) \/ WriteBlock(n)
                                         \/ CallFails(n) \/ SetTxFails(n)
  BY Zenon DEF Next, vars, Done, NewAvailBlock, MainLoop, Ask, Answer
<1> QED
  BY <1>4, <1>5, <1>6, <1>7, <1>8, Zenon

\* Every step preserves which head a query has read.
LEMMA QueryStep ==
    ASSUME OutInv, StoreInv, CallInv, QueryInv, [Next]_vars
    PROVE  QueryInv'
<1>1. CASE UNCHANGED <<chain, query, heads>>
  BY <1>1, Zenon DEF QueryInv, Question
<1>2. ASSUME NEW n \in Node, NEW b, Store(n, b), UNCHANGED query PROVE QueryInv'
  <2> DEFINE d == Insert(chain[n], b)
  <2>1. /\ chain' = [chain EXCEPT ![n] = d]
        /\ heads' = [heads EXCEPT ![n] = IF query[n] = Nil THEN @ ELSE @ \cup {d.head}]
    BY <1>2, Zenon DEF Store
  <2> HIDE DEF d
  <2>2. chain'[n] = d /\ \A m \in Node \ {n} : chain'[m] = chain[m] /\ heads'[m] = heads[m]
    BY <2>1, Zenon DEF StoreInv, QueryInv
  <2>3. DOMAIN heads' = Node /\ (query[n] # Nil => heads'[n] = heads[n] \cup {d.head})
    BY <2>1, Zenon DEF QueryInv
  <2> QED
    BY <1>2, <2>2, <2>3, Zenon DEF QueryInv
<1>3. ASSUME NEW n \in Node, Ask(n) PROVE QueryInv'
  <2>1. PICK k \in Question : query' = [query EXCEPT ![n] = [k |-> k, st |-> chain[n].head.st]]
    BY <1>3, Zenon DEF Ask
  <2>2. heads' = [heads EXCEPT ![n] = {chain[n].head}] /\ UNCHANGED chain
    BY <1>3, Zenon DEF Ask
  <2>3. /\ query'[n].k \in Question /\ query'[n].st = chain[n].head.st
        /\ DOMAIN query' = Node /\ \A m \in Node \ {n} : query'[m] = query[m]
    BY <2>1, Zenon DEF QueryInv
  <2>4. /\ heads'[n] = {chain[n].head} /\ DOMAIN heads' = Node
        /\ \A m \in Node \ {n} : heads'[m] = heads[m]
    BY <2>2, Zenon DEF QueryInv
  <2> QED
    BY <2>2, <2>3, <2>4 DEF QueryInv
<1>4. ASSUME NEW n \in Node, Answer(n) PROVE QueryInv'
  BY <1>4, Zenon DEF Answer, QueryInv
<1>5. UNCHANGED <<chain, query, heads>> \/ \E n \in Node : Ask(n) \/ Answer(n)
      \/ \E b : Store(n, b) /\ UNCHANGED query
  <2>1. ASSUME NEW n \in Node, Call(n) PROVE UNCHANGED <<chain, query, heads>>
    BY <2>1, CallBegins, Zenon DEF FromBlockchainHead
  <2>2. ASSUME NEW n \in Node, MainLoop(n) \/ WriteBlock(n)
        PROVE  \E b : Store(n, b) /\ UNCHANGED query
    BY <2>2, Zenon DEF MainLoop, WriteBlock
  <2> QED
    BY <2>1, <2>2, Zenon DEF Next, vars, Done, NewAvailBlock, Send, CallFails, SetTxFails
<1> QED
  BY <1>1, <1>2, <1>3, <1>4, <1>5, Zenon

\* The record of the latest call that returned no error is changed by a write, or by a
\* setter without a block.
LEMMA LastStep ==
    ASSUME LastInv, [Next]_vars
    PROVE  LastInv' /\ (UNCHANGED last \/ \E n \in Node : WriteBlock(n) \/ SetTxFails(n))
<1>1. ASSUME NEW n \in Node, Call(n) PROVE UNCHANGED last
  BY <1>1, CallBegins, Zenon DEF FromBlockchainHead
<1>2. UNCHANGED last \/ \E n \in Node : WriteBlock(n) \/ SetTxFails(n)
  BY <1>1, Zenon DEF Next, vars, Done, NewAvailBlock, MainLoop, Send, CallFails, Ask, Answer
<1>3. ASSUME NEW n \in Node, WriteBlock(n) \/ SetTxFails(n) PROVE LastInv'
  BY <1>3, Zenon DEF WriteBlock, SetTxFails, LastInv
<1> QED
  BY <1>2, <1>3, Zenon DEF LastInv

IInv == OutInv /\ StoreInv /\ CallInv /\ QueryInv /\ LastInv

\* The conjunction holds throughout.
LEMMA Invariance == Spec => []IInv
<1>1. Init => IInv
  <2> SUFFICES ASSUME Init PROVE IInv
    BY Zenon
  <2>1. OutInv
    <3>1. OutOf({})
      BY DEF Init, OutOf
    <3> QED
      BY <3>1, Zenon DEF OutInv
  <2>2. Genesis.st \in State /\ Genesis.difficulty = 0
    BY ConstantAssumption, Zenon DEF Genesis, State
  <2>3. StoreInv
    <3>1. \A n \in Node : chain[n].head = Genesis /\ chain[n].td = [h \in {Genesis} |-> 0]
      BY <2>2, Zenon DEF Init, NewStore
    <3> QED
      BY <2>2, <3>1, Zenon DEF Init, StoreInv, Good
  <2>4. CallInv /\ QueryInv /\ LastInv
    BY Zenon DEF Init, CallInv, QueryInv, LastInv
  <2> QED
    BY <2>1, <2>3, <2>4, Zenon DEF IInv
<1>2. IInv /\ [Next]_vars => IInv'
  BY OutStep, StoreStep, CallStep, QueryStep, LastStep, Zenon DEF IInv
<1> QED
  BY <1>1, <1>2, PTL DEF Spec

-----------------------------------------------------------------------------
(* The results.                                                            *)

\* A stored block of a call that submits its block has been submitted: a Send
\* that fails leaves no block behind.
THEOREM SubmittedTheorem == Spec => []Submitted
<1>1. Init => Submitted
  <2>1. Genesis.tx = Nil
    BY Zenon DEF Genesis
  <2>2. Init => \A n \in Node : DOMAIN chain[n].td = {Genesis}
    BY DEF Init, NewStore
  <2> QED
    BY <2>1, <2>2, Zenon DEF Submitted
<1>2. IInv /\ Submitted /\ [Next]_vars => Submitted'
  <2> SUFFICES ASSUME IInv, Submitted, [Next]_vars PROVE Submitted'
    BY Zenon
  <2>1. Out \subseteq Out'
    BY OutStep, Zenon DEF IInv
  <2>2. CASE UNCHANGED chain
    BY <2>1, <2>2, Zenon DEF Submitted, Out
  <2>3. ASSUME NEW n \in Node, NEW b, Store(n, b), Good(b),
               b \in Out \/ b.tx.method \notin Sent
        PROVE  Submitted'
    <3> DEFINE d == Insert(chain[n], b)
    <3>1. chain' = [chain EXCEPT ![n] = d]
      BY <2>3, Zenon DEF Store
    <3>2. DOMAIN d.td \subseteq DOMAIN chain[n].td \cup {b}
      BY <2>3, InsertLight, Zenon DEF IInv, StoreInv
    <3> HIDE DEF d
    <3>3. \A m \in Node : DOMAIN chain'[m].td \subseteq DOMAIN chain[m].td \cup {b}
      BY <3>1, <3>2, Zenon DEF IInv, StoreInv
    <3> QED
      BY <2>1, <2>3, <3>3, Zenon DEF Submitted, Out, Sent
  <2> QED
    BY <2>2, <2>3, Writes, Zenon DEF IInv
<1> QED
  BY <1>1, <1>2, Invariance, PTL DEF Spec

\* Who is in probation in a well-formed state.
LEMMA Probation ==
    ASSUME NEW st \in State, NEW a
    PROVE  a \in QuerySequencersInProbation(st) <=> \E w \in Node : <<a, w>> \in st.disputes
<1>1. st.disputes \subseteq Node \X Node
  BY Zenon DEF State
<1>2. ASSUME a \in QuerySequencersInProbation(st)
      PROVE  \E w \in Node : <<a, w>> \in st.disputes
  <2>1. PICK d \in st.disputes : a = d[1]
    BY <1>2, Zenon DEF QuerySequencersInProbation
  <2>2. d \in Node \X Node
    BY <1>1, Zenon
  <2>3. d[2] \in Node /\ d = <<a, d[2]>>
    BY <2>1, <2>2
  <2> QED
    BY <2>3, Zenon
<1>3. ASSUME NEW w \in Node, <<a, w>> \in st.disputes
      PROVE  a \in QuerySequencersInProbation(st)
  <2>1. <<a, w>>[1] = a
    BY Zenon
  <2> QED
    BY <1>3, <2>1, Zenon DEF QuerySequencersInProbation
<1> QED
  BY <1>2, <1>3, Zenon

\* The list has who had staked in the state the query began with and is out of
\* probation in the state at its end.
LEMMA GetReads ==
    ASSUME NEW st, NEW now \in State, NEW r \in Role, NEW s
    PROVE  s \in Get(st, now, r) <=> StakedAs(st, r, s) /\ Clear(now, r, s)
<1>1. CASE r = "watchtower"
  BY <1>1, Zenon DEF Get, QueryWatchtower, StakedAs, Clear
<1>2. CASE r = "sequencer"
  <2>1. s \in Get(st, now, r) <=> s \in st.sequencers /\ s \notin QuerySequencersInProbation(now)
    BY <1>2, Zenon DEF Get, QueryActiveSequencers, QuerySequencers
  <2>2. Clear(now, r, s) <=> \A w \in Node : <<s, w>> \notin now.disputes
    BY <1>2, Zenon DEF Clear
  <2>3. StakedAs(st, r, s) <=> s \in st.sequencers
    BY <1>2, Zenon DEF StakedAs
  <2> QED
    BY <2>1, <2>2, <2>3, Probation, Zenon
<1> QED
  BY <1>1, <1>2, Zenon DEF Role

\* What a query of active nodes says of one of them is whether the list has it.
LEMMA SaysGet ==
    ASSUME NEW n \in Node, query[n] # Nil, NEW r, NEW s, NEW active \in Says(n, r, s)
    PROVE  active <=> s \in Get(query[n].st, chain[n].head.st, r)
<1> DEFINE k == query[n].k
           list == Get(query[n].st, chain[n].head.st, r)
<1>1. CASE k.q = "get"
  <2>1. k.role = r /\ Says(n, r, s) = {(s \in l) : l \in Answers(n)}
    BY <1>1, Zenon DEF Says
  <2>2. Answers(n) = {list}
    BY <1>1, <2>1, Zenon DEF Answers, Reply
  <2> QED
    BY <2>1, <2>2, Zenon
<1>2. CASE k.q = "contains"
  <2>1. k.role = r /\ k.addr = s /\ Says(n, r, s) = Answers(n)
    BY <1>2, Zenon DEF Says
  <2>2. Answers(n) = {Contains(query[n].st, chain[n].head.st, k.role, k.addr)}
    BY <1>2, Zenon DEF Answers, Reply
  <2>3. active = Contains(query[n].st, chain[n].head.st, k.role, k.addr)
    BY <2>1, <2>2, Zenon
  <2> QED
    BY <2>1, <2>3, Zenon DEF Contains
<1>3. CASE k.q = "shouldStake"
  <2>1. NodeType[n] = r /\ n = s /\ Says(n, r, s) = {~should : should \in Answers(n)}
    BY <1>3, Zenon DEF Says
  <2>2. Answers(n) = {~(s \in list)}
    BY <1>3, <2>1, Zenon DEF Answers, Reply, ShouldStake, Contains
  <2> QED
    BY <2>1, <2>2, Zenon
<1>4. CASE k.q \notin {"get", "contains", "shouldStake"}
  BY <1>4, Zenon DEF Says
<1> QED
  BY <1>1, <1>2, <1>3, <1>4, Zenon

\* Whatever is written during a query, it is right about who is active at every head
\* meanwhile, and about who has staked at none of them or is in probation at all.
THEOREM SteadyAnswerTheorem == Spec => []SteadyAnswer
<1>1. IInv => SteadyAnswer
  <2> SUFFICES ASSUME IInv, NEW n \in Node, query[n] # Nil,
                      NEW r \in Role, NEW s \in Node, NEW active \in Says(n, r, s)
               PROVE  /\ (\A h \in heads[n] : StakedAs(h.st, r, s) /\ Clear(h.st, r, s)) => active
                      /\ active => /\ \E h \in heads[n] : StakedAs(h.st, r, s)
                                   /\ \E h \in heads[n] : Clear(h.st, r, s)
    BY Zenon DEF SteadyAnswer
  <2>1. chain[n].head \in heads[n] /\ chain[n].head.st \in State
    BY Zenon DEF IInv, QueryInv, StoreInv, Good
  <2>2. PICK began \in heads[n] : query[n].st = began.st
    BY Zenon DEF IInv, QueryInv
  <2>3. active <=> StakedAs(began.st, r, s) /\ Clear(chain[n].head.st, r, s)
    BY <2>1, <2>2, SaysGet, GetReads, Zenon
  <2> QED
    BY <2>1, <2>2, <2>3, Zenon
<1> QED
  BY <1>1, Invariance, PTL

\* What a reader reports of a parameter is the parameter.
LEMMA ReportedIsParam ==
    ASSUME NEW st, NEW p \in Parameter
    PROVE  Reported(st, p) = st.param[p]
BY Zenon DEF Reported, Parameter, Current, CurrentParticipants, CurrentSequencers,
       CurrentWatchtowers, GetThresholdTx, GetMinimumParticipantsTx, GetMaximumParticipantsTx,
       GetMinimumSequencersTx, GetMaximumSequencersTx, GetMinimumWatchtowersTx,
       GetMaximumWatchtowersTx

\* A call whose block became the head has set its parameter and no other.
THEOREM SetTakesEffectTheorem == Spec => SetTakesEffect
<1> DEFINE Effect(n) ==
               last'[n] # last[n] /\ last'[n].block # Nil /\ chain'[n].head = last'[n].block =>
                   \A p \in Parameter : Reported(chain'[n].head.st, p) =
                       IF p = last'[n].tx.arg THEN last'[n].tx.value
                       ELSE Reported(chain[n].head.st, p)
<1>1. IInv /\ [Next]_vars => [\A n \in Node : Effect(n)]_vars
  <2> SUFFICES ASSUME IInv, [Next]_vars, NEW n \in Node, last'[n] # last[n],
                      last'[n].block # Nil, chain'[n].head = last'[n].block, NEW p \in Parameter
               PROVE  Reported(chain'[n].head.st, p) =
                          IF p = last'[n].tx.arg THEN last'[n].tx.value
                          ELSE Reported(chain[n].head.st, p)
    BY Zenon
  <2> DEFINE b == Build(n)
  <2>1. WriteBlock(n) /\ last'[n] = [tx |-> call[n].tx, block |-> b]
    <3>1. PICK m \in Node : WriteBlock(m)
      <4>1. ASSUME NEW m \in Node, SetTxFails(m) PROVE FALSE
        <5>1. last' = [last EXCEPT ![m] = [tx |-> call[m].tx, block |-> Nil]]
          BY <4>1, Zenon DEF SetTxFails
        <5>2. last'[n] = [tx |-> call[m].tx, block |-> Nil]
          BY <5>1, Zenon DEF IInv, LastInv
        <5> QED
          BY <5>2
      <4> QED
        BY <4>1, LastStep, Zenon DEF IInv
    <3>2. last' = [last EXCEPT ![m] = [tx |-> call[m].tx, block |-> Build(m)]]
      BY <3>1, Zenon DEF WriteBlock
    <3>3. n = m
      BY <3>2, Zenon DEF IInv, LastInv
    <3> QED
      BY <3>1, <3>2, <3>3, Zenon DEF IInv, LastInv
  <2>2. call[n] # Nil /\ GoodTx(call[n].tx) /\ Good(call[n].parent)
    BY <2>1, Zenon DEF IInv, CallInv, WriteBlock
  <2>3. /\ Good(b) /\ b.st = Contract(call[n].parent.st, call[n].tx)
        /\ b.parent = call[n].parent
    BY <2>2, BuildGood, Zenon DEF IInv
  <2>4. chain'[n] = Insert(chain[n], b) /\ chain'[n].head = b
    <3>1. chain' = [chain EXCEPT ![n] = Insert(chain[n], b)]
      BY <2>1, Zenon DEF WriteBlock, Store
    <3>2. last'[n].block = b
      BY <2>1
    <3> QED
      BY <3>1, <3>2, Zenon DEF IInv, StoreInv
  <2>9. last'[n].tx = call[n].tx
    BY <2>1
  <2> HIDE DEF b
  <2>10. b = chain[n].head \/ b.parent = chain[n].head
    <3> DEFINE c == chain[n]
    <3>1. /\ Good(b) /\ c.head \in DOMAIN c.td
          /\ \A a \in DOMAIN c.td : Good(a) /\ c.td[a] = 0
      BY <2>3, Zenon DEF IInv, StoreInv
    <3> HIDE DEF c
    <3>2. LET d == Insert(c, b) IN d.head = c.head \/ (d.head = b /\ b.parent = c.head)
      BY <3>1, InsertLight, Zenon
    <3> QED
      BY <2>4, <3>2, Zenon DEF c
  <2>5. b.st.param = IF call[n].tx.method = "set"
                     THEN [call[n].parent.st.param EXCEPT ![call[n].tx.arg] = call[n].tx.value]
                     ELSE call[n].parent.st.param
    <3>1. call[n].parent.st \in State
      BY <2>2, Zenon DEF Good
    <3> DEFINE st == call[n].parent.st
               tx == call[n].tx
    <3>2. st \in State /\ GoodTx(tx) /\ b.st = Contract(st, tx)
      BY <2>2, <2>3, <3>1, Zenon
    <3> HIDE DEF st, tx
    <3>3. b.st.param =
              IF tx.method = "set" THEN [st.param EXCEPT ![tx.arg] = tx.value] ELSE st.param
      BY <3>2, ContractState, ZenonT(30)
    <3> QED
      BY <3>3, Zenon DEF st, tx
  <2>6. /\ Reported(chain'[n].head.st, p) = b.st.param[p]
        /\ Reported(chain[n].head.st, p) = chain[n].head.st.param[p]
    BY <2>4, ReportedIsParam, Zenon
  <2>7. CASE p = call[n].tx.arg
    <3>1. call[n].tx.method = "set"
      BY <2>2, <2>7, Zenon DEF GoodTx
    <3>2. p \in DOMAIN call[n].parent.st.param
      BY <2>2, Zenon DEF Good, State
    <3> QED
      BY <2>5, <2>6, <2>7, <2>9, <3>1, <3>2, Zenon
  <2>8. CASE p # call[n].tx.arg
    <3>1. CASE b = chain[n].head
      BY <2>6, <2>8, <2>9, <3>1, Zenon
    <3>2. CASE b.parent = chain[n].head
      <4>1. chain[n].head = call[n].parent
        BY <2>3, <3>2, Zenon
      <4>2. call[n].parent.st.param \in [Parameter -> Value \cup {0}]
        BY <2>2, Zenon DEF Good, State
      <4>3. b.st.param[p] = call[n].parent.st.param[p]
        BY <2>5, <2>8, <4>2, Zenon
      <4> QED
        BY <2>6, <2>8, <2>9, <4>1, <4>3, Zenon
    <3> QED
      BY <2>10, <3>1, <3>2, Zenon
  <2> QED
    BY <2>7, <2>8, Zenon
<1> QED
  BY <1>1, Invariance, PTL DEF Spec, SetTakesEffect

-----------------------------------------------------------------------------
(* The stream of events.  NoEventLost is not inductive: a channel that the  *)
(* push has not come to is behind by the event under way.  EventInv says    *)
(* which writer pushes and how far it is (LockInv), that every subscriber   *)
(* is in the list once (ChannelInv), and what is in its channel (StreamInv).*)

\* Of EventStream.
CONSTANTS Writer, Client, Cap, MaxWrites, MaxLeave
VARIABLES writeLock, streamLock, updateCh, at, events, pushed, buf, since, got, sub, gone

Events == INSTANCE EventStream

\* The writer that pushes holds both locks.
LockInv ==
    /\ events \in Nat /\ pushed \in Nat /\ at \in [Writer -> Nat]
    /\ writeLock \in Writer \cup {Nil} /\ streamLock \in {writeLock, Nil}
    /\ events = IF writeLock = Nil THEN pushed ELSE pushed + 1
    /\ \A w \in Writer : at[w] > 0 <=> streamLock = w

\* A channel is registered once, when its client subscribes.
ChannelInv ==
    /\ updateCh \in Seq(Client)
    /\ \A i, j \in 1..Len(updateCh) : updateCh[i] = updateCh[j] => i = j
    /\ sub \in [Client -> {"none", "open", "closed"}]
    /\ \A i \in 1..Len(updateCh) : sub[updateCh[i]] # "none"
    /\ \A c \in Client : sub[c] # "none" => \E i \in 1..Len(updateCh) : updateCh[i] = c

\* The events that the channel at place i of the list must have had.
Due(i) == IF \E w \in Writer : at[w] > i THEN pushed + 1 ELSE pushed

\* What a client was sent and what is in its channel continue each other without a
\* gap and end where the push has come to.
StreamInv ==
    /\ buf \in [Client -> Seq(Nat)] /\ got \in [Client -> Seq(Nat)] /\ since \in [Client -> Nat]
    /\ \A c \in Client : sub[c] = "none" => buf[c] = <<>> /\ got[c] = <<>>
    /\ \A c \in Client : sub[c] = "open" /\ c \notin gone =>
           /\ \A k \in 1..Len(got[c]) : got[c][k] = since[c] + k
           /\ \A k \in 1..Len(buf[c]) : buf[c][k] = since[c] + Len(got[c]) + k
           /\ \A i \in 1..Len(updateCh) :
                  updateCh[i] = c => since[c] + Len(got[c]) + Len(buf[c]) = Due(i)

EventInv == LockInv /\ ChannelInv /\ StreamInv

\* What Append does to a list of events.
LEMMA Appended ==
    ASSUME NEW s \in Seq(Nat), NEW e \in Nat
    PROVE  /\ Append(s, e) \in Seq(Nat) /\ Len(s) \in Nat /\ Len(Append(s, e)) = Len(s) + 1
           /\ Append(s, e)[Len(s) + 1] = e
           /\ \A i \in 1..Len(s) : Append(s, e)[i] = s[i]
OBVIOUS

\* A sum of lengths depends on the sum of its last two terms only.
LEMMA Regroup ==
    ASSUME NEW z \in Nat, NEW x \in Nat, NEW y \in Nat
    PROVE  z + y + x = z + (y + x)
OBVIOUS

\* One more in a sum of lengths, wherever it is added.
LEMMA OneMore ==
    ASSUME NEW z \in Nat, NEW x \in Nat, NEW y \in Nat
    PROVE  /\ (z + y + x) + 1 = z + y + (x + 1)
           /\ z + y + (x + 1) = z + (y + 1) + x
OBVIOUS

\* At first nobody pushes and nobody has subscribed.
LEMMA EventStart == ASSUME Nil \notin Writer, Events!Init PROVE EventInv
<1>1. LockInv
  BY DEF Events!Init, LockInv
<1>2. ChannelInv
  BY DEF Events!Init, ChannelInv
<1>3. StreamInv
  BY DEF Events!Init, StreamInv
<1> QED
  BY <1>1, <1>2, <1>3, Zenon DEF EventInv

\* WriteBlock and the two ends of a push, which send nothing.
LEMMA WriterStep ==
    ASSUME Nil \notin Writer, EventInv, NEW w \in Writer,
           Events!WriteBlock(w) \/ Events!PushLock(w) \/ Events!Pushed(w)
    PROVE  EventInv'
<1>1. UNCHANGED <<updateCh, buf, since, got, sub, gone>>
  BY Zenon DEF Events!WriteBlock, Events!PushLock, Events!Pushed, Events!clients
<1>2. ChannelInv'
  BY <1>1, Zenon DEF EventInv, ChannelInv
<1>3. LockInv'
  <2>1. CASE Events!WriteBlock(w)
    BY <2>1 DEF EventInv, LockInv, Events!WriteBlock
  <2>2. CASE Events!PushLock(w)
    BY <2>2 DEF EventInv, LockInv, Events!PushLock
  <2>3. CASE Events!Pushed(w)
    <3>1. streamLock = w /\ writeLock = w
      BY <1>1, <2>3 DEF EventInv, LockInv, ChannelInv, Events!Pushed
    <3> QED
      BY <2>3, <3>1 DEF EventInv, LockInv, Events!Pushed
  <2> QED
    BY <2>1, <2>2, <2>3, Zenon
<1>4. ASSUME NEW i \in 1..Len(updateCh) PROVE Due(i)' = Due(i)
  <2>0. i \in Nat /\ i > 0 /\ i <= Len(updateCh) /\ Len(updateCh) \in Nat
    BY DEF EventInv, ChannelInv
  <2>1. CASE Events!WriteBlock(w)
    BY <2>1, Zenon DEF Due, Events!WriteBlock
  <2>2. CASE Events!PushLock(w)
    <3>1. pushed' = pushed /\ at' = [at EXCEPT ![w] = 1] /\ at[w] = 0 /\ at \in [Writer -> Nat]
      BY <2>2, Zenon DEF Events!PushLock, EventInv, LockInv
    <3>2. \A v \in Writer : at'[v] > i <=> at[v] > i
      BY <2>0, <3>1
    <3> QED
      BY <3>1, <3>2, Zenon DEF Due
  <2>3. CASE Events!Pushed(w)
    <3>1. /\ pushed' = pushed + 1 /\ at' = [at EXCEPT ![w] = 0] /\ at \in [Writer -> Nat]
          /\ at[w] > Len(updateCh)
      BY <2>3, Zenon DEF Events!Pushed, EventInv, LockInv
    <3>2. at[w] > i
      BY <2>0, <3>1
    <3>3. \A v \in Writer : v # w => at[v] = 0
      <4>1. streamLock = w
        BY <2>0, <3>1 DEF EventInv, LockInv
      <4> QED
        BY <4>1 DEF EventInv, LockInv
    <3>4. \A v \in Writer : ~(at'[v] > i)
      BY <2>0, <3>1, <3>3
    <3> QED
      BY <3>1, <3>2, <3>4, Zenon DEF Due
  <2> QED
    BY <2>1, <2>2, <2>3, Zenon
<1>5. StreamInv'
  BY <1>1, <1>4, Zenon DEF EventInv, StreamInv
<1> QED
  BY <1>2, <1>3, <1>5, Zenon DEF EventInv

\* The event goes into the next channel.
LEMMA PushStep ==
    ASSUME Nil \notin Writer, EventInv, NEW w \in Writer, Events!Push(w)
    PROVE  EventInv'
<1> DEFINE p == at[w]
           a == updateCh[p]
<1>1. /\ p \in 1..Len(updateCh) /\ buf' = [buf EXCEPT ![a] = Append(@, events)]
      /\ at' = [at EXCEPT ![w] = p + 1]
      /\ UNCHANGED <<writeLock, streamLock, updateCh, events, pushed, since, got, sub, gone>>
  BY DEF Events!Push, Events!locks, EventInv, ChannelInv
<1>2. p \in Nat /\ p > 0 /\ Len(updateCh) \in Nat /\ a \in Client /\ at \in [Writer -> Nat]
  BY <1>1 DEF EventInv, LockInv, ChannelInv
<1>3. streamLock = w /\ events = pushed + 1 /\ pushed \in Nat
  BY <1>2, Zenon DEF EventInv, LockInv
<1>4. \A v \in Writer : v # w => at[v] = 0
  BY <1>3 DEF EventInv, LockInv
<1> HIDE DEF p, a
<1>5. LockInv' /\ ChannelInv'
  <2>1. LockInv'
    BY <1>1, <1>2, <1>3 DEF EventInv, LockInv, p
  <2>2. ChannelInv'
    BY <1>1, Zenon DEF EventInv, ChannelInv
  <2> QED
    BY <2>1, <2>2, Zenon
<1>6. ASSUME NEW i \in 1..Len(updateCh)
      PROVE  /\ i # p => Due(i)' = Due(i)
             /\ i = p => Due(i) = pushed /\ Due(i)' = pushed + 1
  <2>0. i \in Nat /\ i > 0
    OBVIOUS
  <2>1. i # p => \A v \in Writer : at'[v] > i <=> at[v] > i
    BY <1>1, <1>2, <2>0 DEF p
  <2>2. i = p => at'[w] > i /\ \A v \in Writer : ~(at[v] > i)
    BY <1>1, <1>2, <1>4, <2>0 DEF p
  <2> QED
    BY <1>1, <2>1, <2>2, Zenon DEF Due
<1>7. /\ buf[a] \in Seq(Nat) /\ buf'[a] = Append(buf[a], events) /\ Len(buf[a]) \in Nat
      /\ \A c \in Client : c # a => buf'[c] = buf[c]
      /\ buf' \in [Client -> Seq(Nat)]
  <2>1. buf \in [Client -> Seq(Nat)] /\ events \in Nat
    BY Zenon DEF EventInv, StreamInv, LockInv
  <2>2. buf[a] \in Seq(Nat) /\ Append(buf[a], events) \in Seq(Nat)
    BY <1>2, <2>1
  <2> QED
    BY <1>1, <1>2, <2>1, <2>2
<1>8. StreamInv'
  <2>1. ASSUME NEW c \in Client, sub[c] = "none" PROVE buf'[c] = <<>> /\ got[c] = <<>>
    <3>1. sub[a] # "none"
      BY <1>1, Zenon DEF EventInv, ChannelInv, a
    <3> QED
      BY <1>7, <2>1, <3>1, Zenon DEF EventInv, StreamInv
  <2>2. ASSUME NEW c \in Client, sub[c] = "open", c \notin gone
        PROVE  /\ \A k \in 1..Len(buf'[c]) : buf'[c][k] = since[c] + Len(got[c]) + k
               /\ \A i \in 1..Len(updateCh) :
                      updateCh[i] = c => since[c] + Len(got[c]) + Len(buf'[c]) = Due(i)'
    <3>1. /\ \A k \in 1..Len(buf[c]) : buf[c][k] = since[c] + Len(got[c]) + k
          /\ \A i \in 1..Len(updateCh) :
                 updateCh[i] = c => since[c] + Len(got[c]) + Len(buf[c]) = Due(i)
      BY <2>2, Zenon DEF EventInv, StreamInv
    <3>2. CASE c # a
      BY <1>6, <1>7, <3>1, <3>2, Zenon DEF a
    <3>3. CASE c = a
      <4>1. since[c] + Len(got[c]) + Len(buf[c]) = pushed
        BY <1>1, <1>6, <3>1, <3>3, Zenon DEF a
      <4>2. since[c] \in Nat /\ Len(got[c]) \in Nat
        BY DEF EventInv, StreamInv
      <4>3. /\ Len(buf'[c]) = Len(buf[c]) + 1 /\ buf'[c][Len(buf[c]) + 1] = events
            /\ \A k \in 1..Len(buf[c]) : buf'[c][k] = buf[c][k]
        <5> DEFINE x == buf[c]
                   y == buf'[c]
        <5>1. events \in Nat
          BY Zenon DEF EventInv, LockInv
        <5>2. x \in Seq(Nat) /\ y = Append(x, events)
          BY <1>7, <3>3, Zenon
        <5> HIDE DEF x, y
        <5>3. /\ Len(y) = Len(x) + 1 /\ y[Len(x) + 1] = events
              /\ \A k \in 1..Len(x) : y[k] = x[k]
          BY <5>1, <5>2, Appended, Zenon
        <5> QED
          BY <5>3, Zenon DEF x, y
      <4>4. \A i \in 1..Len(updateCh) : updateCh[i] = c => i = p
        BY <1>1, <3>3, Zenon DEF EventInv, ChannelInv, a
      <4>5. \A k \in 1..Len(buf'[c]) : buf'[c][k] = since[c] + Len(got[c]) + k
        <5> TAKE k \in 1..Len(buf'[c])
        <5>1. k \in 1..Len(buf[c]) \/ k = Len(buf[c]) + 1
          BY <1>7, <3>3, <4>3
        <5>2. CASE k \in 1..Len(buf[c])
          BY <3>1, <4>3, <5>2, Zenon
        <5>3. CASE k = Len(buf[c]) + 1
          <6> DEFINE x == Len(buf[c])
                     y == Len(got[c])
          <6>1. buf'[c][k] = pushed + 1 /\ since[c] + y + x = pushed /\ k = x + 1
            BY <1>3, <4>1, <4>3, <5>3, Zenon
          <6>2. x \in Nat /\ y \in Nat /\ since[c] \in Nat
            BY <1>7, <3>3, <4>2, Zenon
          <6> HIDE DEF x, y
          <6>3. (since[c] + y + x) + 1 = since[c] + y + (x + 1)
            BY <6>2, OneMore, ZenonT(30)
          <6>4. buf'[c][k] = since[c] + y + k
            BY <6>1, <6>3, Zenon
          <6> QED
            BY <6>4, Zenon DEF y
        <5> QED
          BY <5>1, <5>2, <5>3, Zenon
      <4>6. since[c] + Len(got[c]) + Len(buf'[c]) = pushed + 1
        <5> DEFINE x == Len(buf[c])
                   y == Len(got[c])
        <5>1. x \in Nat /\ y \in Nat /\ since[c] \in Nat /\ since[c] + y + x = pushed
          BY <1>7, <3>3, <4>1, <4>2, Zenon
        <5>2. Len(buf'[c]) = x + 1
          BY <4>3, Zenon
        <5> HIDE DEF x, y
        <5>3. (since[c] + y + x) + 1 = since[c] + y + (x + 1)
          BY <5>1, OneMore, ZenonT(30)
        <5> QED
          BY <5>1, <5>2, <5>3, Zenon DEF y
      <4> QED
        BY <1>6, <4>4, <4>5, <4>6, Zenon
    <3> QED
      BY <3>2, <3>3, Zenon
  <2>3. /\ got' = got /\ since' = since /\ sub' = sub /\ gone' = gone /\ updateCh' = updateCh
        /\ got \in [Client -> Seq(Nat)] /\ since \in [Client -> Nat]
        /\ \A c \in Client : sub[c] = "open" /\ c \notin gone =>
               \A k \in 1..Len(got[c]) : got[c][k] = since[c] + k
    BY <1>1, Zenon DEF EventInv, StreamInv
  <2> QED
    BY <1>7, <2>1, <2>2, <2>3, Zenon DEF StreamInv
<1> QED
  BY <1>5, <1>8, Zenon DEF EventInv

\* A new channel is registered between two pushes.
LEMMA SubscribeStep ==
    ASSUME Nil \notin Writer, EventInv, NEW a \in Client, Events!SubscribeEvents(a)
    PROVE  EventInv'
<1> DEFINE L == Len(updateCh)
<1>1. /\ sub[a] = "none" /\ streamLock = Nil /\ updateCh' = Append(updateCh, a)
      /\ sub' = [sub EXCEPT ![a] = "open"] /\ since' = [since EXCEPT ![a] = pushed]
      /\ UNCHANGED <<writeLock, streamLock, at, events, pushed, buf, got, gone>>
  BY Zenon DEF Events!SubscribeEvents, Events!locks
<1>2. updateCh \in Seq(Client) /\ L \in Nat
  BY DEF EventInv, ChannelInv
<1>3. /\ updateCh' \in Seq(Client) /\ Len(updateCh') = L + 1 /\ updateCh'[L + 1] = a
      /\ \A i \in 1..L : updateCh'[i] = updateCh[i]
  BY <1>1, <1>2
<1> HIDE DEF L
<1>4. \A i \in 1..L + 1 : i \in 1..L \/ i = L + 1
  BY <1>2
<1>5. \A i \in 1..L : updateCh[i] # a
  BY <1>1, Zenon DEF EventInv, ChannelInv, L
<1>6. LockInv'
  BY <1>1, Zenon DEF EventInv, LockInv
<1>7. ChannelInv'
  <2>1. \A i, j \in 1..L + 1 : updateCh'[i] = updateCh'[j] => i = j
    <3> TAKE i, j \in 1..L + 1
    <3>1. CASE i \in 1..L /\ j \in 1..L
      BY <1>3, <3>1, Zenon DEF EventInv, ChannelInv, L
    <3>2. CASE i = L + 1 \/ j = L + 1
      BY <1>3, <1>4, <1>5, <3>2, Zenon
    <3> QED
      BY <1>4, <3>1, <3>2, Zenon
  <2>2. sub' \in [Client -> {"none", "open", "closed"}]
    BY <1>1, Zenon DEF EventInv, ChannelInv
  <2>3. \A i \in 1..L + 1 : sub'[updateCh'[i]] # "none"
    <3> TAKE i \in 1..L + 1
    <3>1. CASE i \in 1..L
      BY <1>1, <1>3, <1>5, <3>1, SMTT(30) DEF EventInv, ChannelInv, L
    <3>2. CASE i = L + 1
      BY <1>1, <1>3, <3>2 DEF EventInv, ChannelInv
    <3> QED
      BY <1>4, <3>1, <3>2, Zenon
  <2>4. ASSUME NEW c \in Client, sub'[c] # "none" PROVE \E i \in 1..L + 1 : updateCh'[i] = c
    <3>1. CASE c = a
      <4>1. L + 1 \in 1..L + 1
        BY <1>2
      <4> QED
        BY <1>3, <3>1, <4>1, Zenon
    <3>2. CASE c # a
      <4>1. PICK i \in 1..L : updateCh[i] = c
        BY <1>1, <2>4, <3>2, Zenon DEF EventInv, ChannelInv, L
      <4>2. i \in 1..L + 1
        BY <1>2, <4>1
      <4> QED
        BY <1>3, <4>1, <4>2, Zenon
    <3> QED
      BY <3>1, <3>2, Zenon
  <2> QED
    BY <1>3, <2>1, <2>2, <2>3, <2>4, Zenon DEF ChannelInv
<1>8. \A i : Due(i)' = Due(i)
  BY <1>1, Zenon DEF Due
<1>9. \A i : i \in Nat => Due(i) = pushed
  BY <1>1, SMTT(30) DEF Due, EventInv, LockInv
<1>10. StreamInv'
  <2>1. since' \in [Client -> Nat]
    BY <1>1, Zenon DEF EventInv, StreamInv, LockInv
  <2>2. buf[a] = <<>> /\ got[a] = <<>>
    BY <1>1, Zenon DEF EventInv, StreamInv
  <2>3. ASSUME NEW c \in Client, sub'[c] = "open", c \notin gone
        PROVE  /\ \A k \in 1..Len(got[c]) : got[c][k] = since'[c] + k
               /\ \A k \in 1..Len(buf[c]) : buf[c][k] = since'[c] + Len(got[c]) + k
               /\ \A i \in 1..L + 1 :
                      updateCh'[i] = c => since'[c] + Len(got[c]) + Len(buf[c]) = Due(i)
    <3>1. CASE c = a
      <4>1. since'[c] = pushed /\ pushed \in Nat
        BY <1>1, <3>1, Zenon DEF EventInv, StreamInv, LockInv
      <4>2. \A i \in 1..L + 1 : Due(i) = pushed
        BY <1>2, <1>9
      <4> QED
        <5>1. Len(got[c]) = 0 /\ Len(buf[c]) = 0
          BY <2>2, <3>1, Zenon
        <5>2. since'[c] + Len(got[c]) + Len(buf[c]) = pushed
          BY <4>1, <5>1
        <5>3. 1..Len(got[c]) = {} /\ 1..Len(buf[c]) = {}
          BY <5>1
        <5> QED
          BY <4>2, <5>2, <5>3, Zenon
    <3>2. CASE c # a
      <4>1. sub[c] = "open" /\ since'[c] = since[c]
        BY <1>1, <2>3, <3>2, Zenon DEF EventInv, StreamInv, ChannelInv
      <4>2. \A i \in 1..L + 1 : updateCh'[i] = c => i \in 1..L /\ updateCh[i] = c
        BY <1>3, <1>4, <3>2, Zenon
      <4>3. /\ \A k \in 1..Len(got[c]) : got[c][k] = since[c] + k
            /\ \A k \in 1..Len(buf[c]) : buf[c][k] = since[c] + Len(got[c]) + k
            /\ \A i \in 1..L : updateCh[i] = c => since[c] + Len(got[c]) + Len(buf[c]) = Due(i)
        BY <2>3, <4>1, Zenon DEF EventInv, StreamInv, L
      <4> QED
        BY <4>1, <4>2, <4>3, Zenon
    <3> QED
      BY <3>1, <3>2, Zenon
  <2>4. \A c \in Client : sub'[c] = "none" => sub[c] = "none"
    BY <1>1, Zenon DEF EventInv, ChannelInv
  <2> QED
    <3>1. /\ buf' \in [Client -> Seq(Nat)] /\ got' \in [Client -> Seq(Nat)]
          /\ \A c \in Client : sub'[c] = "none" => buf'[c] = <<>> /\ got'[c] = <<>>
      BY <1>1, <2>4, Zenon DEF EventInv, StreamInv
    <3> QED
      BY <1>1, <1>3, <1>8, <2>1, <2>3, <3>1, SMTT(30) DEF StreamInv
<1> QED
  BY <1>6, <1>7, <1>10, Zenon DEF EventInv

\* A client is sent the first event of its channel, or its call ends.
LEMMA ClientStep ==
    ASSUME EventInv, NEW a \in Client, Events!GetEvent(a) \/ Events!Leave(a)
    PROVE  EventInv'
<1>1. UNCHANGED <<writeLock, streamLock, updateCh, at, events, pushed, since>>
  BY Zenon DEF Events!GetEvent, Events!Leave, Events!locks
<1>2. LockInv' /\ \A i : Due(i)' = Due(i)
  BY <1>1, Zenon DEF EventInv, LockInv, Due
<1>3. CASE Events!Leave(a)
  <2>1. gone \subseteq gone' /\ UNCHANGED <<buf, got, sub>>
    BY <1>3, Zenon DEF Events!Leave
  <2>2. ChannelInv' /\ StreamInv'
    BY <1>1, <1>2, <2>1 DEF EventInv, ChannelInv, StreamInv
  <2> QED
    BY <1>2, <2>2, Zenon DEF EventInv
<1>4. CASE Events!GetEvent(a)
  <2>1. /\ sub[a] = "open" /\ buf[a] # <<>> /\ buf' = [buf EXCEPT ![a] = Tail(@)] /\ gone' = gone
        /\ \/ a \in gone /\ sub' = [sub EXCEPT ![a] = "closed"] /\ got' = got
           \/ a \notin gone /\ got' = [got EXCEPT ![a] = Append(@, Head(buf[a]))] /\ sub' = sub
    BY <1>4, Zenon DEF Events!GetEvent
  <2>2. buf \in [Client -> Seq(Nat)] /\ got \in [Client -> Seq(Nat)] /\ since \in [Client -> Nat]
    BY Zenon DEF EventInv, StreamInv
  <2>3. /\ buf[a] \in Seq(Nat) /\ Len(buf[a]) \in Nat /\ Len(buf[a]) > 0
        /\ Tail(buf[a]) \in Seq(Nat) /\ Len(Tail(buf[a])) = Len(buf[a]) - 1
        /\ \A k \in 1..Len(buf[a]) - 1 : Tail(buf[a])[k] = buf[a][k + 1]
        /\ Head(buf[a]) = buf[a][1] /\ Head(buf[a]) \in Nat
    BY <2>1, <2>2
  <2>4. buf' \in [Client -> Seq(Nat)] /\ got' \in [Client -> Seq(Nat)]
    <3>1. Append(got[a], Head(buf[a])) \in Seq(Nat)
      BY <2>2, <2>3
    <3> QED
      BY <2>1, <2>2, <2>3, <3>1, Zenon
  <2>5. \A c \in Client : /\ c # a => buf'[c] = buf[c] /\ got'[c] = got[c] /\ sub'[c] = sub[c]
                          /\ sub'[c] = "none" => sub[c] = "none" /\ c # a
                          /\ sub[c] # "none" <=> sub'[c] # "none"
    BY <2>1, ZenonT(30) DEF EventInv, StreamInv, ChannelInv
  <2>6. ChannelInv'
    <3>1. sub' \in [Client -> {"none", "open", "closed"}]
      BY <2>1, Zenon DEF EventInv, ChannelInv
    <3>2. \A i \in 1..Len(updateCh) : updateCh[i] \in Client
      BY DEF EventInv, ChannelInv
    <3> QED
      <4>1. \A i \in 1..Len(updateCh) : sub'[updateCh[i]] # "none"
        BY <2>5, <3>2, Zenon DEF EventInv, ChannelInv
      <4>2. \A c \in Client : sub'[c] # "none" => \E i \in 1..Len(updateCh) : updateCh[i] = c
        BY <2>5, Zenon DEF EventInv, ChannelInv
      <4> QED
        BY <1>1, <3>1, <4>1, <4>2, Zenon DEF EventInv, ChannelInv
  <2>7. ASSUME NEW c \in Client, sub'[c] = "open", c \notin gone
        PROVE  /\ \A k \in 1..Len(got'[c]) : got'[c][k] = since[c] + k
               /\ \A k \in 1..Len(buf'[c]) : buf'[c][k] = since[c] + Len(got'[c]) + k
               /\ Len(got'[c]) + Len(buf'[c]) = Len(got[c]) + Len(buf[c])
               /\ sub[c] = "open"
    <3>1. CASE c # a
      <4>1. buf'[c] = buf[c] /\ got'[c] = got[c] /\ sub[c] = "open"
        BY <2>5, <2>7, <3>1, Zenon
      <4>2. /\ \A k \in 1..Len(got[c]) : got[c][k] = since[c] + k
            /\ \A k \in 1..Len(buf[c]) : buf[c][k] = since[c] + Len(got[c]) + k
        BY <2>7, <4>1, Zenon DEF EventInv, StreamInv
      <4> QED
        BY <4>1, <4>2, Zenon
    <3>2. CASE c = a
      <4>1. /\ got'[a] = Append(got[a], Head(buf[a])) /\ buf'[a] = Tail(buf[a]) /\ sub[a] = "open"
        BY <2>1, <2>2, <2>7, <3>2, Zenon DEF EventInv, ChannelInv
      <4>2. /\ \A k \in 1..Len(got[a]) : got[a][k] = since[a] + k
            /\ \A k \in 1..Len(buf[a]) : buf[a][k] = since[a] + Len(got[a]) + k
        BY <2>7, <3>2, <4>1, Zenon DEF EventInv, StreamInv
      <4>3. /\ Len(got[a]) \in Nat /\ Len(got'[a]) = Len(got[a]) + 1 /\ since[a] \in Nat
            /\ got'[a][Len(got[a]) + 1] = Head(buf[a])
            /\ \A k \in 1..Len(got[a]) : got'[a][k] = got[a][k]
        <5> DEFINE x == got[a]
                   y == got'[a]
                   e == Head(buf[a])
        <5>1. x \in Seq(Nat) /\ e \in Nat /\ y = Append(x, e) /\ since[a] \in Nat
          BY <2>2, <2>3, <4>1, Zenon
        <5> HIDE DEF x, y, e
        <5>2. /\ Len(x) \in Nat /\ Len(y) = Len(x) + 1 /\ y[Len(x) + 1] = e
              /\ \A k \in 1..Len(x) : y[k] = x[k]
          BY <5>1, Appended, Zenon
        <5> QED
          BY <5>1, <5>2, Zenon DEF x, y, e
      <4>4. Head(buf[a]) = since[a] + Len(got[a]) + 1
        BY <2>3, <4>2, SMTT(30)
      <4>5. \A k \in 1..Len(got'[a]) : got'[a][k] = since[a] + k
        <5> TAKE k \in 1..Len(got'[a])
        <5>1. CASE k \in 1..Len(got[a])
          BY <4>2, <4>3, <5>1, Zenon
        <5>2. CASE k = Len(got[a]) + 1
          BY <4>3, <4>4, <5>2
        <5> QED
          BY <4>3, <5>1, <5>2, SMTT(30)
      <4>6. \A k \in 1..Len(buf'[a]) : buf'[a][k] = since[a] + Len(got'[a]) + k
        <5> TAKE k \in 1..Len(buf'[a])
        <5>1. k \in 1..Len(buf[a]) - 1 /\ k + 1 \in 1..Len(buf[a]) /\ k \in Nat
          BY <2>3, <4>1
        <5>2. buf'[a][k] = buf[a][k + 1]
          BY <2>3, <4>1, <5>1, Zenon
        <5>3. buf[a][k + 1] = since[a] + Len(got[a]) + (k + 1)
          BY <4>2, <5>1, Zenon
        <5> QED
          <6> DEFINE y == Len(got[a])
          <6>1. y \in Nat /\ Len(got'[a]) = y + 1 /\ since[a] \in Nat
            BY <4>3, Zenon
          <6>2. buf'[a][k] = since[a] + y + (k + 1)
            BY <5>2, <5>3, Zenon
          <6> HIDE DEF y
          <6>3. since[a] + y + (k + 1) = since[a] + (y + 1) + k
            BY <5>1, <6>1, OneMore, ZenonT(30)
          <6> QED
            BY <6>1, <6>2, <6>3, Zenon
      <4>7. Len(got'[a]) + Len(buf'[a]) = Len(got[a]) + Len(buf[a])
        <5> DEFINE x == Len(buf[a])
                   y == Len(got[a])
        <5>1. x \in Nat /\ y \in Nat /\ Len(got'[a]) = y + 1 /\ Len(buf'[a]) = x - 1
          BY <2>3, <4>1, <4>3, Zenon
        <5> HIDE DEF x, y
        <5>2. Len(got'[a]) + Len(buf'[a]) = y + x
          BY <5>1
        <5> QED
          BY <5>2, Zenon DEF x, y
      <4> QED
        BY <3>2, <4>1, <4>5, <4>6, <4>7, Zenon
    <3> QED
      BY <3>1, <3>2, Zenon
  <2>8. StreamInv'
    <3>1. ASSUME NEW c \in Client, sub'[c] = "open", c \notin gone,
                 NEW i \in 1..Len(updateCh), updateCh[i] = c
          PROVE  since[c] + Len(got'[c]) + Len(buf'[c]) = Due(i)
      <4>1. since[c] + Len(got[c]) + Len(buf[c]) = Due(i)
        BY <2>7, <3>1, Zenon DEF EventInv, StreamInv
      <4>2. /\ since[c] \in Nat /\ Len(got[c]) \in Nat /\ Len(buf[c]) \in Nat
            /\ Len(got'[c]) \in Nat /\ Len(buf'[c]) \in Nat
        BY <2>2, <2>4, SMTT(30)
      <4> QED
        <5> DEFINE x == Len(buf[c])
                   y == Len(got[c])
                   u == Len(buf'[c])
                   v == Len(got'[c])
        <5>1. v + u = y + x /\ since[c] + y + x = Due(i)
          BY <2>7, <3>1, <4>1, Zenon
        <5>2. since[c] \in Nat /\ x \in Nat /\ y \in Nat
          BY <4>2, Zenon
        <5>3. since[c] \in Nat /\ u \in Nat /\ v \in Nat
          BY <4>2, Zenon
        <5> HIDE DEF x, y, u, v
        <5>4. since[c] + y + x = since[c] + (y + x)
          BY <5>2, Regroup, ZenonT(30)
        <5>5. since[c] + v + u = since[c] + (v + u)
          BY <5>3, Regroup, ZenonT(30)
        <5> QED
          BY <5>1, <5>4, <5>5, Zenon DEF u, v
    <3>2. \A c \in Client : sub'[c] = "none" => buf'[c] = <<>> /\ got'[c] = <<>>
      BY <2>5, Zenon DEF EventInv, StreamInv
    <3> QED
      <4>1. ASSUME NEW c \in Client, sub'[c] = "open", c \notin gone'
            PROVE  /\ \A k \in 1..Len(got'[c]) : got'[c][k] = since'[c] + k
                   /\ \A k \in 1..Len(buf'[c]) : buf'[c][k] = since'[c] + Len(got'[c]) + k
                   /\ \A i \in 1..Len(updateCh') :
                          updateCh'[i] = c => since'[c] + Len(got'[c]) + Len(buf'[c]) = Due(i)'
        <5>1. since'[c] = since[c] /\ updateCh' = updateCh /\ c \notin gone /\ sub'[c] = "open"
          BY <1>1, <2>1, <4>1, Zenon
        <5>2. /\ \A k \in 1..Len(got'[c]) : got'[c][k] = since'[c] + k
              /\ \A k \in 1..Len(buf'[c]) : buf'[c][k] = since'[c] + Len(got'[c]) + k
          BY <2>7, <5>1, Zenon
        <5>3. \A i \in 1..Len(updateCh) :
                  updateCh[i] = c => since[c] + Len(got'[c]) + Len(buf'[c]) = Due(i)
          BY <3>1, <5>1, Zenon
        <5> QED
          BY <1>2, <5>1, <5>2, <5>3, Zenon
      <4> QED
        BY <1>1, <2>2, <2>4, <3>2, <4>1, Zenon DEF StreamInv
  <2> QED
    BY <1>2, <2>6, <2>8, Zenon DEF EventInv
<1> QED
  BY <1>3, <1>4, Zenon

\* Every step of a writer and of a client keeps the invariant.
LEMMA EventStep ==
    ASSUME Nil \notin Writer, EventInv, [Events!Next]_Events!vars
    PROVE  EventInv'
<1>1. CASE Events!Idle \/ UNCHANGED Events!vars
  <2>1. UNCHANGED Events!vars
    BY <1>1, Zenon DEF Events!Idle
  <2>2. LockInv' /\ ChannelInv' /\ \A i : Due(i)' = Due(i)
    BY <2>1, Zenon DEF Events!vars, EventInv, LockInv, ChannelInv, Due
  <2>3. StreamInv'
    BY <2>1, <2>2, Zenon DEF Events!vars, EventInv, StreamInv
  <2> QED
    BY <2>2, <2>3, Zenon DEF EventInv
<1>2. ASSUME NEW w \in Writer, Events!WriteBlock(w) \/ Events!Write(w) PROVE EventInv'
  BY <1>2, WriterStep, PushStep, Zenon DEF Events!Write
<1>3. ASSUME NEW c \in Client,
             Events!SubscribeEvents(c) \/ Events!GetEvent(c) \/ Events!Leave(c)
      PROVE  EventInv'
  BY <1>3, SubscribeStep, ClientStep, Zenon
<1> QED
  BY <1>1, <1>2, <1>3, Zenon DEF Events!Next

\* The invariant says of a client that stays what NoEventLost says.
LEMMA EventsKept == EventInv /\ Nil \notin Writer => Events!NoEventLost
<1> SUFFICES ASSUME EventInv, Nil \notin Writer, NEW c \in Client, sub[c] = "open", c \notin gone
             PROVE  /\ \A i \in DOMAIN Events!Stream(c) : Events!Stream(c)[i] = since[c] + i
                    /\ streamLock = Nil => since[c] + Len(Events!Stream(c)) = pushed
  BY Zenon DEF Events!NoEventLost
<1> DEFINE g == got[c]
           b == buf[c]
           s == g \o b
<1>1. g \in Seq(Nat) /\ b \in Seq(Nat) /\ since[c] \in Nat
  BY Zenon DEF EventInv, StreamInv
<1>2. /\ \A k \in 1..Len(g) : g[k] = since[c] + k
      /\ \A k \in 1..Len(b) : b[k] = since[c] + Len(g) + k
      /\ \A i \in 1..Len(updateCh) : updateCh[i] = c => since[c] + Len(g) + Len(b) = Due(i)
  BY Zenon DEF EventInv, StreamInv
<1>3. Events!Stream(c) = s
  BY Zenon DEF Events!Stream
<1> HIDE DEF g, b
<1>4. /\ Len(g) \in Nat /\ Len(b) \in Nat /\ Len(s) = Len(g) + Len(b) /\ DOMAIN s = 1..Len(s)
      /\ \A k \in 1..Len(s) : s[k] = IF k <= Len(g) THEN g[k] ELSE b[k - Len(g)]
  BY <1>1
<1> HIDE DEF s
<1>5. ASSUME NEW i \in 1..Len(s) PROVE s[i] = since[c] + i
  <2>1. CASE i <= Len(g)
    BY <1>2, <1>4, <2>1
  <2>2. CASE i > Len(g)
    <3>1. i - Len(g) \in 1..Len(b)
      BY <1>4, <2>2
    <3>2. b[i - Len(g)] = since[c] + Len(g) + (i - Len(g))
      BY <1>2, <3>1, Zenon
    <3>3. s[i] = since[c] + Len(g) + (i - Len(g))
      BY <1>4, <2>2, <3>2
    <3> DEFINE x == Len(g)
    <3>4. x \in Nat /\ i \in Nat /\ s[i] = since[c] + x + (i - x)
      BY <1>4, <3>3
    <3> HIDE DEF x
    <3> QED
      BY <1>1, <3>4
  <2>3. i <= Len(g) \/ i > Len(g)
    BY <1>4
  <2> QED
    BY <2>1, <2>2, <2>3, Zenon
<1>6. streamLock = Nil => since[c] + Len(s) = pushed
  <2>1. PICK i \in 1..Len(updateCh) : updateCh[i] = c
    BY Zenon DEF EventInv, ChannelInv
  <2>2. i \in Nat
    BY <2>1
  <2>3. streamLock = Nil => Due(i) = pushed
    BY <2>2 DEF Due, EventInv, LockInv
  <2>4. since[c] + Len(g) + Len(b) = Due(i)
    BY <1>2, <2>1, Zenon
  <2> QED
    BY <1>1, <1>4, <2>3, <2>4
<1> QED
  BY <1>3, <1>4, <1>5, <1>6, Zenon

\* Push and GetEvent lose nothing: whatever the writers, the clients that come and go
\* and the capacity of their channels, a client that stays gets every event since it
\* subscribed, each once and in the order of the writes.
THEOREM NoEventLostTheorem == ASSUME Nil \notin Writer PROVE Events!Spec => []Events!NoEventLost
<1>1. EventInv /\ [Events!Next]_Events!vars => EventInv'
  BY EventStep, Zenon
<1>2. EventInv => Events!NoEventLost
  BY EventsKept, Zenon
<1> QED
  BY <1>1, <1>2, EventStart, PTL DEF Events!Spec
=============================================================================
