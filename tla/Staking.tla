------------------------------ MODULE Staking -------------------------------
(***************************************************************************)
(* pkg/staking: the calls that change the staking contract and the queries *)
(* that read it, each made by a thread of a node while the main loop of    *)
(* that node goes on writing blocks from Avail.                            *)
(*                                                                         *)
(* A call takes the head of the store for its builder, builds a block with *)
(* its transaction on it, submits the block without waiting (stake,        *)
(* unstake and disputes) or not at all (slash and the parameters), and     *)
(* writes it to its own store.  A block stands for its hash and b.st is    *)
(* the contract after it.                                                  *)
(***************************************************************************)
EXTENDS ChainOps, Integers, Sequences, Functions

CONSTANTS
    Node,            \* the nodes, also the addresses of the contract
    NodeType,        \* what each node runs as
    Initial,         \* who has staked at the start
    Nil,             \* nothing
    Calls,           \* the methods that are called
    Queries,         \* the queries that are made
    Value,           \* values of the parameters
    MaxCalls,        \* bound on calls
    MaxQueries,      \* bound on queries
    MaxFailures      \* bound on failing transactions, builds and submissions

ASSUME ConstantAssumption ==
    /\ NodeType \in [Node -> {"sequencer", "watchtower"}] /\ Initial \subseteq Node
    /\ {MaxCalls, MaxQueries, MaxFailures} \subseteq Nat

VARIABLES
    avail,       \* the submitted blocks in Avail's order
    inflight,    \* blocks submitted and not yet in Avail
    chain,       \* the block store of each node
    seen,        \* how much of avail its main loop has handled
    call,        \* the call in progress: its transaction, parent and block
    query,       \* the query of active sequencers in progress
    last,        \* the last call that returned without an error
    heads,       \* the heads during the query in progress
    calls, queries, failures

vars == <<avail, inflight, chain, seen, call, query, last, heads,
          calls, queries, failures>>

Parameter == {"threshold", "minParticipants", "maxParticipants",
              "minSequencers", "maxSequencers", "minWatchtowers", "maxWatchtowers"}

\* No address is the name of a parameter.
ASSUME ParameterAssumption == Parameter \cap (Node \cup {Nil}) = {}

-----------------------------------------------------------------------------
(* The contract, as the code and its tests use it.                         *)

Genesis == [parent |-> Nil, number |-> 0, difficulty |-> 0, miner |-> Nil, tx |-> Nil,
            st |-> [sequencers |-> {n \in Initial : NodeType[n] = "sequencer"},
                    watchtowers |-> {n \in Initial : NodeType[n] = "watchtower"},
                    disputes |-> {}, param |-> [p \in Parameter |-> 0]]]

Staked(st) == st.sequencers \cup st.watchtowers

\* A transaction the contract refuses is still part of its block.
Contract(st, tx) ==
    CASE tx.method = "stake" /\ tx.from \notin Staked(st) ->
             IF tx.arg = "sequencer" THEN [st EXCEPT !.sequencers = @ \cup {tx.from}]
             ELSE [st EXCEPT !.watchtowers = @ \cup {tx.from}]
      [] tx.method = "unstake" /\ Staked(st) # {tx.from} ->
             [st EXCEPT !.sequencers = @ \ {tx.from}, !.watchtowers = @ \ {tx.from}]
      [] tx.method = "begin" /\ tx.from \in st.watchtowers ->
             [st EXCEPT !.disputes = @ \cup {<<tx.arg, tx.from>>}]
      [] tx.method = "end" /\ tx.from \in st.watchtowers ->
             [st EXCEPT !.disputes = {d \in @ : d # <<tx.arg, tx.from>>}]
      [] tx.method = "slash" /\ tx.from \in st.sequencers ->
             [st EXCEPT !.disputes = {d \in @ : tx.arg \notin {d[1], d[2]}}]
      [] tx.method = "set" -> [st EXCEPT !.param[tx.arg] = tx.value]
      [] OTHER -> st

-----------------------------------------------------------------------------
(* What the queries of the contract return in state st.                    *)

QuerySequencers(st) == st.sequencers
QueryWatchtower(st) == st.watchtowers
QuerySequencersInProbation(st) == {d[1] : d \in st.disputes}
QueryDisputedWatchtowers(st) == {d[2] : d \in st.disputes}

\* The contract names one of several; the zero address when there is none.
QueryDisputedSequencerAddr(st, w) ==
    LET s == {d[1] : d \in {e \in st.disputes : e[2] = w}} IN IF s = {} THEN {Nil} ELSE s
QueryDisputedWatchtowerAddr(st, s) ==
    LET w == {d[2] : d \in {e \in st.disputes : e[1] = s}} IN IF w = {} THEN {Nil} ELSE w

GetThresholdTx(st) == st.param["threshold"]
GetMinimumParticipantsTx(st) == st.param["minParticipants"]
GetMaximumParticipantsTx(st) == st.param["maxParticipants"]
GetMinimumSequencersTx(st) == st.param["minSequencers"]

\* Mutant: the maximum is read from the minimum.
MaximumFromMinimum(st) == st.param["minSequencers"]

GetMaximumSequencersTx(st) == st.param["maxSequencers"]
GetMinimumWatchtowersTx(st) == st.param["minWatchtowers"]
GetMaximumWatchtowersTx(st) == st.param["maxWatchtowers"]

\* Mutant: the sequencers in probation are not left out.
ActiveWithProbation(st, now) == QuerySequencers(st)

\* The sequencers come from the state the query began with, those in probation
\* from the head now.
QueryActiveSequencers(st, now) == QuerySequencers(st) \ QuerySequencersInProbation(now)

\* activeParticipantsQuerier: Get, Contains, InProbation
Get(st, now, role) ==
    IF role = "sequencer" THEN QueryActiveSequencers(st, now) ELSE QueryWatchtower(st)
Contains(st, now, role, a) == a \in Get(st, now, role)
InProbation(st, a) == a \in QuerySequencersInProbation(st)

\* disputeResolution: Get and Contains
DisputeGet(st, role) ==
    IF role = "sequencer" THEN QuerySequencersInProbation(st) ELSE QueryDisputedWatchtowers(st)
DisputeContains(st, role, a) == a \in DisputeGet(st, role)

\* disputeResolution: GetSequencerAddr and GetWatchtowerAddr
GetSequencerAddr(st, w) == QueryDisputedSequencerAddr(st, w)
GetWatchtowerAddr(st, s) == QueryDisputedWatchtowerAddr(st, s)

\* node.ShouldStake
ShouldStake(st, now, role, n) == ~Contains(st, now, role, n)

\* threshold.Current, and CurrentMinimum and CurrentMaximum of the three raters.
Current(st) == GetThresholdTx(st)
CurrentParticipants(st) == <<GetMinimumParticipantsTx(st), GetMaximumParticipantsTx(st)>>
CurrentSequencers(st) == <<GetMinimumSequencersTx(st), GetMaximumSequencersTx(st)>>
CurrentWatchtowers(st) == <<GetMinimumWatchtowersTx(st), GetMaximumWatchtowersTx(st)>>

Role == {"sequencer", "watchtower"}

Question ==
    [q : Queries \cap {"get", "disputed"}, role : Role]
    \cup [q : Queries \cap {"contains", "disputedContains"}, role : Role, addr : Node]
    \cup [q : Queries \cap {"inProbation", "sequencerAddr", "watchtowerAddr"}, addr : Node]
    \cup [q : Queries \cap {"shouldStake", "rates"}]

\* What question k, asked by n in state st, may return when the head is now.
Reply(k, n, st, now) ==
    CASE k.q = "get" -> {Get(st, now, k.role)}
      [] k.q = "contains" -> {Contains(st, now, k.role, k.addr)}
      [] k.q = "inProbation" -> {InProbation(st, k.addr)}
      [] k.q = "shouldStake" -> {ShouldStake(st, now, NodeType[n], n)}
      [] k.q = "disputed" -> {DisputeGet(st, k.role)}
      [] k.q = "disputedContains" -> {DisputeContains(st, k.role, k.addr)}
      [] k.q = "sequencerAddr" -> GetSequencerAddr(st, k.addr)
      [] k.q = "watchtowerAddr" -> GetWatchtowerAddr(st, k.addr)
      [] OTHER -> {<<Current(st), CurrentParticipants(st), CurrentSequencers(st),
                     CurrentWatchtowers(st)>>}

-----------------------------------------------------------------------------
(* The transactions.                                                       *)

Tx(m, n, a, v) == [method |-> m, from |-> n, arg |-> a, value |-> v]

StakeTx(n, r) == Tx("stake", n, r, 0)
UnStakeTx(n) == Tx("unstake", n, Nil, 0)
SlashStakerTx(n, a) == Tx("slash", n, a, 0)
BeginDisputeResolutionTx(n, a) == Tx("begin", n, a, 0)
EndDisputeResolutionTx(n, a) == Tx("end", n, a, 0)
SetThresholdTx(n, v) == Tx("set", n, "threshold", v)
SetMinimumParticipantsTx(n, v) == Tx("set", n, "minParticipants", v)
SetMaximumParticipantsTx(n, v) == Tx("set", n, "maxParticipants", v)
SetMinimumSequencersTx(n, v) == Tx("set", n, "minSequencers", v)
SetMaximumSequencersTx(n, v) == Tx("set", n, "maxSequencers", v)
SetMinimumWatchtowersTx(n, v) == Tx("set", n, "minWatchtowers", v)
SetMaximumWatchtowersTx(n, v) == Tx("set", n, "maxWatchtowers", v)

-----------------------------------------------------------------------------
Init ==
    /\ avail = <<>> /\ inflight = {}
    /\ chain = [n \in Node |-> NewStore(Genesis)]
    /\ seen = [n \in Node |-> 0]
    /\ call = [n \in Node |-> Nil]
    /\ query = [n \in Node |-> Nil]
    /\ last = [n \in Node |-> Nil]
    /\ heads = [n \in Node |-> {}]
    /\ calls = 0 /\ queries = 0 /\ failures = 0

\* Everything submitted is in every store.
Quiet ==
    /\ inflight = {}
    /\ \A n \in Node : call[n] = Nil /\ query[n] = Nil /\ seen[n] = Len(avail)

\* Avail takes a submitted block.
NewAvailBlock ==
    \E b \in inflight :
        /\ avail' = Append(avail, b)
        /\ inflight' = inflight \ {b}
        /\ UNCHANGED <<chain, seen, call, query, last, heads, calls, queries, failures>>

Store(n, b) ==
    LET c == Insert(chain[n], b)
    IN  /\ chain' = [chain EXCEPT ![n] = c]
        /\ heads' = [heads EXCEPT ![n] = IF query[n] = Nil THEN @ ELSE @ \cup {c.head}]

\* The main loop of n writes the next block of Avail.
MainLoop(n) ==
    /\ seen[n] < Len(avail)
    /\ seen' = [seen EXCEPT ![n] = @ + 1]
    /\ Store(n, avail[seen[n] + 1])
    /\ UNCHANGED <<avail, inflight, call, query, last, calls, queries, failures>>

-----------------------------------------------------------------------------
(* The calls.  FromBlockchainHead takes the parent; Build comes later, with *)
(* the same parent.                                                        *)

FromBlockchainHead(n, tx, sends) ==
    /\ call[n] = Nil /\ calls < MaxCalls
    /\ tx.method \in Calls
    /\ call' = [call EXCEPT ![n] = [tx |-> tx, parent |-> chain[n].head, send |-> sends]]
    /\ calls' = calls + 1
    /\ UNCHANGED <<avail, inflight, chain, seen, query, last, heads, queries, failures>>

Stake(n) == FromBlockchainHead(n, StakeTx(n, NodeType[n]), TRUE)

UnStake(n) == FromBlockchainHead(n, UnStakeTx(n), TRUE)

Begin(n) == \E a \in Node \ {n} : FromBlockchainHead(n, BeginDisputeResolutionTx(n, a), TRUE)

End(n) == \E a \in Node \ {n} : FromBlockchainHead(n, EndDisputeResolutionTx(n, a), TRUE)

Slash(n) == \E a \in Node \ {n} : FromBlockchainHead(n, SlashStakerTx(n, a), FALSE)

SetThreshold(n) == \E v \in Value : FromBlockchainHead(n, SetThresholdTx(n, v), FALSE)

SetParticipants(n) ==
    \E v \in Value : \/ FromBlockchainHead(n, SetMinimumParticipantsTx(n, v), FALSE)
                     \/ FromBlockchainHead(n, SetMaximumParticipantsTx(n, v), FALSE)

SetSequencers(n) ==
    \E v \in Value : \/ FromBlockchainHead(n, SetMinimumSequencersTx(n, v), FALSE)
                     \/ FromBlockchainHead(n, SetMaximumSequencersTx(n, v), FALSE)

SetWatchtowers(n) ==
    \E v \in Value : \/ FromBlockchainHead(n, SetMinimumWatchtowersTx(n, v), FALSE)
                     \/ FromBlockchainHead(n, SetMaximumWatchtowersTx(n, v), FALSE)

\* Build
Build(n) == [Genesis EXCEPT !.parent = call[n].parent, !.number = call[n].parent.number + 1,
                            !.miner = n, !.tx = call[n].tx,
                            !.st = Contract(call[n].parent.st, call[n].tx)]

\* Send of the built block returns without an error.
Send(n) ==
    /\ call[n] # Nil /\ call[n].send
    /\ inflight' = inflight \cup {Build(n)}
    /\ call' = [call EXCEPT ![n].send = FALSE]
    /\ UNCHANGED <<avail, chain, seen, query, last, heads, calls, queries, failures>>

\* Mutant: the block is written before it is submitted.
WriteBlockEarly(n) ==
    /\ call[n] # Nil
    /\ Build(n) \notin DOMAIN chain[n].td
    /\ Store(n, Build(n))
    /\ last' = [last EXCEPT ![n] = [tx |-> call[n].tx, block |-> Build(n)]]
    /\ call' = IF call[n].send THEN call ELSE [call EXCEPT ![n] = Nil]
    /\ UNCHANGED <<avail, inflight, seen, query, calls, queries, failures>>

\* WriteBlock, and the call returns without an error.
WriteBlock(n) ==
    /\ call[n] # Nil /\ ~call[n].send
    /\ Store(n, Build(n))
    /\ last' = [last EXCEPT ![n] = [tx |-> call[n].tx, block |-> Build(n)]]
    /\ call' = [call EXCEPT ![n] = Nil]
    /\ UNCHANGED <<avail, inflight, seen, query, calls, queries, failures>>

\* The transaction of a parameter cannot be built: the setters return the error of
\* FromBlockchainHead, which is none, and no block.
SetTxFails(n) ==
    /\ call[n] # Nil /\ call[n].tx.method = "set"
    /\ failures < MaxFailures
    /\ failures' = failures + 1
    /\ last' = [last EXCEPT ![n] = [tx |-> call[n].tx, block |-> Nil]]
    /\ call' = [call EXCEPT ![n] = Nil]
    /\ UNCHANGED <<avail, inflight, chain, seen, query, heads, calls, queries>>

\* The block of a call, or the transaction of any other call, cannot be built, Send
\* fails, or the store cannot write; the call returns the error.
CallFails(n) ==
    /\ call[n] # Nil
    /\ failures < MaxFailures
    /\ failures' = failures + 1
    /\ call' = [call EXCEPT ![n] = Nil]
    /\ UNCHANGED <<avail, inflight, chain, seen, query, last, heads, calls, queries>>

-----------------------------------------------------------------------------
(* A query takes the head, executes on its state and returns the result.   *)

Ask(n) ==
    /\ query[n] = Nil /\ queries < MaxQueries
    /\ \E k \in Question : query' = [query EXCEPT ![n] = [k |-> k, st |-> chain[n].head.st]]
    /\ heads' = [heads EXCEPT ![n] = {chain[n].head}]
    /\ queries' = queries + 1
    /\ UNCHANGED <<avail, inflight, chain, seen, call, last, calls, failures>>

\* What the query returns when it ends now.
Answers(n) == Reply(query[n].k, n, query[n].st, chain[n].head.st)

Answer(n) ==
    /\ query[n] # Nil
    /\ query' = [query EXCEPT ![n] = Nil]
    /\ heads' = [heads EXCEPT ![n] = {}]
    /\ UNCHANGED <<avail, inflight, chain, seen, call, last, calls, queries, failures>>

-----------------------------------------------------------------------------
\* Every call and query has been made.
Done == calls = MaxCalls /\ queries = MaxQueries /\ Quiet /\ UNCHANGED vars

Call(n) ==
    \/ Stake(n) \/ UnStake(n) \/ Begin(n) \/ End(n)
    \/ Slash(n) \/ SetThreshold(n) \/ SetParticipants(n) \/ SetSequencers(n) \/ SetWatchtowers(n)

Next ==
    \/ NewAvailBlock \/ Done
    \/ \E n \in Node : \/ MainLoop(n) \/ Call(n)
                       \/ Send(n) \/ WriteBlock(n) \/ CallFails(n) \/ SetTxFails(n)
                       \/ Ask(n) \/ Answer(n)

Spec == Init /\ [][Next]_vars
-----------------------------------------------------------------------------
\* A block of Stake, UnStake, Begin or End that is in anyone's store has been
\* submitted to Avail: a failed Send leaves no block behind.
Submitted ==
    \A n \in Node : \A b \in DOMAIN chain[n].td :
        b.tx # Nil /\ b.tx.method \in {"stake", "unstake", "begin", "end"} =>
            b \in inflight \cup Range(avail)

\* "sends the block to the sender, and writes the block to the blockchain": when a
\* call has returned without an error, its block is in the store of its node.
WritesItsBlock ==
    [][\A n \in Node : last'[n] # last[n] => last'[n].block \in DOMAIN chain'[n].td]_vars

\* In the contract s has staked in role r; and no dispute is open against it.
StakedAs(st, r, s) == s \in (IF r = "watchtower" THEN st.watchtowers ELSE st.sequencers)
Clear(st, r, s) == r = "watchtower" \/ \A w \in Node : <<s, w>> \notin st.disputes

\* What the query of n in progress may say of whether s is active in role r, if
\* it is about that: the list has s, Contains is true of it, n need not stake.
Says(n, r, s) ==
    LET k == query[n].k
    IN  CASE k.q = "get" /\ k.role = r -> {(s \in list) : list \in Answers(n)}
          [] k.q = "contains" /\ k.role = r /\ k.addr = s -> Answers(n)
          [] k.q = "shouldStake" /\ NodeType[n] = r /\ n = s -> {~should : should \in Answers(n)}
          [] OTHER -> {}

\* Whatever blocks are written during a query, it takes those for active who are so
\* at every head meanwhile, and nobody who at all of them has not staked, or at all
\* of them is in probation: reading two heads confuses only what changes meanwhile.
SteadyAnswer ==
    \A n \in Node : query[n] # Nil =>
        \A r \in Role, s \in Node : \A active \in Says(n, r, s) :
            /\ (\A h \in heads[n] : StakedAs(h.st, r, s) /\ Clear(h.st, r, s)) => active
            /\ active => /\ \E h \in heads[n] : StakedAs(h.st, r, s)
                         /\ \E h \in heads[n] : Clear(h.st, r, s)

\* "It returns a slice of addresses representing the current active sequencers":
\* the list is that of one of the heads during the query.
AnswerAtSomeHead ==
    \A n \in Node : query[n] # Nil /\ query[n].k.q = "get" =>
        \E h \in heads[n] :
            Answers(n) = {{s \in Node : /\ StakedAs(h.st, query[n].k.role, s)
                                        /\ Clear(h.st, query[n].k.role, s)}}

\* The value of parameter p as its reader reports it.
Reported(st, p) ==
    CASE p = "threshold" -> Current(st)
      [] p = "minParticipants" -> CurrentParticipants(st)[1]
      [] p = "maxParticipants" -> CurrentParticipants(st)[2]
      [] p = "minSequencers" -> CurrentSequencers(st)[1]
      [] p = "maxSequencers" -> CurrentSequencers(st)[2]
      [] p = "minWatchtowers" -> CurrentWatchtowers(st)[1]
      [] p = "maxWatchtowers" -> CurrentWatchtowers(st)[2]

\* A call whose block became the head has set its parameter and no other: each
\* reader reports what was last set, whatever was called in between.
SetTakesEffect ==
    [][\A n \in Node :
           last'[n] # last[n] /\ last'[n].block # Nil /\ chain'[n].head = last'[n].block =>
           \A p \in Parameter : Reported(chain'[n].head.st, p) =
               IF p = last'[n].tx.arg THEN last'[n].tx.value
               ELSE Reported(chain[n].head.st, p)]_vars
=============================================================================
