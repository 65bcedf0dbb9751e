-------------------------- MODULE SequencingProofs --------------------------
(***************************************************************************)
(* Proofs about Sequencing for any set of nodes, any shuffle, any window   *)
(* length and any number of faults: nodes that lag, submissions and        *)
(* queries that fail, snapshots that are lost or late, crashes, restarts.  *)
(*                                                                         *)
(* Two inductive invariants.  PubInv follows the blocks through every      *)
(* place that can feed a store: what the stores, the snapshots on their    *)
(* way and the snapshotters hold is in Avail.  TurnInv says what besides   *)
(* TurnIsCurrent the main loop has established while production is on.     *)
(*                                                                         *)
(* A third one, CalmInv, is for nodes that keep up with Avail.  It and the *)
(* steps of the main loop that write nothing come last; CalmProofs has the *)
(* other steps and what follows from it.                                   *)
(*                                                                         *)
(* WriteAll, Replay and Ancestor are recursive functions.  What they       *)
(* return is shown by the least number at which it would be false, which   *)
(* WFMin provides.                                                         *)
(***************************************************************************)
EXTENDS Sequencing, WellFoundedInduction, TLAPS

\* A set of numbers with 0 and the successor of each member has them all.
LEMMA NumberInduction ==
    ASSUME NEW S, 0 \in S, \A k \in Nat : k \in S => k + 1 \in S
    PROVE  Nat \subseteq S
<1> DEFINE T == Nat \ S
           R == OpToRel(<, Nat)
<1>1. SUFFICES ASSUME T # {} PROVE FALSE
  BY Zenon
<1>2. IsWellFoundedOn(R, Nat)
  BY NatLessThanWellFounded, Zenon
<1>3. PICK x \in T : \A y \in T : <<y, x>> \notin R
  <2>1. T \subseteq Nat
    BY Zenon
  <2> HIDE DEF R, T
  <2> QED
    BY <1>1, <1>2, <2>1, WFMin, Zenon
<1>4. x \in Nat /\ x # 0
  BY <1>3, Zenon
<1>5. x - 1 \in Nat /\ <<x - 1, x>> \in R
  BY <1>4 DEF OpToRel
<1>6. x - 1 \in S
  BY <1>3, <1>5, Zenon
<1>7. (x - 1) + 1 \in S
  BY <1>5, <1>6, Zenon
<1>8. (x - 1) + 1 = x
  BY <1>4
<1> QED
  BY <1>7, <1>8, Zenon

\* A function on 1..k is a sequence.
LEMMA ListIsSeq ==
    ASSUME NEW S, NEW k \in Nat, NEW q \in [1..k -> S]
    PROVE  q \in Seq(S) /\ Len(q) = k
OBVIOUS

\* A sequence over a set is one over any larger set.
LEMMA SeqMonotonic ==
    ASSUME NEW S, NEW T, S \subseteq T
    PROVE  Seq(S) \subseteq Seq(T)
OBVIOUS

\* What Append does.
LEMMA Appended ==
    ASSUME NEW S, NEW s \in Seq(S), NEW e \in S
    PROVE  /\ Append(s, e) \in Seq(S) /\ Len(Append(s, e)) = Len(s) + 1
           /\ Append(s, e)[Len(s) + 1] = e
           /\ \A i \in 1..Len(s) : Append(s, e)[i] = s[i]
OBVIOUS

-----------------------------------------------------------------------------
(* The blocks a store holds after a write, and after many.                 *)

\* The store c knows no block outside P.
Within(c, P) == DOMAIN c.td \subseteq P

\* A write adds no block but the one written.
LEMMA InsertWithin ==
    ASSUME NEW c, NEW b, NEW P, Within(c, P), b \in P
    PROVE  Within(Insert(c, b), P)
BY Zenon DEF Within, Insert, Put

\* Writing the edge blocks of an Avail block adds none but them.
LEMMA WriteAllWithin ==
    ASSUME NEW c, NEW bs, NEW P, Len(bs) \in Nat, Within(c, P),
           \A k \in 1..Len(bs) : bs[k] \in P
    PROVE  Within(WriteAll(c, bs), P)
<1> DEFINE Steps(w, k) == w = [j \in 0..k |-> IF j = 0 THEN c ELSE Insert(w[j - 1], bs[j])]
           Made == {k \in Nat : \E w : Steps(w, k)}
<1>1. \E w : Steps(w, Len(bs))
  <2>1. 0 \in Made
    <3>1. Steps([j \in 0..0 |-> c], 0)
      OBVIOUS
    <3> QED
      BY <3>1, Zenon
  <2>2. ASSUME NEW k \in Nat, k \in Made PROVE k + 1 \in Made
    <3>1. PICK w : Steps(w, k)
      BY <2>2, Zenon
    <3> DEFINE v == [j \in 0..k + 1 |-> IF j = k + 1 THEN Insert(w[k], bs[k + 1]) ELSE w[j]]
    <3>2. ASSUME NEW j \in 0..k + 1
          PROVE  v[j] = IF j = 0 THEN c ELSE Insert(v[j - 1], bs[j])
      <4>1. CASE j = k + 1
        <5>1. v[k] = w[k]
          OBVIOUS
        <5> QED
          BY <4>1, <5>1
      <4>2. CASE j \in 1..k
        <5>1. v[j] = w[j] /\ v[j - 1] = w[j - 1]
          BY <4>2
        <5>2. w[j] = Insert(w[j - 1], bs[j])
          BY <3>1, <4>2
        <5> QED
          BY <4>2, <5>1, <5>2
      <4>3. CASE j = 0
        BY <3>1, <4>3
      <4> QED
        BY <4>1, <4>2, <4>3
    <3>3. Steps(v, k + 1)
      BY <3>2, Zenon
    <3>4. \E w1 : Steps(w1, k + 1)
      <4> HIDE DEF v, Steps
      <4> QED
        BY <3>3, Zenon
    <3> QED
      BY <3>4, SMTT(30)
  <2>3. Nat \subseteq Made
    <3> HIDE DEF Made
    <3> QED
      BY <2>1, <2>2, NumberInduction, Zenon
  <2> QED
    BY <2>3, Zenon
<1> DEFINE after == CHOOSE w : Steps(w, Len(bs))
<1>2. Steps(after, Len(bs))
  <2> HIDE DEF Steps
  <2> QED
    BY <1>1, Zenon
<1>3. WriteAll(c, bs) = after[Len(bs)]
  BY Zenon DEF WriteAll
<1> HIDE DEF after
<1> DEFINE Good == {k \in Nat : k <= Len(bs) => Within(after[k], P)}
<1>4. 0 \in Good
  BY <1>2
<1>5. ASSUME NEW k \in Nat, k \in Good PROVE k + 1 \in Good
  <2>1. SUFFICES ASSUME k + 1 <= Len(bs) PROVE Within(after[k + 1], P)
    OBVIOUS
  <2>2. Within(after[k], P)
    BY <1>5, <2>1
  <2>3. after[k + 1] = Insert(after[k], bs[k + 1])
    BY <1>2, <2>1
  <2>4. bs[k + 1] \in P
    BY <2>1
  <2> QED
    BY <2>2, <2>3, <2>4, InsertWithin, Zenon
<1>6. Nat \subseteq Good
  <2> HIDE DEF Good
  <2> QED
    BY <1>4, <1>5, NumberInduction
<1> QED
  BY <1>3, <1>6

\* A replay goes from one Avail block to the next.
LEMMA ReplayUnfolds ==
    ASSUME NEW c, NEW first \in Int, first > 0, Len(avail) \in Nat
    PROVE  \E after :
               /\ Replay(c, first) = after[Len(avail)] /\ after[0] = c
               /\ \A i \in 1..Len(avail) :
                      after[i] = IF i < first THEN c ELSE WriteAll(after[i - 1], avail[i])
<1> DEFINE Steps(w, k) ==
               w = [i \in 0..k |-> IF i < first THEN c ELSE WriteAll(w[i - 1], avail[i])]
           Made == {k \in Nat : \E w : Steps(w, k)}
<1>1. \E w : Steps(w, Len(avail))
  <2>1. 0 \in Made
    <3>1. Steps([i \in 0..0 |-> c], 0)
      OBVIOUS
    <3> QED
      BY <3>1, Zenon
  <2>2. ASSUME NEW k \in Nat, k \in Made PROVE k + 1 \in Made
    <3>1. PICK w : Steps(w, k)
      BY <2>2, Zenon
    <3> DEFINE new == IF k + 1 < first THEN c ELSE WriteAll(w[k], avail[k + 1])
               v == [i \in 0..k + 1 |-> IF i = k + 1 THEN new ELSE w[i]]
    <3>2. ASSUME NEW i \in 0..k + 1
          PROVE  v[i] = IF i < first THEN c ELSE WriteAll(v[i - 1], avail[i])
      <4>1. CASE i = k + 1
        <5>1. v[k] = w[k] /\ v[i] = new
          BY <4>1
        <5> QED
          BY <4>1, <5>1
      <4>2. CASE i \in 1..k
        <5>1. v[i] = w[i] /\ v[i - 1] = w[i - 1]
          BY <4>2
        <5>2. w[i] = IF i < first THEN c ELSE WriteAll(w[i - 1], avail[i])
          BY <3>1, <4>2
        <5> QED
          BY <4>2, <5>1, <5>2, Zenon
      <4>3. CASE i = 0
        <5>1. v[0] = w[0] /\ w[0] = c
          BY <3>1
        <5> QED
          BY <4>3, <5>1, Zenon
      <4> QED
        BY <4>1, <4>2, <4>3, SMTT(30)
    <3>3. Steps(v, k + 1)
      BY <3>2, Zenon
    <3>4. \E w1 : Steps(w1, k + 1)
      <4> HIDE DEF v, Steps
      <4> QED
        BY <3>3, Zenon
    <3> QED
      BY <3>4, SMTT(30)
  <2>3. Nat \subseteq Made
    <3> HIDE DEF Made
    <3> QED
      BY <2>1, <2>2, NumberInduction, Zenon
  <2> QED
    BY <2>3, Zenon
<1> DEFINE after == CHOOSE w : Steps(w, Len(avail))
<1>2. Steps(after, Len(avail))
  <2> HIDE DEF Steps
  <2> QED
    BY <1>1, Zenon
<1>3. Replay(c, first) = after[Len(avail)]
  BY Zenon DEF Replay
<1> HIDE DEF after
<1>4. /\ after[0] = c
      /\ \A i \in 1..Len(avail) :
             after[i] = IF i < first THEN c ELSE WriteAll(after[i - 1], avail[i])
  BY <1>2, SMTT(30)
<1> QED
  BY <1>3, <1>4, Zenon

\* Replaying Avail adds none but the blocks in Avail.
LEMMA ReplayWithin ==
    ASSUME NEW c, NEW first \in Int, first > 0, NEW P, Len(avail) \in Nat, Within(c, P),
           \A i \in 1..Len(avail) :
               Len(avail[i]) \in Nat /\ \A k \in 1..Len(avail[i]) : avail[i][k] \in P
    PROVE  Within(Replay(c, first), P)
<1>1. PICK after : /\ Replay(c, first) = after[Len(avail)] /\ after[0] = c
                   /\ \A i \in 1..Len(avail) :
                          after[i] = IF i < first THEN c ELSE WriteAll(after[i - 1], avail[i])
  BY ReplayUnfolds, SMTT(30)
<1> DEFINE Good == {k \in Nat : k <= Len(avail) => Within(after[k], P)}
<1>2. 0 \in Good
  BY <1>1, Zenon
<1>3. ASSUME NEW k \in Nat, k \in Good PROVE k + 1 \in Good
  <2>1. SUFFICES ASSUME k + 1 <= Len(avail) PROVE Within(after[k + 1], P)
    OBVIOUS
  <2>2. Within(after[k], P)
    BY <1>3, <2>1
  <2>3. CASE k + 1 < first
    BY <1>1, <2>1, <2>2, <2>3
  <2>4. CASE ~(k + 1 < first)
    <3>1. after[k + 1] = WriteAll(after[k], avail[k + 1])
      BY <1>1, <2>1, <2>4
    <3>2. /\ Len(avail[k + 1]) \in Nat
          /\ \A j \in 1..Len(avail[k + 1]) : avail[k + 1][j] \in P
      BY <2>1
    <3> QED
      BY <2>2, <3>1, <3>2, WriteAllWithin, Zenon
  <2> QED
    BY <2>3, <2>4, Zenon
<1>4. Nat \subseteq Good
  <2> HIDE DEF Good
  <2> QED
    BY <1>2, <1>3, NumberInduction, Zenon
<1> QED
  BY <1>1, <1>4

-----------------------------------------------------------------------------
(* Where the main loops are in Avail.                                      *)

\* Avail blocks are sequences, of blocks that were submitted.
AvailOf(U) == avail \in Seq(Seq(U)) /\ inflight \in SUBSET U
AvailInv == built \in Nat /\ \E U : AvailOf(U)

\* The clock of a node is the number of an Avail block it has got.
ClockInv ==
    /\ Len(avail) > 0
    /\ t \in [Node -> Nat]
    /\ DOMAIN pc = Node
    /\ \A n \in Node : t[n] <= Len(avail)
    /\ \A n \in Node : pc[n] \in {"apply", "staking"} => t[n] > 0

\* What is in Avail, and the genesis block.
Public == {Genesis} \cup UNION {Range(avail[i]) : i \in DOMAIN avail}

\* Nothing else is in a store, in a snapshot on its way or in the collection
\* of a snapshotter.
PubInv ==
    /\ DOMAIN chain = Node /\ DOMAIN snapshots = Node
    /\ DOMAIN wpc = Node /\ DOMAIN changes = Node
    /\ \A n \in Node :
           /\ Within(chain[n], Public)
           /\ \A s \in snapshots[n] : Within(s, Public)
           /\ wpc[n] = "wait" => Within(changes[n], Public)

\* What holds while production of n is on: its main loop is within the window
\* it was put on in, in the list and past the fence, and has the last Avail
\* block of the window before it.
Since(n) == IF stakedAt[n] = Nil THEN t[n] ELSE stakedAt[n]
On(n) ==
    /\ pc[n] \in {"recv", "apply", "decide"}
    /\ pc[n] = "recv" => t[n] % WindowLen < WindowLen - 1
    /\ cache[n].seed = Seed(t[n])
    /\ MyTurn(n, cache[n].order, cache[n].list)
    /\ n \in cache[n].list
    /\ ~Fenced(n, Since(n))

TurnInv ==
    /\ DOMAIN cache = Node /\ enabled \in [Node -> BOOLEAN] /\ DOMAIN stakedAt = Node
    /\ \A n \in Node : cache[n] =
           [seed |-> cache[n].seed, list |-> cache[n].list, order |-> cache[n].order]
    /\ \A n \in Node : pc[n] \in {"query", "decide"} => cache[n].seed = Seed(t[n])
    /\ \A n \in Node : enabled[n] => On(n)

\* AvailInv spelled out for the places of Avail's blocks.
LEMMA AvailFacts ==
    ASSUME AvailInv
    PROVE  /\ Len(avail) \in Nat /\ DOMAIN avail = 1..Len(avail)
           /\ \A i \in 1..Len(avail) :
                  /\ Len(avail[i]) \in Nat /\ DOMAIN avail[i] = 1..Len(avail[i])
                  /\ \A k \in 1..Len(avail[i]) : avail[i][k] \in Public
<1>1. PICK U : avail \in Seq(Seq(U))
  BY Zenon DEF AvailInv, AvailOf
<1>2. Len(avail) \in Nat /\ DOMAIN avail = 1..Len(avail)
  BY <1>1
<1>3. ASSUME NEW i \in 1..Len(avail)
      PROVE  Len(avail[i]) \in Nat /\ DOMAIN avail[i] = 1..Len(avail[i])
  <2>1. avail[i] \in Seq(U)
    BY <1>1
  <2> QED
    BY <2>1
<1>4. ASSUME NEW i \in 1..Len(avail), NEW k \in 1..Len(avail[i])
      PROVE  avail[i][k] \in Public
  <2>1. i \in DOMAIN avail /\ k \in DOMAIN avail[i]
    BY <1>2, <1>3
  <2>2. avail[i][k] \in Range(avail[i])
    BY <2>1, Zenon DEF Range
  <2> QED
    BY <2>1, <2>2 DEF Public
<1> QED
  BY <1>2, <1>3, <1>4, Zenon

\* At the start Avail holds the stake block of the bootstrap sequencers.
LEMMA AvailStart == Init => AvailInv
<1> SUFFICES ASSUME Init PROVE AvailInv
  BY Zenon
<1> DEFINE U == {StakeBlock}
<1>1. WindowLen - 1 \in Nat
  BY ConstantAssumption
<1>2. <<StakeBlock>> \in Seq(U) /\ <<>> \in Seq(U)
  OBVIOUS
<1>3. avail \in [1..WindowLen - 1 -> Seq(U)]
  BY <1>2, Zenon DEF Init
<1>4. avail \in Seq(Seq(U))
  BY <1>1, <1>3, ListIsSeq, Zenon
<1>5. built \in Nat /\ inflight \in SUBSET U
  BY Zenon DEF Init
<1> QED
  BY <1>4, <1>5, Zenon DEF AvailInv, AvailOf

\* Avail only grows.
Grows ==
    /\ DOMAIN avail \subseteq DOMAIN avail'
    /\ \A i \in DOMAIN avail : avail'[i] = avail[i]

\* Avail only grows, by blocks that were on their way.
LEMMA AvailStep ==
    ASSUME AvailInv, [Next]_vars
    PROVE  AvailInv' /\ Grows
<1>1. PICK U : AvailOf(U)
  BY Zenon DEF AvailInv
<1>2. built \in Nat
  BY Zenon DEF AvailInv
<1>3. CASE UNCHANGED <<avail, inflight, built>>
  BY <1>1, <1>2, <1>3, Zenon DEF AvailInv, AvailOf, Grows
<1>4. CASE NewAvailBlock
  <2>0. PICK S \in SUBSET inflight :
            /\ \E k \in 0..built : \E q \in Bijection(1..k, S) : avail' = Append(avail, q)
            /\ inflight' = inflight \ S
    BY <1>4, Zenon DEF NewAvailBlock
  <2>1. PICK k \in 0..built : \E q \in Bijection(1..k, S) : avail' = Append(avail, q)
    BY <2>0, Zenon
  <2>2. PICK q \in Bijection(1..k, S) : avail' = Append(avail, q)
    BY <2>1, Zenon
  <2>3. k \in Nat /\ built' = built
    BY <1>2, <1>4 DEF NewAvailBlock, bounds
  <2>4. q \in [1..k -> S]
    BY <2>2, Zenon DEF Bijection, Injection
  <2>5. q \in [1..k -> U]
    BY <1>1, <2>4, Zenon DEF AvailOf
  <2>6. q \in Seq(U)
    BY <2>3, <2>5, ListIsSeq, Zenon
  <2>7. /\ avail' \in Seq(Seq(U)) /\ Len(avail') = Len(avail) + 1
        /\ \A i \in 1..Len(avail) : avail'[i] = avail[i]
    BY <1>1, <2>2, <2>6, Appended DEF AvailOf
  <2>8. Grows
    <3>1. Len(avail) \in Nat /\ DOMAIN avail = 1..Len(avail)
      BY <1>1 DEF AvailOf
    <3>2. DOMAIN avail' = 1..Len(avail')
      BY <2>7
    <3> QED
      BY <2>7, <3>1, <3>2, SMTT(30) DEF Grows
  <2>9. inflight' \in SUBSET U
    BY <1>1, <2>0, Zenon DEF AvailOf
  <2> QED
    BY <1>2, <2>3, <2>7, <2>8, <2>9, Zenon DEF AvailInv, AvailOf
<1>5. ASSUME NEW n \in Node, Build(n) PROVE AvailInv' /\ Grows
  <2>1. PICK b : inflight' = inflight \cup {b}
    BY <1>5, Zenon DEF Build
  <2>2. avail' = avail
    BY <1>5, Zenon DEF Build
  <2> DEFINE V == U \cup {b}
  <2>3. avail \in Seq(Seq(V))
    <3>1. Seq(U) \subseteq Seq(V)
      <4>1. U \subseteq V
        BY Zenon
      <4> HIDE DEF V
      <4> QED
        BY <4>1, SeqMonotonic, Zenon
    <3> HIDE DEF V
    <3> QED
      BY <1>1, <3>1, SeqMonotonic, Zenon DEF AvailOf
  <2>4. inflight' \in SUBSET V
    BY <1>1, <2>1, Zenon DEF AvailOf
  <2>5. built' \in Nat
    BY <1>2, <1>5 DEF Build
  <2> HIDE DEF V
  <2> QED
    BY <2>2, <2>3, <2>4, <2>5, Zenon DEF AvailInv, AvailOf, Grows
<1>6. ASSUME NEW n \in Node, SendFailed(n) PROVE AvailInv' /\ Grows
  <2>1. avail' = avail /\ inflight' \in SUBSET inflight
    BY <1>6, Zenon DEF SendFailed
  <2>2. built' \in Nat
    BY <1>2, <1>6, Zenon DEF SendFailed
  <2> QED
    BY <1>1, <2>1, <2>2, Zenon DEF AvailInv, AvailOf, Grows
<1>7. \/ UNCHANGED <<avail, inflight, built>> \/ NewAvailBlock
      \/ \E n \in Node : Build(n) \/ SendFailed(n)
  <2>1. ASSUME Horizon \/ UNCHANGED vars PROVE UNCHANGED <<avail, inflight, built>>
    BY <2>1, Zenon DEF Horizon, vars, net, bounds
  <2>2. ASSUME NEW n \in Node, Receive(n) \/ Apply(n) \/ Query(n) \/ QueryFailed(n) \/ Decide(n)
        PROVE  UNCHANGED <<avail, inflight, built>>
    BY <2>2, Zenon DEF Receive, Apply, Query, QueryFailed, Decide, net, bounds
  <2>3. ASSUME NEW n \in Node, Tick(n) \/ Included(n) \/ ProcessSnapshot(n)
        PROVE  UNCHANGED <<avail, inflight, built>>
    BY <2>3, Zenon DEF Tick, Included, ProcessSnapshot, net, bounds
  <2>4. ASSUME NEW n \in Node, Sync(n) \/ Resync(n) \/ Run(n) \/ Crash(n)
        PROVE  UNCHANGED <<avail, inflight, built>>
    BY <2>4, Zenon DEF Sync, Resync, Run, Crash, net, bounds
  <2> QED
    BY <2>1, <2>2, <2>3, <2>4, Zenon DEF Next, MainLoop, Writer
<1> QED
  BY <1>3, <1>4, <1>5, <1>6, <1>7, Zenon

\* The clocks are within Avail at the start.
LEMMA ClockStart == Init => ClockInv
<1> SUFFICES ASSUME Init PROVE ClockInv
  OBVIOUS
<1>1. WindowLen - 1 \in Nat /\ WindowLen - 1 > 0
  BY ConstantAssumption
<1>2. DOMAIN avail = 1..WindowLen - 1
  BY Zenon DEF Init
<1>3. Len(avail) \in Nat /\ DOMAIN avail = 1..Len(avail)
  BY AvailStart, AvailFacts, Zenon
<1>4. Len(avail) = WindowLen - 1
  BY <1>1, <1>2, <1>3
<1> QED
  BY <1>1, <1>4 DEF Init, ClockInv

\* A clock moves only to an Avail block that exists.
LEMMA ClockStep ==
    ASSUME AvailInv, ClockInv, [Next]_vars
    PROVE  ClockInv'
<1>1. Len(avail) \in Nat /\ Len(avail') \in Nat /\ Len(avail') >= Len(avail)
  <2>1. Len(avail) \in Nat /\ DOMAIN avail = 1..Len(avail)
    BY AvailFacts, Zenon
  <2>2. (AvailInv => Len(avail) \in Nat /\ DOMAIN avail = 1..Len(avail))'
    BY AvailFacts, PTL
  <2>3. Len(avail') \in Nat /\ DOMAIN avail' = 1..Len(avail')
    BY <2>2, AvailStep, Zenon
  <2>4. 1..Len(avail) \subseteq 1..Len(avail')
    BY <2>1, <2>3, AvailStep, Zenon DEF Grows
  <2> QED
    BY <2>1, <2>3, <2>4
<1>2. CASE UNCHANGED <<pc, t>>
  BY <1>1, <1>2 DEF ClockInv
<1>3. ASSUME NEW n \in Node, Receive(n) PROVE ClockInv'
  BY <1>1, <1>3 DEF ClockInv, Receive, net
<1>4. ASSUME NEW n \in Node, UNCHANGED t,
             pc' = [pc EXCEPT ![n] = pc'[n]], pc'[n] \notin {"apply", "staking"}
      PROVE  ClockInv'
  BY <1>1, <1>4 DEF ClockInv
<1>5. ASSUME NEW n \in Node, Sync(n) PROVE ClockInv'
  <2>1. avail' = avail /\ t' = [t EXCEPT ![n] = Len(avail)]
    BY <1>5, Zenon DEF Sync, net
  <2>2. pc' = [pc EXCEPT ![n] = pc'[n]]
    BY <1>5, Zenon DEF Sync, ClockInv
  <2> QED
    BY <1>1, <2>1, <2>2, Zenon DEF ClockInv
<1>6. ASSUME NEW n \in Node, Resync(n) PROVE ClockInv'
  <2>1. avail' = avail /\ t' = [t EXCEPT ![n] = Len(avail)]
    BY <1>6, Zenon DEF Resync, net
  <2>2. pc' = [pc EXCEPT ![n] = pc'[n]]
    BY <1>6, Zenon DEF Resync, ClockInv
  <2> QED
    BY <1>1, <2>1, <2>2 DEF ClockInv
<1>7. ASSUME NEW n \in Node, Run(n) PROVE ClockInv'
  BY <1>1, <1>7 DEF ClockInv, Run, net
<1>8. ASSUME NEW n \in Node, Apply(n) \/ Query(n) \/ QueryFailed(n) \/ Decide(n) \/ Crash(n)
      PROVE  ClockInv'
  <2>1. /\ UNCHANGED t /\ pc' = [pc EXCEPT ![n] = pc'[n]]
        /\ pc'[n] \notin {"apply", "staking"}
    BY <1>8, Zenon DEF ClockInv, Apply, Query, QueryFailed, Decide, Crash
  <2> QED
    BY <1>4, <2>1, Zenon
<1>9. \/ UNCHANGED <<pc, t>>
      \/ \E n \in Node : \/ Receive(n) \/ Sync(n) \/ Resync(n) \/ Run(n)
                         \/ Apply(n) \/ Query(n) \/ QueryFailed(n) \/ Decide(n) \/ Crash(n)
  <2>1. ASSUME NewAvailBlock \/ Horizon \/ UNCHANGED vars PROVE UNCHANGED <<pc, t>>
    BY <2>1, Zenon DEF NewAvailBlock, Horizon, vars, loop
  <2>2. ASSUME NEW n \in Node, Tick(n) \/ Build(n) \/ Included(n)
        PROVE  UNCHANGED <<pc, t>>
    BY <2>2, Zenon DEF Tick, Build, Included, loop
  <2>3. ASSUME NEW n \in Node, SendFailed(n) \/ ProcessSnapshot(n)
        PROVE  UNCHANGED <<pc, t>>
    BY <2>3, Zenon DEF SendFailed, ProcessSnapshot, loop
  <2> QED
    BY <2>1, <2>2, <2>3, Zenon DEF Next, MainLoop, Writer
<1> QED
  BY <1>2, <1>3, <1>5, <1>6, <1>7, <1>8, <1>9, Zenon

-----------------------------------------------------------------------------
(* Published.                                                              *)

\* What the snapshotter records of a write is within what was written.
LEMMA RecordedWithin ==
    ASSUME NEW d, NEW old, NEW new, NEW P, Within(d, P), Within(new, P)
    PROVE  Within(Recorded(d, old, new), P)
BY Zenon DEF Within, Recorded

\* At the start the stores hold what Avail has.
LEMMA PubStart == Init => PubInv
<1> SUFFICES ASSUME Init PROVE PubInv
  OBVIOUS
<1>1. StakeBlock \in Public
  <2>1. 1 \in DOMAIN avail /\ avail[1] = <<StakeBlock>>
    BY ConstantAssumption DEF Init
  <2>2. StakeBlock \in Range(avail[1])
    BY <2>1 DEF Range
  <2> QED
    BY <2>1, <2>2, Zenon DEF Public
<1>2. Within(NewStore(Genesis), Public)
  BY Zenon DEF Within, NewStore, Public
<1>3. Within(Insert(NewStore(Genesis), StakeBlock), Public)
  BY <1>1, <1>2, InsertWithin, Zenon
<1>4. \A n \in Node : Within(chain[n], Public)
  BY <1>2, <1>3, Zenon DEF Init
<1> QED
  BY <1>4, Zenon DEF Init, PubInv

\* Every step preserves that stores, snapshots and records hold only what is in Avail.
LEMMA PubStep ==
    ASSUME AvailInv, ClockInv, PubInv, [Next]_vars
    PROVE  PubInv'
<1>1. Public \subseteq Public'
  BY AvailStep, Zenon DEF Public, Grows
<1>2. ASSUME NEW c, Within(c, Public) PROVE Within(c, Public')
  BY <1>1, <1>2, Zenon DEF Within
<1>3. /\ Len(avail) \in Nat /\ DOMAIN avail = 1..Len(avail)
      /\ \A i \in 1..Len(avail) :
             Len(avail[i]) \in Nat /\ \A k \in 1..Len(avail[i]) : avail[i][k] \in Public
  BY AvailFacts, Zenon
<1> HIDE DEF Public
<1>4. ASSUME NEW n \in Node, NEW c, NEW d,
             Within(c, Public), wpc[n] = "wait" => Within(d, Public),
             chain' = [chain EXCEPT ![n] = c], changes' = [changes EXCEPT ![n] = d],
             UNCHANGED <<snapshots, wpc>>
      PROVE  PubInv'
  BY <1>2, <1>4, Zenon DEF PubInv
\* Steps that write to no store and send nothing.
<1>5. ASSUME UNCHANGED chain, DOMAIN snapshots' = Node, DOMAIN wpc' = Node,
             DOMAIN changes' = Node, \A m \in Node : snapshots'[m] \subseteq snapshots[m],
             \A m \in Node : wpc'[m] = "wait" =>
                 Within(changes'[m], Public)
      PROVE  PubInv'
  BY <1>2, <1>5, Zenon DEF PubInv
<1>6. ASSUME NEW n \in Node, Apply(n) PROVE PubInv'
  <2> DEFINE c == WriteAll(chain[n], avail[t[n]])
             d == IF wpc[n] = "wait" THEN Recorded(changes[n], chain[n], c) ELSE changes[n]
  <2>1. t[n] \in 1..Len(avail)
    BY <1>3, <1>6 DEF ClockInv, Apply
  <2>2. Within(c, Public)
    BY <1>3, <2>1, WriteAllWithin, Zenon DEF PubInv
  <2>3. wpc[n] = "wait" => Within(d, Public)
    BY <2>2, RecordedWithin, Zenon DEF PubInv
  <2>4. chain' = [chain EXCEPT ![n] = c] /\ chain'[n] = c
    BY <1>6, Zenon DEF Apply, PubInv
  <2>5. changes' = [changes EXCEPT ![n] = d] /\ UNCHANGED <<snapshots, wpc>>
    BY <1>6, <2>4, Zenon DEF Apply, PubInv, net
  <2> QED
    BY <1>4, <2>2, <2>3, <2>4, <2>5, Zenon
<1>7. ASSUME NEW n \in Node, Build(n) PROVE PubInv'
  <2>1. Within(NoChanges, Public)
    BY Zenon DEF Within, NoChanges
  <2>2. /\ UNCHANGED <<chain, snapshots>> /\ wpc' = [wpc EXCEPT ![n] = "wait"]
        /\ changes' = [changes EXCEPT ![n] = NoChanges]
    BY <1>7, Zenon DEF Build
  <2> QED
    BY <1>5, <2>1, <2>2, Zenon DEF PubInv
<1>8. ASSUME NEW n \in Node, Included(n) PROVE PubInv'
  <2> DEFINE c == Insert(chain[n], wblk[n])
             d == Recorded(changes[n], chain[n], c)
             s == [number |-> wblk[n].number, td |-> d.td, head |-> d.head]
  <2>1. wblk[n] \in Public
    BY <1>8 DEF Included, InAvail, Public
  <2>2. Within(c, Public)
    BY <2>1, InsertWithin, Zenon DEF PubInv
  <2>3. Within(d, Public)
    BY <1>8, <2>2, RecordedWithin, Zenon DEF PubInv, Included
  <2>4. Within(s, Public)
    BY <2>3, Zenon DEF Within
  <2>5. PICK R \in SUBSET Node :
            snapshots' = [m \in Node |-> IF m \in R THEN {s} ELSE snapshots[m]]
    BY <1>8, Zenon DEF Included
  <2>6. /\ chain' = [chain EXCEPT ![n] = c]
        /\ wpc' = [wpc EXCEPT ![n] = "idle"] /\ changes' = [changes EXCEPT ![n] = Nil]
    BY <1>8, Zenon DEF Included
  <2> HIDE DEF c, d, s
  <2>7. \A m \in Node : Within(chain'[m], Public')
    BY <1>2, <2>2, <2>6, Zenon DEF PubInv
  <2>8. \A m \in Node : \A s1 \in snapshots'[m] : Within(s1, Public')
    BY <1>2, <2>4, <2>5, Zenon DEF PubInv
  <2>9. \A m \in Node : wpc'[m] = "wait" => Within(changes'[m], Public')
    BY <1>2, <2>6, Zenon DEF PubInv
  <2> QED
    BY <2>5, <2>6, <2>7, <2>8, <2>9, Zenon DEF PubInv
<1>9. ASSUME NEW n \in Node, ProcessSnapshot(n) PROVE PubInv'
  <2>1. PICK s \in snapshots[n] :
            /\ snapshots' = [snapshots EXCEPT ![n] = @ \ {s}]
            /\ \/ UNCHANGED chain
               \/ \E h : chain' = [chain EXCEPT ![n] =
                      [td |-> [b \in DOMAIN @.td \cup DOMAIN s.td |->
                                  IF b \in DOMAIN s.td THEN s.td[b] ELSE @.td[b]],
                       head |-> h]]
    BY <1>9, Zenon DEF ProcessSnapshot
  <2>2. UNCHANGED <<wpc, changes>>
    BY <1>9, Zenon DEF ProcessSnapshot, writer
  <2>3. Within(s, Public) /\ Within(chain[n], Public)
    BY Zenon DEF PubInv
  <2>4. Within(chain'[n], Public)
    <3>1. DOMAIN chain'[n].td \subseteq DOMAIN chain[n].td \cup DOMAIN s.td
      BY <2>1 DEF PubInv
    <3> QED
      BY <2>3, <3>1, Zenon DEF Within
  <2>5. \A m \in Node : Within(chain'[m], Public')
    BY <1>2, <2>1, <2>4, Zenon DEF PubInv
  <2> QED
    BY <1>2, <2>1, <2>2, <2>5, Zenon DEF PubInv
<1>10. ASSUME NEW n \in Node, NEW first \in Int, first > 0,
              chain' = [chain EXCEPT ![n] = Replay(chain[n], first)],
              UNCHANGED <<snapshots, wpc, changes>>
       PROVE  PubInv'
  <2>1. Within(Replay(chain[n], first), Public)
    BY <1>3, <1>10, ReplayWithin, Zenon DEF PubInv
  <2>2. \A m \in Node : Within(chain'[m], Public')
    BY <1>2, <1>10, <2>1, Zenon DEF PubInv
  <2> QED
    BY <1>2, <1>10, <2>2, Zenon DEF PubInv
<1>11. ASSUME NEW n \in Node, Sync(n) PROVE PubInv'
  <2>1. UNCHANGED <<snapshots, wpc, changes>>
    BY <1>11, Zenon DEF Sync, net, writer
  <2>2. PICK i \in NextAvailBlock(n) :
            UNCHANGED chain \/ (i # 0 /\ chain' = [chain EXCEPT ![n] = Replay(chain[n], i)])
    BY <1>11, Zenon DEF Sync
  <2>3. i = 0 \/ i = 1 \/ i \in DOMAIN avail
    BY <2>2, Zenon DEF NextAvailBlock, SearchBlock
  <2>4. i \in Int /\ (i = 0 \/ i > 0)
    BY <1>3, <2>3
  <2>5. CASE UNCHANGED chain
    BY <1>5, <2>1, <2>5, Zenon DEF PubInv
  <2> QED
    BY <1>10, <2>1, <2>2, <2>4, <2>5, Zenon
<1>12. ASSUME NEW n \in Node, Resync(n) PROVE PubInv'
  <2>1. t[n] + 1 \in Int /\ t[n] + 1 > 0
    BY DEF ClockInv
  <2>2. /\ chain' = [chain EXCEPT ![n] = Replay(chain[n], t[n] + 1)]
        /\ UNCHANGED <<snapshots, wpc, changes>>
    BY <1>12, Zenon DEF Resync, net, writer
  <2> QED
    BY <1>10, <2>1, <2>2, Zenon
<1>13. CASE \/ UNCHANGED <<chain, snapshots, wpc, changes>>
            \/ \E n \in Node : Tick(n) \/ SendFailed(n) \/ Crash(n)
  <2>1. UNCHANGED chain
    BY <1>13, Zenon DEF Tick, SendFailed, Crash, net
  <2>2. /\ DOMAIN snapshots' = Node /\ DOMAIN wpc' = Node /\ DOMAIN changes' = Node
        /\ \A m \in Node : snapshots'[m] \subseteq snapshots[m]
    BY <1>13, Zenon DEF Tick, SendFailed, Crash, net, PubInv
  <2>3. \A m \in Node : wpc'[m] = "wait" => wpc[m] = "wait" /\ changes'[m] = changes[m]
    <3>1. ASSUME NEW n \in Node, Tick(n)
          PROVE  UNCHANGED changes /\ wpc' = [wpc EXCEPT ![n] = "build"]
      BY <3>1, Zenon DEF Tick
    <3>2. ASSUME NEW n \in Node, SendFailed(n) \/ Crash(n)
          PROVE  changes' = [changes EXCEPT ![n] = Nil] /\ wpc' = [wpc EXCEPT ![n] = "idle"]
      BY <3>2, Zenon DEF SendFailed, Crash
    <3> QED
      BY <1>13, <3>1, <3>2, Zenon DEF PubInv
  <2> QED
    BY <1>5, <2>1, <2>2, <2>3, Zenon DEF PubInv
<1>14. \/ UNCHANGED <<chain, snapshots, wpc, changes>>
       \/ \E n \in Node : \/ Tick(n) \/ SendFailed(n) \/ Crash(n) \/ Apply(n) \/ Build(n)
                          \/ Included(n) \/ ProcessSnapshot(n) \/ Sync(n) \/ Resync(n)
  <2>1. ASSUME NewAvailBlock \/ Horizon \/ UNCHANGED vars PROVE UNCHANGED <<chain, snapshots, wpc, changes>>
    BY <2>1, Zenon DEF NewAvailBlock, Horizon, vars, net, writer
  <2>2. ASSUME NEW n \in Node, Receive(n) \/ Query(n) \/ QueryFailed(n)
        PROVE  UNCHANGED <<chain, snapshots, wpc, changes>>
    BY <2>2, Zenon DEF Receive, Query, QueryFailed, net, writer
  <2>3. ASSUME NEW n \in Node, Decide(n) \/ Run(n)
        PROVE  UNCHANGED <<chain, snapshots, wpc, changes>>
    BY <2>3, Zenon DEF Decide, Run, net, writer
  <2> QED
    BY <2>1, <2>2, <2>3, Zenon DEF Next, MainLoop, Writer
<1> QED
  BY <1>6, <1>7, <1>8, <1>9, <1>11, <1>12, <1>13, <1>14, Zenon

\* Whatever a node has in its store is in Avail.
THEOREM PublishedTheorem == Spec => []Published
<1>1. Init => AvailInv /\ ClockInv /\ PubInv
  BY AvailStart, ClockStart, PubStart, Zenon
<1>2. AvailInv /\ ClockInv /\ PubInv /\ [Next]_vars => (AvailInv /\ ClockInv /\ PubInv)'
  BY AvailStep, ClockStep, PubStep, Zenon
<1>3. PubInv => Published
  BY ZenonT(30) DEF PubInv, Published, Within, Public, InAvail
<1> QED
  BY <1>1, <1>2, <1>3, PTL DEF Spec

-----------------------------------------------------------------------------
(* TurnIsCurrent.                                                          *)

\* Only the last Avail block of a window is followed by another window.
LEMMA SameWindow ==
    ASSUME NEW i \in Nat, i % WindowLen < WindowLen - 1
    PROVE  Seed(i + 1) = Seed(i)
<1> DEFINE W == WindowLen
           q == i \div W
           r == i % W
           p == (i + 1) \div W
           u == (i + 1) % W
<1>1. W \in Nat /\ W > 0
  BY ConstantAssumption
<1>2. q \in Int /\ r \in 0..W - 1 /\ i = W * q + r
  BY <1>1
<1>3. p \in Int /\ u \in 0..W - 1 /\ i + 1 = W * p + u
  BY <1>1
<1>4. r + 1 <= W - 1
  BY <1>1, <1>2
<1> HIDE DEF W, p, q, r, u
<1>5. W * (p - q) = r + 1 - u
  BY <1>1, <1>2, <1>3
<1>6. W * (p - q) < W /\ W * (p - q) > -W
  BY <1>1, <1>2, <1>3, <1>4, <1>5
<1>7. p - q < 1 /\ p - q > -1
  BY <1>1, <1>2, <1>3, <1>6
<1>8. p = q
  BY <1>2, <1>3, <1>7
<1> QED
  BY <1>8, Zenon DEF Seed, p, q, W

\* Every step preserves what the main loop knows while production is on.
LEMMA TurnStep ==
    ASSUME ClockInv, TurnInv, [Next]_vars
    PROVE  TurnInv'
<1> DEFINE Shape(c) == c = [seed |-> c.seed, list |-> c.list, order |-> c.order]
\* What a step of node n leaves to be shown.
<1>1. ASSUME NEW n \in Node,
             DOMAIN cache' = Node, enabled' \in [Node -> BOOLEAN], DOMAIN stakedAt' = Node,
             \A m \in Node \ {n} : /\ pc'[m] = pc[m] /\ t'[m] = t[m] /\ cache'[m] = cache[m]
                                   /\ enabled'[m] = enabled[m] /\ stakedAt'[m] = stakedAt[m],
             Shape(cache'[n]), pc'[n] \in {"query", "decide"} => cache'[n].seed = Seed(t'[n]),
             enabled'[n] => On(n)'
      PROVE  TurnInv'
  <2>1. ASSUME NEW m \in Node \ {n}, enabled'[m] PROVE On(m)'
    <3>1. On(m)
      BY <1>1, <2>1, Zenon DEF TurnInv
    <3>2. /\ pc'[m] = pc[m] /\ t'[m] = t[m] /\ cache'[m] = cache[m]
          /\ stakedAt'[m] = stakedAt[m]
      BY <1>1, Zenon
    <3>3. Fenced(m, Since(m))' = Fenced(m, Since(m))
      BY <3>2, Zenon DEF Fenced, Since, Seed
    <3> QED
      BY <3>1, <3>2, <3>3, Zenon DEF On, Seed
  <2> QED
    BY <1>1, <2>1, Zenon DEF TurnInv, Seed
<1>2. CASE UNCHANGED <<pc, t, cache, enabled, stakedAt>>
  BY <1>2, Zenon DEF TurnInv, On, Since, Fenced, Seed
<1>3. ASSUME NEW n \in Node, Receive(n) PROVE TurnInv'
  <2>1. /\ pc' = [pc EXCEPT ![n] = "apply"] /\ t' = [t EXCEPT ![n] = t[n] + 1]
        /\ UNCHANGED <<cache, enabled, stakedAt>> /\ pc[n] = "recv"
    BY <1>3, Zenon DEF Receive
  <2>2. ASSUME enabled'[n] PROVE On(n)'
    <3>1. enabled[n] /\ On(n)
      BY <2>1, <2>2, Zenon DEF TurnInv
    <3>2. Seed(t[n] + 1) = Seed(t[n])
      BY <2>1, <3>1, SameWindow, Zenon DEF ClockInv, On
    <3>3. pc'[n] = "apply" /\ t'[n] = t[n] + 1
      BY <2>1, Zenon DEF ClockInv
    <3>4. ~Fenced(n, Since(n))'
      BY <2>1, <3>1, <3>2, <3>3, Zenon DEF On, Fenced, Since, Seed
    <3> QED
      BY <2>1, <3>1, <3>2, <3>3, <3>4, Zenon DEF On, Seed
  <2> QED
    BY <1>1, <2>1, <2>2, Zenon DEF TurnInv, ClockInv
<1>4. ASSUME NEW n \in Node, Apply(n) PROVE TurnInv'
  <2>1. /\ cache' = [cache EXCEPT ![n].seed = Seed(t[n])] /\ UNCHANGED <<t, enabled, stakedAt>>
        /\ pc' = [pc EXCEPT ![n] = IF cache[n].seed = Seed(t[n]) THEN "decide" ELSE "query"]
    BY <1>4, Zenon DEF Apply
  <2>2. cache'[n] = [seed |-> Seed(t[n]), list |-> cache[n].list, order |-> cache[n].order]
    BY <2>1 DEF TurnInv
  <2>3. ASSUME enabled'[n] PROVE On(n)'
    <3>1. enabled[n] /\ On(n)
      BY <2>1, <2>3, Zenon DEF TurnInv
    <3>2. pc'[n] = "decide"
      BY <2>1, <3>1, Zenon DEF ClockInv, On
    <3> QED
      BY <2>1, <2>2, <3>1, <3>2 DEF On, Fenced, Since, Seed
  <2> QED
    BY <1>1, <2>1, <2>2, <2>3, ZenonT(30) DEF TurnInv, ClockInv, Seed
<1>5. ASSUME NEW n \in Node, Query(n) \/ QueryFailed(n) PROVE TurnInv'
  <2>1. ~enabled[n] /\ UNCHANGED <<t, enabled, stakedAt>>
    BY <1>5, Zenon DEF TurnInv, On, Query, QueryFailed
  <2>2. pc' = [pc EXCEPT ![n] = pc'[n]]
    BY <1>5, Zenon DEF Query, QueryFailed, ClockInv
  <2>3. /\ DOMAIN cache' = Node /\ Shape(cache'[n])
        /\ \A m \in Node \ {n} : cache'[m] = cache[m]
        /\ cache'[n].seed = cache[n].seed
    BY <1>5 DEF Query, QueryFailed, TurnInv
  <2>4. cache[n].seed = Seed(t[n])
    BY <1>5, Zenon DEF Query, QueryFailed, TurnInv
  <2>5. cache'[n].seed = Seed(t'[n])
    BY <2>1, <2>3, <2>4, Zenon
  <2>6. \A m \in Node \ {n} : pc'[m] = pc[m]
    BY <2>2, Zenon DEF ClockInv
  <2>7. DOMAIN stakedAt' = Node /\ enabled' \in [Node -> BOOLEAN] /\ ~enabled'[n]
    BY <2>1, Zenon DEF TurnInv
  <2> QED
    BY <1>1, <2>1, <2>3, <2>5, <2>6, <2>7, Zenon
<1>6. ASSUME NEW n \in Node, Decide(n) PROVE TurnInv'
  <2>1. /\ pc[n] = "decide" /\ pc' = [pc EXCEPT ![n] = "recv"] /\ UNCHANGED <<t, cache>>
        /\ pc'[n] = "recv"
    BY <1>6, Zenon DEF Decide, ClockInv
  <2>2. CASE n \notin cache[n].list
    <3>1. UNCHANGED <<enabled, stakedAt>>
      BY <1>6, <2>2, Zenon DEF Decide
    <3>2. ~enabled[n]
      BY <2>2, Zenon DEF TurnInv, On
    <3> QED
      BY <1>1, <2>1, <3>1, <3>2, Zenon DEF TurnInv, ClockInv
  <2>3. CASE n \in cache[n].list
    <3>1. /\ stakedAt' = [stakedAt EXCEPT ![n] = Since(n)]
          /\ enabled' = [enabled EXCEPT ![n] = IF Fenced(n, Since(n)) THEN @ ELSE Gate(n)]
      BY <1>6, <2>3, Zenon DEF Decide, Since
    <3>2. enabled'[n] => ~Fenced(n, Since(n)) /\ Gate(n)
      BY <3>1, Zenon DEF TurnInv, On
    <3>3. Since(n)' = Since(n)
      BY <2>1, <3>1, Zenon DEF TurnInv, Since
    <3> QED
      <4>1. ASSUME enabled'[n] PROVE On(n)'
        <5>1. ~Fenced(n, Since(n))'
          BY <2>1, <3>2, <3>3, <4>1, Zenon DEF Fenced, Seed
        <5>2. cache[n].seed = Seed(t[n])
          BY <2>1, Zenon DEF TurnInv
        <5> QED
          BY <2>1, <2>3, <3>2, <4>1, <5>1, <5>2, Zenon DEF On, Gate, MyTurn, Seed
      <4>2. enabled' \in [Node -> BOOLEAN]
        <5>1. Gate(n) \in BOOLEAN
          BY Zenon DEF Gate, MyTurn
        <5>2. enabled[n] \in BOOLEAN /\ enabled \in [Node -> BOOLEAN]
          BY Zenon DEF TurnInv
        <5>3. CASE Fenced(n, Since(n))
          BY <3>1, <5>2, <5>3, Zenon
        <5>4. CASE ~Fenced(n, Since(n))
          BY <3>1, <5>1, <5>2, <5>4, Zenon
        <5> QED
          BY <5>3, <5>4, Zenon
      <4>3. /\ DOMAIN stakedAt' = Node
            /\ \A m \in Node \ {n} : stakedAt'[m] = stakedAt[m] /\ enabled'[m] = enabled[m]
        BY <3>1, Zenon DEF TurnInv
      <4>4. DOMAIN cache' = Node /\ Shape(cache'[n]) /\ \A m \in Node \ {n} : pc'[m] = pc[m]
        BY <2>1, Zenon DEF TurnInv, ClockInv
      <4> HIDE DEF Shape
      <4> QED
        BY <1>1, <2>1, <4>1, <4>2, <4>3, <4>4, Zenon
  <2> QED
    BY <2>2, <2>3, Zenon
<1>7. ASSUME NEW n \in Node, Tick(n) PROVE TurnInv'
  <2>1. /\ UNCHANGED <<pc, t, enabled, stakedAt>> /\ enabled[n]
    BY <1>7, Zenon DEF Tick
  <2>2. cache[n].seed = Seed(t[n])
    BY <2>1, Zenon DEF TurnInv, On
  <2>3. cache' = [cache EXCEPT ![n] = cache[n]]
    BY <1>7, <2>2, Zenon DEF Tick
  <2>4. \A m \in Node : cache'[m] = cache[m]
    BY <2>3, Zenon DEF TurnInv
  <2>5. On(n)'
    BY <2>1, <2>4, Zenon DEF TurnInv, On, Since, Fenced, Seed
  <2> QED
    BY <1>1, <2>1, <2>2, <2>3, <2>4, <2>5, Zenon DEF TurnInv, Seed
<1>8. ASSUME NEW n \in Node, Sync(n) \/ Resync(n) \/ Run(n) PROVE TurnInv'
  <2>1. ~enabled[n] /\ UNCHANGED <<cache, enabled, stakedAt>>
    BY <1>8, Zenon DEF TurnInv, On, Sync, Resync, Run
  <2>2. pc' = [pc EXCEPT ![n] = pc'[n]] /\ pc'[n] \notin {"query", "decide"}
    BY <1>8, Zenon DEF Sync, Resync, Run, ClockInv
  <2>3. \A m \in Node \ {n} : t'[m] = t[m]
    BY <1>8, Zenon DEF Sync, Resync, Run, ClockInv
  <2> QED
    BY <1>1, <2>1, <2>2, <2>3, Zenon DEF TurnInv, ClockInv
<1>9. ASSUME NEW n \in Node, Crash(n) PROVE TurnInv'
  <2>1. /\ pc' = [pc EXCEPT ![n] = "down"] /\ enabled' = [enabled EXCEPT ![n] = FALSE]
        /\ cache' = [cache EXCEPT ![n] = [seed |-> 0, list |-> {}, order |-> 0]]
        /\ stakedAt' = [stakedAt EXCEPT ![n] = Nil] /\ UNCHANGED t
    BY <1>9, Zenon DEF Crash
  <2>2. pc'[n] = "down" /\ \A m \in Node \ {n} : pc'[m] = pc[m] /\ t'[m] = t[m]
    BY <2>1, Zenon DEF ClockInv
  <2>3. enabled' \in [Node -> BOOLEAN] /\ ~enabled'[n]
    BY <2>1, Zenon DEF TurnInv
  <2>4. DOMAIN cache' = Node /\ Shape(cache'[n]) /\ \A m \in Node \ {n} : cache'[m] = cache[m]
    BY <2>1, Zenon DEF TurnInv
  <2>5. /\ DOMAIN stakedAt' = Node
        /\ \A m \in Node \ {n} : stakedAt'[m] = stakedAt[m] /\ enabled'[m] = enabled[m]
    BY <2>1, Zenon DEF TurnInv
  <2> HIDE DEF Shape
  <2> QED
    BY <1>1, <2>2, <2>3, <2>4, <2>5, Zenon
<1>10. \/ UNCHANGED <<pc, t, cache, enabled, stakedAt>>
       \/ \E n \in Node : \/ Receive(n) \/ Apply(n) \/ Query(n) \/ QueryFailed(n) \/ Decide(n)
                          \/ Tick(n) \/ Sync(n) \/ Resync(n) \/ Run(n) \/ Crash(n)
  <2>1. ASSUME NewAvailBlock \/ Horizon \/ UNCHANGED vars PROVE UNCHANGED <<pc, t, cache, enabled, stakedAt>>
    BY <2>1, Zenon DEF NewAvailBlock, Horizon, vars, loop
  <2>2. ASSUME NEW n \in Node, Build(n) \/ Included(n)
        PROVE  UNCHANGED <<pc, t, cache, enabled, stakedAt>>
    BY <2>2, Zenon DEF Build, Included, loop
  <2>3. ASSUME NEW n \in Node, SendFailed(n) \/ ProcessSnapshot(n)
        PROVE  UNCHANGED <<pc, t, cache, enabled, stakedAt>>
    BY <2>3, Zenon DEF SendFailed, ProcessSnapshot, loop
  <2> QED
    BY <2>1, <2>2, <2>3, Zenon DEF Next, MainLoop, Writer
<1> QED
  BY <1>2, <1>3, <1>4, <1>5, <1>6, <1>7, <1>8, <1>9, <1>10, Zenon

\* Production is on only in the window the list was read for, and for its first.
THEOREM TurnIsCurrentTheorem == Spec => []TurnIsCurrent
<1>1. Init => AvailInv /\ ClockInv /\ TurnInv
  <2>1. Init => TurnInv
    BY DEF Init, TurnInv
  <2> QED
    BY <2>1, AvailStart, ClockStart, Zenon
<1>2. AvailInv /\ ClockInv /\ TurnInv /\ [Next]_vars => (AvailInv /\ ClockInv /\ TurnInv)'
  BY AvailStep, ClockStep, TurnStep, Zenon
<1>3. TurnInv => TurnIsCurrent
  BY Zenon DEF TurnInv, On, TurnIsCurrent
<1> QED
  BY <1>1, <1>2, <1>3, PTL DEF Spec

-----------------------------------------------------------------------------
(* Nodes that keep up.  Where every node has handled an Avail block before *)
(* the next one is made, none crashes and no submission or query fails,    *)
(* the submitted blocks are one chain.  The argument goes round: only the  *)
(* leader of the window makes blocks, each on the highest block there is   *)
(* (LineInv, WriterInv), so that whoever has handled the first Avail block *)
(* of a window has the same head and with it the same list as the others   *)
(* (StoreInv, RosterInv); who has not is behind the fence (PlaceInv); so   *)
(* there is one leader, and nobody else is allowed to make blocks.         *)

Calm == Synchronous /\ Crashing = {} /\ MaxFailures = 0

\* The blocks that were ever submitted, and the genesis block.
Blocks == Public \cup inflight

\* A set of blocks with at most one of each number.
Line(P) == /\ \A a \in P : a.number \in Nat
           /\ \A a, b \in P : a.number = b.number => a = b

\* The blocks are one chain, and each was submitted when its parent was in
\* Avail.  An Avail block has at most one of them.
LineInv ==
    /\ Line(Blocks)
    /\ \A b \in inflight :
           b \notin Public /\ b.parent \in Public /\ b.number = b.parent.number + 1
    /\ \A i \in DOMAIN avail : Len(avail[i]) <= 1
    /\ \A i \in DOMAIN avail : \A b \in Range(avail[i]) :
           /\ b.number = b.parent.number + 1
           /\ b.parent = Genesis \/ \E j \in 1..i - 1 : b.parent \in Range(avail[j])

\* The head is the highest block of a store.
Topped(c) == c.head \in DOMAIN c.td /\ \A b \in DOMAIN c.td : b.number <= c.head.number

\* No block of the first i Avail blocks is above the head.
Covers(c, i) == \A j \in 1..i : \A b \in Range(avail[j]) : b.number <= c.head.number

\* How much of Avail a main loop has handled.
Handled(n) == IF pc[n] = "apply" THEN t[n] - 1 ELSE t[n]

Stored(n) ==
    /\ Topped(chain[n])
    /\ pc[n] = "down" => chain[n].head = Genesis
    /\ pc[n] # "down" => Covers(chain[n], Handled(n))
StoreInv == \A n \in Node : Stored(n)

\* A node that was in no list yet.
New(n) == n \notin Bootstrap /\ stakedAt[n] = Nil

\* How far a node is behind Avail and its list behind the window.  Only a new
\* one can have two Avail blocks before it, handle one that is not the latest,
\* or read the list elsewhere than at the first Avail block of a window.
Place(n) ==
    /\ pc[n] \in {"down", "staking", "recv", "apply", "query", "decide"}
    /\ pc[n] \in {"down", "staking"} => New(n) /\ cache[n].list = {}
    /\ pc[n] = "staking" => t[n] >= Len(avail) - 1
    /\ pc[n] = "recv" => \/ t[n] >= Len(avail) - 1
                         \/ t[n] >= Len(avail) - 2 /\ New(n)
    /\ pc[n] \in {"apply", "query", "decide"} => \/ t[n] = Len(avail)
                                                 \/ t[n] = Len(avail) - 1 /\ New(n)
    /\ pc[n] = "recv" => cache[n].seed = Seed(t[n]) \/ New(n)
    /\ pc[n] = "apply" => cache[n].seed = Seed(t[n] - 1) \/ New(n)
    /\ pc[n] = "query" => t[n] = WindowLen * Seed(t[n]) \/ New(n)
PlaceInv == failures = 0 /\ \A n \in Node : Place(n)

\* The highest block of the first i Avail blocks.
Top(b, i) ==
    /\ b = Genesis \/ \E j \in 1..i : b \in Range(avail[j])
    /\ \A j \in 1..i : \A a \in Range(avail[j]) : a.number <= b.number

\* A node in the list of this window and past the fence has the list of the
\* highest block up to the first Avail block of the window.
Eligible(n) ==
    /\ pc[n] \in {"recv", "apply", "decide"}
    /\ cache[n].seed = Seed(t[n])
    /\ n \in cache[n].list
    /\ ~Fenced(n, Since(n))
Roster(n) == Eligible(n) =>
    /\ cache[n].order = Seed(t[n])
    /\ \E b \in Public : Top(b, WindowLen * Seed(t[n])) /\ cache[n].list = b.active
RosterInv == \A n \in Node : Roster(n)

\* The writer of n has a block in the making that is not in Avail.
Making(n) == wpc[n] = "build" \/ (wpc[n] = "wait" /\ wblk[n] \in inflight)

\* The leader of the window of the latest Avail block.
Leads(n) ==
    /\ Eligible(n) /\ MyTurn(n, cache[n].order, cache[n].list)
    /\ Seed(t[n]) = Seed(Len(avail))

\* Only the leader makes a block, and only its own block is above its head.
Writes(n) ==
    /\ pc[n] = "down" => wpc[n] = "idle"
    /\ wpc[n] = "wait" => /\ wblk[n] \in Blocks \ {Genesis}
                          /\ wblk[n].number <= chain[n].head.number + 1
    /\ Making(n) => Leads(n)
    /\ enabled[n] \/ Making(n) => \A b \in Blocks :
           b.number <= chain[n].head.number \/ (wpc[n] = "wait" /\ b = wblk[n])
WriterInv ==
    /\ DOMAIN wblk = Node
    /\ \A b \in inflight : \E n \in Node : wpc[n] = "wait" /\ wblk[n] = b
    /\ \A n \in Node : Writes(n)

\* What the snapshotter recorded since the block with number k was built: if
\* anything, a head at k or above.
Record(d, k) ==
    \/ d.head = Nil /\ DOMAIN d.td = {}
    \/ Topped(d) /\ d.head.number >= k
Records(n) ==
    /\ wpc[n] = "wait" => /\ Record(changes[n], wblk[n].number)
                          /\ DOMAIN changes[n].td \subseteq DOMAIN chain[n].td
    /\ \A s \in snapshots[n] : Record(s, s.number)
RecordInv == \A n \in Node : Records(n)

TypeInv == AvailInv /\ ClockInv /\ PubInv /\ TurnInv
CalmInv == LineInv /\ StoreInv /\ PlaceInv /\ RosterInv /\ WriterInv /\ RecordInv

-----------------------------------------------------------------------------
(* Windows.                                                                *)

\* Division by the window length, from quotient and remainder.
LEMMA Quotient ==
    ASSUME NEW q \in Int, NEW r \in Int, 0 <= r, r < WindowLen,
           NEW i \in Int, i = WindowLen * q + r
    PROVE  Seed(i) = q
<1> DEFINE W == WindowLen
           p == i \div W
           u == i % W
<1>1. W \in Nat /\ W > 0
  BY ConstantAssumption
<1>2. p \in Int /\ u \in 0..W - 1 /\ i = W * p + u
  BY <1>1
<1> HIDE DEF p, u
<1>3. W * (p - q) = r - u
  BY <1>1, <1>2
<1>4. W * (p - q) < W /\ W * (p - q) > -W
  BY <1>1, <1>2, <1>3
<1> HIDE DEF W
<1>5. p - q < 1 /\ p - q > -1
  BY <1>1, <1>2, <1>4
<1>6. p = q
  BY <1>2, <1>5
<1> QED
  BY <1>6, Zenon DEF Seed, p, W

\* A window starts at or before each of its Avail blocks, and with the first
\* one that has another seed than the one before.
LEMMA WindowStart ==
    ASSUME NEW i \in Nat
    PROVE  /\ Seed(i) \in Int /\ WindowLen * Seed(i) \in Int /\ WindowLen * Seed(i) <= i
           /\ Seed(i - 1) # Seed(i) => i = WindowLen * Seed(i)
<1> DEFINE W == WindowLen
           q == i \div W
           r == i % W
<1>1. W \in Nat /\ W > 0
  BY ConstantAssumption
<1>2. q \in Int /\ r \in 0..W - 1 /\ i = W * q + r
  BY <1>1
<1>3. Seed(i) = q
  BY Zenon DEF Seed
<1> HIDE DEF q, r
<1>4. W * q \in Int
  BY <1>1, <1>2
<1>5. ASSUME r > 0 PROVE Seed(i - 1) = q
  <2> DEFINE j == i - 1
             s == r - 1
  <2>1. j \in Int /\ s \in Int /\ 0 <= s /\ s < W /\ j = W * q + s
    BY <1>1, <1>2, <1>4, <1>5
  <2> HIDE DEF j, s
  <2>2. Seed(j) = q
    BY <1>2, <2>1, Quotient, Zenon
  <2> QED
    BY <2>2, Zenon DEF j
<1>6. r = 0 => i = W * q
  BY <1>2, <1>4
<1> QED
  BY <1>2, <1>3, <1>4, <1>5, <1>6

-----------------------------------------------------------------------------
(* What a write does to a store when the blocks are one chain.             *)

\* One block, if any, became the head.
Grown(c, d) ==
    \/ d = c
    \/ \E b : DOMAIN d.td = DOMAIN c.td \cup {b} /\ d.head = b /\ b.number > c.head.number

\* Writing a block of a line to a store of it: the head stays the highest block.
LEMMA InsertOnLine ==
    ASSUME NEW P, Line(P), NEW c, Within(c, P), Topped(c),
           NEW b \in P, b.parent \in P, b.number = b.parent.number + 1
    PROVE  /\ Within(Insert(c, b), P) /\ Topped(Insert(c, b)) /\ Grown(c, Insert(c, b))
           /\ Insert(c, b).head.number >= c.head.number
           /\ b.parent.number <= c.head.number => b.number <= Insert(c, b).head.number
<1> DEFINE d == Insert(c, b)
           p == b.parent
<1>1. /\ c.head \in P /\ c.head.number \in Nat /\ b.number \in Nat /\ p.number \in Nat
      /\ b.number = p.number + 1
  BY Zenon DEF Line, Within, Topped
<1>2. p.number = c.head.number => p = c.head
  BY <1>1, Zenon DEF Line
<1>3. CASE b.number <= c.head.number \/ p \notin DOMAIN c.td
  <2>1. d = c
    BY <1>3, Zenon DEF Insert
  <2>2. p.number <= c.head.number => b.number <= c.head.number
    <3>1. p.number = c.head.number => p \in DOMAIN c.td
      BY <1>2, Zenon DEF Topped
    <3> QED
      BY <1>1, <1>3, <3>1
  <2> HIDE DEF d
  <2>3. Within(d, P) /\ Topped(d) /\ Grown(c, d) /\ d.head.number >= c.head.number
    BY <1>1, <2>1 DEF Grown
  <2> QED
    BY <2>1, <2>2, <2>3, Zenon DEF d
<1>4. CASE b.number > c.head.number /\ p \in DOMAIN c.td
  <2>1. p.number <= c.head.number
    BY <1>4, Zenon DEF Topped
  <2>2. p = c.head
    BY <1>1, <1>2, <1>4, <2>1
  <2>3. DOMAIN d.td = DOMAIN c.td \cup {b} /\ d.head = b
    <3>1. ~(b.number <= c.head.number \/ p \notin DOMAIN c.td)
      BY <1>1, <1>4
    <3>2. d = [td |-> Put(c.td, b, c.td[p] + b.difficulty), head |-> b]
      BY <2>2, <3>1, Zenon DEF Insert
    <3> HIDE DEF d
    <3> QED
      BY <3>2, Zenon DEF Put
  <2> HIDE DEF d
  <2>4. Within(d, P)
    BY <2>3, Zenon DEF Within
  <2>5. Topped(d)
    <3>1. ASSUME NEW a \in DOMAIN c.td PROVE a.number <= b.number
      <4>1. a.number \in Nat /\ a.number <= c.head.number
        BY Zenon DEF Topped, Within, Line
      <4> QED
        BY <1>1, <1>4, <4>1
    <3> QED
      BY <1>1, <2>3, <3>1 DEF Topped
  <2>6. Grown(c, d)
    BY <1>4, <2>3, Zenon DEF Grown
  <2>7. d.head.number >= c.head.number /\ b.number <= d.head.number
    BY <1>1, <1>4, <2>3
  <2> QED
    BY <2>4, <2>5, <2>6, <2>7, Zenon DEF d
<1> QED
  BY <1>1, <1>3, <1>4

\* Where an Avail block has at most one edge block.
LEMMA WriteAtMostOne ==
    ASSUME NEW c, NEW bs, Len(bs) \in Nat, Len(bs) <= 1
    PROVE  WriteAll(c, bs) = IF Len(bs) = 0 THEN c ELSE Insert(c, bs[1])
<1> DEFINE Steps(w) ==
               w = [j \in 0..Len(bs) |-> IF j = 0 THEN c ELSE Insert(w[j - 1], bs[j])]
           u == [j \in 0..Len(bs) |-> IF j = 0 THEN c ELSE Insert(c, bs[1])]
           after == CHOOSE w : Steps(w)
<1>1. Steps(u)
  <2>1. ASSUME NEW j \in 0..Len(bs)
        PROVE  u[j] = IF j = 0 THEN c ELSE Insert(u[j - 1], bs[j])
    <3>1. CASE j = 0
      BY <3>1, Zenon
    <3>2. CASE j # 0
      <4>1. j = 1
        BY <3>2
      <4>2. u[0] = c /\ u[1] = Insert(c, bs[1])
        BY <4>1
      <4> QED
        BY <4>1, <4>2
    <3> QED
      BY <3>1, <3>2, Zenon
  <2> QED
    BY <2>1, Zenon
<1>2. Steps(after)
  <2> HIDE DEF Steps, u
  <2> QED
    BY <1>1, Zenon
<1>3. WriteAll(c, bs) = after[Len(bs)]
  BY Zenon DEF WriteAll
<1> HIDE DEF after
<1>4. CASE Len(bs) = 0
  BY <1>2, <1>3, <1>4
<1>5. CASE Len(bs) = 1
  <2>1. after[0] = c
    BY <1>2, <1>5
  <2>2. after[1] = Insert(after[0], bs[1])
    BY <1>2, <1>5
  <2> QED
    BY <1>3, <1>5, <2>1, <2>2, Zenon
<1> HIDE DEF Steps, u
<1>6. \A k \in Nat : k <= 1 => k = 0 \/ k = 1
  OBVIOUS
<1> QED
  BY <1>4, <1>5, <1>6, Zenon

\* What LineInv says of blocks in Avail and of those on their way.
LEMMA BlocksOnLine ==
    ASSUME AvailInv, LineInv
    PROVE  /\ Line(Public) /\ Genesis \in Public /\ Genesis.number = 0
           /\ \A i \in 1..Len(avail) : \A b \in Range(avail[i]) : b \in Public
           /\ \A b \in Blocks \ {Genesis} : b.parent \in Public /\ b.number = b.parent.number + 1
<1>1. Len(avail) \in Nat /\ DOMAIN avail = 1..Len(avail)
  BY AvailFacts, Zenon
<1>2. Line(Public)
  BY Zenon DEF LineInv, Line, Blocks
<1>3. Genesis \in Public /\ Genesis.number = 0
  BY Zenon DEF Public, Genesis
<1>4. ASSUME NEW i \in 1..Len(avail), NEW b \in Range(avail[i]) PROVE b \in Public
  BY <1>1, Zenon DEF Public
<1>5. ASSUME NEW b \in Blocks \ {Genesis}
      PROVE  b.parent \in Public /\ b.number = b.parent.number + 1
  <2>1. CASE b \in inflight
    BY <2>1, Zenon DEF LineInv
  <2>2. CASE b \notin inflight
    <3>1. PICK i \in DOMAIN avail : b \in Range(avail[i])
      BY <2>2, Zenon DEF Blocks, Public
    <3>2. /\ b.number = b.parent.number + 1
          /\ b.parent = Genesis \/ \E j \in 1..i - 1 : b.parent \in Range(avail[j])
      BY <3>1, Zenon DEF LineInv
    <3>3. \A j \in 1..i - 1 : j \in 1..Len(avail)
      BY <1>1
    <3> QED
      BY <1>3, <1>4, <3>2, <3>3, Zenon
  <2> QED
    BY <2>1, <2>2, Zenon
<1> QED
  BY <1>2, <1>3, <1>4, <1>5, Zenon

\* A higher head covers as much.
LEMMA CoversMore ==
    ASSUME AvailInv, LineInv, NEW c, NEW d, NEW i \in Int, i <= Len(avail), Covers(c, i),
           c.head.number \in Nat, d.head.number \in Nat, d.head.number >= c.head.number
    PROVE  Covers(d, i)
<1> SUFFICES ASSUME NEW j \in 1..i, NEW b \in Range(avail[j]) PROVE b.number <= d.head.number
  BY Zenon DEF Covers
<1>1. j \in 1..Len(avail)
  BY AvailFacts
<1>2. b.number \in Nat
  BY <1>1, BlocksOnLine, Zenon DEF Line
<1>3. b.number <= c.head.number
  BY Zenon DEF Covers
<1> QED
  BY <1>2, <1>3

\* The next Avail block is handled.
LEMMA WriteOnLine ==
    ASSUME AvailInv, LineInv, NEW c, Within(c, Public), Topped(c),
           NEW i \in 1..Len(avail), Covers(c, i - 1)
    PROVE  LET d == WriteAll(c, avail[i])
           IN  /\ Within(d, Public) /\ Topped(d) /\ Grown(c, d) /\ Covers(d, i)
               /\ d.head.number >= c.head.number
<1> DEFINE d == WriteAll(c, avail[i])
<1>1. /\ Len(avail) \in Nat /\ DOMAIN avail = 1..Len(avail)
      /\ Len(avail[i]) \in Nat /\ DOMAIN avail[i] = 1..Len(avail[i])
  BY AvailFacts, Zenon
<1>2. Len(avail[i]) <= 1
  BY <1>1, Zenon DEF LineInv
<1>3. d = IF Len(avail[i]) = 0 THEN c ELSE Insert(c, avail[i][1])
  BY <1>1, <1>2, WriteAtMostOne, Zenon
<1> HIDE DEF d
<1>4. c.head \in Public /\ c.head.number \in Nat
  BY BlocksOnLine, Zenon DEF Within, Topped, Line
<1>5. ASSUME NEW e, Within(e, Public), Topped(e), e.head.number >= c.head.number,
             \A b \in Range(avail[i]) : b.number <= e.head.number
      PROVE  Covers(e, i)
  <2>1. e.head.number \in Nat
    BY <1>5, BlocksOnLine, Zenon DEF Within, Topped, Line
  <2>2. Covers(e, i - 1)
    <3>1. i - 1 \in Int /\ i - 1 <= Len(avail)
      BY <1>1
    <3> QED
      BY <1>4, <1>5, <2>1, <3>1, CoversMore, Zenon
  <2> QED
    BY <1>5, <2>2 DEF Covers
<1>6. CASE Len(avail[i]) = 0
  <2>1. d = c
    BY <1>3, <1>6, Zenon
  <2>2. Range(avail[i]) = {}
    BY <1>1, <1>6 DEF Range
  <2>3. c.head.number >= c.head.number /\ Grown(c, c)
    BY <1>4 DEF Grown
  <2> QED
    BY <1>5, <2>1, <2>2, <2>3, Zenon DEF d
<1>7. CASE Len(avail[i]) # 0
  <2> DEFINE b == avail[i][1]
  <2>1. Len(avail[i]) = 1 /\ DOMAIN avail[i] = {1}
    BY <1>1, <1>2, <1>7
  <2>2. Range(avail[i]) = {b}
    BY <2>1, Zenon DEF Range
  <2>3. d = Insert(c, b)
    BY <1>3, <1>7, Zenon
  <2> HIDE DEF b
  <2>4. /\ b.number = b.parent.number + 1
        /\ b.parent = Genesis \/ \E j \in 1..i - 1 : b.parent \in Range(avail[j])
    BY <1>1, <2>2, Zenon DEF LineInv
  <2>5. b \in Public /\ b.parent \in Public
    <3>1. \A j \in 1..i - 1 : j \in 1..Len(avail)
      BY <1>1
    <3> QED
      BY <2>2, <2>4, <3>1, BlocksOnLine, Zenon
  <2>6. b.parent.number <= c.head.number
    <3>1. CASE b.parent = Genesis
      BY <1>4, <3>1, BlocksOnLine
    <3>2. CASE b.parent # Genesis
      BY <2>4, <3>2, Zenon DEF Covers
    <3> QED
      BY <3>1, <3>2, Zenon
  <2>7. /\ Within(d, Public) /\ Topped(d) /\ Grown(c, d)
        /\ d.head.number >= c.head.number /\ b.number <= d.head.number
    BY <2>3, <2>4, <2>5, <2>6, BlocksOnLine, InsertOnLine, Zenon
  <2>8. Covers(d, i)
    BY <1>5, <2>2, <2>7, Zenon
  <2> QED
    BY <2>7, <2>8, Zenon DEF d
<1> QED
  BY <1>6, <1>7, Zenon

\* A node that starts handles all of Avail.
LEMMA ReplayOnLine ==
    ASSUME AvailInv, LineInv, NEW c, Within(c, Public), Topped(c)
    PROVE  LET d == Replay(c, 1)
           IN  Within(d, Public) /\ Topped(d) /\ Covers(d, Len(avail))
<1>1. Len(avail) \in Nat
  BY AvailFacts, Zenon
<1>2. PICK after : /\ Replay(c, 1) = after[Len(avail)] /\ after[0] = c
                   /\ \A i \in 1..Len(avail) :
                          after[i] = IF i < 1 THEN c ELSE WriteAll(after[i - 1], avail[i])
  BY <1>1, ReplayUnfolds, SMTT(30)
<1> DEFINE Well(i) == Within(after[i], Public) /\ Topped(after[i]) /\ Covers(after[i], i)
           Good == {i \in Nat : i <= Len(avail) => Well(i)}
<1>3. 0 \in Good
  BY <1>2 DEF Covers
<1>4. ASSUME NEW k \in Nat, k \in Good PROVE k + 1 \in Good
  <2>1. SUFFICES ASSUME k + 1 <= Len(avail) PROVE Well(k + 1)
    OBVIOUS
  <2>2. Well(k)
    BY <1>1, <1>4, <2>1, SMTT(30)
  <2>3. k + 1 \in 1..Len(avail) /\ (k + 1) - 1 = k
    BY <1>1, <2>1
  <2>4. after[k + 1] = WriteAll(after[k], avail[k + 1])
    BY <1>2, <2>3
  <2> QED
    BY <2>2, <2>3, <2>4, WriteOnLine, Zenon
<1>5. Nat \subseteq Good
  <2> HIDE DEF Good
  <2> QED
    BY <1>3, <1>4, NumberInduction, Zenon
<1>6. Well(Len(avail))
  BY <1>1, <1>5
<1> QED
  BY <1>2, <1>6, Zenon

\* The snapshotter follows the head.
LEMMA RecordedOnLine ==
    ASSUME NEW P, Line(P), NEW c, Within(c, P), Topped(c), NEW new, Within(new, P), Topped(new),
           Grown(c, new), NEW k \in Nat, k <= c.head.number + 1,
           NEW d, Record(d, k), DOMAIN d.td \subseteq DOMAIN c.td
    PROVE  /\ Record(Recorded(d, c, new), k)
           /\ DOMAIN Recorded(d, c, new).td \subseteq DOMAIN new.td
<1> DEFINE r == Recorded(d, c, new)
<1>1. /\ DOMAIN r.td = DOMAIN d.td \cup (DOMAIN new.td \ DOMAIN c.td)
      /\ r.head = IF new.head # c.head THEN new.head ELSE d.head
  BY Zenon DEF Recorded
<1> HIDE DEF r
<1>2. \A a \in P : a.number \in Nat
  BY Zenon DEF Line
<1>3. CASE new = c
  <2>1. DOMAIN r.td = DOMAIN d.td /\ r.head = d.head
    BY <1>1, <1>3, Zenon
  <2> QED
    BY <1>3, <2>1, Zenon DEF Record, Topped, r
<1>4. CASE new # c
  <2>1. PICK b : DOMAIN new.td = DOMAIN c.td \cup {b} /\ new.head = b /\ b.number > c.head.number
    BY <1>4, Zenon DEF Grown
  <2>2. b \in P /\ c.head \in P
    BY <2>1, Zenon DEF Within, Topped
  <2>3. b.number \in Nat /\ c.head.number \in Nat
    BY <1>2, <2>2, Zenon
  <2>4. b # c.head /\ b \notin DOMAIN c.td
    BY <2>1, <2>3 DEF Topped
  <2>5. DOMAIN r.td = DOMAIN d.td \cup {b} /\ r.head = b
    BY <1>1, <2>1, <2>4, Zenon
  <2>6. ASSUME NEW a \in DOMAIN d.td PROVE a.number <= b.number
    <3>1. a \in DOMAIN c.td /\ a \in P
      BY Zenon DEF Within
    <3>2. a.number \in Nat /\ a.number <= c.head.number
      BY <1>2, <3>1, Zenon DEF Topped
    <3> QED
      BY <2>1, <2>3, <3>2
  <2>7. Topped(r)
    BY <2>3, <2>5, <2>6, SMTT(30) DEF Topped
  <2>8. r.head.number >= k
    BY <2>1, <2>3, <2>5, SMTT(30)
  <2> QED
    BY <2>1, <2>5, <2>7, <2>8, Zenon DEF Record, r
<1> QED
  BY <1>3, <1>4, Zenon

-----------------------------------------------------------------------------
(* One leader.                                                             *)

\* On a line there is one highest block.
LEMMA TopUnique ==
    ASSUME AvailInv, LineInv, NEW i \in Int, i <= Len(avail), NEW a, NEW b, Top(a, i), Top(b, i)
    PROVE  a = b
<1>1. /\ Len(avail) \in Nat /\ Line(Public) /\ Genesis \in Public /\ Genesis.number = 0
      /\ \A j \in 1..Len(avail) : \A e \in Range(avail[j]) : e \in Public
  BY AvailFacts, BlocksOnLine, Zenon
<1>2. \A j \in 1..i : j \in 1..Len(avail)
  BY <1>1
<1>3. a \in Public /\ b \in Public
  BY <1>1, <1>2, Zenon DEF Top
<1>4. a.number \in Nat /\ b.number \in Nat
  BY <1>1, <1>3, Zenon DEF Line
<1>5. a.number <= b.number
  BY <1>1, <1>4 DEF Top
<1>6. b.number <= a.number
  BY <1>1, <1>4 DEF Top
<1> QED
  BY <1>1, <1>3, <1>4, <1>5, <1>6, SMTT(30) DEF Line

\* Two nodes whose turn it is in one window are the same node.
LEMMA OneLeader ==
    ASSUME TypeInv, CalmInv, NEW m \in Node, NEW n \in Node, Eligible(m), Eligible(n),
           MyTurn(m, cache[m].order, cache[m].list), MyTurn(n, cache[n].order, cache[n].list),
           Seed(t[m]) = Seed(t[n])
    PROVE  m = n
<1> DEFINE i == WindowLen * Seed(t[n])
<1>1. i \in Int /\ i <= Len(avail)
  <2>1. t[n] \in Nat /\ t[n] <= Len(avail) /\ Len(avail) \in Nat
    BY AvailFacts, Zenon DEF TypeInv, ClockInv
  <2> QED
    BY <2>1, WindowStart, SMTT(30)
<1>2. PICK a : Top(a, i) /\ cache[m].list = a.active
  BY Zenon DEF CalmInv, RosterInv, Roster
<1>3. PICK b : Top(b, i) /\ cache[n].list = b.active
  BY Zenon DEF CalmInv, RosterInv, Roster
<1> HIDE DEF i
<1>4. a = b
  BY <1>1, <1>2, <1>3, TopUnique, Zenon DEF TypeInv, CalmInv
<1>5. cache[m].order = cache[n].order
  BY Zenon DEF CalmInv, RosterInv, Roster
<1> QED
  BY <1>2, <1>3, <1>4, <1>5, Zenon DEF MyTurn

\* A new node is behind the fence.
LEMMA NewIsFenced ==
    ASSUME NEW n \in Node, New(n)
    PROVE  ~Eligible(n)
BY Zenon DEF New, Eligible, Fenced, Since

\* Whoever may make blocks or has one in the making is the leader.
LEMMA EnabledLeads ==
    ASSUME TypeInv, CalmInv, NEW n \in Node, enabled[n] \/ Making(n)
    PROVE  Leads(n)
<1>1. CASE Making(n)
  BY <1>1, Zenon DEF CalmInv, WriterInv, Writes
<1>2. CASE enabled[n]
  <2>1. On(n)
    BY <1>2, Zenon DEF TypeInv, TurnInv
  <2>2. Eligible(n) /\ MyTurn(n, cache[n].order, cache[n].list)
    BY <2>1, Zenon DEF On, Eligible
  <2>3. ~New(n)
    BY <2>2, NewIsFenced, Zenon
  <2>4. t[n] \in Nat /\ t[n] <= Len(avail) /\ Len(avail) \in Nat
    BY AvailFacts, Zenon DEF TypeInv, ClockInv
  <2>5. t[n] = Len(avail) \/ (t[n] = Len(avail) - 1 /\ pc[n] = "recv")
    <3>1. Place(n)
      BY Zenon DEF CalmInv, PlaceInv
    <3>2. pc[n] \in {"recv", "apply", "decide"}
      BY <2>1, Zenon DEF On
    <3> QED
      BY <2>3, <2>4, <3>1, <3>2 DEF Place
  <2>6. Seed(t[n]) = Seed(Len(avail))
    <3>1. CASE t[n] = Len(avail)
      BY <3>1, Zenon
    <3>2. CASE t[n] = Len(avail) - 1 /\ pc[n] = "recv"
      <4>1. t[n] % WindowLen < WindowLen - 1 /\ t[n] + 1 = Len(avail)
        BY <2>1, <2>4, <3>2 DEF On
      <4>2. Seed(t[n] + 1) = Seed(t[n])
        BY <2>4, <4>1, SameWindow, Zenon
      <4> QED
        BY <4>1, <4>2, Zenon
    <3> QED
      BY <2>5, <3>1, <3>2, Zenon
  <2> QED
    BY <2>2, <2>6, Zenon DEF Leads
<1> QED
  BY <1>1, <1>2, Zenon

\* So one node at most is allowed to produce or has a block in the making, and
\* one block at most is on its way.
LEMMA OneWriter ==
    ASSUME TypeInv, CalmInv
    PROVE  /\ \A m, n \in Node : Leads(m) /\ Leads(n) => m = n
           /\ \A m, n \in Node : (enabled[m] \/ Making(m)) /\ (enabled[n] \/ Making(n)) => m = n
           /\ \A a, b \in inflight : a = b
<1>1. ASSUME NEW m \in Node, NEW n \in Node, Leads(m), Leads(n) PROVE m = n
  BY <1>1, OneLeader, Zenon DEF Leads
<1>2. ASSUME NEW m \in Node, NEW n \in Node, enabled[m] \/ Making(m), enabled[n] \/ Making(n)
      PROVE  m = n
  BY <1>1, <1>2, EnabledLeads, Zenon
<1>3. ASSUME NEW a \in inflight, NEW b \in inflight PROVE a = b
  <2>1. PICK m \in Node : wpc[m] = "wait" /\ wblk[m] = a
    BY Zenon DEF CalmInv, WriterInv
  <2>2. PICK n \in Node : wpc[n] = "wait" /\ wblk[n] = b
    BY Zenon DEF CalmInv, WriterInv
  <2>3. Making(m) /\ Making(n)
    BY <2>1, <2>2, Zenon DEF Making
  <2> QED
    BY <1>2, <2>1, <2>2, <2>3, Zenon
<1> QED
  BY <1>1, <1>2, <1>3, Zenon

-----------------------------------------------------------------------------
(* What a step leaves as it is.                                            *)

\* The main loop of m makes no move.
LoopSame(m) ==
    pc'[m] = pc[m] /\ t'[m] = t[m] /\ cache'[m] = cache[m] /\ stakedAt'[m] = stakedAt[m]

\* A main loop that does not move keeps its place, its list and its turn.
LEMMA LoopFrame ==
    ASSUME NEW m \in Node, LoopSame(m), UNCHANGED avail
    PROVE  /\ Place(m) => Place(m)'
           /\ Eligible(m)' <=> Eligible(m)
           /\ Roster(m) => Roster(m)'
           /\ Leads(m) => Leads(m)'
<1>1. Fenced(m, Since(m))' <=> Fenced(m, Since(m))
  BY Zenon DEF LoopSame, Fenced, Since, Seed
<1>2. Eligible(m)' <=> Eligible(m)
  BY <1>1, Zenon DEF LoopSame, Eligible, Seed
<1>3. Place(m) => Place(m)'
  BY Zenon DEF LoopSame, Place, New, Seed
<1>4. Roster(m) => Roster(m)'
  BY <1>2, Zenon DEF LoopSame, Roster, Top, Seed, Public
<1>5. Leads(m) => Leads(m)'
  BY <1>2, Zenon DEF LoopSame, Leads, MyTurn, Seed
<1> QED
  BY <1>2, <1>3, <1>4, <1>5, Zenon

\* Where one main loop moves.
LEMMA LoopStep ==
    ASSUME PlaceInv, RosterInv, NEW n \in Node, \A m \in Node \ {n} : LoopSame(m),
           UNCHANGED <<avail, failures>>, Place(n)', Roster(n)'
    PROVE  PlaceInv' /\ RosterInv'
<1>1. ASSUME NEW m \in Node PROVE Place(m)' /\ Roster(m)'
  <2>1. CASE m = n
    BY <2>1, Zenon
  <2>2. CASE m # n
    BY <2>2, LoopFrame, Zenon DEF PlaceInv, RosterInv
  <2> QED
    BY <2>1, <2>2, Zenon
<1> QED
  BY <1>1, Zenon DEF PlaceInv, RosterInv

\* The heads go up and no writer moves.  Who comes to be enabled has no foreign
\* block above its head.
LEMMA WriterFrame ==
    ASSUME TypeInv, LineInv, StoreInv, WriterInv, UNCHANGED <<avail, inflight, wpc, wblk>>,
           \A m \in Node : /\ chain'[m].head.number \in Nat
                           /\ chain'[m].head.number >= chain[m].head.number
                           /\ pc'[m] = "down" => pc[m] = "down"
                           /\ Making(m) => Leads(m)'
                           /\ enabled'[m] => \/ enabled[m] \/ Making(m)
                                             \/ \A b \in Blocks : \/ b.number <= chain[m].head.number
                                                                  \/ wpc[m] = "wait" /\ b = wblk[m]
    PROVE  WriterInv'
<1>1. Blocks' = Blocks
  BY Zenon DEF Blocks, Public
<1>2. ASSUME NEW m \in Node PROVE Writes(m)'
  <2>1. Writes(m) /\ (Making(m)' <=> Making(m))
    BY Zenon DEF WriterInv, Making
  <2>2. chain[m].head.number \in Nat /\ \A b \in Blocks : b.number \in Nat
    BY BlocksOnLine, Zenon DEF TypeInv, StoreInv, Stored, Topped, PubInv, Within, Line, LineInv
  <2>3. wpc'[m] = "wait" => /\ wblk'[m] \in Blocks' \ {Genesis}
                            /\ wblk'[m].number <= chain'[m].head.number + 1
    BY <1>1, <2>1, <2>2, SMTT(30) DEF Writes
  <2>4. ASSUME enabled'[m] \/ Making(m)', NEW b \in Blocks'
        PROVE  b.number <= chain'[m].head.number \/ (wpc'[m] = "wait" /\ b = wblk'[m])
    <3>1. b \in Blocks /\ b.number \in Nat
      BY <1>1, <2>2, Zenon
    <3>2. b.number <= chain[m].head.number \/ (wpc[m] = "wait" /\ b = wblk[m])
      BY <2>1, <2>4, <3>1, Zenon DEF Writes
    <3> QED
      BY <2>2, <3>1, <3>2, SMTT(30)
  <2>5. /\ pc'[m] = "down" => wpc'[m] = "idle"
        /\ Making(m)' => Leads(m)'
    BY <2>1, Zenon DEF Writes
  <2> QED
    BY <2>3, <2>4, <2>5, Zenon DEF Writes
<1>3. /\ DOMAIN wblk' = Node
      /\ \A b \in inflight' : \E n \in Node : wpc'[n] = "wait" /\ wblk'[n] = b
  BY SMTT(30) DEF WriterInv
<1> QED
  BY <1>2, <1>3, Zenon DEF WriterInv

\* Avail and the blocks on their way do not move.
LEMMA LineFrame ==
    ASSUME LineInv, UNCHANGED <<avail, inflight>>
    PROVE  LineInv'
BY DEF LineInv, Line, Blocks, Public

\* Stores, snapshots and writers that do not move.
LEMMA RecordFrame ==
    ASSUME RecordInv, UNCHANGED <<chain, snapshots, wpc, wblk, changes>>
    PROVE  RecordInv'
BY Zenon DEF RecordInv, Records, Record, Topped

\* A store that does not move.
LEMMA StoreFrame ==
    ASSUME NEW m \in Node, Stored(m), chain'[m] = chain[m], pc'[m] = pc[m], t'[m] = t[m],
           UNCHANGED avail
    PROVE  Stored(m)'
BY Zenon DEF Stored, Topped, Covers, Handled

-----------------------------------------------------------------------------
(* The steps of the main loop.                                             *)

\* The invariant spelled out for one node.
LEMMA CalmTypes ==
    ASSUME TypeInv, CalmInv, NEW n \in Node
    PROVE  /\ Len(avail) \in Nat /\ DOMAIN avail = 1..Len(avail)
           /\ t[n] \in Nat /\ t[n] <= Len(avail)
           /\ Within(chain[n], Public) /\ Topped(chain[n])
           /\ chain[n].head \in Public /\ chain[n].head.number \in Nat
           /\ Place(n) /\ Stored(n) /\ Roster(n) /\ Writes(n) /\ Records(n)
<1>1. Len(avail) \in Nat /\ DOMAIN avail = 1..Len(avail)
  BY AvailFacts, Zenon DEF TypeInv
<1>2. t[n] \in Nat /\ t[n] <= Len(avail)
  BY Zenon DEF TypeInv, ClockInv
<1>3. Place(n) /\ Stored(n) /\ Roster(n) /\ Writes(n) /\ Records(n)
  BY Zenon DEF CalmInv, PlaceInv, StoreInv, RosterInv, WriterInv, RecordInv
<1>4. Within(chain[n], Public) /\ Topped(chain[n])
  BY <1>3, Zenon DEF TypeInv, PubInv, Stored
<1>5. chain[n].head \in Public
  BY <1>4, Zenon DEF Within, Topped
<1>6. chain[n].head.number \in Nat
  BY <1>5, BlocksOnLine, Zenon DEF TypeInv, CalmInv, Line
<1> QED
  BY <1>1, <1>2, <1>3, <1>4, <1>5, <1>6, Zenon

\* A move of a main loop that writes to no store.
LEMMA QuietStep ==
    ASSUME TypeInv, CalmInv, NEW n \in Node, \A m \in Node \ {n} : LoopSame(m),
           UNCHANGED <<net, chain, writer, failures>>,
           \A m \in Node \ {n} : enabled'[m] = enabled[m],
           pc[n] # "down", pc'[n] # "down", Covers(chain[n], Handled(n)'),
           Place(n)', Roster(n)', Making(n) => Leads(n)',
           enabled'[n] => \/ enabled[n] \/ Making(n)
                          \/ \A b \in Blocks : \/ b.number <= chain[n].head.number
                                               \/ wpc[n] = "wait" /\ b = wblk[n]
    PROVE  CalmInv'
<1>1. UNCHANGED <<avail, inflight, snapshots, chain, wpc, wblk, changes, failures>>
  BY Zenon DEF net, writer
<1>2. LineInv' /\ RecordInv'
  BY <1>1, LineFrame, RecordFrame, Zenon DEF CalmInv
<1>3. PlaceInv' /\ RosterInv'
  BY <1>1, LoopStep, Zenon DEF CalmInv
<1>4. StoreInv'
  <2>1. ASSUME NEW m \in Node PROVE Stored(m)'
    <3>1. CASE m = n
      BY <1>1, <3>1, CalmTypes, Zenon DEF Stored, Topped, Covers
    <3>2. CASE m # n
      BY <1>1, <3>2, StoreFrame, CalmTypes, Zenon DEF LoopSame
    <3> QED
      BY <3>1, <3>2, Zenon
  <2> QED
    BY <2>1, Zenon DEF StoreInv
<1>5. ASSUME NEW m \in Node
      PROVE  /\ chain'[m].head.number \in Nat
             /\ chain'[m].head.number >= chain[m].head.number
             /\ pc'[m] = "down" => pc[m] = "down"
             /\ Making(m) => Leads(m)'
             /\ enabled'[m] => \/ enabled[m] \/ Making(m)
                               \/ \A b \in Blocks : \/ b.number <= chain[m].head.number
                                                    \/ wpc[m] = "wait" /\ b = wblk[m]
  <2>1. chain'[m].head.number \in Nat /\ chain'[m].head.number >= chain[m].head.number
    <3>1. chain[m].head.number \in Nat
      BY CalmTypes, Zenon
    <3>2. chain'[m].head.number = chain[m].head.number
      BY <1>1, ZenonT(30)
    <3>3. \A i \in Nat : i >= i
      OBVIOUS
    <3> QED
      BY <3>1, <3>2, <3>3, Zenon
  <2>2. CASE m = n
    BY <2>1, <2>2, Zenon
  <2>3. CASE m # n
    <3>1. LoopSame(m) /\ enabled'[m] = enabled[m]
      BY <2>3, Zenon
    <3>2. Making(m) => Leads(m)
      BY CalmTypes, Zenon DEF Writes
    <3>3. Leads(m) => Leads(m)'
      BY <1>1, <3>1, LoopFrame, Zenon
    <3> QED
      BY <2>1, <3>1, <3>2, <3>3, Zenon DEF LoopSame
  <2> QED
    BY <2>2, <2>3, Zenon
<1>6. WriterInv'
  BY <1>1, <1>5, WriterFrame, Zenon DEF CalmInv
<1> QED
  BY <1>2, <1>3, <1>4, <1>6, Zenon DEF CalmInv

\* The main loop takes the next Avail block; it has not handled it yet.
LEMMA ReceiveStep ==
    ASSUME TypeInv, CalmInv, NEW n \in Node, Receive(n)
    PROVE  CalmInv'
<1>1. /\ pc[n] = "recv" /\ t[n] < Len(avail)
      /\ pc' = [pc EXCEPT ![n] = "apply"] /\ t' = [t EXCEPT ![n] = t[n] + 1]
      /\ UNCHANGED <<net, chain, cache, enabled, stakedAt, writer, failures>>
  BY Zenon DEF Receive, bounds
<1>2. pc'[n] = "apply" /\ t'[n] = t[n] + 1 /\ UNCHANGED avail
  BY <1>1, Zenon DEF TypeInv, ClockInv, net
<1>3. Place(n) /\ Len(avail) \in Nat /\ t[n] \in Nat
  BY CalmTypes, Zenon
<1>4. New(n)' <=> New(n)
  BY <1>1, Zenon DEF New
<1>5. Place(n)'
  <2>1. t[n] + 1 = Len(avail) \/ (t[n] + 1 = Len(avail) - 1 /\ New(n))
    BY <1>1, <1>3, SMTT(30) DEF Place
  <2>2. cache[n].seed = Seed(t[n]) \/ New(n)
    BY <1>1, <1>3, ZenonT(30) DEF Place
  <2>3. t'[n] - 1 = t[n]
    BY <1>2, <1>3, SMTT(30)
  <2> QED
    BY <1>1, <1>2, <1>4, <2>1, <2>2, <2>3, ZenonT(30) DEF Place, Seed
\* Within a window nothing changes for a node that is not new.
<1>6. ASSUME ~New(n), Seed(t[n] + 1) = Seed(t[n]) PROVE Eligible(n)' <=> Eligible(n)
  <2>1. Fenced(n, Since(n))' <=> Fenced(n, Since(n))
    BY <1>1, <1>2, <1>6, SMTT(30) DEF New, Fenced, Since, Seed
  <2> QED
    BY <1>1, <1>2, <1>6, <2>1, ZenonT(30) DEF Eligible, Seed
<1>7. Roster(n)'
  <2>1. SUFFICES ASSUME Eligible(n)'
                 PROVE  /\ cache[n].order = Seed(t[n] + 1)
                        /\ \E b \in Public : /\ Top(b, WindowLen * Seed(t[n] + 1))
                                             /\ cache[n].list = b.active
    BY <1>1, <1>2, ZenonT(30) DEF Roster, Top, Public, Seed
  <2>2. ~New(n)
    BY <1>1, <1>2, <2>1, Zenon DEF New, Eligible, Fenced, Since, Seed
  <2>3. cache[n].seed = Seed(t[n] + 1)
    BY <1>1, <1>2, <2>1, Zenon DEF Eligible, Seed
  <2>4. Seed(t[n] + 1) = Seed(t[n])
    BY <1>1, <1>3, <2>2, <2>3, Zenon DEF Place
  <2>5. Eligible(n)
    BY <1>6, <2>1, <2>2, <2>4, Zenon
  <2> QED
    BY <2>4, <2>5, CalmTypes, Zenon DEF Roster
<1>8. ASSUME Making(n) PROVE Leads(n)'
  <2>1. Leads(n) /\ ~New(n)
    BY <1>8, CalmTypes, NewIsFenced, Zenon DEF Writes, Leads
  <2>2. t[n] + 1 = Len(avail)
    BY <1>1, <1>3, <2>1 DEF Place
  <2>3. Seed(t[n] + 1) = Seed(t[n])
    BY <2>1, <2>2, Zenon DEF Leads
  <2>4. Eligible(n)'
    BY <1>6, <2>1, <2>3, Zenon DEF Leads
  <2> QED
    BY <1>1, <1>2, <2>1, <2>2, <2>4, Zenon DEF Leads, MyTurn, Seed
<1>9. Covers(chain[n], Handled(n)')
  <2>1. Handled(n)' = t[n] /\ Handled(n) = t[n]
    BY <1>1, <1>2, <1>3 DEF Handled
  <2>2. Covers(chain[n], Handled(n))
    BY <1>1, CalmTypes, Zenon DEF Stored
  <2> QED
    BY <2>1, <2>2, Zenon
<1>10. \A m \in Node \ {n} : LoopSame(m) /\ enabled'[m] = enabled[m]
  BY <1>1, Zenon DEF LoopSame, TypeInv, ClockInv
<1> QED
  BY <1>1, <1>2, <1>5, <1>7, <1>8, <1>9, <1>10, QuietStep, Zenon

\* The list is read at the first Avail block of the window, or by a new node.
LEMMA QueryStep ==
    ASSUME TypeInv, CalmInv, NEW n \in Node, Query(n)
    PROVE  CalmInv'
<1>1. /\ pc[n] = "query" /\ pc' = [pc EXCEPT ![n] = "decide"]
      /\ cache' = [cache EXCEPT ![n].list = chain[n].head.active, ![n].order = Seed(t[n])]
      /\ UNCHANGED <<net, chain, t, enabled, stakedAt, writer, failures>>
  BY Zenon DEF Query, bounds
<1>2. pc'[n] = "decide" /\ UNCHANGED avail
  BY <1>1, Zenon DEF TypeInv, ClockInv, net
<1>3. /\ cache'[n].list = chain[n].head.active /\ cache'[n].order = Seed(t[n])
      /\ cache'[n].seed = cache[n].seed
  BY <1>1 DEF TypeInv, TurnInv
<1>4. Place(n) /\ Stored(n) /\ Len(avail) \in Nat /\ t[n] \in Nat
  BY CalmTypes, Zenon
<1>5. Place(n)'
  BY <1>1, <1>2, <1>4, Zenon DEF Place, New
<1>6. Covers(chain[n], t[n]) /\ Handled(n)' = t[n]
  BY <1>1, <1>2, <1>4, Zenon DEF Stored, Handled
<1>7. Roster(n)'
  <2>1. SUFFICES ASSUME Eligible(n)'
                 PROVE  \E b \in Public : /\ Top(b, WindowLen * Seed(t[n]))
                                          /\ chain[n].head.active = b.active
    BY <1>1, <1>2, <1>3, Zenon DEF Roster, Top, Public, Seed
  <2>2. ~New(n)
    BY <1>1, <1>2, <2>1, Zenon DEF New, Eligible, Fenced, Since, Seed
  <2>3. t[n] = Len(avail) /\ t[n] = WindowLen * Seed(t[n])
    BY <1>1, <1>4, <2>2, Zenon DEF Place
  <2>4. chain[n].head \in Public
    BY CalmTypes, Zenon
  <2>5. Top(chain[n].head, t[n])
    <3>1. chain[n].head = Genesis \/ \E j \in 1..t[n] : chain[n].head \in Range(avail[j])
      BY <2>3, <2>4, CalmTypes, Zenon DEF Public
    <3> QED
      BY <1>6, <3>1, Zenon DEF Top, Covers
  <2> QED
    BY <2>3, <2>4, <2>5, Zenon
<1>8. ~Making(n)
  BY <1>1, CalmTypes, Zenon DEF Writes, Leads, Eligible
<1>9. \A m \in Node \ {n} : LoopSame(m) /\ enabled'[m] = enabled[m]
  BY <1>1, Zenon DEF LoopSame, TypeInv, ClockInv, TurnInv
<1> QED
  BY <1>1, <1>2, <1>5, <1>6, <1>7, <1>8, <1>9, QuietStep, Zenon

\* Who is enabled is the leader, has handled the latest Avail block, and no
\* other node has a block on its way.
LEMMA DecideStep ==
    ASSUME TypeInv, CalmInv, NEW n \in Node, Decide(n)
    PROVE  CalmInv'
<1>1. /\ pc[n] = "decide" /\ pc' = [pc EXCEPT ![n] = "recv"]
      /\ UNCHANGED <<net, chain, t, cache, writer, failures>>
  BY Zenon DEF Decide, bounds
<1>2. pc'[n] = "recv" /\ UNCHANGED avail
  BY <1>1, ZenonT(30) DEF TypeInv, ClockInv, net
<1>3. Place(n) /\ Stored(n) /\ Len(avail) \in Nat /\ t[n] \in Nat
  BY CalmTypes
<1>4. cache[n].seed = Seed(t[n])
  BY <1>1, Zenon DEF TypeInv, TurnInv
<1>5. Place(n)'
  BY <1>1, <1>2, <1>3, <1>4, SMTT(30) DEF Place, Seed
<1>6. Covers(chain[n], t[n]) /\ Handled(n)' = t[n]
  BY <1>1, <1>2, <1>3, Zenon DEF Stored, Handled
<1>7. /\ \A m \in Node \ {n} : stakedAt'[m] = stakedAt[m] /\ enabled'[m] = enabled[m]
      /\ n \in cache[n].list => stakedAt'[n] = Since(n)
      /\ enabled'[n] => enabled[n] \/ (n \in cache[n].list /\ ~Fenced(n, Since(n)) /\ Gate(n))
  <2>1. CASE n \notin cache[n].list
    BY <2>1, Zenon DEF Decide
  <2>2. CASE n \in cache[n].list
    <3>1. /\ stakedAt' = [stakedAt EXCEPT ![n] = Since(n)]
          /\ enabled' = [enabled EXCEPT ![n] = IF Fenced(n, Since(n)) THEN @ ELSE Gate(n)]
      BY <2>2, Zenon DEF Decide, Since
    <3>2. stakedAt'[n] = Since(n) /\ \A m \in Node \ {n} : stakedAt'[m] = stakedAt[m]
      BY <3>1, Zenon DEF TypeInv, TurnInv
    <3>3. \A m \in Node \ {n} : enabled'[m] = enabled[m]
      BY <3>1, Zenon DEF TypeInv, TurnInv
    <3>4. enabled'[n] = IF Fenced(n, Since(n)) THEN enabled[n] ELSE Gate(n)
      BY <3>1, Zenon DEF TypeInv, TurnInv
    <3> QED
      BY <2>2, <3>2, <3>3, <3>4, Zenon
  <2> QED
    BY <2>1, <2>2, Zenon
<1>8. Eligible(n)' <=> Eligible(n)
  <2>1. CASE n \notin cache[n].list
    BY <1>1, <2>1, Zenon DEF Eligible
  <2>2. CASE n \in cache[n].list
    <3>1. Since(n)' = Since(n)
      BY <1>1, <1>7, <2>2, Zenon DEF Since
    <3>2. Fenced(n, Since(n))' <=> Fenced(n, Since(n))
      BY <1>1, <3>1, Zenon DEF Fenced, Seed
    <3> QED
      BY <1>1, <1>2, <3>2, Zenon DEF Eligible, Seed
  <2> QED
    BY <2>1, <2>2, Zenon
<1>9. Roster(n)'
  BY <1>1, <1>2, <1>8, CalmTypes, Zenon DEF Roster, Top, Public, Seed
<1>10. Making(n) => Leads(n)'
  BY <1>1, <1>2, <1>8, CalmTypes, Zenon DEF Writes, Leads, MyTurn, Seed
<1>11. ASSUME enabled'[n], ~enabled[n], NEW b \in Blocks
       PROVE  b.number <= chain[n].head.number \/ (wpc[n] = "wait" /\ b = wblk[n])
  <2>1. Eligible(n) /\ MyTurn(n, cache[n].order, cache[n].list)
    BY <1>1, <1>4, <1>7, <1>11, Zenon DEF Eligible, Gate
  <2>2. t[n] = Len(avail)
    BY <1>1, <1>3, <2>1, NewIsFenced, Zenon DEF Place
  <2>3. Leads(n)
    BY <2>1, <2>2, Zenon DEF Leads
  <2>4. CASE b \in inflight
    <3>1. PICK m \in Node : wpc[m] = "wait" /\ wblk[m] = b
      BY <2>4, Zenon DEF CalmInv, WriterInv
    <3>2. Leads(m)
      BY <2>4, <3>1, EnabledLeads, Zenon DEF Making
    <3>3. m = n
      BY <2>3, <3>2, OneWriter, Zenon
    <3> QED
      BY <3>1, <3>3, Zenon
  <2>5. CASE b \notin inflight
    <3>1. b = Genesis \/ \E j \in 1..t[n] : b \in Range(avail[j])
      BY <2>2, <2>5, CalmTypes, Zenon DEF Blocks, Public
    <3>2. CASE b = Genesis
      <4>1. b.number = 0 /\ chain[n].head.number \in Nat
        BY <3>2, CalmTypes, BlocksOnLine, Zenon DEF TypeInv, CalmInv
      <4> QED
        BY <4>1
    <3>3. CASE b # Genesis
      BY <1>6, <3>1, <3>3, Zenon DEF Covers
    <3> QED
      BY <3>2, <3>3, Zenon
  <2> QED
    BY <2>4, <2>5, Zenon
<1>12. \A m \in Node \ {n} : LoopSame(m) /\ enabled'[m] = enabled[m]
  BY <1>1, <1>7, Zenon DEF LoopSame, TypeInv, ClockInv
<1> QED
  BY <1>1, <1>2, <1>5, <1>6, <1>9, <1>10, <1>11, <1>12, QuietStep, Zenon

\* A node starts its main loop.
LEMMA RunStep ==
    ASSUME TypeInv, CalmInv, NEW n \in Node, Run(n)
    PROVE  CalmInv'
<1>1. /\ pc[n] = "staking" /\ pc' = [pc EXCEPT ![n] = "recv"]
      /\ t' = [t EXCEPT ![n] = IF n \in Bootstrap THEN Len(avail) ELSE t[n] - 1]
      /\ UNCHANGED <<net, chain, cache, enabled, stakedAt, writer, failures>>
  BY Zenon DEF Run, bounds
<1>2. Place(n) /\ Stored(n) /\ Len(avail) \in Nat /\ t[n] \in Nat /\ t[n] <= Len(avail)
  BY CalmTypes, Zenon
<1>3. New(n) /\ cache[n].list = {}
  BY <1>1, <1>2, Zenon DEF Place
<1>4. pc'[n] = "recv" /\ t'[n] = t[n] - 1 /\ UNCHANGED avail
  BY <1>1, <1>3, Zenon DEF TypeInv, ClockInv, net, New
<1>5. New(n)'
  BY <1>1, <1>3, Zenon DEF New
<1>6. Place(n)'
  <2>1. t[n] >= Len(avail) - 1
    BY <1>1, <1>2, Zenon DEF Place
  <2>2. t'[n] >= Len(avail') - 2
    BY <1>2, <1>4, <2>1
  <2> QED
    BY <1>4, <1>5, <2>2, Zenon DEF Place
<1>7. Roster(n)'
  BY <1>1, <1>3, Zenon DEF Roster, Eligible
<1>8. ~Making(n)
  BY <1>1, CalmTypes, Zenon DEF Writes, Leads, Eligible
<1>9. Covers(chain[n], Handled(n)')
  <2>1. Covers(chain[n], t[n])
    BY <1>1, <1>2, Zenon DEF Stored, Handled
  <2>2. Handled(n)' = t[n] - 1
    BY <1>4, Zenon DEF Handled
  <2>3. 1..t[n] - 1 \subseteq 1..t[n]
    BY <1>2
  <2> QED
    BY <2>1, <2>2, <2>3, Zenon DEF Covers
<1>10. \A m \in Node \ {n} : LoopSame(m) /\ enabled'[m] = enabled[m]
  BY <1>1, Zenon DEF LoopSame, TypeInv, ClockInv
<1> QED
  BY <1>1, <1>4, <1>6, <1>7, <1>8, <1>9, <1>10, QuietStep, Zenon
=============================================================================
