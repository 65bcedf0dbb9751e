------------------------- MODULE BlockStreamProofs --------------------------
(***************************************************************************)
(* The stream of Avail blocks never goes back and passes over nothing but  *)
(* what it could not fetch while catching up: proved for any contents,     *)
(* heights and number of failures.                                         *)
(***************************************************************************)
EXTENDS BlockStream, FiniteSetTheorems, TLAPS

\* Where the stream is in its chain: all that it has handed over is before it.
Frontier == IF InCatchUp THEN next ELSE latest

Active == pc \in {"first", "catchup", "subscribe", "receive", "fetch"}

\* The stream's own numbers.
Numbers ==
    /\ chain \in Seq(Contents) /\ heads \in Seq(Nat) /\ delivered \in Seq(Nat)
    /\ offset \in {0, 1}
    /\ latest \in Nat /\ next \in Nat /\ to \in Nat

\* Nothing is handed over before the start, and catching up ends where following
\* begins.
IInv ==
    /\ Numbers
    /\ pc \in {"new", "start", "first", "catchup", "subscribe", "receive", "fetch",
               "dead", "closed"}
    /\ reader \in {"new", "next", "open"} => pc = "new"
    /\ pc \in {"new", "start"} => delivered = <<>>
    /\ InCatchUp => next <= latest /\ latest = to + 1
    /\ Active => \A i \in DOMAIN delivered : delivered[i] < Frontier
    /\ InOrder

\* A new stream has handed over nothing.
LEMMA StreamInit == Init => IInv
  <1> SUFFICES ASSUME Init PROVE IInv
    BY Zenon
  <1>1. chain \in Seq(Contents)
    <2>1. InitHeight \in Nat /\ chain \in [1..InitHeight -> Contents]
      BY StreamAssumption DEF Init
    <2> QED  BY <2>1
  <1> QED  BY <1>1 DEF Init, IInv, Numbers, InCatchUp, Active, Frontier, InOrder

\* A block at or after the frontier that is appended keeps the order.
LEMMA AppendKeepsOrder ==
  ASSUME NEW d \in Seq(Nat), NEW k \in Nat,
         \A i \in DOMAIN d : i > 1 => d[i - 1] < d[i],
         \A i \in DOMAIN d : d[i] < k
  PROVE  /\ Append(d, k) \in Seq(Nat)
         /\ \A i \in DOMAIN Append(d, k) : i > 1 => Append(d, k)[i - 1] < Append(d, k)[i]
         /\ \A i \in DOMAIN Append(d, k) : Append(d, k)[i] < k + 1
  <1>1. DOMAIN d = 1..Len(d) /\ Len(d) \in Nat
    OBVIOUS
  <1>2. Append(d, k) \in Seq(Nat) /\ DOMAIN Append(d, k) = 1..(Len(d) + 1)
    OBVIOUS
  <1>3. \A i \in 1..Len(d) : Append(d, k)[i] = d[i]
    OBVIOUS
  <1>4. Append(d, k)[Len(d) + 1] = k
    OBVIOUS
  <1>5. \A i \in 1..Len(d) : d[i] \in Nat
    OBVIOUS
  <1>6. ASSUME NEW i \in 1..(Len(d) + 1), i > 1
        PROVE  Append(d, k)[i - 1] < Append(d, k)[i]
    <2>1. i - 1 \in 1..Len(d) /\ Append(d, k)[i - 1] = d[i - 1]
      BY <1>1, <1>3, <1>6
    <2>2. CASE i = Len(d) + 1
      BY <2>1, <2>2, <1>1, <1>4, Zenon
    <2>3. CASE i # Len(d) + 1
      <3>1. i \in 1..Len(d) /\ Append(d, k)[i] = d[i]
        BY <2>3, <1>1, <1>3
      <3> QED  BY <3>1, <2>1, <1>1, <1>6, Zenon
    <2> QED  BY <2>2, <2>3, Zenon
  <1>7. ASSUME NEW i \in 1..(Len(d) + 1) PROVE Append(d, k)[i] < k + 1
    <2>1. CASE i = Len(d) + 1
      BY <2>1, <1>4
    <2>2. CASE i # Len(d) + 1
      <3>1. i \in 1..Len(d) /\ Append(d, k)[i] = d[i]
        BY <2>2, <1>1, <1>3
      <3>2. d[i] < k /\ d[i] \in Nat
        BY <3>1, <1>1, <1>5, Zenon
      <3> QED  BY <3>1, <3>2
    <2> QED  BY <2>1, <2>2, Zenon
  <1> QED  BY <1>2, <1>6, <1>7, Zenon

\* Every step of Avail, the stream and the reader keeps the stream's place.
LEMMA StreamStep == IInv /\ [Next]_vars => IInv'
  <1> SUFFICES ASSUME IInv, [Next]_vars PROVE IInv'
    BY Zenon
  <1> USE DEF IInv, Numbers, InOrder, InCatchUp, Active, Frontier
  <1>h. height \in Nat
    BY DEF height
  <1>1. CASE NewAvailBlock
    <2>1. chain' \in Seq(Contents) /\ heads' \in Seq(Nat)
      BY <1>1, <1>h DEF NewAvailBlock
    <2> QED  BY <1>1, <2>1, Zenon DEF NewAvailBlock, stream
  <1>2. CASE Open
    <2>1. CASE LatestHeader
      BY <2>1, Zenon DEF LatestHeader, stream
    <2>2. CASE NextAvailBlock
      BY <2>2, Zenon DEF NextAvailBlock, stream
    <2>3. CASE NewBlockStream
      BY <2>3, Zenon DEF NewBlockStream
    <2> QED  BY <1>2, <2>1, <2>2, <2>3, Zenon DEF Open
  <1>3. CASE Start
    <2>1. delivered = <<>>
      BY <1>3, Zenon DEF Start
    <2>2. CASE pc' = "first"
      BY <1>3, <2>1, <2>2, <1>h DEF Start
    <2>3. CASE pc' = "dead"
      BY <1>3, <2>1, <2>3, Zenon DEF Start
    <2> QED  BY <1>3, <2>2, <2>3, Zenon DEF Start
  <1>4. CASE Subscribe
    <2>1. heads' \in Seq(Nat)
      <3>1. heads' = <<height>> \/ heads' = heads
        BY <1>4, Zenon DEF Subscribe
      <3>2. <<height>> \in Seq(Nat)
        BY <1>h
      <3> QED  BY <3>1, <3>2, Zenon
    <2> QED  BY <1>4, <2>1, Zenon DEF Subscribe
  <1>5. CASE Receive
    <2> DEFINE h == Head(heads)
    <2>1. h \in Nat /\ heads' \in Seq(Nat)
      BY <1>5 DEF Receive
    <2>2. CASE h < latest /\ UNCHANGED stream
      BY <1>5, <2>1, <2>2, Zenon DEF Receive, stream
    <2>3. CASE h > latest /\ next' = latest /\ to' = h /\ latest' = h + 1 /\ pc' = "catchup"
      BY <1>5, <2>1, <2>3, SMTT(30) DEF Receive
    <2>4. CASE h = latest /\ pc' = "fetch" /\ UNCHANGED <<latest, next, to>>
      BY <1>5, <2>1, <2>4, Zenon DEF Receive
    <2> QED  BY <1>5, <2>2, <2>3, <2>4, Zenon DEF Receive
  <1>6. CASE Deliver
    <2>1. delivered' = Append(delivered, latest) /\ reader = "reading"
          /\ reader' \in {"done", "reading"}
      BY <1>6, Zenon DEF Deliver, Read
    <2>2. \A i \in DOMAIN delivered : delivered[i] < latest
      BY <1>6, Zenon DEF Deliver
    <2>3. /\ delivered' \in Seq(Nat)
          /\ InOrder'
          /\ \A i \in DOMAIN delivered' : delivered'[i] < latest + 1
      BY <2>1, <2>2, AppendKeepsOrder, Zenon
    <2>4. /\ pc' = "receive" /\ latest' = latest + 1
          /\ UNCHANGED <<chain, heads, offset, next, to>>
      BY <1>6, Zenon DEF Deliver
    <2>5. Numbers'
      BY <2>3, <2>4
    <2> QED  BY <2>1, <2>3, <2>4, <2>5, Zenon
  <1>7. CASE FetchFails
    BY <1>7, Zenon DEF FetchFails
  <1>8. CASE CatchUp
    <2>1. delivered' = Append(delivered, next) /\ reader = "reading"
          /\ reader' \in {"done", "reading"}
      BY <1>8, Zenon DEF CatchUp, Read
    <2>2. \A i \in DOMAIN delivered : delivered[i] < next
      BY <1>8, Zenon DEF CatchUp
    <2>3. /\ delivered' \in Seq(Nat)
          /\ InOrder'
          /\ \A i \in DOMAIN delivered' : delivered'[i] < next + 1
      BY <2>1, <2>2, AppendKeepsOrder, Zenon
    <2> QED  BY <1>8, <2>1, <2>3, SMTT(30) DEF CatchUp
  <1>9. CASE CatchUpFails
    <2>1. \A i \in DOMAIN delivered : delivered[i] < next /\ delivered[i] \in Nat
      BY <1>9 DEF CatchUpFails
    <2>2. \A i \in DOMAIN delivered' : delivered'[i] < next'
      BY <1>9, <2>1 DEF CatchUpFails
    <2> QED  BY <1>9, <2>2 DEF CatchUpFails
  <1>10. CASE CaughtUp
    <2>1. \A i \in DOMAIN delivered : delivered[i] < latest
      BY <1>10 DEF CaughtUp
    <2> QED  BY <1>10, <2>1, Zenon DEF CaughtUp
  <1>11. CASE SubscriptionFails
    BY <1>11 DEF SubscriptionFails
  <1>12. CASE CloseStream
    BY <1>12, Zenon DEF CloseStream
  <1>13. CASE Shutdown
    BY <1>13, Zenon DEF Shutdown, stream
  <1>14. CASE UNCHANGED vars
    BY <1>14, Zenon DEF vars, stream
  <1> QED  BY Zenon, <1>1, <1>2, <1>3, <1>4, <1>5, <1>6, <1>7, <1>8, <1>9, <1>10, <1>11, <1>12,
              <1>13, <1>14 DEF Next, Watch, Quiet

\* Across catching up, following, failed fetches and lost subscriptions, watch hands
\* the Avail blocks over in the order of their numbers and none twice, for any number
\* of blocks and failures.
THEOREM InOrderTheorem == Spec => []InOrder
  <1>1. Init => IInv
    BY StreamInit, Zenon
  <1>2. IInv /\ [Next]_vars => IInv'
    BY StreamStep, Zenon
  <1>3. IInv => InOrder
    BY Zenon DEF IInv
  <1> QED  BY <1>1, <1>2, <1>3, PTL DEF Spec
-----------------------------------------------------------------------------
Handed == {delivered[i] : i \in DOMAIN delivered}

\* What the stream has passed over on its way to its place.
Passed == IF delivered = <<>> THEN {} ELSE (delivered[1]..(Frontier - 1)) \ Handed

PassedBounded == Active /\ lost \in Nat /\ Cardinality(Passed) <= lost

\* OnlyCatchUpSkips counts up to the last block handed over, which a failed fetch
\* does not move.  The count that is inductive goes up to the stream's place; a
\* stream that is gone keeps the last one.
SkipInv ==
    /\ lost \in Nat
    /\ Active => PassedBounded
    /\ OnlyCatchUpSkips

\* What was passed over is a finite set of numbers and covers what is missing.
LEMMA PassedFinite ==
  ASSUME IInv
  PROVE  IsFiniteSet(Passed) /\ (Active => Missing \subseteq Passed)
  <1> USE DEF IInv, Numbers
  <1>1. CASE delivered = <<>>
    BY <1>1, FS_EmptySet, Zenon DEF Passed, Missing
  <1>2. CASE delivered # <<>>
    <2>1. Frontier \in Nat
      BY Zenon DEF Frontier
    <2>2. /\ 1 \in DOMAIN delivered /\ Len(delivered) \in DOMAIN delivered
          /\ delivered[1] \in Nat /\ delivered[Len(delivered)] \in Nat
      BY <1>2
    <2>3. IsFiniteSet(delivered[1]..(Frontier - 1))
      BY <2>1, <2>2, FS_Interval
    <2>4. Passed \in SUBSET (delivered[1]..(Frontier - 1))
      BY <1>2, Zenon DEF Passed
    <2>5. IsFiniteSet(Passed)
      BY <2>3, <2>4, FS_Subset, Zenon
    <2>6. ASSUME Active PROVE Missing \subseteq Passed
      <3>1. delivered[Len(delivered)] < Frontier
        BY <2>2, <2>6, Zenon
      <3>2. delivered[1]..delivered[Len(delivered)] \subseteq delivered[1]..(Frontier - 1)
        BY <2>1, <2>2, <3>1
      <3> QED  BY <1>2, <3>2, Zenon DEF Missing, Passed, Handed
    <2> QED  BY <2>5, <2>6, Zenon
  <1> QED  BY <1>1, <1>2, Zenon

\* A bound on what was passed over bounds what is missing.
LEMMA PassedBoundsMissing == IInv /\ PassedBounded => OnlyCatchUpSkips
  <1> SUFFICES ASSUME IInv, PassedBounded PROVE OnlyCatchUpSkips
    BY Zenon
  <1> USE DEF PassedBounded
  <1>1. IsFiniteSet(Passed) /\ Missing \in SUBSET Passed
    BY PassedFinite, Zenon
  <1>2. /\ IsFiniteSet(Missing) /\ Cardinality(Missing) <= Cardinality(Passed)
        /\ Cardinality(Missing) \in Nat /\ Cardinality(Passed) \in Nat
    BY <1>1, FS_Subset, FS_CardinalityType, Zenon
  <1> QED  BY <1>2 DEF OnlyCatchUpSkips

\* The block at the stream's place that is handed over is not passed over.
LEMMA HandOver ==
  ASSUME IInv, Active, NEW k, k = Frontier, delivered' = Append(delivered, k), Frontier' = k + 1
  PROVE  Passed' = Passed
  <1> USE DEF IInv, Numbers
  <1>1. k \in Nat
    BY Zenon DEF Frontier
  <1>2. /\ DOMAIN delivered = 1..Len(delivered) /\ Len(delivered) \in Nat
        /\ DOMAIN delivered' = 1..(Len(delivered) + 1)
        /\ delivered'[Len(delivered) + 1] = k
        /\ \A i \in DOMAIN delivered : delivered'[i] = delivered[i] /\ delivered[i] \in Nat
        /\ delivered' # <<>>
    <2>1. delivered \in Seq(Nat) /\ DOMAIN delivered = 1..Len(delivered) /\ Len(delivered) \in Nat
      OBVIOUS
    <2>2. Append(delivered, k) \in Seq(Nat) /\ Len(Append(delivered, k)) = Len(delivered) + 1
      BY <1>1, <2>1
    <2>3. DOMAIN Append(delivered, k) = 1..(Len(delivered) + 1)
      BY <2>2
    <2>6. Append(delivered, k) # <<>>
      <3>1. Len(Append(delivered, k)) # 0
        BY <2>1, <2>2
      <3> QED  BY <3>1, Zenon
    <2>4. \A i \in DOMAIN delivered : Append(delivered, k)[i] = delivered[i] /\ delivered[i] \in Nat
      BY <1>1, <2>1
    <2>5. Append(delivered, k)[Len(delivered) + 1] = k
      BY <1>1, <2>1
    <2> QED  BY <2>1, <2>3, <2>4, <2>5, <2>6, Zenon
  <1>3. Handed' = Handed \cup {k}
    <2> DEFINE n == Len(delivered)
    <2>1. \A i \in 1..n : delivered'[i] = delivered[i]
      BY <1>2, Zenon
    <2>2. 1..(n + 1) = (1..n) \cup {n + 1}
      BY <1>2
    <2>3. Handed' = {delivered'[i] : i \in (1..n) \cup {n + 1}}
      BY <1>2, <2>2, Zenon DEF Handed
    <2>4. Handed = {delivered[i] : i \in 1..n}
      BY <1>2, Zenon DEF Handed
    <2>5. delivered'[n + 1] = k
      BY <1>2, Zenon
    <2> HIDE DEF IInv, Numbers, n
    <2> QED  BY <2>1, <2>3, <2>4, <2>5, Zenon
  <1>4. CASE delivered = <<>>
    <2>1. delivered'[1] = k
      BY <1>2, <1>4
    <2>2. Passed' = (k..k) \ (Handed \cup {k})
      BY <1>1, <1>2, <1>3, <2>1 DEF Passed
    <2> QED  BY <1>1, <1>4, <2>2 DEF Passed
  <1>5. CASE delivered # <<>>
    <2>1. 1 \in DOMAIN delivered /\ delivered'[1] = delivered[1] /\ delivered[1] \in Nat
      BY <1>2, <1>5
    <2>2. Passed' = (delivered[1]..k) \ (Handed \cup {k})
      BY <1>1, <1>2, <1>3, <2>1 DEF Passed
    <2>3. Passed = (delivered[1]..(k - 1)) \ Handed
      BY <1>5, Zenon DEF Passed
    <2>4. k \notin delivered[1]..(k - 1)
          /\ delivered[1]..k \subseteq (delivered[1]..(k - 1)) \cup {k}
          /\ delivered[1]..(k - 1) \subseteq delivered[1]..k
      BY <1>1, <2>1, SMTT(30)
    <2> QED  BY <2>2, <2>3, <2>4, Zenon
  <1> QED  BY <1>4, <1>5, Zenon

\* Every step keeps the count: only a failed fetch of catchUp moves the stream's
\* place past a block that was not handed over.
LEMMA SkipStep == IInv /\ SkipInv /\ [Next]_vars => SkipInv'
  <1> SUFFICES ASSUME IInv, SkipInv, [Next]_vars PROVE SkipInv'
    BY Zenon
  <1>0. IInv'
    BY StreamStep, Zenon
  <1>s. ASSUME lost' = lost, delivered' = delivered,
               Active' => Active /\ Frontier' = Frontier
        PROVE  SkipInv'
    <2>1. OnlyCatchUpSkips'
      BY <1>s, Zenon DEF SkipInv, OnlyCatchUpSkips, Missing
    <2>2. ASSUME Active' PROVE Passed' = Passed
      BY <1>s, <2>2, Zenon DEF Passed, Handed
    <2>3. ASSUME Active' PROVE PassedBounded'
      BY <1>s, <2>2, <2>3, Zenon DEF SkipInv, PassedBounded
    <2> QED  BY <1>s, <2>1, <2>3, Zenon DEF SkipInv
  <1>d. ASSUME Active, Active', lost' = lost, Passed' = Passed PROVE SkipInv'
    <2>1. PassedBounded'
      BY <1>d, Zenon DEF SkipInv, PassedBounded
    <2>2. OnlyCatchUpSkips'
      BY <1>0, <2>1, PassedBoundsMissing, PTL
    <2> QED  BY <2>1, <2>2, Zenon DEF SkipInv, PassedBounded
  <1>1. CASE NewAvailBlock
    BY <1>1, <1>s, Zenon DEF NewAvailBlock, stream, counts, Active, Frontier, InCatchUp
  <1>2. CASE Open
    <2>1. UNCHANGED <<lost, delivered, latest, next>> /\ (pc' = pc \/ pc' = "start")
      BY <1>2, Zenon DEF Open, LatestHeader, NextAvailBlock, NewBlockStream, stream, counts
    <2> QED  BY <2>1, <1>s, Zenon DEF Active, Frontier, InCatchUp
  <1>3. CASE Start
    <2>1. delivered = <<>> /\ delivered' = <<>> /\ lost' = lost
      BY <1>3, Zenon DEF Start, IInv
    <2>2. Passed' = {} /\ Missing' = {}
      BY <2>1, Zenon DEF Passed, Missing
    <2> QED  BY <2>1, <2>2, FS_EmptySet DEF SkipInv, PassedBounded, OnlyCatchUpSkips
  <1>4. CASE Subscribe
    BY <1>4, <1>s, Zenon DEF Subscribe, Active, Frontier, InCatchUp
  <1>5. CASE Receive
    <2>1. /\ pc = "receive" /\ UNCHANGED <<lost, delivered>>
          /\ \/ UNCHANGED stream
             \/ next' = latest /\ pc' = "catchup"
             \/ pc' = "fetch" /\ UNCHANGED latest
      BY <1>5, Zenon DEF Receive, counts
    <2> QED  BY <2>1, <1>s, Zenon DEF Active, Frontier, InCatchUp, stream
  <1>6. CASE Deliver
    <2>1. /\ pc = "fetch" /\ pc' = "receive" /\ lost' = lost
          /\ delivered' = Append(delivered, latest) /\ latest' = latest + 1
      BY <1>6, Zenon DEF Deliver, Read, counts
    <2>2. Active /\ Active' /\ Frontier = latest /\ Frontier' = latest + 1
      BY <2>1, Zenon DEF Active, Frontier, InCatchUp
    <2>3. Passed' = Passed
      BY <2>1, <2>2, HandOver, Zenon
    <2> QED  BY <2>1, <2>2, <2>3, <1>d, Zenon
  <1>7. CASE FetchFails
    BY <1>7, <1>s, Zenon DEF FetchFails, Active, Frontier, InCatchUp
  <1>8. CASE CatchUp
    <2>1. /\ InCatchUp /\ pc' = pc /\ lost' = lost
          /\ delivered' = Append(delivered, next) /\ next' = next + 1
      BY <1>8, Zenon DEF CatchUp, Read, counts
    <2>2. Active /\ Active' /\ Frontier = next /\ Frontier' = next + 1
      BY <2>1, Zenon DEF Active, Frontier, InCatchUp
    <2>3. Passed' = Passed
      BY <2>1, <2>2, HandOver, Zenon
    <2> QED  BY <2>1, <2>2, <2>3, <1>d, Zenon
  <1>9. CASE CatchUpFails
    <2>1. /\ InCatchUp /\ pc' = pc /\ lost' = lost + 1
          /\ delivered' = delivered /\ next' = next + 1
      BY <1>9, Zenon DEF CatchUpFails
    <2>2. Active /\ Active' /\ Frontier = next /\ Frontier' = next + 1
      BY <2>1, Zenon DEF Active, Frontier, InCatchUp
    <2>3. Passed' \in SUBSET (Passed \cup {next})
      <3>1. CASE delivered = <<>>
        BY <2>1, <3>1, Zenon DEF Passed
      <3>2. CASE delivered # <<>>
        <4>1. next \in Nat /\ delivered[1] \in Nat
          BY <3>2 DEF IInv, Numbers
        <4>2. Passed' = (delivered[1]..next) \ Handed
          BY <2>1, <2>2, <3>2, <4>1 DEF Passed, Handed
        <4>3. delivered[1]..next \subseteq (delivered[1]..(next - 1)) \cup {next}
          BY <4>1
        <4> QED  BY <2>2, <3>2, <4>2, <4>3, Zenon DEF Passed
      <3> QED  BY <3>1, <3>2, Zenon
    <2>4. /\ IsFiniteSet(Passed \cup {next})
          /\ Cardinality(Passed \cup {next}) <= Cardinality(Passed) + 1
          /\ Cardinality(Passed) \in Nat
      BY PassedFinite, FS_AddElement, FS_CardinalityType
    <2>5. Cardinality(Passed') <= Cardinality(Passed) + 1 /\ Cardinality(Passed') \in Nat
      BY <2>3, <2>4, FS_Subset, FS_CardinalityType
    <2>6. PassedBounded'
      BY <2>1, <2>2, <2>4, <2>5 DEF SkipInv, PassedBounded
    <2>7. OnlyCatchUpSkips'
      BY <1>0, <2>6, PassedBoundsMissing, PTL
    <2> QED  BY <2>6, <2>7 DEF SkipInv, PassedBounded
  <1>10. CASE CaughtUp
    <2>1. next = latest
      BY <1>10 DEF CaughtUp, IInv, Numbers
    <2> QED  BY <1>10, <2>1, <1>s, Zenon DEF CaughtUp, counts, Active, Frontier, InCatchUp
  <1>11. CASE SubscriptionFails
    BY <1>11, <1>s, Zenon DEF SubscriptionFails, Active, Frontier, InCatchUp
  <1>12. CASE CloseStream
    BY <1>12, <1>s, Zenon DEF CloseStream, counts, Active
  <1>13. CASE Shutdown
    BY <1>13, <1>s, Zenon DEF Shutdown, stream, counts, Active, Frontier, InCatchUp
  <1>14. CASE UNCHANGED vars
    BY <1>14, <1>s, Zenon DEF vars, stream, counts, Active, Frontier, InCatchUp
  <1> QED  BY Zenon, <1>1, <1>2, <1>3, <1>4, <1>5, <1>6, <1>7, <1>8, <1>9, <1>10, <1>11, <1>12,
              <1>13, <1>14 DEF Next, Watch, Quiet

\* Between the first and the last block that watch has handed over, no more blocks are
\* missing than fetches failed inside catchUp: none is lost where catching up passes
\* into following heads, nor by a failed fetch outside of it, nor by a lost
\* subscription.
THEOREM OnlyCatchUpSkipsTheorem == Spec => []OnlyCatchUpSkips
  <1>1. Init => IInv /\ SkipInv
    <2>1. Init => Missing = {} /\ ~Active /\ lost = 0
      BY Zenon DEF Init, Missing, Active
    <2> QED  BY <2>1, StreamInit, FS_EmptySet DEF SkipInv, OnlyCatchUpSkips
  <1>2. IInv /\ SkipInv /\ [Next]_vars => (IInv /\ SkipInv)'
    BY StreamStep, SkipStep, Zenon
  <1>3. SkipInv => OnlyCatchUpSkips
    BY Zenon DEF SkipInv
  <1> QED  BY <1>1, <1>2, <1>3, PTL DEF Spec
=============================================================================
