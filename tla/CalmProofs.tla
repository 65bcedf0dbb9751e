----------------------------- MODULE CalmProofs -----------------------------
(***************************************************************************)
(* Agreement, NoLostBlock and CoherentLeader of Sequencing, which faults   *)
(* can break, for nodes that keep up with Avail and do not fail.  New      *)
(* nodes may join, and snapshots may be lost or late.  The invariant is    *)
(* CalmInv of SequencingProofs.                                            *)
(***************************************************************************)
EXTENDS SequencingProofs

-----------------------------------------------------------------------------
(* The steps that write to a store.                                        *)

\* The store of n goes from chain[n] to a higher one.
LEMMA StoreStep ==
    ASSUME TypeInv, CalmInv, NEW n \in Node, NEW d,
           chain'[n] = d, \A m \in Node \ {n} : chain'[m] = chain[m],
           Within(d, Public), Topped(d), UNCHANGED <<avail, inflight, wpc, wblk, enabled>>,
           d.head.number >= chain[n].head.number,
           pc'[n] # "down", Covers(d, Handled(n)'), \A m \in Node \ {n} : LoopSame(m),
           Making(n) => Leads(n)'
    PROVE  LineInv' /\ StoreInv' /\ WriterInv'
<1>1. LineInv'
  BY LineFrame, Zenon DEF CalmInv
<1>2. ASSUME NEW m \in Node PROVE Stored(m)'
  <2>1. CASE m = n
    BY <2>1, Zenon DEF Stored, Topped, Covers
  <2>2. CASE m # n
    BY <2>2, StoreFrame, CalmTypes, Zenon DEF LoopSame
  <2> QED
    BY <2>1, <2>2, Zenon
<1>3. ASSUME NEW m \in Node
      PROVE  /\ chain'[m].head.number \in Nat
             /\ chain'[m].head.number >= chain[m].head.number
             /\ pc'[m] = "down" => pc[m] = "down"
             /\ Making(m) => Leads(m)'
  <2>1. CASE m = n
    <3>1. d.head.number \in Nat
      BY BlocksOnLine, Zenon DEF TypeInv, CalmInv, Within, Topped, Line
    <3> QED
      BY <2>1, <3>1, Zenon
  <2>2. CASE m # n
    <3>1. Making(m) => Leads(m)'
      BY <2>2, LoopFrame, CalmTypes, Zenon DEF Writes
    <3>2. chain'[m] = chain[m] /\ pc'[m] = pc[m] /\ chain[m].head.number \in Nat
      BY <2>2, CalmTypes, Zenon DEF LoopSame
    <3> QED
      BY <3>1, <3>2
  <2> QED
    BY <2>1, <2>2, Zenon
<1>4. WriterInv'
  BY <1>3, WriterFrame, Zenon DEF CalmInv
<1> QED
  BY <1>1, <1>2, <1>4, Zenon DEF StoreInv

\* The main loop writes the edge blocks of an Avail block: they are on the line and
\* the head comes to cover them.
LEMMA ApplyStep ==
    ASSUME TypeInv, CalmInv, NEW n \in Node, Apply(n)
    PROVE  CalmInv'
<1> DEFINE c == chain[n]
           d == WriteAll(chain[n], avail[t[n]])
<1>1. /\ pc[n] = "apply" /\ chain' = [chain EXCEPT ![n] = d]
      /\ cache' = [cache EXCEPT ![n].seed = Seed(t[n])]
      /\ pc' = [pc EXCEPT ![n] = IF cache[n].seed = Seed(t[n]) THEN "decide" ELSE "query"]
      /\ UNCHANGED <<net, t, enabled, stakedAt, wpc, wblk, failures>>
  BY Zenon DEF Apply, bounds
<1>2. changes' = [changes EXCEPT ![n] =
          IF wpc[n] = "wait" THEN Recorded(@, chain[n], chain'[n]) ELSE @]
  BY Zenon DEF Apply
<1>3. /\ UNCHANGED <<avail, inflight, snapshots>>
      /\ chain'[n] = d /\ \A m \in Node \ {n} : chain'[m] = chain[m]
  BY <1>1, Zenon DEF net, TypeInv, PubInv
<1>4. /\ Place(n) /\ Stored(n) /\ Roster(n) /\ Len(avail) \in Nat /\ t[n] \in Nat
      /\ Within(c, Public) /\ Topped(c) /\ c.head.number \in Nat
  BY CalmTypes, Zenon
<1>5. t[n] \in 1..Len(avail) /\ Covers(c, t[n] - 1)
  BY <1>1, <1>4 DEF TypeInv, ClockInv, Stored, Handled
<1>6. /\ Within(d, Public) /\ Topped(d) /\ Grown(c, d) /\ Covers(d, t[n])
      /\ d.head.number >= c.head.number
  BY <1>4, <1>5, WriteOnLine, Zenon DEF TypeInv, CalmInv
<1> HIDE DEF c, d
<1>7. /\ pc'[n] = IF cache[n].seed = Seed(t[n]) THEN "decide" ELSE "query"
      /\ cache'[n] = [seed |-> Seed(t[n]), list |-> cache[n].list, order |-> cache[n].order]
  BY <1>1 DEF TypeInv, ClockInv, TurnInv
<1>8. Eligible(n)' => Eligible(n) /\ cache[n].seed = Seed(t[n])
  <2>1. Fenced(n, Since(n))' <=> Fenced(n, Since(n))
    BY <1>1, Zenon DEF Fenced, Since, Seed
  <2> QED
    BY <1>1, <1>7, <2>1 DEF Eligible
<1>9. Eligible(n) => Eligible(n)'
  <2>1. Fenced(n, Since(n))' <=> Fenced(n, Since(n))
    BY <1>1, SMTT(30) DEF Fenced, Since, Seed
  <2> QED
    BY <1>1, <1>7, <2>1, SMTT(30) DEF Eligible, Seed
<1>10. Place(n)'
  <2>1. New(n)' <=> New(n)
    BY <1>1, Zenon DEF New
  <2>2. t[n] = Len(avail) \/ (t[n] = Len(avail) - 1 /\ New(n))
    BY <1>1, <1>4, Zenon DEF Place
  <2>3. pc'[n] = "query" => t[n] = WindowLen * Seed(t[n]) \/ New(n)
    BY <1>1, <1>4, <1>7, WindowStart, SMTT(30) DEF Place
  <2> QED
    BY <1>1, <1>3, <1>7, <2>1, <2>2, <2>3, SMTT(30) DEF Place, Seed
<1>11. Roster(n)'
  BY <1>1, <1>3, <1>4, <1>7, <1>8, SMTT(30) DEF Roster, Top, Public, Seed
<1>12. Making(n) => Leads(n)'
  BY <1>1, <1>3, <1>7, <1>9, CalmTypes, SMTT(30) DEF Writes, Leads, MyTurn, Seed
<1>13. \A m \in Node \ {n} : LoopSame(m)
  BY <1>1, Zenon DEF LoopSame, TypeInv, ClockInv, TurnInv
<1>14. LineInv' /\ StoreInv' /\ WriterInv'
  <2>1. pc'[n] # "down" /\ Handled(n)' = t[n]
    BY <1>1, <1>7 DEF Handled
  <2> QED
    BY <1>1, <1>3, <1>6, <1>12, <1>13, <2>1, StoreStep, Zenon DEF c
<1>15. PlaceInv' /\ RosterInv'
  BY <1>1, <1>3, <1>10, <1>11, <1>13, LoopStep, Zenon DEF CalmInv
<1>16. ASSUME NEW m \in Node PROVE Records(m)'
  <2>1. CASE m = n
    <3>1. Records(n) /\ Writes(n)
      BY CalmTypes, Zenon
    <3>2. \A s \in snapshots'[n] : Record(s, s.number)
      BY <1>3, <3>1, Zenon DEF Records
    <3>3. ASSUME wpc'[n] = "wait"
          PROVE  /\ Record(changes'[n], wblk'[n].number)
                 /\ DOMAIN changes'[n].td \subseteq DOMAIN chain'[n].td
      <4> DEFINE r == Recorded(changes[n], c, d)
                 k == wblk[n].number
      <4>1. wpc[n] = "wait" /\ wblk'[n] = wblk[n]
        BY <1>1, <3>3, Zenon
      <4>2. changes'[n] = r
        BY <1>2, <1>3, <4>1, Zenon DEF TypeInv, PubInv, c
      <4>3. k \in Nat /\ k <= c.head.number + 1
        BY <3>1, <4>1, Zenon DEF Writes, CalmInv, LineInv, Line, c
      <4>4. Record(changes[n], k) /\ DOMAIN changes[n].td \subseteq DOMAIN c.td
        BY <3>1, <4>1, Zenon DEF Records, c
      <4>5. Line(Public)
        BY BlocksOnLine, Zenon DEF TypeInv, CalmInv
      <4> HIDE DEF k
      <4>6. Record(r, k) /\ DOMAIN r.td \subseteq DOMAIN d.td
        BY <1>4, <1>6, <4>3, <4>4, <4>5, RecordedOnLine, Zenon
      <4> HIDE DEF r
      <4> QED
        BY <1>3, <4>1, <4>2, <4>6, Zenon DEF k
    <3> QED
      BY <2>1, <3>2, <3>3, Zenon DEF Records, Record, Topped
  <2>2. CASE m # n
    <3>1. /\ chain'[m] = chain[m] /\ changes'[m] = changes[m] /\ snapshots'[m] = snapshots[m]
          /\ wpc'[m] = wpc[m] /\ wblk'[m] = wblk[m]
      BY <1>1, <1>2, <1>3, <2>2, Zenon DEF TypeInv, PubInv
    <3>2. Records(m)
      BY CalmTypes, Zenon
    <3> QED
      BY <3>1, <3>2, Zenon DEF Records, Record, Topped
  <2> QED
    BY <2>1, <2>2, Zenon
<1> QED
  BY <1>14, <1>15, <1>16, Zenon DEF CalmInv, RecordInv

\* A node starts for the first time and reads all of Avail.
LEMMA SyncStep ==
    ASSUME TypeInv, CalmInv, NEW n \in Node, Sync(n)
    PROVE  CalmInv'
<1> DEFINE d == Replay(chain[n], 1)
<1>1. /\ pc[n] = "down" /\ t' = [t EXCEPT ![n] = Len(avail)]
      /\ UNCHANGED <<net, cache, enabled, stakedAt, writer, failures>>
  BY Zenon DEF Sync
<1>2. /\ Place(n) /\ Stored(n) /\ Writes(n) /\ Len(avail) \in Nat
      /\ Within(chain[n], Public) /\ Topped(chain[n])
  BY CalmTypes, Zenon
<1>3. chain[n].head.number = 0
  BY <1>1, <1>2, BlocksOnLine, Zenon DEF Stored, TypeInv, CalmInv
<1>4. chain' = [chain EXCEPT ![n] = d] /\ pc' = [pc EXCEPT ![n] = "staking"]
  BY <1>3 DEF Sync, NextAvailBlock
<1>5. Within(d, Public) /\ Topped(d) /\ Covers(d, Len(avail))
  BY <1>2, ReplayOnLine, Zenon DEF TypeInv, CalmInv
<1> HIDE DEF d
<1>6. pc'[n] = "staking" /\ t'[n] = Len(avail) /\ UNCHANGED <<avail, inflight, snapshots>>
  BY <1>1, <1>4, Zenon DEF TypeInv, ClockInv, net
<1>7. UNCHANGED <<wpc, wblk, changes>> /\ wpc[n] = "idle" /\ ~Making(n)
  BY <1>1, <1>2, Zenon DEF writer, Writes, Making
<1>8. Place(n)' /\ Roster(n)'
  <2>1. New(n)' /\ cache'[n].list = {}
    BY <1>1, <1>2, ZenonT(30) DEF Place, New
  <2>2. Place(n)'
    BY <1>2, <1>6, <2>1, SMTT(30) DEF Place
  <2>3. Roster(n)'
    BY <1>6, Zenon DEF Roster, Eligible
  <2> QED
    BY <2>2, <2>3, Zenon
<1>9. \A m \in Node \ {n} : LoopSame(m)
  BY <1>1, <1>4, Zenon DEF LoopSame, TypeInv, ClockInv
<1>10. d.head.number >= chain[n].head.number
  <2>1. d.head.number \in Nat
    BY <1>5, BlocksOnLine, Zenon DEF TypeInv, CalmInv, Within, Topped, Line
  <2> QED
    BY <1>3, <2>1
<1>11. LineInv' /\ StoreInv' /\ WriterInv'
  <2>1. pc'[n] # "down" /\ Handled(n)' = Len(avail)
    BY <1>6, Zenon DEF Handled
  <2>2. chain'[n] = d /\ \A m \in Node \ {n} : chain'[m] = chain[m]
    BY <1>4, Zenon DEF TypeInv, PubInv
  <2> QED
    BY <1>1, <1>5, <1>6, <1>7, <1>9, <1>10, <2>1, <2>2, StoreStep, Zenon
<1>12. PlaceInv' /\ RosterInv'
  BY <1>1, <1>6, <1>8, <1>9, LoopStep, Zenon DEF CalmInv
<1>13. ASSUME NEW m \in Node PROVE Records(m)'
  <2>1. Records(m)
    BY CalmTypes
  <2>2. m # n => chain'[m] = chain[m]
    BY <1>4, Zenon DEF TypeInv, PubInv
  <2> QED
    BY <1>6, <1>7, <2>1, <2>2, Zenon DEF Records, Record, Topped
<1> QED
  BY <1>11, <1>12, <1>13, SMTT(30) DEF CalmInv, RecordInv

\* A snapshot that continues the chain by its number has a higher head.
LEMMA SnapshotStep ==
    ASSUME Nil.number \notin Nat, TypeInv, CalmInv, NEW n \in Node, ProcessSnapshot(n)
    PROVE  CalmInv'
<1>1. /\ UNCHANGED <<avail, inflight, pc, t, cache, enabled, stakedAt, wpc, wblk, changes, failures>>
      /\ pc[n] = "recv"
  BY Zenon DEF ProcessSnapshot, loop, writer, bounds
<1> DEFINE c == chain[n]
<1>2. PICK s \in snapshots[n] :
          /\ snapshots' = [snapshots EXCEPT ![n] = @ \ {s}]
          /\ \/ UNCHANGED chain
             \/ /\ s.number = c.head.number + 1
                /\ chain' = [chain EXCEPT ![n] =
                       [td |-> [b \in DOMAIN @.td \cup DOMAIN s.td |->
                                   IF b \in DOMAIN s.td THEN s.td[b] ELSE @.td[b]],
                        head |-> IF s.head = Nil THEN @.head ELSE s.head]]
  BY Zenon DEF ProcessSnapshot
<1>3. /\ Within(c, Public) /\ Topped(c) /\ c.head.number \in Nat /\ Writes(n) /\ Stored(n)
      /\ Len(avail) \in Nat /\ t[n] \in Nat /\ t[n] <= Len(avail)
  BY CalmTypes, Zenon
<1>4. Within(s, Public) /\ Record(s, s.number)
  BY CalmTypes, Zenon DEF TypeInv, PubInv, Records
<1>5. PICK d : /\ chain'[n] = d /\ \A m \in Node \ {n} : chain'[m] = chain[m]
               /\ Within(d, Public) /\ Topped(d)
               /\ d.head.number >= c.head.number /\ DOMAIN c.td \subseteq DOMAIN d.td
  <2>1. CASE UNCHANGED chain
    <3>1. c.head.number >= c.head.number
      BY <1>3
    <3> QED
      BY <1>3, <2>1, <3>1, Zenon
  <2>2. CASE ~UNCHANGED chain
    <3> DEFINE d == [td |-> [b \in DOMAIN c.td \cup DOMAIN s.td |->
                                IF b \in DOMAIN s.td THEN s.td[b] ELSE c.td[b]],
                     head |-> IF s.head = Nil THEN c.head ELSE s.head]
    <3>1. /\ chain'[n] = d /\ \A m \in Node \ {n} : chain'[m] = chain[m]
          /\ s.number = c.head.number + 1
      BY <1>2, <2>2, Zenon DEF TypeInv, PubInv
    <3>2. DOMAIN d.td = DOMAIN c.td \cup DOMAIN s.td
      BY Zenon
    <3>3. d.head = IF s.head = Nil THEN c.head ELSE s.head
      BY Zenon
    <3> HIDE DEF d, c
    <3>4. Within(d, Public)
      BY <1>3, <1>4, <3>2, Zenon DEF Within
    <3>5. Topped(d) /\ d.head.number >= c.head.number
      <4>1. CASE s.head = Nil /\ DOMAIN s.td = {}
        BY <1>3, <3>2, <3>3, <4>1, Zenon DEF Topped
      <4>2. CASE Topped(s) /\ s.head.number >= s.number
        <5>1. s.head \in Public /\ s.head.number \in Nat
          BY <1>4, <4>2, BlocksOnLine, Zenon DEF TypeInv, CalmInv, Within, Topped, Line
        <5>2. d.head = s.head
          BY <3>3, <5>1, Zenon
        <5>3. s.head.number >= c.head.number + 1
          BY <3>1, <4>2, Zenon
        <5>4. ASSUME NEW b \in DOMAIN c.td PROVE b.number <= s.head.number
          <6>1. b.number \in Nat /\ b.number <= c.head.number
            BY <1>3, BlocksOnLine, Zenon DEF TypeInv, CalmInv, Within, Topped, Line
          <6> QED
            BY <1>3, <5>1, <5>3, <6>1, SMTT(30)
        <5>5. Topped(d)
          BY <3>2, <4>2, <5>2, <5>4, Zenon DEF Topped
        <5> QED
          BY <1>3, <5>1, <5>2, <5>3, <5>5, SMTT(30)
      <4> QED
        BY <1>4, <4>1, <4>2, Zenon DEF Record
    <3> QED
      BY <3>1, <3>2, <3>4, <3>5, Zenon
  <2> QED
    BY <2>1, <2>2, Zenon
<1>6. \A m \in Node : LoopSame(m)
  BY <1>1, Zenon DEF LoopSame
<1>7. PlaceInv' /\ RosterInv'
  BY <1>1, <1>6, LoopFrame, Zenon DEF CalmInv, PlaceInv, RosterInv
<1>8. LineInv' /\ StoreInv' /\ WriterInv'
  <2>1. Covers(d, t[n])
    <3>1. Covers(c, t[n])
      BY <1>1, <1>3, Zenon DEF Stored, Handled
    <3>2. d.head.number \in Nat
      BY <1>5, BlocksOnLine, Zenon DEF TypeInv, CalmInv, Within, Topped, Line
    <3> QED
      BY <1>3, <1>5, <3>1, <3>2, CoversMore, SMTT(30) DEF TypeInv, CalmInv
  <2>2. pc'[n] # "down" /\ Handled(n)' = t[n]
    BY <1>1, Zenon DEF Handled
  <2>3. Making(n) => Leads(n)'
    BY <1>1, <1>3, <1>6, LoopFrame, Zenon DEF Writes
  <2> QED
    BY <1>1, <1>5, <1>6, <2>1, <2>2, <2>3, StoreStep, Zenon
<1>9. ASSUME NEW m \in Node PROVE Records(m)'
  <2>1. Records(m)
    BY CalmTypes, Zenon
  <2>2. DOMAIN chain[m].td \subseteq DOMAIN chain'[m].td
    BY <1>5, Zenon
  <2>3. snapshots'[m] \subseteq snapshots[m]
    BY <1>2, Zenon DEF TypeInv, PubInv
  <2> QED
    BY <1>1, <2>1, <2>2, <2>3, Zenon DEF Records, Record, Topped
<1> QED
  BY <1>7, <1>8, <1>9, Zenon DEF CalmInv, RecordInv

-----------------------------------------------------------------------------
(* The steps of the writer, and of Avail.                                  *)

\* The writer starts a block only where production is enabled, that is as leader.
LEMMA TickStep ==
    ASSUME TypeInv, CalmInv, NEW n \in Node, Tick(n)
    PROVE  CalmInv'
<1>1. /\ Up(n) /\ wpc[n] = "idle" /\ enabled[n] /\ wpc' = [wpc EXCEPT ![n] = "build"]
      /\ UNCHANGED <<avail, inflight, snapshots, chain, pc, t, enabled, stakedAt, wblk, changes, failures>>
  BY Zenon DEF Tick, net, bounds
<1>2. cache[n].seed = Seed(t[n])
  BY <1>1, Zenon DEF TypeInv, TurnInv, On
<1>3. cache' = [cache EXCEPT ![n] = cache[n]]
  BY <1>2, Zenon DEF Tick
<1>4. \A m \in Node : LoopSame(m)
  BY <1>1, <1>3, Zenon DEF LoopSame, TypeInv, TurnInv
<1>5. PlaceInv' /\ RosterInv'
  BY <1>1, <1>4, LoopFrame, Zenon DEF CalmInv, PlaceInv, RosterInv
<1>6. LineInv' /\ StoreInv'
  BY <1>1, LineFrame, StoreFrame, Zenon DEF CalmInv, StoreInv
<1>7. wpc'[n] = "build" /\ \A m \in Node \ {n} : wpc'[m] = wpc[m]
  BY <1>1, Zenon DEF TypeInv, PubInv
<1>8. RecordInv'
  <2>1. ASSUME NEW m \in Node PROVE Records(m)'
    BY <1>1, <1>7, CalmTypes, Zenon DEF Records, Record, Topped
  <2> QED
    BY <2>1, Zenon DEF RecordInv
<1>9. WriterInv'
  <2>1. Blocks' = Blocks
    BY <1>1, Zenon DEF Blocks, Public
  <2>2. ASSUME NEW m \in Node PROVE Writes(m)'
    <3>1. Writes(m) /\ (enabled[m] \/ Making(m) => Leads(m))
      BY CalmTypes, EnabledLeads, Zenon
    <3>2. Leads(m) => Leads(m)'
      BY <1>1, <1>4, LoopFrame, Zenon
    <3>3. CASE m = n
      <4>1. Leads(n)' /\ pc'[n] # "down"
        BY <1>1, <3>1, <3>2, <3>3, Zenon DEF Up
      <4> QED
        BY <1>1, <1>7, <2>1, <3>1, <3>3, <4>1, Zenon DEF Writes
    <3>4. CASE m # n
      <4>1. Making(m)' <=> Making(m)
        BY <1>1, <1>7, <3>4, Zenon DEF Making
      <4> QED
        BY <1>1, <1>7, <2>1, <3>1, <3>2, <3>4, <4>1, Zenon DEF Writes
    <3> QED
      BY <3>3, <3>4
  <2>3. \A b \in inflight' : \E m \in Node : wpc'[m] = "wait" /\ wblk'[m] = b
    BY <1>1, <1>7 DEF CalmInv, WriterInv
  <2> QED
    BY <1>1, <2>2, <2>3, Zenon DEF CalmInv, WriterInv
<1> QED
  BY <1>5, <1>6, <1>8, <1>9, Zenon DEF CalmInv

\* The leader builds on the highest block there is.
LEMMA BuildStep ==
    ASSUME TypeInv, CalmInv, NEW n \in Node, Build(n)
    PROVE  CalmInv'
<1> DEFINE p == chain[n].head
<1>1. /\ wpc[n] = "build" /\ wpc' = [wpc EXCEPT ![n] = "wait"]
      /\ changes' = [changes EXCEPT ![n] = NoChanges]
      /\ UNCHANGED <<avail, snapshots, chain, pc, t, cache, enabled, stakedAt, failures>>
  BY Zenon DEF Build, loop
<1>2. PICK b : /\ wblk' = [wblk EXCEPT ![n] = b] /\ inflight' = inflight \cup {b}
               /\ b.parent = p /\ b.number = p.number + 1
  <2>1. PICK joining : /\ wblk' = [wblk EXCEPT ![n] = NewBlock(n, joining)]
                       /\ inflight' = inflight \cup {NewBlock(n, joining)}
    BY Zenon DEF Build
  <2>2. NewBlock(n, joining).parent = p /\ NewBlock(n, joining).number = p.number + 1
    BY Zenon DEF NewBlock
  <2> QED
    BY <2>1, <2>2, Zenon
<1>3. p \in Public /\ p.number \in Nat /\ Writes(n)
  BY CalmTypes, Zenon
<1>4. Making(n)
  BY <1>1, Zenon DEF Making
<1>5. \A a \in Blocks : a.number \in Nat /\ a.number <= p.number
  BY <1>1, <1>3, <1>4, Zenon DEF Writes, CalmInv, LineInv, Line
<1> HIDE DEF p
<1>6. b.number \in Nat /\ b \notin Blocks /\ b # Genesis /\ Genesis \in Blocks
  <2>1. Genesis \in Blocks
    BY Zenon DEF Blocks, Public
  <2>2. b.number \in Nat /\ \A a \in Blocks : a.number # b.number
    BY <1>2, <1>3, <1>5
  <2> QED
    BY <2>1, <2>2, Zenon
<1>7. Public' = Public /\ Blocks' = Blocks \cup {b}
  BY <1>1, <1>2, Zenon DEF Blocks, Public
<1>8. LineInv'
  <2>1. Line(Blocks')
    <3>1. ASSUME NEW a \in Blocks PROVE a.number # b.number
      BY <1>2, <1>3, <1>5
    <3>2. \A a \in Blocks' : a.number \in Nat
      BY <1>5, <1>6, <1>7, Zenon
    <3>3. ASSUME NEW x \in Blocks', NEW y \in Blocks', x.number = y.number PROVE x = y
      BY <1>7, <3>1, <3>3, Zenon DEF CalmInv, LineInv, Line
    <3> QED
      BY <3>2, <3>3, Zenon DEF Line
  <2>2. \A a \in inflight' :
            a \notin Public' /\ a.parent \in Public' /\ a.number = a.parent.number + 1
    <3>1. b \notin Public /\ b.parent \in Public /\ b.number = b.parent.number + 1
      BY <1>2, <1>3, <1>6, Zenon DEF Blocks
    <3> QED
      BY <1>2, <1>7, <3>1, Zenon DEF CalmInv, LineInv
  <2> QED
    BY <1>1, <2>1, <2>2, Zenon DEF CalmInv, LineInv
<1>9. \A m \in Node : LoopSame(m)
  BY <1>1, Zenon DEF LoopSame
<1>10. PlaceInv' /\ RosterInv' /\ StoreInv'
  BY <1>1, <1>9, LoopFrame, StoreFrame, Zenon DEF CalmInv, PlaceInv, RosterInv, StoreInv
<1>11. /\ wpc'[n] = "wait" /\ wblk'[n] = b /\ changes'[n] = NoChanges
       /\ \A m \in Node \ {n} : /\ wpc'[m] = wpc[m] /\ wblk'[m] = wblk[m]
                                /\ changes'[m] = changes[m]
  BY <1>1, <1>2, Zenon DEF TypeInv, PubInv, CalmInv, WriterInv
<1>12. RecordInv'
  <2>1. ASSUME NEW m \in Node PROVE Records(m)'
    <3>1. Records(m)
      BY CalmTypes
    <3>2. CASE m = n
      <4>1. DOMAIN NoChanges.td = {} /\ NoChanges.head = Nil
        BY Zenon DEF NoChanges
      <4> QED
        BY <1>1, <1>11, <3>1, <3>2, <4>1, Zenon DEF Records, Record, Topped
    <3>3. CASE m # n
      BY <1>1, <1>11, <3>1, <3>3, Zenon DEF Records, Record, Topped
    <3> QED
      BY <3>2, <3>3
  <2> QED
    BY <2>1, SMTT(30) DEF RecordInv
<1>13. ASSUME NEW m \in Node PROVE Writes(m)'
  <2>1. Writes(m) /\ (Leads(m) => Leads(m)')
    BY <1>1, <1>9, CalmTypes, LoopFrame, Zenon
  <2>2. CASE m = n
    <3>1. /\ wblk'[n] \in Blocks' \ {Genesis} /\ wblk'[n].number <= chain'[n].head.number + 1
      BY <1>1, <1>2, <1>3, <1>6, <1>7, <1>11, SMTT(30) DEF p
    <3>2. \A a \in Blocks' : a.number <= chain'[n].head.number \/ a = wblk'[n]
      BY <1>1, <1>5, <1>7, <1>11, Zenon DEF p
    <3>3. pc'[n] # "down" /\ Leads(n)'
      BY <1>1, <1>4, <2>1, <2>2, Zenon DEF Writes
    <3> QED
      BY <1>11, <2>2, <3>1, <3>2, <3>3, Zenon DEF Writes
  <2>3. CASE m # n
    <3>1. ~enabled[m] /\ ~Making(m)
      <4>1. ASSUME enabled[m] \/ Making(m) PROVE m = n
        BY <1>4, <4>1, OneWriter, Zenon
      <4> QED
        BY <2>3, <4>1, Zenon
    <3>2. ~Making(m)'
      <4>1. wpc'[m] = wpc[m] /\ wblk'[m] = wblk[m]
        BY <1>11, <2>3, Zenon
      <4>2. wpc[m] = "wait" => wblk[m] # b
        BY <1>6, <2>1, Zenon DEF Writes
      <4>3. wpc[m] # "build" /\ (wpc[m] = "wait" => wblk[m] \notin inflight)
        BY <3>1, Zenon DEF Making
      <4>4. inflight' = inflight \cup {b}
        BY <1>2, Zenon
      <4> QED
        BY <4>1, <4>2, <4>3, <4>4, Zenon DEF Making
    <3> QED
      BY <1>1, <1>7, <1>11, <2>1, <2>3, <3>1, <3>2, Zenon DEF Writes
  <2> QED
    BY <2>2, <2>3
<1>14. WriterInv'
  <2>1. ASSUME NEW a \in inflight' PROVE \E m \in Node : wpc'[m] = "wait" /\ wblk'[m] = a
    <3>1. CASE a = b
      BY <1>11, <3>1, Zenon
    <3>2. CASE a # b
      <4>1. PICK m \in Node : wpc[m] = "wait" /\ wblk[m] = a
        BY <1>2, <3>2, Zenon DEF CalmInv, WriterInv
      <4> QED
        BY <1>1, <1>11, <4>1, Zenon
    <3> QED
      BY <3>1, <3>2, Zenon
  <2>2. DOMAIN wblk' = Node
    BY <1>2, Zenon DEF CalmInv, WriterInv
  <2> QED
    BY <1>13, <2>1, <2>2, Zenon DEF WriterInv
<1> QED
  BY <1>8, <1>10, <1>12, <1>14, Zenon DEF CalmInv

\* The block is in Avail: the writer's head is at its number or above.
LEMMA IncludedStep ==
    ASSUME TypeInv, CalmInv, NEW n \in Node, Included(n)
    PROVE  CalmInv'
<1> DEFINE b == wblk[n]
           c == chain[n]
           d == Insert(chain[n], wblk[n])
           r == Recorded(changes[n], chain[n], d)
           s == [number |-> wblk[n].number, td |-> r.td, head |-> r.head]
<1>1. /\ wpc[n] = "wait" /\ InAvail(b) /\ chain' = [chain EXCEPT ![n] = d]
      /\ wpc' = [wpc EXCEPT ![n] = "idle"] /\ wblk' = [wblk EXCEPT ![n] = Nil]
      /\ changes' = [changes EXCEPT ![n] = Nil]
      /\ UNCHANGED <<avail, inflight, pc, t, cache, enabled, stakedAt, failures>>
  BY Zenon DEF Included, loop, bounds
<1>2. PICK R \in SUBSET Node :
          snapshots' = [m \in Node |-> IF m \in R THEN {s} ELSE snapshots[m]]
  BY Zenon DEF Included
<1>3. /\ Within(c, Public) /\ Topped(c) /\ c.head.number \in Nat
      /\ Writes(n) /\ Stored(n) /\ Records(n)
      /\ Len(avail) \in Nat /\ t[n] \in Nat /\ t[n] <= Len(avail)
  BY CalmTypes, Zenon
<1>4. b \in Public /\ b # Genesis /\ b.number <= c.head.number + 1
  BY <1>1, <1>3, Zenon DEF Writes, InAvail, Public
<1>5. Line(Public) /\ b.parent \in Public /\ b.number = b.parent.number + 1
  BY <1>4, BlocksOnLine, Zenon DEF TypeInv, CalmInv, Blocks
<1>6. b.number \in Nat /\ b.parent.number \in Nat
  BY <1>4, <1>5, Zenon DEF Line
<1>7. /\ Within(d, Public) /\ Topped(d) /\ Grown(c, d)
      /\ d.head.number >= c.head.number /\ b.number <= d.head.number
  <2> HIDE DEF b, c
  <2>1. b.parent.number <= c.head.number
    BY <1>3, <1>4, <1>5, <1>6, SMTT(30)
  <2>2. d = Insert(c, b)
    BY Zenon DEF b, c
  <2> HIDE DEF d
  <2> QED
    BY <1>3, <1>4, <1>5, <2>1, <2>2, InsertOnLine, Zenon
<1>8. Record(s, s.number)
  <2>1. Record(changes[n], b.number) /\ DOMAIN changes[n].td \subseteq DOMAIN c.td
    BY <1>1, <1>3, Zenon DEF Records
  <2>2. r = Recorded(changes[n], c, d)
    BY Zenon
  <2>3. s.number = b.number /\ s.td = r.td /\ s.head = r.head
    BY Zenon
  <2> HIDE DEF b, c, d, r, s
  <2>4. Record(r, b.number)
    BY <1>3, <1>4, <1>5, <1>6, <1>7, <2>1, <2>2, RecordedOnLine, Zenon
  <2> QED
    BY <2>3, <2>4, Zenon DEF Record, Topped
<1> HIDE DEF d, r, s
<1>9. /\ chain'[n] = d /\ wpc'[n] = "idle"
      /\ \A m \in Node \ {n} : /\ chain'[m] = chain[m] /\ wpc'[m] = wpc[m]
                               /\ wblk'[m] = wblk[m] /\ changes'[m] = changes[m]
  BY <1>1, Zenon DEF TypeInv, PubInv, CalmInv, WriterInv
<1>10. \A m \in Node : LoopSame(m)
  BY <1>1, Zenon DEF LoopSame
<1>11. PlaceInv' /\ RosterInv' /\ LineInv'
  BY <1>1, <1>10, LoopFrame, LineFrame, Zenon DEF CalmInv, PlaceInv, RosterInv
<1>12. d.head.number \in Nat
  BY <1>5, <1>7, Zenon DEF Within, Topped, Line
<1>13. StoreInv'
  <2>1. Stored(n)'
    <3>1. pc[n] # "down" /\ Covers(c, Handled(n))
      BY <1>1, <1>3, Zenon DEF Writes, Stored
    <3>2. Handled(n) \in Int /\ Handled(n) <= Len(avail) /\ Handled(n)' = Handled(n)
      BY <1>1, <1>3 DEF Handled
    <3>3. Covers(d, Handled(n))
      BY <1>3, <1>7, <1>12, <3>1, <3>2, CoversMore, Zenon DEF TypeInv, CalmInv
    <3> QED
      BY <1>1, <1>7, <1>9, <3>1, <3>2, <3>3, Zenon DEF Stored, Topped, Covers
  <2>2. ASSUME NEW m \in Node \ {n} PROVE Stored(m)'
    BY <1>1, <1>9, CalmTypes, StoreFrame, Zenon
  <2> QED
    BY <2>1, <2>2, Zenon DEF StoreInv
<1>14. RecordInv'
  <2>1. ASSUME NEW m \in Node PROVE Records(m)'
    <3>1. Records(m)
      BY CalmTypes, Zenon
    <3>2. \A x \in snapshots'[m] : x = s \/ x \in snapshots[m]
      BY <1>2, Zenon
    <3>3. \A x \in snapshots'[m] : Record(x, x.number)
      BY <1>8, <3>1, <3>2, Zenon DEF Records
    <3>4. CASE m = n
      BY <1>9, <3>3, <3>4, Zenon DEF Records, Record, Topped
    <3>5. CASE m # n
      BY <1>9, <3>1, <3>3, <3>5, Zenon DEF Records, Record, Topped
    <3> QED
      BY <3>4, <3>5, Zenon
  <2> QED
    BY <2>1, Zenon DEF RecordInv
<1>15. Blocks' = Blocks /\ \A a \in Blocks : a.number \in Nat
  BY <1>1 DEF Blocks, Public, CalmInv, LineInv, Line
<1>16. ASSUME NEW m \in Node PROVE Writes(m)'
  <2>1. Writes(m) /\ (Leads(m) => Leads(m)')
    BY <1>1, <1>10, CalmTypes, LoopFrame, Zenon
  <2>2. CASE m = n
    <3>1. ~Making(n)'
      BY <1>9, Zenon DEF Making
    <3>2. ASSUME enabled[n], NEW a \in Blocks PROVE a.number <= d.head.number
      <4>1. a.number \in Nat /\ (a.number <= c.head.number \/ a = b)
        BY <1>3, <1>15, <3>2, Zenon DEF Writes
      <4> HIDE DEF b, c
      <4> QED
        BY <1>3, <1>7, <1>12, <4>1, SMTT(30)
    <3> QED
      BY <1>1, <1>9, <1>15, <2>2, <3>1, <3>2, Zenon DEF Writes
  <2>3. CASE m # n
    <3>1. Making(m)' <=> Making(m)
      BY <1>1, <1>9, <2>3 DEF Making
    <3> QED
      BY <1>1, <1>9, <1>15, <2>1, <2>3, <3>1, ZenonT(30) DEF Writes
  <2> QED
    BY <2>2, <2>3
<1>17. WriterInv'
  <2>1. ASSUME NEW a \in inflight' PROVE \E m \in Node : wpc'[m] = "wait" /\ wblk'[m] = a
    <3>1. PICK m \in Node : wpc[m] = "wait" /\ wblk[m] = a
      BY <1>1, Zenon DEF CalmInv, WriterInv
    <3>2. m # n
      BY <1>1, <1>4, <3>1, Zenon DEF CalmInv, LineInv
    <3> QED
      BY <1>9, <3>1, <3>2, Zenon
  <2>2. DOMAIN wblk' = Node
    BY <1>1, Zenon DEF CalmInv, WriterInv
  <2> QED
    BY <1>16, <2>1, <2>2, Zenon DEF WriterInv
<1> QED
  BY <1>11, <1>13, <1>14, <1>17, Zenon DEF CalmInv

\* What is on its way, one block at most, is in the new Avail block.
LEMMA AvailTakesAll ==
    ASSUME TypeInv, CalmInv, NEW k \in 0..built, NEW q \in Bijection(1..k, inflight)
    PROVE  /\ q \in Seq(inflight) /\ Len(q) <= 1
           /\ Range(q) = inflight
<1>1. k \in Nat /\ \A a, b \in inflight : a = b
  BY OneWriter DEF TypeInv, AvailInv
<1>2. /\ q \in [1..k -> inflight] /\ \A b \in inflight : \E i \in 1..k : q[i] = b
      /\ \A i, j \in 1..k : q[i] = q[j] => i = j
  BY Zenon DEF Bijection, Injection, Surjection, IsInjective
<1>3. q \in Seq(inflight) /\ Len(q) = k
  BY <1>1, <1>2, ListIsSeq, Zenon
<1>4. Range(q) = inflight
  BY <1>2 DEF Range
<1>5. k <= 1
  <2>1. SUFFICES ASSUME 1 \in 1..k, 2 \in 1..k PROVE FALSE
    BY <1>1
  <2>2. q[1] = q[2]
    BY <1>1, <1>2, <2>1, SMTT(30)
  <2> QED
    BY <1>2, <2>1, <2>2, SMTT(30)
<1> QED
  BY <1>3, <1>4, <1>5, Zenon

\* Avail takes the one block on its way, on top of all others.
LEMMA NewAvailStep ==
    ASSUME Calm, TypeInv, CalmInv, NewAvailBlock
    PROVE  CalmInv'
<1> DEFINE L == Len(avail)
<1>0. PICK many \in 0..built : \E q \in Bijection(1..many, inflight) : avail' = Append(avail, q)
  BY Zenon DEF NewAvailBlock, Calm
<1>1. PICK q \in Bijection(1..many, inflight) : avail' = Append(avail, q)
  BY <1>0, Zenon
<1>2. /\ inflight' = {}
      /\ UNCHANGED <<snapshots, chain, pc, t, cache, enabled, stakedAt, wpc, wblk, changes, failures>>
  BY Zenon DEF NewAvailBlock, Calm, loop, writer, bounds
<1>3. \A m \in Node : /\ Up(m) => pc[m] = "recv" /\ t[m] = L /\ wpc[m] # "build"
                      /\ pc[m] = "staking" => t[m] = L
  BY Zenon DEF NewAvailBlock, Calm
<1>4. q \in Seq(inflight) /\ Len(q) <= 1 /\ Range(q) = inflight
  BY AvailTakesAll, Zenon
<1>5. L \in Nat /\ DOMAIN avail = 1..L
  BY AvailFacts, Zenon DEF TypeInv
<1>6. /\ Len(avail') = L + 1 /\ DOMAIN avail' = 1..L + 1
      /\ avail'[L + 1] = q /\ \A i \in 1..L : avail'[i] = avail[i]
  <2>1. PICK U : AvailOf(U)
    BY Zenon DEF TypeInv, AvailInv
  <2>2. q \in Seq(U)
    <3>1. inflight \subseteq U
      BY <2>1, Zenon DEF AvailOf
    <3> QED
      BY <1>4, <3>1, SeqMonotonic, Zenon
  <2>3. avail \in Seq(Seq(U))
    BY <2>1, Zenon DEF AvailOf
  <2>4. /\ avail' \in Seq(Seq(U)) /\ Len(avail') = L + 1
        /\ avail'[L + 1] = q /\ \A i \in 1..L : avail'[i] = avail[i]
    BY <1>1, <2>2, <2>3, Appended, SMTT(30)
  <2> QED
    BY <2>4
<1> HIDE DEF L
<1>7. Public' = Public \cup inflight
  <2>1. \A i \in 1..L + 1 : i \in 1..L \/ i = L + 1
    BY <1>5
  <2>2. 1..L \subseteq 1..L + 1 /\ L + 1 \in 1..L + 1
    BY <1>5
  <2>3. ASSUME NEW b \in Public' PROVE b \in Public \cup inflight
    <3>1. CASE b = Genesis
      BY <3>1, Zenon DEF Public
    <3>2. CASE b # Genesis
      <4>1. PICK i \in 1..L + 1 : b \in Range(avail'[i])
        BY <1>6, <3>2, Zenon DEF Public
      <4>2. CASE i = L + 1
        BY <1>4, <1>6, <4>1, <4>2, Zenon
      <4>3. CASE i \in 1..L
        BY <1>5, <1>6, <4>1, <4>3, Zenon DEF Public
      <4> QED
        BY <2>1, <4>2, <4>3, Zenon
    <3> QED
      BY <3>1, <3>2, Zenon
  <2>4. ASSUME NEW b \in inflight PROVE b \in Public'
    BY <1>4, <1>6, <2>2, Zenon DEF Public
  <2>5. ASSUME NEW b \in Public PROVE b \in Public'
    BY <1>5, <1>6, <2>2, Zenon DEF Public
  <2> QED
    BY <2>3, <2>4, <2>5, Zenon
<1>8. Blocks' = Blocks
  BY <1>2, <1>7, Zenon DEF Blocks
<1>9. LineInv'
  <2>1. Line(Blocks')
    BY <1>8, Zenon DEF CalmInv, LineInv
  <2>2. ASSUME NEW i \in DOMAIN avail'
        PROVE  /\ Len(avail'[i]) <= 1
               /\ \A b \in Range(avail'[i]) :
                      /\ b.number = b.parent.number + 1
                      /\ \/ b.parent = Genesis
                         \/ \E j \in 1..i - 1 : b.parent \in Range(avail'[j])
    <3>1. CASE i \in 1..L
      <4>1. 1..i - 1 \subseteq 1..L
        BY <1>5, <3>1, SMTT(30)
      <4>2. \A j \in 1..i - 1 : avail'[j] = avail[j]
        BY <1>6, <4>1, Zenon
      <4> QED
        BY <1>5, <1>6, <3>1, <4>2, SMTT(30) DEF CalmInv, LineInv
    <3>2. CASE i = L + 1
      <4>1. i - 1 = L
        BY <1>5, <3>2, SMTT(30)
      <4>2. ASSUME NEW b \in inflight
            PROVE  b.parent = Genesis \/ \E j \in 1..L : b.parent \in Range(avail'[j])
        <5>1. b.parent \in Public
          BY Zenon DEF CalmInv, LineInv
        <5> QED
          BY <1>5, <1>6, <5>1, ZenonT(30) DEF Public
      <4> QED
        BY <1>4, <1>6, <3>2, <4>1, <4>2, ZenonT(30) DEF CalmInv, LineInv
    <3>3. i \in 1..L \/ i = L + 1
      BY <1>5, <1>6, SMTT(30)
    <3> QED
      BY <3>1, <3>2, <3>3, ZenonT(30)
  <2> QED
    BY <1>2, <2>1, <2>2, Zenon DEF LineInv
<1>10. ASSUME NEW m \in Node PROVE Place(m)' /\ Stored(m)' /\ Roster(m)'
  <2>1. /\ t[m] \in Nat /\ t[m] <= L
        /\ Place(m) /\ Stored(m) /\ Roster(m)
    BY CalmTypes, Zenon DEF L
  <2>2. Place(m)'
    <3>1. New(m)' <=> New(m)
      BY <1>2, Zenon DEF New
    <3>2. pc[m] \in {"down", "staking"} \/ (pc[m] = "recv" /\ t[m] = L)
      BY <1>3, <2>1, Zenon DEF Place, Up
    <3>3. CASE pc[m] = "down"
      BY <1>2, <2>1, <3>1, <3>3, Zenon DEF Place
    <3>4. CASE pc[m] = "staking"
      <4>1. t[m] >= (L + 1) - 1
        BY <1>3, <1>5, <3>4, SMTT(30)
      <4> QED
        BY <1>2, <1>6, <2>1, <3>1, <3>4, <4>1, Zenon DEF Place
    <3>5. CASE pc[m] = "recv" /\ t[m] = L
      <4>1. t[m] >= (L + 1) - 1
        BY <1>5, <3>5, SMTT(30)
      <4>2. cache[m].seed = Seed(t[m]) \/ New(m)
        BY <2>1, <3>5, Zenon DEF Place
      <4> QED
        BY <1>2, <1>6, <3>1, <3>5, <4>1, <4>2, ZenonT(30) DEF Place
    <3> QED
      BY <3>2, <3>3, <3>4, <3>5, Zenon
  <2>3. Stored(m)'
    <3>1. Handled(m)' = Handled(m) /\ Handled(m) \in Int /\ Handled(m) <= L
      BY <1>2, <1>5, <2>1, SMTT(30) DEF Handled
    <3>2. \A j \in 1..Handled(m) : avail'[j] = avail[j]
      BY <1>5, <1>6, <3>1
    <3>3. Covers(chain[m], Handled(m)) => Covers(chain[m], Handled(m))'
      BY <1>2, <3>1, <3>2, Zenon DEF Covers
    <3> QED
      BY <1>2, <2>1, <3>3, Zenon DEF Stored, Topped
  <2>4. Roster(m)'
    <3> DEFINE k == WindowLen * Seed(t[m])
    <3>1. k \in Int /\ k <= L
      <4>1. t[m] \in Nat /\ t[m] <= L /\ L \in Nat
        BY <1>5, <2>1
      <4>2. k \in Int /\ k <= t[m]
        BY <4>1, WindowStart, Zenon
      <4> HIDE DEF k
      <4> QED
        BY <4>1, <4>2
    <3>2. \A j \in 1..k : avail'[j] = avail[j]
      BY <1>5, <1>6, <3>1, SMTT(30)
    <3>3. Eligible(m)' <=> Eligible(m)
      BY <1>2, Zenon DEF Eligible, Fenced, Since, Seed
    <3>4. k' = k /\ Seed(t[m])' = Seed(t[m])
      BY <1>2, Zenon DEF Seed
    <3> HIDE DEF k
    <3>5. ASSUME NEW b, Top(b, k) PROVE Top(b, k)'
      BY <3>2, <3>4, <3>5, Zenon DEF Top
    <3>6. SUFFICES ASSUME Eligible(m)
                   PROVE  /\ cache'[m].order = Seed(t'[m])
                          /\ \E b \in Public' : Top(b, k)' /\ cache'[m].list = b.active
      BY <3>3, Zenon DEF Roster, k
    <3>7. /\ cache[m].order = Seed(t[m])
          /\ \E b \in Public : Top(b, k) /\ cache[m].list = b.active
      BY <2>1, <3>6, Zenon DEF Roster, k
    <3> QED
      BY <1>2, <1>7, <3>4, <3>5, <3>7, Zenon
  <2> QED
    BY <2>2, <2>3, <2>4, Zenon
<1>11. PlaceInv' /\ StoreInv' /\ RosterInv'
  BY <1>2, <1>10, Zenon DEF CalmInv, PlaceInv, StoreInv, RosterInv
<1>12. RecordInv'
  BY <1>2, RecordFrame, Zenon DEF CalmInv
<1>13. WriterInv'
  <2>1. ASSUME NEW m \in Node PROVE Writes(m)'
    <3>1. Writes(m)
      BY CalmTypes, Zenon
    <3>2. wpc[m] # "build"
      <4>1. SUFFICES ASSUME wpc[m] = "build" PROVE FALSE
        BY Zenon
      <4>2. Up(m)
        BY <3>1, <4>1, Zenon DEF Writes, Making, Leads, Eligible, Up
      <4> QED
        BY <1>3, <4>1, <4>2, Zenon
    <3>3. ~Making(m)'
      BY <1>2, <3>2, Zenon DEF Making
    <3> QED
      BY <1>2, <1>8, <3>1, <3>3, Zenon DEF Writes
  <2> QED
    BY <1>2, <2>1, Zenon DEF CalmInv, WriterInv
<1> QED
  BY <1>9, <1>11, <1>12, <1>13, ZenonT(30) DEF CalmInv

\* Every step of nodes that keep up preserves the invariant.
LEMMA CalmStep ==
    ASSUME Calm, Nil.number \notin Nat, TypeInv, CalmInv, [Next]_vars
    PROVE  CalmInv'
<1>1. CASE UNCHANGED vars
  <2>1. UNCHANGED <<avail, inflight, snapshots, chain, pc, t, cache, enabled, stakedAt,
                    wpc, wblk, changes, failures>>
    BY <1>1, Zenon DEF vars, net, loop, writer, bounds
  <2>2. \A m \in Node : LoopSame(m)
    BY <2>1, Zenon DEF LoopSame
  <2>3. LineInv' /\ RecordInv' /\ PlaceInv' /\ RosterInv' /\ StoreInv'
    BY <2>1, <2>2, LineFrame, RecordFrame, LoopFrame, StoreFrame, Zenon
    DEF CalmInv, PlaceInv, RosterInv, StoreInv
  <2>4. ASSUME NEW m \in Node PROVE Writes(m)'
    <3>1. Writes(m) /\ (Leads(m) => Leads(m)')
      BY <2>1, <2>2, LoopFrame, CalmTypes, Zenon
    <3>2. Blocks' = Blocks /\ (Making(m)' <=> Making(m))
      BY <2>1, Zenon DEF Blocks, Public, Making
    <3> QED
      BY <2>1, <3>1, <3>2, Zenon DEF Writes
  <2>5. WriterInv'
    BY <2>1, <2>4, Zenon DEF CalmInv, WriterInv
  <2> QED
    BY <2>3, <2>5, Zenon DEF CalmInv
<1>2. CASE Horizon
  BY <1>1, <1>2, Zenon DEF Horizon
<1>3. CASE NewAvailBlock
  BY <1>3, NewAvailStep, Zenon
<1>4. ASSUME NEW n \in Node, MainLoop(n) PROVE CalmInv'
  <2>1. ~Resync(n)
    BY CalmTypes, Zenon DEF Resync, Place
  <2> QED
    BY <1>4, <2>1, ReceiveStep, ApplyStep, QueryStep, DecideStep, RunStep, Zenon DEF MainLoop
<1>5. ASSUME NEW n \in Node, Writer(n) \/ Tick(n) PROVE CalmInv'
  BY <1>5, BuildStep, IncludedStep, TickStep, Zenon DEF Writer
<1>6. ASSUME NEW n \in Node, SendFailed(n) \/ QueryFailed(n) \/ Crash(n) PROVE FALSE
  <2>1. failures = 0 /\ MaxFailures = 0 /\ Crashing = {}
    BY Zenon DEF CalmInv, PlaceInv, Calm
  <2> QED
    BY <1>6, <2>1 DEF SendFailed, QueryFailed, Crash
<1>7. ASSUME NEW n \in Node, ProcessSnapshot(n) \/ Sync(n) PROVE CalmInv'
  BY <1>7, SnapshotStep, SyncStep, Zenon
<1> QED
  BY <1>1, <1>2, <1>3, <1>4, <1>5, <1>6, <1>7, Zenon DEF Next

\* At the start the stake block of the bootstrap sequencers is all there is.
LEMMA CalmStart == Init => CalmInv
<1> SUFFICES ASSUME Init PROVE CalmInv
  BY Zenon
<1> DEFINE g == NewStore(Genesis)
           d == Insert(g, StakeBlock)
<1>1. WindowLen \in Nat /\ WindowLen - 1 \in Nat /\ WindowLen - 1 > 0
  BY ConstantAssumption
<1>2. /\ DOMAIN avail = 1..WindowLen - 1 /\ avail[1] = <<StakeBlock>>
      /\ \A i \in 1..WindowLen - 1 : i # 1 => avail[i] = <<>>
  BY <1>1 DEF Init
<1>3. Len(avail) = WindowLen - 1
  BY <1>1, <1>2, AvailStart, AvailFacts
<1>4. Range(<<StakeBlock>>) = {StakeBlock} /\ Range(<<>>) = {}
  BY DEF Range
<1>5. \A i \in 1..WindowLen - 1 : /\ Range(avail[i]) \subseteq {StakeBlock}
                                  /\ Len(avail[i]) <= 1
  <2>1. Len(<<StakeBlock>>) = 1 /\ Len(<<>>) = 0
    BY Zenon
  <2>2. ASSUME NEW i \in 1..WindowLen - 1 PROVE Range(avail[i]) \subseteq {StakeBlock}
    BY <1>2, <1>4, Zenon
  <2>3. ASSUME NEW i \in 1..WindowLen - 1 PROVE Len(avail[i]) <= 1
    <3> DEFINE k == Len(avail[i])
    <3>1. k = 1 \/ k = 0
      BY <1>2, <2>1, Zenon
    <3> HIDE DEF k
    <3>2. k <= 1
      BY <3>1
    <3> QED
      BY <3>2, Zenon DEF k
  <2> QED
    BY <2>2, <2>3, Zenon
<1>6. Public = {Genesis, StakeBlock} /\ Blocks = Public
  <2>1. 1 \in DOMAIN avail /\ StakeBlock \in Range(avail[1])
    BY <1>1, <1>2, <1>4, SMTT(30)
  <2>2. UNION {Range(avail[i]) : i \in DOMAIN avail} = {StakeBlock}
    BY <1>2, <1>5, <2>1, Zenon
  <2> QED
    BY <2>2, Zenon DEF Init, Public, Blocks
<1>7. /\ Genesis.number = 0 /\ StakeBlock.number = 1 /\ StakeBlock.parent = Genesis
  BY Zenon DEF Genesis, StakeBlock
<1>8. Line(Public)
  BY <1>6, <1>7 DEF Line
<1>9. LineInv
  <2>1. inflight = {}
    BY Zenon DEF Init
  <2>2. \A i \in DOMAIN avail : \A b \in Range(avail[i]) :
            b.number = b.parent.number + 1 /\ b.parent = Genesis
    BY <1>2, <1>5, <1>7, SMTT(30)
  <2> QED
    BY <1>2, <1>5, <1>6, <1>8, <2>1, <2>2, Zenon DEF LineInv
<1>10. Within(g, Public) /\ Topped(g) /\ g.head = Genesis
  BY <1>6, <1>7 DEF NewStore, Within, Topped
<1>11. Topped(d) /\ 1 <= d.head.number
  <2>1. StakeBlock \in Public /\ StakeBlock.parent \in Public
    BY <1>6, <1>7, Zenon
  <2>2. /\ StakeBlock.number = StakeBlock.parent.number + 1
        /\ StakeBlock.parent.number <= g.head.number
    BY <1>7, <1>10
  <2> HIDE DEF g
  <2> QED
    BY <1>7, <1>8, <1>10, <2>1, <2>2, InsertOnLine, Zenon
<1> HIDE DEF g, d
<1>12. StoreInv
  <2>1. ASSUME NEW n \in Node PROVE Stored(n)
    <3>1. CASE n \in Bootstrap
      <4>1. chain[n] = d /\ pc[n] = "recv" /\ Handled(n) = WindowLen - 1
        BY <3>1, Zenon DEF Init, Handled, d, g
      <4>2. Covers(d, WindowLen - 1)
        BY <1>5, <1>7, <1>11, Zenon DEF Covers
      <4> QED
        BY <1>11, <4>1, <4>2, Zenon DEF Stored
    <3>2. CASE n \notin Bootstrap
      <4>1. chain[n] = g /\ pc[n] = "down"
        BY <3>2, Zenon DEF Init, g
      <4> QED
        BY <1>10, <4>1, Zenon DEF Stored
    <3> QED
      BY <3>1, <3>2, Zenon
  <2> QED
    BY <2>1, Zenon DEF StoreInv
<1>13. PlaceInv
  <2>1. Seed(WindowLen - 1) = 0
    <3> DEFINE i == WindowLen - 1
    <3>1. i \in Int /\ 0 <= i /\ i < WindowLen /\ i = WindowLen * 0 + i
      BY <1>1
    <3> HIDE DEF i
    <3>2. Seed(i) = 0
      BY <3>1, Quotient, SMTT(30)
    <3> QED
      BY <3>2, Zenon DEF i
  <2>2. ASSUME NEW n \in Node PROVE Place(n)
    <3>1. /\ t[n] = WindowLen - 1 /\ cache[n].seed = 0 /\ cache[n].list = {} /\ stakedAt[n] = Nil
      BY Zenon DEF Init
    <3>2. t[n] >= Len(avail) - 1
      BY <1>1, <1>3, <3>1
    <3>3. \/ pc[n] = "recv"
          \/ pc[n] = "down" /\ n \notin Bootstrap
      BY Zenon DEF Init
    <3> QED
      BY <2>1, <3>1, <3>2, <3>3, Zenon DEF Place, New
  <2> QED
    BY <2>2, Zenon DEF PlaceInv, Init
<1>14. RosterInv
  BY Zenon DEF Init, RosterInv, Roster, Eligible
<1>15. WriterInv /\ RecordInv
  BY Zenon DEF Init, WriterInv, Writes, Making, RecordInv, Records
<1> QED
  BY <1>9, <1>12, <1>13, <1>14, <1>15, Zenon DEF CalmInv

-----------------------------------------------------------------------------
(* Agreement, NoLostBlock and CoherentLeader.                              *)

\* Of two blocks in Avail the lower one is an ancestor of the other.
LEMMA AncestorOnLine ==
    ASSUME AvailInv, LineInv, NEW b \in Public, NEW h \in Public, b.number <= h.number
    PROVE  OnChain(b, h)
<1> DEFINE N == h.number
           Steps(u, k) == u = [i \in 0..k |-> IF i = 0 THEN h ELSE u[i - 1].parent]
           Made == {k \in Nat : \E u : Steps(u, k)}
<1>1. /\ Line(Public) /\ Genesis.number = 0
      /\ \A a \in Public \ {Genesis} : a.parent \in Public /\ a.number = a.parent.number + 1
  BY BlocksOnLine, Zenon DEF Blocks
<1>2. N \in Nat /\ b.number \in Nat
  BY <1>1, Zenon DEF Line
<1>3. \E u : Steps(u, N)
  <2>1. 0 \in Made
    <3>1. Steps([i \in 0..0 |-> h], 0)
      OBVIOUS
    <3> QED
      BY <3>1, Zenon
  <2>2. ASSUME NEW k \in Nat, k \in Made PROVE k + 1 \in Made
    <3>1. PICK u : Steps(u, k)
      BY <2>2, Zenon
    <3> DEFINE v == [i \in 0..k + 1 |-> IF i = k + 1 THEN u[k].parent ELSE u[i]]
    <3>2. ASSUME NEW i \in 0..k + 1 PROVE v[i] = IF i = 0 THEN h ELSE v[i - 1].parent
      <4>1. CASE i = k + 1
        <5>1. v[k] = u[k]
          OBVIOUS
        <5> QED
          BY <4>1, <5>1
      <4>2. CASE i \in 1..k
        <5>1. v[i] = u[i] /\ v[i - 1] = u[i - 1]
          BY <4>2, SMTT(30)
        <5>2. u[i] = u[i - 1].parent
          BY <3>1, <4>2, SMTT(30)
        <5> QED
          BY <4>2, <5>1, <5>2, SMTT(30)
      <4>3. CASE i = 0
        BY <3>1, <4>3, SMTT(30)
      <4> QED
        BY <4>1, <4>2, <4>3, SMTT(30)
    <3>3. Steps(v, k + 1)
      BY <3>2, Zenon
    <3>4. \E u1 : Steps(u1, k + 1)
      <4> HIDE DEF v, Steps
      <4> QED
        BY <3>3, Zenon
    <3> QED
      BY <3>4
  <2>3. Nat \subseteq Made
    <3> HIDE DEF Made
    <3> QED
      BY <2>1, <2>2, NumberInduction, Zenon
  <2> QED
    BY <1>2, <2>3, Zenon
<1> DEFINE up == CHOOSE u : Steps(u, N)
<1>4. Steps(up, N)
  <2> HIDE DEF Steps
  <2> QED
    BY <1>3, Zenon
<1>5. Ancestor(h, b.number) = up[N - b.number]
  BY Zenon DEF Ancestor
<1> HIDE DEF up
<1> DEFINE Good == {i \in Nat : i <= N => up[i] \in Public /\ up[i].number = N - i}
<1>6. 0 \in Good
  BY <1>2, <1>4, SMTT(30)
<1>7. ASSUME NEW i \in Nat, i \in Good PROVE i + 1 \in Good
  <2>1. SUFFICES ASSUME i + 1 <= N PROVE up[i + 1] \in Public /\ up[i + 1].number = N - (i + 1)
    OBVIOUS
  <2>2. up[i] \in Public /\ up[i].number = N - i /\ N - i # 0
    BY <1>2, <1>7, <2>1, SMTT(30)
  <2>3. up[i + 1] = up[i].parent
    BY <1>2, <1>4, <2>1
  <2>4. up[i].parent \in Public /\ up[i].number = up[i].parent.number + 1
    BY <1>1, <2>2, Zenon
  <2>5. up[i].parent.number \in Nat
    BY <1>1, <2>4, Zenon DEF Line
  <2> HIDE DEF N
  <2> QED
    BY <1>2, <2>2, <2>3, <2>4, <2>5, SMTT(30)
<1>8. Nat \subseteq Good
  <2> HIDE DEF Good
  <2> QED
    BY <1>6, <1>7, NumberInduction, Zenon
<1>9. N - b.number \in Nat /\ N - b.number <= N /\ N - (N - b.number) = b.number
  BY <1>2
<1>10. up[N - b.number] \in Public /\ up[N - b.number].number = b.number
  BY <1>8, <1>9, Zenon
<1>11. up[N - b.number] = b
  BY <1>1, <1>10, Zenon DEF Line
<1> QED
  BY <1>5, <1>11, Zenon DEF OnChain

\* The invariant implies the three properties.
LEMMA CalmSafe ==
    ASSUME TypeInv, CalmInv
    PROVE  Agreement /\ NoLostBlock /\ CoherentLeader
<1>1. Agreement
  <2>1. ASSUME NEW m \in Node, NEW n \in Node
        PROVE  OnChain(chain[m].head, chain[n].head) \/ OnChain(chain[n].head, chain[m].head)
    <3> DEFINE a == chain[m].head
               b == chain[n].head
    <3>1. a \in Public /\ b \in Public /\ a.number \in Nat /\ b.number \in Nat
      BY CalmTypes, Zenon
    <3>2. a.number <= b.number \/ b.number <= a.number
      BY <3>1
    <3> HIDE DEF a, b
    <3>3. OnChain(a, b) \/ OnChain(b, a)
      BY <3>1, <3>2, AncestorOnLine, Zenon DEF TypeInv, CalmInv
    <3> QED
      BY <3>3, Zenon DEF a, b
  <2> QED
    BY <2>1, Zenon DEF Agreement
<1>2. NoLostBlock
  <2>1. ASSUME NEW n \in Node, pc[n] = "recv", NEW i \in 1..t[n], NEW b \in Range(avail[i])
        PROVE  OnChain(b, chain[n].head)
    <3>1. /\ Len(avail) \in Nat /\ t[n] \in Nat /\ t[n] <= Len(avail)
          /\ chain[n].head \in Public /\ Stored(n)
      BY CalmTypes, Zenon
    <3>2. i \in 1..Len(avail)
      BY <3>1
    <3>3. b \in Public
      BY <3>2, BlocksOnLine, Zenon DEF TypeInv, CalmInv
    <3>4. b.number <= chain[n].head.number
      BY <2>1, <3>1, Zenon DEF Stored, Covers, Handled
    <3> QED
      BY <3>1, <3>3, <3>4, AncestorOnLine, Zenon DEF TypeInv, CalmInv
  <2> QED
    BY <2>1, Zenon DEF NoLostBlock
<1>3. CoherentLeader
  BY OneWriter, Zenon DEF CoherentLeader
<1> QED
  BY <1>1, <1>2, <1>3, Zenon

\* TypeInv and CalmInv hold in every state of nodes that keep up.
LEMMA CalmAlways ==
    ASSUME Calm, Nil.number \notin Nat
    PROVE  Spec => [](TypeInv /\ CalmInv)
<1>1. Init => TypeInv /\ CalmInv
  <2>1. Init => TurnInv
    BY DEF Init, TurnInv
  <2> QED
    BY <2>1, AvailStart, ClockStart, PubStart, CalmStart, Zenon DEF TypeInv
<1>2. TypeInv /\ CalmInv /\ [Next]_vars => (TypeInv /\ CalmInv)'
  <2>1. SUFFICES ASSUME TypeInv, CalmInv, [Next]_vars PROVE TypeInv' /\ CalmInv'
    BY Zenon
  <2>2. CalmInv'
    BY <2>1, CalmStep, Zenon
  <2>3. AvailInv' /\ ClockInv' /\ PubInv' /\ TurnInv'
    BY <2>1, AvailStep, ClockStep, PubStep, TurnStep, Zenon DEF TypeInv
  <2> QED
    BY <2>2, <2>3, Zenon DEF TypeInv
<1> QED
  BY <1>1, <1>2, PTL DEF Spec

\* Nodes that keep up with Avail: the heads of any two of them are on one chain,
\* although every leader makes blocks on its own head and the lists of active
\* sequencers are read from the stores.
THEOREM AgreementTheorem ==
    ASSUME Calm, Nil.number \notin Nat
    PROVE  Spec => []Agreement
<1>1. TypeInv /\ CalmInv => Agreement
  BY CalmSafe, Zenon
<1> QED
  BY <1>1, CalmAlways, PTL

\* Nodes that keep up with Avail: every edge block of an Avail block that the
\* main loop has handled is on the node's chain.
THEOREM NoLostBlockTheorem ==
    ASSUME Calm, Nil.number \notin Nat
    PROVE  Spec => []NoLostBlock
<1>1. TypeInv /\ CalmInv => NoLostBlock
  BY CalmSafe, Zenon
<1> QED
  BY <1>1, CalmAlways, PTL

\* Nodes that keep up with Avail: blockProductionEnabled is set at no two of
\* them in one window.
THEOREM CoherentLeaderTheorem ==
    ASSUME Calm, Nil.number \notin Nat
    PROVE  Spec => []CoherentLeader
<1>1. TypeInv /\ CalmInv => CoherentLeader
  BY CalmSafe, Zenon
<1> QED
  BY <1>1, CalmAlways, PTL
=============================================================================
