--------------------------- MODULE ProducerProofs ---------------------------
(***************************************************************************)
(* What a producer makes: the snapshot of what writing its block has       *)
(* changed, and the gas limit of the block (last section).                 *)
(*                                                                         *)
(* What was sent is complete because of what the writer had collected when *)
(* its block was written, by itself or by the main loop, which may do it   *)
(* first or half of it: Producer follows both threads through WriteBlock.  *)
(* SentInv is about the snapshots sent, PeerInv about one that is being    *)
(* applied.                                                                *)
(***************************************************************************)
EXTENDS Snapshots, TLAPS

\* Nil is no thread, no block, no changes map and no set of blocks.
NilApart ==
    /\ Nil \notin {"writer", "loop"}
    /\ \A n, k, p : Nil # [number |-> n, by |-> k, parent |-> p]
    /\ \A K, h : Nil # [keys |-> K, head |-> h]
    /\ \A S : (\A b \in S : b.by \in {"p", "o"}) => Nil # S

\* The writer's steps before and after its block is in Avail, and those of a thread
\* that holds writeLock.
Before == {"parent", "begin", "commit", "submit"}
After == {"write", "body", "header", "receipts", "written", "end"}
Busy == {"body", "header", "receipts"}
Collecting == {"commit", "submit", "write", "body", "header", "receipts", "written"}

Own == writer.block
Top == head["p"]
Known(b) == \E i \in 1..Len(avail) : avail[i] = b

Made(b) ==
    /\ b = [number |-> b.number, by |-> b.by, parent |-> b.parent]
    /\ b.by \in {"p", "o"} /\ b.parent.number \in Nat /\ b.number = b.parent.number + 1

AvailInv == \E B : avail \in Seq(B) /\ \A b \in B : Made(b)

Shaped(r) ==
    /\ r = [step |-> r.step, block |-> r.block, todo |-> r.todo]
    /\ r.step = "header" => r.todo \subseteq {"header", "head"}

ShapeInv ==
    /\ Shaped(writer) /\ writer.step \in {"idle"} \cup Before \cup After
    /\ Shaped(loop) /\ loop.step \in {"idle", "write"} \cup Busy
    /\ writer.step \in Busy => lock = "writer" /\ loop.step \notin Busy
    /\ loop.step \in Busy => lock = "loop"
    /\ lock # Nil => writer.step \in Busy \/ loop.step \in Busy
    /\ writer.step # "idle" => Made(Own) /\ Own.by = "p"
    /\ loop.step # "idle" => Known(loop.block)
    /\ DOMAIN head = {"p", "q"} /\ DOMAIN seen = {"p", "q"} /\ seen["p"] \in Nat

\* A block that can still be written has the head as its parent.
HeadInv ==
    /\ Top.number \in Nat
    /\ writer.step # "idle" => /\ Top.number >= Own.parent.number
                               /\ Top.number = Own.parent.number => Top = Own.parent
    /\ writer.step \in {"body", "header"} => Own.number > Top.number
    /\ loop.step \in {"body", "header"} => loop.block.number > Top.number
    /\ writer.step \in {"receipts", "written", "end"} => Own.number <= Top.number
    /\ writer.step = "written" /\ loop.step = "receipts" => loop.block # Own

\* No block of the producer is in Avail before the writer submits it.
OwnInv ==
    \A b : Known(b) /\ b.by = "p" =>
        \/ b.number <= Top.number /\ (writer.step # "idle" => b.number < Own.number)
        \/ writer.step \in After /\ b = Own

\* A thread that writes the writer's block has had collected what it has written.
InHand(r) ==
    r.block = Own =>
        /\ r.step \in {"header", "receipts"} => <<"body", Own>> \in changes.keys
        /\ r.step = "header" /\ "header" \notin r.todo => <<"header", Own>> \in changes.keys
        /\ r.step = "receipts" => <<"header", Own>> \in changes.keys

Writes(r) == r.block = Own /\ r.step \in {"header", "receipts"}

CollectInv ==
    /\ writer.step \in Collecting => changes = [keys |-> changes.keys, head |-> changes.head]
    /\ writer.step \in {"commit", "submit"} => changes.head # Own
    /\ writer.step \in After \ {"end"} =>
           /\ InHand(writer) /\ InHand(loop)
           /\ changes.head = Own => \/ Writes(writer) \/ Writes(loop)
                                    \/ Keys(Own) \subseteq changes.keys
    /\ writer.step = "end" /\ writer.todo.head = Own => Keys(Own) \subseteq writer.todo.keys

StateInv ==
    /\ writer.step \in (Before \cup After) \ {"parent"} => \A b \in schanges : b.by \in {"p", "o"}
    /\ writer.step \in {"submit"} \cup After => Own \in schanges

\* While sequencers take turns the main loop has nothing to do but the writer's block,
\* and whichever thread writes it, the head hash is collected.
Heads(r) == r.block = Own /\ r.step = "header" /\ "head" \notin r.todo
TurnInv ==
    ~late /\ writer.step # "idle" =>
        /\ loop.step # "idle" => loop.block = Own
        /\ \A i \in 1..Len(avail) : i > seen["p"] => avail[i] = Own
        /\ Top \in {Own, Own.parent}
        /\ writer.step \in Before => Top = Own.parent
        /\ writer.step \in After \ {"end"} =>
               (Top = Own \/ Heads(writer) \/ Heads(loop) => changes.head = Own)
        /\ writer.step = "end" => writer.todo.head = Own

Producer == AvailInv /\ ShapeInv /\ HeadInv /\ OwnInv /\ CollectInv /\ StateInv /\ TurnInv

\* What is on its way to the peer.
Safe(s) == s.block # Nil /\ Complete(s) /\ (~late => s.bc.head = s.block)
SentInv == \E S : queue \in Seq(S) /\ \A s \in S : Safe(s)

\* Applying a snapshot, the peer has on disk or still in hand all of the new head.
InHandOf(b) ==
    /\ b # Nil /\ Keys(b) \subseteq db["q"].keys \cup apply.keys
    /\ apply.head = b \/ (apply.head = Nil /\ db["q"].head = b)
    /\ b \in state["q"] \cup apply.st
PeerInv ==
    /\ DOMAIN db = {"p", "q"} /\ DOMAIN state = {"p", "q"} /\ DOMAIN head = {"p", "q"}
    /\ \A n \in {"p", "q"} : db[n] = [keys |-> db[n].keys, head |-> db[n].head]
    /\ InTurn =>
        /\ pc \in {"up", "apply", "down"}
        /\ pc = "up" => db["q"].head = head["q"]
        /\ pc # "apply" => /\ Keys(db["q"].head) \subseteq db["q"].keys
                           /\ db["q"].head \in state["q"]
        /\ pc = "apply" =>
               /\ apply = [keys |-> apply.keys, head |-> apply.head, st |-> apply.st]
               /\ \E b : InHandOf(b)

SnapInv == Producer /\ SentInv /\ PeerInv

\* The database keys of a block.
LEMMA KeysOf == ASSUME NEW b PROVE Keys(b) = {<<"header", b>>, <<"body", b>>, <<"receipts", b>>}
BY Zenon DEF Keys, Kind

\* At the start nothing is built, collected or sent.
LEMMA SnapStart == Init => SnapInv
<1> SUFFICES ASSUME Init PROVE SnapInv
  OBVIOUS
<1>1. /\ avail = <<>> /\ writer = [step |-> "idle", block |-> Nil, todo |-> {}] /\ loop = writer
      /\ lock = Nil /\ head = [n \in {"p", "q"} |-> Genesis] /\ seen = [n \in {"p", "q"} |-> 0]
      /\ queue = <<>> /\ pc = "up" /\ Genesis.number = 0
      /\ db = [n \in {"p", "q"} |-> [keys |-> Keys(Genesis), head |-> Genesis]]
      /\ state = [n \in {"p", "q"} |-> {Genesis}]
  BY Zenon DEF Init, None, Genesis
<1>2. AvailInv /\ \A b : ~Known(b)
  <2>1. avail \in Seq({}) /\ Len(avail) = 0
    BY <1>1
  <2>2. AvailInv
    <3> DEFINE Good(B) == avail \in Seq(B) /\ \A b \in B : Made(b)
    <3>1. Good({})
      BY <2>1, Zenon
    <3>2. AvailInv <=> \E B : Good(B)
      BY Zenon DEF AvailInv
    <3> HIDE DEF Good
    <3> QED
      BY <3>1, <3>2, Zenon
  <2> QED
    BY <2>1, <2>2 DEF Known
<1>3. ShapeInv
  BY <1>1, Zenon DEF ShapeInv, Shaped, Before, After, Busy
<1>4. HeadInv /\ OwnInv
  BY <1>1, <1>2 DEF HeadInv, OwnInv, Top
<1>5. CollectInv /\ StateInv /\ TurnInv
  BY <1>1, Zenon DEF CollectInv, StateInv, TurnInv, Collecting, Before, After
<1>6. SentInv
  <2>1. queue \in Seq({})
    BY <1>1
  <2> DEFINE On(S) == queue \in Seq(S) /\ \A s \in S : Safe(s)
  <2>2. On({})
    BY <2>1, Zenon
  <2>3. SentInv <=> \E S : On(S)
    BY Zenon DEF SentInv
  <2> HIDE DEF On
  <2> QED
    BY <2>2, <2>3, Zenon
<1>7. PeerInv
  <2>1. \A n \in {"p", "q"} : /\ db[n] = [keys |-> Keys(Genesis), head |-> Genesis]
                              /\ head[n] = Genesis /\ state[n] = {Genesis}
    BY <1>1, Zenon
  <2>2. DOMAIN db = {"p", "q"} /\ DOMAIN state = {"p", "q"} /\ DOMAIN head = {"p", "q"}
    BY <1>1, Zenon
  <2> QED
    BY <1>1, <2>1, <2>2, Zenon DEF PeerInv
<1> QED
  BY <1>2, <1>3, <1>4, <1>5, <1>6, <1>7, Zenon DEF SnapInv, Producer

\* What Append does to Avail.
LEMMA Submitted ==
    ASSUME AvailInv, NEW x, Made(x), avail' = Append(avail, x)
    PROVE  /\ AvailInv' /\ Len(avail) \in Nat /\ Len(avail') = Len(avail) + 1
           /\ avail'[Len(avail) + 1] = x /\ \A i \in 1..Len(avail) : avail'[i] = avail[i]
           /\ \A b : Known(b)' <=> Known(b) \/ b = x
<1>1. PICK B : avail \in Seq(B) /\ \A b \in B : Made(b)
  BY Zenon DEF AvailInv
<1> DEFINE C == B \cup {x}
<1>2. avail \in Seq(C) /\ x \in C /\ \A b \in C : Made(b)
  BY <1>1
<1> HIDE DEF C
<1>3. /\ avail' \in Seq(C) /\ Len(avail) \in Nat /\ Len(avail') = Len(avail) + 1
      /\ avail'[Len(avail) + 1] = x /\ \A i \in 1..Len(avail) : avail'[i] = avail[i]
  BY <1>2
<1>4. AvailInv'
  BY <1>2, <1>3, Zenon DEF AvailInv, Made
<1>5. ASSUME NEW b PROVE Known(b)' <=> Known(b) \/ b = x
  <2> DEFINE k == Len(avail)
  <2>1. k \in Nat /\ Len(avail') = k + 1 /\ avail'[k + 1] = x /\ \A i \in 1..k : avail'[i] = avail[i]
    BY <1>3, Zenon
  <2>2. Known(b) <=> \E i \in 1..k : avail[i] = b
    BY Zenon DEF Known
  <2> HIDE DEF k
  <2>3. Known(b)' <=> \E i \in 1..k + 1 : avail'[i] = b
    BY <2>1, Zenon DEF Known
  <2>4. \A i : i \in 1..k + 1 <=> i \in 1..k \/ i = k + 1
    BY <2>1
  <2> QED
    BY <2>1, <2>2, <2>3, <2>4, Zenon
<1> QED
  BY <1>3, <1>4, <1>5, Zenon

\* The blocks of Avail are blocks.
LEMMA KnownMade == ASSUME AvailInv, NEW b, Known(b) PROVE Made(b)
BY DEF AvailInv, Known

\* Steps that leave the producer alone, and those that leave the peer alone.
LEMMA ProducerFrame ==
    ASSUME Producer, UNCHANGED producer, head'["p"] = head["p"], seen'["p"] = seen["p"],
           DOMAIN head' = {"p", "q"}, DOMAIN seen' = {"p", "q"}
    PROVE  Producer'
<1>1. UNCHANGED <<avail, changes, schanges, writer, loop, lock, late>>
  BY Zenon DEF producer
<1>2. AvailInv' /\ ShapeInv' /\ \A b : Known(b)' <=> Known(b)
  BY <1>1, ZenonT(30) DEF Producer, AvailInv, ShapeInv, Known, Own, Made, Shaped
<1>3. HeadInv' /\ OwnInv'
  BY <1>1, <1>2, Zenon DEF Producer, HeadInv, OwnInv, Own, Top
<1>4. CollectInv' /\ StateInv'
  BY <1>1, ZenonT(30) DEF Producer, CollectInv, StateInv, Own, InHand, Writes
<1>5. TurnInv'
  BY <1>1, Zenon DEF Producer, TurnInv, Own, Top, Heads
<1> QED
  BY <1>2, <1>3, <1>4, <1>5, Zenon DEF Producer

\* Steps of the producer leave what is known of snapshots and of the peer.
LEMMA PeerFrame ==
    ASSUME SentInv, PeerInv, UNCHANGED <<queue, apply, pc, torn>>, late => late',
           db'["q"] = db["q"], state'["q"] = state["q"], head'["q"] = head["q"],
           DOMAIN db' = {"p", "q"}, DOMAIN state' = {"p", "q"}, DOMAIN head' = {"p", "q"},
           db'["p"] = [keys |-> db'["p"].keys, head |-> db'["p"].head]
    PROVE  SentInv' /\ PeerInv'
<1>1. SentInv'
  BY Zenon DEF SentInv, Safe, Complete, Keys, Kind
<1>2. InTurn' => InTurn
  BY Zenon DEF InTurn
<1>3. PeerInv'
  BY <1>2, Zenon DEF PeerInv, InHandOf, Keys, Kind
<1> QED
  BY <1>1, <1>3, Zenon

-----------------------------------------------------------------------------
(* The steps of the writer before and after it writes.                     *)

\* The writer reads its parent: the producer's head then.
LEMMA ReadParentStep ==
    ASSUME NilApart, Producer, ReadParent PROVE Producer'
<1>1. /\ writer.step = "idle" /\ writer'.step = "parent"
      /\ Own' = [number |-> Top.number + 1, by |-> "p", parent |-> Top]
      /\ writer' = [step |-> "parent", block |-> Own', todo |-> {}]
      /\ UNCHANGED <<avail, head, seen, changes, schanges, loop, lock>>
      /\ ~late' => ~late /\ loop.step = "idle" /\ seen["p"] >= Len(avail)
  <2>1. ~(seen["p"] < Len(avail)) => seen["p"] >= Len(avail)
    <3>1. seen["p"] \in Nat /\ Len(avail) \in Nat
      BY DEF Producer, ShapeInv, AvailInv
    <3> QED
      BY <3>1
  <2> QED
    BY <2>1, Zenon DEF ReadParent, None, Own, Top
<1>2. Top.number \in Nat
  BY Zenon DEF Producer, HeadInv
<1>3. Made(Own') /\ Own'.by = "p" /\ Own'.number = Top.number + 1 /\ Own'.parent = Top /\ Top' = Top
  BY <1>1, <1>2, Zenon DEF Made, Top
<1>4. AvailInv' /\ \A b : Known(b)' <=> Known(b)
  BY <1>1, Zenon DEF Producer, AvailInv, Known, Made
<1>5. ShapeInv'
  <2>1. Shaped(writer') /\ Made(Own)'
    BY <1>1, <1>3, Zenon DEF Shaped, Made, Own
  <2> QED
    BY <1>1, <1>3, <1>4, <2>1, Zenon DEF Producer, ShapeInv, Shaped, Before, After, Busy
<1>6. HeadInv'
  BY <1>1, <1>2, <1>3 DEF Producer, HeadInv
<1>7. OwnInv'
  <2> SUFFICES ASSUME NEW b, Known(b), b.by = "p"
               PROVE  b.number <= Top.number /\ b.number < Own'.number
    BY <1>3, <1>4, Zenon DEF OwnInv
  <2>1. b.number <= Top.number
    BY <1>1, Zenon DEF Producer, OwnInv, After
  <2>2. b.number \in Nat
    BY KnownMade DEF Producer, Made
  <2> QED
    BY <1>2, <1>3, <2>1, <2>2
<1>8. CollectInv' /\ StateInv'
  BY <1>1, Zenon DEF CollectInv, StateInv, Collecting, Before, After
<1>9. TurnInv'
  <2> SUFFICES ASSUME ~late' PROVE loop.step = "idle" /\ \A i \in 1..Len(avail) : ~(i > seen["p"])
    BY <1>1, <1>3, Zenon DEF TurnInv, After
  <2>1. seen["p"] \in Nat /\ Len(avail) \in Nat
    BY DEF Producer, ShapeInv, AvailInv
  <2> QED
    BY <1>1, <2>1
<1> QED
  BY <1>4, <1>5, <1>6, <1>7, <1>8, <1>9, Zenon DEF Producer

\* Begin, and the end of the collection.
LEMMA BeginStep ==
    ASSUME NilApart, Producer, BeginState \/ Begin PROVE Producer'
<1> DEFINE step == IF writer.step = "parent" THEN "begin" ELSE "commit"
<1>1. /\ writer.step \in {"parent", "begin"} /\ writer' = [writer EXCEPT !.step = step]
      /\ UNCHANGED <<avail, head, seen, loop, lock, late>>
      /\ writer.step = "parent" => schanges' = {}
      /\ writer.step = "begin" => schanges' = schanges /\ changes' = [keys |-> {}, head |-> Nil]
  BY Zenon DEF BeginState, Begin
<1>2. Shaped(writer)
  BY Zenon DEF Producer, ShapeInv
<1>3. writer'.step = step /\ Own' = Own /\ Shaped(writer') /\ Top' = Top
  BY <1>1, <1>2, Zenon DEF Shaped, Own, Top
<1>4. AvailInv' /\ \A b : Known(b)' <=> Known(b)
  BY <1>1, Zenon DEF Producer, AvailInv, Known, Made
<1>5. ShapeInv'
  BY <1>1, <1>3, <1>4, Zenon DEF Producer, ShapeInv, Shaped, Before, After, Busy, Made
<1>6. HeadInv' /\ OwnInv'
  BY <1>1, <1>3, <1>4 DEF Producer, HeadInv, OwnInv, After
<1>7. CollectInv'
  <2>1. Nil # Own
    BY <1>1, Zenon DEF NilApart, Producer, ShapeInv, Made
  <2> QED
    BY <1>1, <1>3, <2>1 DEF CollectInv, Collecting, After
<1>8. StateInv'
  BY <1>1, <1>3 DEF Producer, StateInv, Before, After
<1>9. TurnInv'
  BY <1>1, <1>3 DEF Producer, TurnInv, Before, After
<1> QED
  BY <1>4, <1>5, <1>6, <1>7, <1>8, <1>9, Zenon DEF Producer

\* Executing the block adds its state to the state snapshotter's changes.
LEMMA CommitStep ==
    ASSUME NilApart, Producer, Commit PROVE Producer'
<1>1. /\ writer.step = "commit" /\ writer' = [writer EXCEPT !.step = "submit"]
      /\ UNCHANGED <<avail, head, seen, changes, loop, lock, late>>
      /\ schanges' = IF schanges = Nil THEN Nil ELSE schanges \cup {Own}
  BY Zenon DEF Commit, Put, Own
<1>2. Shaped(writer)
  BY Zenon DEF Producer, ShapeInv
<1>3. writer'.step = "submit" /\ Own' = Own /\ Shaped(writer') /\ Top' = Top
  BY <1>1, <1>2, Zenon DEF Shaped, Own, Top
<1>4. AvailInv' /\ \A b : Known(b)' <=> Known(b)
  BY <1>1, Zenon DEF Producer, AvailInv, Known, Made
<1>5. ShapeInv'
  BY <1>1, <1>3, <1>4, Zenon DEF Producer, ShapeInv, Shaped, Before, After, Busy, Made
<1>6. HeadInv' /\ OwnInv'
  BY <1>1, <1>3, <1>4, Zenon DEF Producer, HeadInv, OwnInv, After
<1>7. CollectInv'
  BY <1>1, <1>3, Zenon DEF Producer, CollectInv, Collecting, After
<1>8. StateInv'
  <2>1. \A b \in schanges : b.by \in {"p", "o"}
    BY <1>1, Zenon DEF Producer, StateInv, Before
  <2>2. schanges # Nil
    BY <2>1, Zenon DEF NilApart
  <2>3. Own.by = "p"
    BY <1>1, Zenon DEF Producer, ShapeInv
  <2> QED
    BY <1>1, <1>3, <2>1, <2>2, <2>3, Zenon DEF StateInv
<1>9. TurnInv'
  BY <1>1, <1>3, Zenon DEF Producer, TurnInv, Before, After
<1> QED
  BY <1>4, <1>5, <1>6, <1>7, <1>8, <1>9, Zenon DEF Producer

\* The block is in Avail: the main loop may write it from here on.
LEMMA SubmitStep ==
    ASSUME NilApart, Producer, Submit PROVE Producer'
<1>1. /\ writer.step = "submit" /\ writer' = [writer EXCEPT !.step = "write"]
      /\ avail' = Append(avail, Own)
      /\ UNCHANGED <<head, seen, changes, schanges, loop, lock, late>>
  BY Zenon DEF Submit, Own
<1>2. Shaped(writer) /\ Made(Own) /\ Own.by = "p"
  BY <1>1, Zenon DEF Producer, ShapeInv
<1>3. writer'.step = "write" /\ Own' = Own /\ Shaped(writer') /\ Top' = Top
  BY <1>1, <1>2, Zenon DEF Shaped, Own, Top
<1>4. /\ AvailInv' /\ Len(avail) \in Nat /\ Len(avail') = Len(avail) + 1
      /\ avail'[Len(avail) + 1] = Own /\ \A i \in 1..Len(avail) : avail'[i] = avail[i]
      /\ \A b : Known(b)' <=> Known(b) \/ b = Own
  BY <1>1, <1>2, Submitted, Zenon DEF Producer
<1>5. ShapeInv'
  BY <1>1, <1>2, <1>3, <1>4, Zenon DEF Producer, ShapeInv, Shaped, Before, After, Busy, Made
<1>6. HeadInv' /\ OwnInv'
  BY <1>1, <1>3, <1>4, Zenon DEF Producer, HeadInv, OwnInv, After
<1>7. loop.step # "idle" => loop.block # Own
  <2> SUFFICES ASSUME Known(Own) PROVE FALSE
    BY Zenon DEF Producer, ShapeInv
  <2>1. Own.number < Own.number /\ Own.number \in Nat
    BY <1>1, <1>2, SMTT(30) DEF Producer, OwnInv, After, Made
  <2> QED
    BY <2>1
<1>8. CollectInv'
  <2>1. InHand(writer)' /\ InHand(loop)'
    <3>1. loop.step \notin {"header", "receipts"} \/ loop.block # Own
      BY <1>7, Zenon DEF Producer, ShapeInv, Busy
    <3> QED
      BY <1>1, <1>3, <3>1, Zenon DEF InHand
  <2> QED
    BY <1>1, <1>3, <2>1, Zenon DEF Producer, CollectInv, Collecting, After
<1>9. StateInv'
  BY <1>1, <1>3, Zenon DEF Producer, StateInv, Before, After
<1>10. TurnInv'
  <2> SUFFICES ASSUME ~late'
               PROVE  /\ loop.step # "idle" => loop.block = Own
                      /\ \A i \in 1..Len(avail') : i > seen["p"] => avail'[i] = Own
                      /\ Top = Own.parent
                      /\ ~Heads(writer)' /\ ~Heads(loop)' /\ Top # Own
    BY <1>1, <1>3, Zenon DEF TurnInv, Before, After
  <2>1. /\ loop.step # "idle" => loop.block = Own
        /\ \A i \in 1..Len(avail) : i > seen["p"] => avail[i] = Own
        /\ Top = Own.parent
    BY <1>1, Zenon DEF Producer, TurnInv, Before
  <2>2. ~Heads(writer)' /\ ~Heads(loop)'
    BY <1>1, <1>3, <1>7, <2>1, Zenon DEF Heads
  <2>3. Top # Own
    BY <1>2, <2>1 DEF Made
  <2>4. \A i \in 1..Len(avail') : i \in 1..Len(avail) \/ i = Len(avail) + 1
    BY <1>4
  <2> QED
    BY <1>4, <2>1, <2>2, <2>3, <2>4, Zenon
<1> QED
  BY <1>4, <1>5, <1>6, <1>8, <1>9, <1>10, Zenon DEF Producer

\* The writer is through, by an error or with a snapshot.
LEMMA ThroughStep ==
    ASSUME NilApart, Producer, GiveUp \/ SendSnapshot PROVE Producer'
<1>1. /\ writer.step \in {"submit", "end"} /\ writer' = [step |-> "idle", block |-> Nil, todo |-> {}]
      /\ UNCHANGED <<avail, head, seen, loop, lock, late>>
  BY Zenon DEF GiveUp, SendSnapshot, None
<1>2. writer'.step = "idle" /\ Shaped(writer') /\ Top' = Top
  BY <1>1, Zenon DEF Shaped, Top
<1>3. AvailInv' /\ \A b : Known(b)' <=> Known(b)
  BY <1>1, Zenon DEF Producer, AvailInv, Known, Made
<1>4. ShapeInv'
  BY <1>1, <1>2, <1>3, Zenon DEF Producer, ShapeInv, Shaped, Before, After, Busy
<1>5. HeadInv'
  BY <1>1, <1>2, Zenon DEF Producer, HeadInv
<1>6. OwnInv'
  <2> SUFFICES ASSUME NEW b, Known(b), b.by = "p" PROVE b.number <= Top.number
    BY <1>2, <1>3, Zenon DEF OwnInv
  <2> QED
    BY <1>1, Zenon DEF Producer, OwnInv, HeadInv, After
<1>7. CollectInv' /\ StateInv' /\ TurnInv'
  BY <1>2, Zenon DEF CollectInv, StateInv, TurnInv, Collecting, Before, After
<1> QED
  BY <1>3, <1>4, <1>5, <1>6, <1>7, Zenon DEF Producer

\* End takes the collected changes of the block storage.
LEMMA EndStep ==
    ASSUME NilApart, Producer, End PROVE Producer'
<1>1. /\ writer.step = "written" /\ writer' = [writer EXCEPT !.step = "end", !.todo = changes]
      /\ UNCHANGED <<avail, head, seen, schanges, loop, lock, late>>
  BY Zenon DEF End
<1>2. Shaped(writer)
  BY DEF Producer, ShapeInv
<1>3. /\ writer'.step = "end" /\ writer'.todo = changes /\ Own' = Own
      /\ Shaped(writer') /\ Top' = Top
  BY <1>1, <1>2, Zenon DEF Shaped, Own, Top
<1>4. AvailInv' /\ \A b : Known(b)' <=> Known(b)
  BY <1>1, Zenon DEF Producer, AvailInv, Known, Made
<1>5. ShapeInv'
  BY <1>1, <1>3, <1>4, Zenon DEF Producer, ShapeInv, Shaped, Before, After, Busy, Made
<1>6. HeadInv' /\ OwnInv'
  BY <1>1, <1>3, <1>4, Zenon DEF Producer, HeadInv, OwnInv, After
<1>7. CollectInv'
  <2>1. ~Writes(writer)
    BY <1>1, Zenon DEF Writes
  <2>2. ~Writes(loop)
    <3>1. SUFFICES ASSUME loop.block = Own, loop.step \in {"header", "receipts"} PROVE FALSE
      BY Zenon DEF Writes
    <3>2. CASE loop.step = "receipts"
      BY <1>1, <3>1, <3>2, Zenon DEF Producer, HeadInv
    <3>3. CASE loop.step = "header"
      <4>1. Own.number > Top.number /\ Own.number <= Top.number /\ Top.number \in Nat
        BY <1>1, <3>1, <3>3, Zenon DEF Producer, HeadInv
      <4>2. Own.number \in Nat
        BY <1>1 DEF Producer, ShapeInv, Made
      <4> QED
        BY <4>1, <4>2
    <3> QED
      BY <3>1, <3>2, <3>3, Zenon
  <2>3. changes.head = Own => Keys(Own) \subseteq changes.keys
    BY <1>1, <2>1, <2>2, Zenon DEF Producer, CollectInv, After
  <2>4. Keys(Own)' = Keys(Own)
    BY <1>3, Zenon DEF Keys, Kind
  <2> QED
    BY <1>3, <2>3, <2>4, Zenon DEF CollectInv, Collecting
<1>8. StateInv'
  BY <1>1, <1>3, Zenon DEF Producer, StateInv, Before, After
<1>9. TurnInv'
  <2> SUFFICES ASSUME ~late PROVE changes.head = Own
    BY <1>1, <1>3, Zenon DEF Producer, TurnInv, Before, After
  <2>1. Top \in {Own, Own.parent} /\ (Top = Own => changes.head = Own)
    BY <1>1, Zenon DEF Producer, TurnInv, After
  <2>2. Own.number <= Top.number /\ Made(Own)
    BY <1>1, Zenon DEF Producer, HeadInv, ShapeInv
  <2>3. Top # Own.parent
    BY <2>2 DEF Made
  <2> QED
    BY <2>1, <2>3, Zenon
<1> QED
  BY <1>4, <1>5, <1>6, <1>7, <1>8, <1>9 DEF Producer

-----------------------------------------------------------------------------
(* WriteBlock, by either thread.                                           *)

\* A step of a thread that sets step and todo.
LEMMA TwoFields ==
    ASSUME NEW r, NEW step, NEW todo, r = [step |-> r.step, block |-> r.block, todo |-> r.todo]
    PROVE  [r EXCEPT !.step = step, !.todo = todo] = [step |-> step, block |-> r.block, todo |-> todo]
<1> DEFINE m == [r EXCEPT !.step = step]
<1>1. m = [step |-> step, block |-> r.block, todo |-> r.todo]
  OBVIOUS
<1>2. [r EXCEPT !.step = step, !.todo = todo] = [m EXCEPT !.todo = todo]
  BY Zenon
<1> HIDE DEF m
<1> QED
  BY <1>1, <1>2

\* The thread t goes on with r; the other one stands still.
LEMMA ThreadStep ==
    ASSUME NEW t \in {"writer", "loop"}, NEW r, SetThread(t, r)
    PROVE  \/ t = "writer" /\ Thread(t) = writer /\ writer' = r /\ loop' = loop
           \/ t = "loop" /\ Thread(t) = loop /\ loop' = r /\ writer' = writer
BY Zenon DEF SetThread, Thread

\* The block is at or below the head, or the lock is taken.
LEMMA WriteBlockStep ==
    ASSUME NilApart, Producer, NEW t \in {"writer", "loop"}, WriteBlock(t) PROVE Producer'
<1> DEFINE r == Thread(t)
           q == IF r.block.number <= Top.number THEN Done(t) ELSE [r EXCEPT !.step = "body"]
<1>1. /\ r.step = "write" /\ lock = Nil /\ SetThread(t, q)
      /\ lock' = IF r.block.number <= Top.number THEN lock ELSE t
      /\ UNCHANGED <<avail, head, seen, changes, schanges, late>>
  BY Zenon DEF WriteBlock, Top
<1>2. \/ t = "writer" /\ r = writer /\ writer' = q /\ loop' = loop
      \/ t = "loop" /\ r = loop /\ loop' = q /\ writer' = writer
  BY <1>1, ThreadStep, Zenon
<1>3. Shaped(r) /\ writer.step \notin Busy /\ loop.step \notin Busy
  BY <1>1, <1>2, Zenon DEF Producer, ShapeInv, NilApart
<1>4. /\ q = IF r.block.number > Top.number THEN [step |-> "body", block |-> r.block, todo |-> r.todo]
             ELSE IF t = "writer" THEN [step |-> "written", block |-> r.block, todo |-> {}]
             ELSE [step |-> "idle", block |-> Nil, todo |-> {}]
  <2>1. r.block.number \in Nat /\ Top.number \in Nat
    <3>1. Made(r.block)
      BY <1>1, <1>2, KnownMade, Zenon DEF Producer, ShapeInv, Own
    <3> QED
      BY <3>1 DEF Made, Producer, HeadInv
  <2>2. r = [step |-> r.step, block |-> r.block, todo |-> r.todo]
    BY <1>3, Zenon DEF Shaped
  <2>3. Done(t) = IF t = "writer" THEN [r EXCEPT !.step = "written", !.todo = {}]
                       ELSE [step |-> "idle", block |-> Nil, todo |-> {}]
    BY Zenon DEF Done, None
  <2> HIDE DEF r
  <2>5. [r EXCEPT !.step = "written", !.todo = {}]
            = [step |-> "written", block |-> r.block, todo |-> {}]
    BY <2>2, TwoFields, Zenon
  <2>4. [r EXCEPT !.step = "body"] = [step |-> "body", block |-> r.block, todo |-> r.todo]
    BY <2>2
  <2> QED
    BY <2>1, <2>3, <2>4, <2>5
<1>5. Top' = Top /\ AvailInv' /\ \A b : Known(b)' <=> Known(b)
  BY <1>1, Zenon DEF Producer, AvailInv, Known, Made, Top
<1> HIDE DEF r, q
<1>6. Shaped(q)
  BY <1>4, Zenon DEF Shaped
<1>7. CASE t = "writer"
  <2>1. /\ writer.step = "write" /\ loop' = loop /\ Own' = Own /\ Shaped(writer')
        /\ \/ Own.number > Top.number /\ writer'.step = "body" /\ lock' = "writer"
           \/ ~(Own.number > Top.number) /\ writer'.step = "written" /\ lock' = Nil
    <3>1. r = writer /\ writer' = q /\ loop' = loop
      BY <1>2, <1>7, Zenon
    <3>2. r.block = Own /\ Own.number \in Nat /\ Top.number \in Nat
      BY <1>1, <3>1 DEF Own, Producer, ShapeInv, HeadInv, Made
    <3> QED
      BY <1>1, <1>4, <1>6, <1>7, <3>1, <3>2 DEF Own
  <2>2. Own.number \in Nat /\ Top.number \in Nat /\ (Own.number > Top.number \/ Own.number <= Top.number)
    BY <2>1 DEF Producer, ShapeInv, HeadInv, Made
  <2>3. ShapeInv'
    BY <1>1, <1>3, <1>5, <2>1, Zenon DEF Producer, ShapeInv, Before, After, Busy, Made, NilApart
  <2>4. HeadInv' /\ OwnInv'
    BY <1>3, <1>5, <2>1, <2>2, Zenon DEF Producer, HeadInv, OwnInv, After, Busy
  <2>5. CollectInv' /\ StateInv'
    <3>1. InHand(writer)' /\ InHand(loop)' /\ (Writes(loop)' <=> Writes(loop)) /\ ~Writes(writer)
      BY <1>1, <2>1, Zenon DEF Producer, CollectInv, InHand, Writes, After
    <3>2. Keys(Own)' = Keys(Own)
      BY <2>1, Zenon DEF Keys, Kind
    <3> QED
      BY <1>1, <2>1, <3>1, <3>2, Zenon DEF Producer, CollectInv, StateInv, After, Before, Collecting
  <2>6. TurnInv'
    <3>1. ~Heads(writer)' /\ (Heads(loop)' <=> Heads(loop))
      BY <1>1, <2>1, Zenon DEF Heads
    <3> QED
      BY <1>1, <1>5, <2>1, <3>1, Zenon DEF Producer, TurnInv, After, Before
  <2> QED
    BY <1>5, <2>3, <2>4, <2>5, <2>6, Zenon DEF Producer
<1>8. CASE t = "loop"
  <2>1. /\ loop.step = "write" /\ writer' = writer /\ Own' = Own /\ Shaped(loop')
        /\ \/ /\ loop.block.number > Top.number /\ loop'.step = "body" /\ loop'.block = loop.block
              /\ lock' = "loop"
           \/ loop'.step = "idle" /\ lock' = Nil
    <3>1. r = loop /\ loop' = q /\ writer' = writer
      BY <1>2, <1>8, Zenon
    <3>2. loop.block.number \in Nat /\ Top.number \in Nat
      BY <1>1, <3>1, KnownMade DEF Producer, ShapeInv, HeadInv, Made
    <3> QED
      BY <1>1, <1>4, <1>6, <1>8, <3>1, <3>2 DEF Own
  <2>2. ShapeInv'
    BY <1>1, <1>3, <1>5, <2>1, Zenon DEF Producer, ShapeInv, Before, After, Busy, Made, NilApart
  <2>3. HeadInv' /\ OwnInv'
    BY <1>3, <1>5, <2>1, Zenon DEF Producer, HeadInv, OwnInv, After, Busy
  <2>4. CollectInv' /\ StateInv'
    <3>1. InHand(loop)' /\ (InHand(writer) => InHand(writer)') /\ ~Writes(loop)
          /\ (Writes(writer)' <=> Writes(writer))
      BY <1>1, <2>1, Zenon DEF InHand, Writes
    <3>2. Keys(Own)' = Keys(Own)
      BY <2>1, Zenon DEF Keys, Kind
    <3> QED
      BY <1>1, <2>1, <3>1, <3>2, Zenon DEF Producer, CollectInv, StateInv, After, Before, Collecting
  <2>5. TurnInv'
    <3>1. ~Heads(loop)' /\ (Heads(writer)' <=> Heads(writer))
      BY <1>1, <2>1, Zenon DEF Heads
    <3> QED
      BY <1>1, <1>5, <2>1, <3>1, Zenon DEF Producer, TurnInv, After, Before
  <2> QED
    BY <1>5, <2>2, <2>3, <2>4, <2>5 DEF Producer
<1> QED
  BY <1>7, <1>8, Zenon

\* A Set is collected while the writer collects.
LEMMA SetCollects ==
    ASSUME NilApart, CollectInv, NEW k, Set(k)
    PROVE  writer.step \in Collecting =>
               /\ changes' = [keys |-> changes'.keys, head |-> changes'.head]
               /\ changes'.keys = changes.keys \cup {k} /\ changes'.head = changes.head
<1> SUFFICES ASSUME writer.step \in Collecting
             PROVE  /\ changes' = [keys |-> changes'.keys, head |-> changes'.head]
                    /\ changes'.keys = changes.keys \cup {k} /\ changes'.head = changes.head
  BY Zenon
<1>1. changes = [keys |-> changes.keys, head |-> changes.head]
  BY Zenon DEF CollectInv
<1>2. changes # Nil
  BY <1>1, Zenon DEF NilApart
<1>3. changes' = [changes EXCEPT !.keys = @ \cup {k}]
  BY <1>2, Zenon DEF Set
<1> QED
  BY <1>1, <1>3, Zenon

\* The head that a write sets is recorded while the snapshotter collects.
LEMMA SetHeadCollects ==
    ASSUME NilApart, CollectInv, NEW b, SetHead(b)
    PROVE  writer.step \in Collecting =>
               /\ changes' = [keys |-> changes'.keys, head |-> changes'.head]
               /\ changes'.keys = changes.keys /\ changes'.head = b
<1> SUFFICES ASSUME writer.step \in Collecting
             PROVE  /\ changes' = [keys |-> changes'.keys, head |-> changes'.head]
                    /\ changes'.keys = changes.keys /\ changes'.head = b
  BY Zenon
<1>1. changes = [keys |-> changes.keys, head |-> changes.head]
  BY DEF CollectInv
<1>2. changes # Nil
  BY <1>1 DEF NilApart
<1>3. changes' = [changes EXCEPT !.head = b]
  BY <1>2, Zenon DEF SetHead
<1> QED
  BY <1>1, <1>3, Zenon

\* A thread that holds the lock: r is its state, and only it is busy.
LEMMA Holder ==
    ASSUME NilApart, Producer, NEW t \in {"writer", "loop"}, Thread(t).step \in Busy
    PROVE  /\ Shaped(Thread(t)) /\ Made(Thread(t).block)
           /\ t = "writer" => loop.step \notin Busy /\ Thread(t).block = Own
           /\ t = "loop" => writer.step \notin Busy
           /\ Top.number \in Nat
<1>1. Shaped(Thread(t)) /\ Top.number \in Nat
  BY Zenon DEF Producer, ShapeInv, HeadInv, Thread
<1>2. CASE t = "writer"
  BY <1>1, <1>2, Zenon DEF Producer, ShapeInv, Thread, Own, Busy
<1>3. CASE t = "loop"
  BY <1>1, <1>3, KnownMade, Zenon DEF Producer, ShapeInv, Thread, Busy
<1> QED
  BY <1>2, <1>3, Zenon

\* Either thread writes the body of its block.
LEMMA WriteBodyStep ==
    ASSUME NilApart, Producer, NEW t \in {"writer", "loop"}, WriteBody(t) PROVE Producer'
<1> DEFINE r == Thread(t)
           todo == IF r.block.parent = Top THEN {"header", "head"} ELSE {"header"}
           q == [r EXCEPT !.step = "header", !.todo = todo]
<1>1. /\ r.step = "body" /\ Set(<<"body", r.block>>) /\ SetThread(t, q)
      /\ UNCHANGED <<avail, head, seen, schanges, lock, late>>
  BY Zenon DEF WriteBody, Top
<1>2. \/ t = "writer" /\ r = writer /\ writer' = q /\ loop' = loop
      \/ t = "loop" /\ r = loop /\ loop' = q /\ writer' = writer
  BY <1>1, ThreadStep, Zenon
<1>3. /\ Shaped(r) /\ Made(r.block) /\ Top.number \in Nat
      /\ t = "writer" => loop.step \notin Busy /\ r.block = Own
      /\ t = "loop" => writer.step \notin Busy
  BY <1>1, Holder, Zenon DEF Busy
<1>4. /\ q = [step |-> "header", block |-> r.block, todo |-> todo] /\ Shaped(q)
      /\ "header" \in todo /\ (r.block.parent = Top => "head" \in todo)
  <2>1. todo \subseteq {"header", "head"} /\ "header" \in todo /\ (r.block.parent = Top => "head" \in todo)
    BY Zenon
  <2>2. r = [step |-> r.step, block |-> r.block, todo |-> r.todo]
    BY <1>3, Zenon DEF Shaped
  <2> HIDE DEF r, todo
  <2>3. q = [step |-> "header", block |-> r.block, todo |-> todo]
    BY <2>2, TwoFields, Zenon
  <2> QED
    BY <2>1, <2>3, Zenon DEF Shaped
<1>5. Top' = Top /\ AvailInv' /\ \A b : Known(b)' <=> Known(b)
  BY <1>1, Zenon DEF Producer, AvailInv, Known, Made, Top
<1>6. writer.step \in Collecting =>
          /\ changes' = [keys |-> changes'.keys, head |-> changes'.head]
          /\ changes'.keys = changes.keys \cup {<<"body", r.block>>} /\ changes'.head = changes.head
  BY <1>1, SetCollects, Zenon DEF Producer
<1> HIDE DEF r, q, todo
<1>7. /\ Own' = Own
      /\ \/ t = "writer" /\ writer.step = "body" /\ writer'.step = "header" /\ writer'.todo = todo
         \/ t = "loop" /\ loop.step = "body" /\ loop'.step = "header" /\ loop'.todo = todo
  BY <1>1, <1>2, <1>3, <1>4, SMTT(30) DEF Own
<1>8. ShapeInv'
  BY <1>1, <1>2, <1>3, <1>4, <1>5, <1>7 DEF Producer, ShapeInv, Before, After, Busy, Made
<1>9. HeadInv' /\ OwnInv'
  BY <1>1, <1>2, <1>3, <1>4, <1>5, <1>7 DEF Producer, HeadInv, OwnInv, After, Busy
<1>10. CollectInv'
  <2>1. Keys(Own)' = Keys(Own)
    BY <1>7, Zenon DEF Keys, Kind
  <2>2. writer.step \in After \ {"end"} => InHand(writer)' /\ InHand(loop)'
    <3> SUFFICES ASSUME writer.step \in After \ {"end"} PROVE InHand(writer)' /\ InHand(loop)'
      BY Zenon
    <3>1. InHand(writer) /\ InHand(loop) /\ changes'.keys = changes.keys \cup {<<"body", r.block>>}
      BY <1>6, Zenon DEF Producer, CollectInv, After, Collecting
    <3>2. CASE t = "writer"
      BY <1>2, <1>3, <1>4, <1>7, <3>1, <3>2, Zenon DEF InHand
    <3>3. CASE t = "loop"
      BY <1>2, <1>3, <1>4, <1>7, <3>1, <3>3 DEF InHand
    <3> QED
      BY <3>2, <3>3, Zenon
  <2>3. (Writes(writer) => Writes(writer)') /\ (Writes(loop) => Writes(loop)')
    BY <1>1, <1>2, <1>7, Zenon DEF Writes
  <2>4. writer'.step \in Collecting <=> writer.step \in Collecting
    BY <1>2, <1>7, Zenon DEF Collecting
  <2>5. writer'.step \in After \ {"end"} <=> writer.step \in After \ {"end"}
    BY <1>2, <1>7, Zenon DEF After
  <2>7. writer.step \in After \ {"end"} => writer.step \in Collecting
    BY Zenon DEF After, Collecting
  <2>8. writer'.step = "end" => writer' = writer
    BY <1>2, <1>7, Zenon
  <2>9. writer'.step \in {"commit", "submit"} => writer' = writer /\ writer.step \in Collecting
    BY <1>2, <1>7, Zenon DEF Collecting
  <2> QED
    BY <1>6, <1>7, <2>1, <2>2, <2>3, <2>4, <2>5, <2>7, <2>8, <2>9, Zenon DEF Producer, CollectInv
<1>11. StateInv'
  BY <1>1, <1>2, <1>7, Zenon DEF Producer, StateInv, Before, After
<1>12. TurnInv'
  <2> SUFFICES ASSUME ~late, writer'.step # "idle" PROVE TurnInv'
    BY <1>1, Zenon DEF TurnInv
  <2>1. writer.step # "idle"
    BY <1>2, <1>7, Zenon
  <2>2. r.block = Own
    BY <1>1, <1>2, <1>3, <2>1, Zenon DEF Producer, TurnInv
  <2>3. Own.parent = Top
    <3>1. r.block.number > Top.number
      BY <1>1, <1>2, <1>3, Zenon DEF Producer, HeadInv
    <3>2. Top \in {Own, Own.parent}
      BY <2>1, Zenon DEF Producer, TurnInv
    <3> QED
      BY <1>3, <2>2, <3>1, <3>2 DEF Made
  <2>4. "head" \in todo
    BY <1>4, <2>2, <2>3, Zenon
  <2>5. ~Heads(writer)' /\ ~Heads(loop)'
    BY <1>2, <1>3, <1>7, <2>4, Zenon DEF Heads, Busy
  <2>6. writer.step \in After
    BY <1>1, <1>2, <2>1, <2>2 DEF Producer, OwnInv, ShapeInv, Made, Before, After
  <2>7. Top # Own
    BY <1>3, <2>2, <2>3 DEF Made
  <2> QED
    BY <1>1, <1>2, <1>4, <1>5, <1>7, <2>1, <2>2, <2>3, <2>5, <2>6, <2>7 DEF Producer, TurnInv, After, Before
<1> QED
  BY <1>5, <1>8, <1>9, <1>10, <1>11, <1>12, Zenon DEF Producer

\* A block that a thread is about to move the head to, or not, with the writer's parent
\* still the head if it is the writer's block.
LEMMA HolderParent ==
    ASSUME NilApart, Producer, NEW t \in {"writer", "loop"},
           Thread(t).step \in {"body", "header"}
    PROVE  /\ Thread(t).block.number > Top.number
           /\ Thread(t).block = Own /\ writer.step # "idle" =>
                  Own.parent = Top /\ writer.step \in {"write", "body", "header"}
<1> DEFINE b == Thread(t).block
<1>1. Made(b) /\ Top.number \in Nat
  BY Holder, Zenon DEF Busy
<1>2. b.number > Top.number
  BY Zenon DEF Producer, HeadInv, Thread, Own
<1>3. ASSUME b = Own, writer.step # "idle" PROVE Own.parent = Top
  <2>1. Top.number >= Own.parent.number /\ (Top.number = Own.parent.number => Top = Own.parent)
    BY <1>3, Zenon DEF Producer, HeadInv
  <2>2. Own.number = Own.parent.number + 1 /\ Own.parent.number \in Nat
    BY <1>1, <1>3, Zenon DEF Made
  <2> QED
    BY <1>1, <1>2, <1>3, <2>1, <2>2
<1>4. ASSUME b = Own, writer.step # "idle" PROVE writer.step \in {"write", "body", "header"}
  <2>1. CASE t = "writer"
    BY <2>1, Zenon DEF Thread
  <2>2. CASE t = "loop"
    <3>1. Known(Own) /\ Own.by = "p" /\ Own.number \in Nat
      BY <1>1, <1>4, <2>2 DEF Producer, ShapeInv, Thread, Made
    <3>2. writer.step \in After
      BY <1>4, <3>1 DEF Producer, OwnInv
    <3>3. writer.step \notin {"receipts", "written", "end"}
      BY <1>1, <1>2, <1>4, <3>1 DEF Producer, HeadInv
    <3> QED
      BY <3>2, <3>3, Zenon DEF After
  <2> QED
    BY <2>1, <2>2, Zenon
<1> QED
  BY <1>2, <1>3, <1>4, Zenon

\* Either thread writes what is left of header and head of its block.
LEMMA WriteHeaderStep ==
    ASSUME NilApart, Producer, NEW t \in {"writer", "loop"}, WriteHeader(t) PROVE Producer'
<1> DEFINE r == Thread(t)
<1>1. /\ r.step = "header" /\ UNCHANGED <<avail, seen, schanges, lock, late>>
  BY Zenon DEF WriteHeader
<1>2. PICK k \in r.todo :
         /\ IF k = "head" THEN SetHead(r.block) ELSE Set(<<"header", r.block>>)
         /\ SetThread(t, [r EXCEPT !.todo = r.todo \ {k},
                                   !.step = IF r.todo \ {k} = {} THEN "receipts" ELSE "header"])
         /\ head' = IF r.todo \ {k} = {} /\ r.block.parent = head["p"]
                    THEN [head EXCEPT !["p"] = r.block] ELSE head
  BY Zenon DEF WriteHeader
<1> DEFINE left == r.todo \ {k}
           step == IF left = {} THEN "receipts" ELSE "header"
           moved == left = {} /\ r.block.parent = Top
           q == [r EXCEPT !.todo = left, !.step = step]
<1>3. \/ t = "writer" /\ r = writer /\ writer' = q /\ loop' = loop
      \/ t = "loop" /\ r = loop /\ loop' = q /\ writer' = writer
  BY <1>2, ThreadStep, Zenon
<1>4. /\ Shaped(r) /\ Made(r.block) /\ Top.number \in Nat
      /\ t = "writer" => loop.step \notin Busy /\ r.block = Own
      /\ t = "loop" => writer.step \notin Busy
  BY <1>1, Holder, Zenon DEF Busy
<1>5. /\ r.block.number > Top.number
      /\ r.block = Own /\ writer.step # "idle" =>
             Own.parent = Top /\ writer.step \in {"write", "body", "header"}
  BY <1>1, HolderParent, Zenon
<1>6. /\ q = [step |-> step, block |-> r.block, todo |-> left]
      /\ k \in {"header", "head"} /\ Shaped(q)
  <2>1. r = [step |-> r.step, block |-> r.block, todo |-> r.todo] /\ r.todo \subseteq {"header", "head"}
    BY <1>1, <1>4, Zenon DEF Shaped
  <2>2. left \subseteq {"header", "head"}
    BY <2>1, Zenon
  <2> HIDE DEF r, left, step
  <2>3. q = [step |-> step, block |-> r.block, todo |-> left]
    <3> DEFINE m == [r EXCEPT !.todo = left]
    <3>1. m = [step |-> r.step, block |-> r.block, todo |-> left]
      BY <2>1
    <3>2. q = [m EXCEPT !.step = step]
      BY Zenon
    <3> HIDE DEF m, q
    <3> QED
      BY <3>1, <3>2, Zenon
  <2> QED
    BY <1>2, <2>1, <2>2, <2>3, Zenon DEF Shaped
<1>7. /\ (step = "receipts" /\ left = {}) \/ (step = "header" /\ left # {})
      /\ "header" \notin left => "header" \notin r.todo \/ k = "header"
      /\ "head" \notin left => "head" \notin r.todo \/ k = "head"
  BY <1>6, Zenon
<1>8. Top' = IF moved THEN r.block ELSE Top
  BY <1>2, Zenon DEF Producer, ShapeInv, Top
<1>9. DOMAIN head' = {"p", "q"}
  BY <1>2, Zenon DEF Producer, ShapeInv
<1>10. AvailInv' /\ \A b : Known(b)' <=> Known(b)
  BY <1>1, Zenon DEF Producer, AvailInv, Known, Made
<1>11. writer.step \in Collecting =>
          /\ changes' = [keys |-> changes'.keys, head |-> changes'.head]
          /\ k = "head" => changes'.keys = changes.keys /\ changes'.head = r.block
          /\ k # "head" => /\ changes'.keys = changes.keys \cup {<<"header", r.block>>}
                           /\ changes'.head = changes.head
  BY <1>2, SetCollects, SetHeadCollects, Zenon DEF Producer
<1> HIDE DEF r, left, step, moved, q
<1>12. /\ Own' = Own
       /\ \/ /\ t = "writer" /\ writer.step = "header" /\ writer'.step = step /\ writer'.todo = left
             /\ loop' = loop /\ r.block = Own
          \/ /\ t = "loop" /\ loop.step = "header" /\ loop'.step = step /\ loop'.todo = left
             /\ loop'.block = loop.block /\ writer' = writer /\ r.block = loop.block
  BY <1>1, <1>3, <1>4, <1>6 DEF Own
<1>13. /\ Top'.number \in Nat /\ Top'.number >= Top.number
       /\ Top' # Top => Top' = r.block /\ left = {} /\ Top'.number > Top.number
       /\ r.block = Own /\ writer.step # "idle" /\ left = {} => Top' = Own
  BY <1>4, <1>5, <1>8 DEF Made, moved
<1>14. ShapeInv'
  <2>1. Shaped(writer') /\ Shaped(loop')
    BY <1>3, <1>6, Zenon DEF Producer, ShapeInv
  <2>2. writer'.step \in {"idle"} \cup Before \cup After /\ loop'.step \in {"idle", "write"} \cup Busy
    BY <1>7, <1>12, Zenon DEF Producer, ShapeInv, After, Busy
  <2>3. /\ writer'.step \in Busy <=> writer.step \in Busy
        /\ loop'.step \in Busy <=> loop.step \in Busy
        /\ writer'.step # "idle" => writer.step # "idle"
        /\ loop'.step # "idle" => loop.step # "idle" /\ loop'.block = loop.block
    BY <1>7, <1>12, Zenon DEF Busy
  <2> QED
    BY <1>1, <1>9, <1>10, <1>12, <2>1, <2>2, <2>3, Zenon DEF Producer, ShapeInv, Made
<1>15. HeadInv' /\ OwnInv'
  <2>1. writer.step # "idle" => Own.parent.number \in Nat /\ Own.number = Own.parent.number + 1
    BY Zenon DEF Producer, ShapeInv, Made
  <2>2. writer'.step # "idle" => writer.step # "idle"
    BY <1>7, <1>12, Zenon
  <2>3. writer.step # "idle" => /\ Top'.number >= Own.parent.number
                                /\ Top'.number = Own.parent.number => Top' = Own.parent
    BY <1>4, <1>13, <2>1 DEF Producer, HeadInv
  <2>4. writer'.step \in {"body", "header"} => Own.number > Top'.number
    BY <1>4, <1>5, <1>7, <1>12, <1>13, Zenon DEF Busy
  <2>5. loop'.step \in {"body", "header"} => loop'.block.number > Top'.number
    BY <1>4, <1>5, <1>7, <1>12, <1>13, Zenon DEF Busy
  <2>6. writer'.step \in {"receipts", "written", "end"} => Own.number <= Top'.number
    <3>1. CASE t = "writer"
      BY <1>7, <1>12, <1>13, <2>1, <3>1
    <3>2. CASE t = "loop"
      BY <1>4, <1>12, <1>13, <2>1, <3>2 DEF Producer, HeadInv
    <3> QED
      BY <3>1, <3>2, Zenon
  <2>7. writer'.step = "written" /\ loop'.step = "receipts" => loop'.block # Own
    BY <1>5, <1>7, <1>12, Zenon
  <2>8. HeadInv'
    BY <1>12, <1>13, <2>2, <2>3, <2>4, <2>5, <2>6, <2>7, Zenon DEF HeadInv
  <2>9. OwnInv'
    <3> SUFFICES ASSUME NEW b, Known(b), b.by = "p"
                 PROVE  \/ b.number <= Top'.number /\ (writer'.step # "idle" => b.number < Own.number)
                        \/ writer'.step \in After /\ b = Own
      BY <1>10, <1>12, Zenon DEF OwnInv
    <3>1. \/ b.number <= Top.number /\ (writer.step # "idle" => b.number < Own.number)
          \/ writer.step \in After /\ b = Own
      BY Zenon DEF Producer, OwnInv
    <3>2. b.number \in Nat
      BY KnownMade DEF Producer, Made
    <3>3. writer.step \in After => writer'.step \in After
      BY <1>7, <1>12, Zenon DEF After
    <3> QED
      BY <1>4, <1>13, <2>2, <3>1, <3>2, <3>3
  <2> QED
    BY <2>8, <2>9, Zenon
<1>16. CollectInv'
  <2>1. Keys(Own)' = Keys(Own)
    BY <1>12, Zenon DEF Keys, Kind
  <2>2. /\ writer'.step \in Collecting <=> writer.step \in Collecting
        /\ writer'.step \in After \ {"end"} <=> writer.step \in After \ {"end"}
        /\ writer'.step = "end" => writer' = writer
        /\ writer'.step \in {"commit", "submit"} =>
               writer' = writer /\ writer.step \in Collecting /\ t = "loop"
        /\ writer.step \in After \ {"end"} => writer.step \in Collecting
    BY <1>7, <1>12, Zenon DEF Collecting, After
  <2>3. writer.step \in {"commit", "submit"} => r.block # Own
    BY <1>5, Zenon
  <2>4. ASSUME writer.step \in After \ {"end"}
        PROVE  /\ InHand(writer)' /\ InHand(loop)'
               /\ changes'.head = Own => \/ Writes(writer)' \/ Writes(loop)'
                                         \/ Keys(Own) \subseteq changes'.keys
    <3>1. /\ InHand(writer) /\ InHand(loop) /\ changes.keys \subseteq changes'.keys
          /\ k = "header" => <<"header", r.block>> \in changes'.keys
          /\ changes.head = Own => \/ Writes(writer) \/ Writes(loop)
                                   \/ Keys(Own) \subseteq changes.keys
      BY <1>6, <1>11, <2>2, <2>4, Zenon DEF Producer, CollectInv
    <3>2. (Writes(writer) => Writes(writer)') /\ (Writes(loop) => Writes(loop)')
      BY <1>7, <1>12, Zenon DEF Writes, Own
    <3>3. r.block = Own => Writes(writer)' \/ Writes(loop)'
      BY <1>7, <1>12, Zenon DEF Writes, Own
    <3>4. changes'.head = changes.head \/ changes'.head = r.block
      BY <1>11, <2>2, <2>4, Zenon
    <3>5. InHand(r) /\ (t = "writer" => r = writer) /\ (t = "loop" => r = loop)
      BY <1>3, <3>1, Zenon
    <3>6. r.block = Own =>
              /\ <<"body", Own>> \in changes'.keys
              /\ "header" \notin left => <<"header", Own>> \in changes'.keys
      BY <1>1, <1>7, <3>1, <3>5, Zenon DEF InHand
    <3>7. CASE t = "writer"
      <4>1. InHand(writer)'
        BY <1>7, <1>12, <3>6, <3>7, Zenon DEF InHand
      <4>2. InHand(loop)'
        BY <1>4, <1>12, <3>7, Zenon DEF InHand, Busy
      <4> QED
        BY <3>1, <3>2, <3>3, <3>4, <4>1, <4>2, Zenon
    <3>8. CASE t = "loop"
      <4>1. InHand(loop)'
        BY <1>7, <1>12, <3>6, <3>8, Zenon DEF InHand
      <4>2. InHand(writer)'
        BY <1>4, <1>12, <3>8, Zenon DEF InHand, Busy
      <4> QED
        BY <3>1, <3>2, <3>3, <3>4, <4>1, <4>2, Zenon
    <3> QED
      BY <3>7, <3>8, Zenon
  <2>5. writer'.step \in {"commit", "submit"} => changes'.head # Own
    BY <1>11, <2>2, <2>3, Zenon DEF Producer, CollectInv
  <2>6. writer'.step = "end" /\ writer'.todo.head = Own => Keys(Own) \subseteq writer'.todo.keys
    BY <2>2, Zenon DEF Producer, CollectInv
  <2> QED
    BY <1>11, <1>12, <2>1, <2>2, <2>4, <2>5, <2>6, Zenon DEF CollectInv
<1>17. StateInv'
  BY <1>1, <1>7, <1>12, Zenon DEF Producer, StateInv, Before, After
<1>18. TurnInv'
  <2> SUFFICES ASSUME ~late, writer'.step # "idle" PROVE TurnInv'
    BY <1>1, Zenon DEF TurnInv
  <2>1. writer.step # "idle"
    BY <1>12, Zenon
  <2>2. r.block = Own /\ (loop'.step # "idle" => loop'.block = Own)
    BY <1>12, <2>1, Zenon DEF Producer, TurnInv
  <2>3. Own.parent = Top /\ writer.step \in {"write", "body", "header"}
    BY <1>5, <2>1, <2>2, Zenon
  <2>4. Top' \in {Own, Own.parent} /\ (Top' = Own => left = {})
    <3>1. Own # Own.parent
      BY <1>4, <2>2 DEF Made
    <3> QED
      BY <1>13, <2>2, <2>3, <3>1, Zenon
  <2>5. writer'.step \in After \ {"end"} /\ writer'.step \notin Before /\ writer'.step # "end"
    BY <1>7, <1>12, <2>3, Zenon DEF After, Before
  <2>6. ASSUME Top' = Own \/ Heads(writer)' \/ Heads(loop)' PROVE changes'.head = Own
    <3>1. "head" \notin left
      BY <1>4, <1>7, <1>12, <2>4, <2>6, Zenon DEF Heads, Busy
    <3>2. CASE k = "head"
      BY <1>11, <2>2, <2>3, <3>2, Zenon DEF Collecting
    <3>3. CASE k # "head"
      <4>1. "head" \notin r.todo
        BY <1>7, <3>1, <3>3, Zenon
      <4>2. Heads(writer) \/ Heads(loop)
        BY <1>1, <1>3, <2>2, <4>1, Zenon DEF Heads
      <4>3. changes.head = Own
        BY <2>1, <2>3, <4>2, Zenon DEF Producer, TurnInv, After
      <4> QED
        BY <1>11, <2>3, <3>3, <4>3, Zenon DEF Collecting
    <3> QED
      BY <3>2, <3>3, Zenon
  <2>7. \A i \in 1..Len(avail') : i > seen'["p"] => avail'[i] = Own
    BY <1>1, <2>1, Zenon DEF Producer, TurnInv
  <2> QED
    BY <1>12, <2>2, <2>4, <2>5, <2>6, <2>7, Zenon DEF TurnInv
<1> QED
  BY <1>10, <1>14, <1>15, <1>16, <1>17, <1>18, Zenon DEF Producer

\* Either thread writes the receipts of its block and gives back writeLock.
LEMMA WriteReceiptsStep ==
    ASSUME NilApart, Producer, NEW t \in {"writer", "loop"}, WriteReceipts(t) PROVE Producer'
<1> DEFINE r == Thread(t)
<1>1. /\ r.step = "receipts" /\ Set(<<"receipts", r.block>>) /\ SetThread(t, Done(t))
      /\ lock' = Nil /\ UNCHANGED <<avail, head, seen, schanges, late>>
  BY Zenon DEF WriteReceipts
<1>2. \/ t = "writer" /\ r = writer /\ writer' = Done(t) /\ loop' = loop
      \/ t = "loop" /\ r = loop /\ loop' = Done(t) /\ writer' = writer
  BY <1>1, ThreadStep, Zenon
<1>3. /\ Shaped(r) /\ Made(r.block) /\ Top.number \in Nat
      /\ t = "writer" => loop.step \notin Busy /\ r.block = Own
      /\ t = "loop" => writer.step \notin Busy
  BY <1>1, Holder, Zenon DEF Busy
<1>4. Done(t) = IF t = "writer" THEN [step |-> "written", block |-> r.block, todo |-> {}]
                     ELSE [step |-> "idle", block |-> Nil, todo |-> {}]
  <2>1. Done(t) = IF t = "writer" THEN [r EXCEPT !.step = "written", !.todo = {}]
                       ELSE [step |-> "idle", block |-> Nil, todo |-> {}]
    BY DEF Done, None
  <2>2. r = [step |-> r.step, block |-> r.block, todo |-> r.todo]
    BY <1>3 DEF Shaped
  <2> HIDE DEF r
  <2> QED
    BY <2>1, <2>2, TwoFields, Zenon
<1>5. Top' = Top /\ AvailInv' /\ \A b : Known(b)' <=> Known(b)
  BY <1>1, Zenon DEF Producer, AvailInv, Known, Made, Top
<1>6. writer.step \in Collecting =>
          /\ changes' = [keys |-> changes'.keys, head |-> changes'.head]
          /\ changes'.keys = changes.keys \cup {<<"receipts", r.block>>} /\ changes'.head = changes.head
  BY <1>1, SetCollects, Zenon DEF Producer
<1> HIDE DEF r
<1>7. /\ Own' = Own /\ Shaped(writer') /\ Shaped(loop')
      /\ \/ /\ t = "writer" /\ r = writer /\ writer.step = "receipts" /\ writer'.step = "written"
            /\ loop' = loop /\ r.block = Own /\ loop.step \notin Busy
         \/ /\ t = "loop" /\ r = loop /\ loop.step = "receipts" /\ loop'.step = "idle"
            /\ writer' = writer /\ writer.step \notin Busy
  <2>1. Shaped(writer) /\ Shaped(loop)
    BY Zenon DEF Producer, ShapeInv
  <2> QED
    BY <1>1, <1>2, <1>3, <1>4, <2>1 DEF Own, Shaped
<1>8. ShapeInv'
  BY <1>1, <1>5, <1>7, Zenon DEF Producer, ShapeInv, Before, After, Busy, Made
<1>9. HeadInv' /\ OwnInv'
  BY <1>5, <1>7, Zenon DEF Producer, HeadInv, OwnInv, After, Busy
<1>10. CollectInv'
  <2>1. Keys(Own)' = Keys(Own)
    BY <1>7, Zenon DEF Keys, Kind
  <2>2. /\ writer'.step \in Collecting <=> writer.step \in Collecting
        /\ writer'.step \in After \ {"end"} <=> writer.step \in After \ {"end"}
        /\ writer'.step \in {"end", "commit", "submit"} => writer' = writer
        /\ writer.step \in {"commit", "submit"} \cup (After \ {"end"}) => writer.step \in Collecting
    BY <1>7, Zenon DEF Collecting, After
  <2>3. ASSUME writer.step \in After \ {"end"}
        PROVE  /\ InHand(writer)' /\ InHand(loop)'
               /\ changes'.head = Own => \/ Writes(writer)' \/ Writes(loop)'
                                         \/ Keys(Own) \subseteq changes'.keys
    <3>1. /\ InHand(r) /\ changes'.keys = changes.keys \cup {<<"receipts", r.block>>}
          /\ changes'.head = changes.head
          /\ changes.head = Own => \/ Writes(writer) \/ Writes(loop)
                                   \/ Keys(Own) \subseteq changes.keys
      BY <1>6, <1>7, <2>2, <2>3, Zenon DEF Producer, CollectInv
    <3>2. r.block = Own => Keys(Own) \subseteq changes'.keys
      BY <1>1, <3>1, KeysOf, Zenon DEF InHand
    <3>3. InHand(writer)' /\ InHand(loop)'
      BY <1>7, Zenon DEF InHand, Busy
    <3>4. r.block # Own => ~Writes(writer) /\ ~Writes(loop)
      BY <1>7, Zenon DEF Writes, Busy
    <3> QED
      BY <3>1, <3>2, <3>3, <3>4, Zenon
  <2>4. writer'.step \in {"commit", "submit"} => changes'.head # Own
    BY <1>6, <2>2, Zenon DEF Producer, CollectInv
  <2>5. writer'.step = "end" /\ writer'.todo.head = Own => Keys(Own) \subseteq writer'.todo.keys
    BY <2>2, Zenon DEF Producer, CollectInv
  <2> QED
    BY <1>6, <1>7, <2>1, <2>2, <2>3, <2>4, <2>5, Zenon DEF CollectInv
<1>11. StateInv'
  BY <1>1, <1>7, Zenon DEF Producer, StateInv, Before, After
<1>12. TurnInv'
  <2>1. writer.step \in After \ {"end"} => changes'.head = changes.head
    BY <1>6, Zenon DEF After, Collecting
  <2>2. ~Heads(writer)' /\ ~Heads(loop)'
    BY <1>7, Zenon DEF Heads, Busy
  <2> QED
    BY <1>1, <1>5, <1>7, <2>1, <2>2 DEF Producer, TurnInv, Before, After
<1> QED
  BY <1>5, <1>8, <1>9, <1>10, <1>11, <1>12 DEF Producer

-----------------------------------------------------------------------------
(* The main loop and the other sequencer.                                  *)

\* The main loop of the producer takes the next block of Avail.
LEMMA HandleStep ==
    ASSUME NilApart, Producer, Handle PROVE Producer'
<1> DEFINE i == seen["p"] + 1
           b == avail[i]
<1>1. /\ loop.step = "idle" /\ seen["p"] < Len(avail) /\ seen' = [seen EXCEPT !["p"] = @ + 1]
      /\ \/ schanges' = schanges /\ loop' = loop
         \/ /\ schanges' = IF schanges = Nil THEN Nil ELSE schanges \cup {b}
            /\ loop' = [step |-> "write", block |-> b, todo |-> {}]
      /\ UNCHANGED <<avail, head, changes, writer, lock, late>>
  BY Zenon DEF Handle, Put, None
<1>2. seen["p"] \in Nat /\ Len(avail) \in Nat
  BY DEF Producer, ShapeInv, AvailInv
<1>3. i \in 1..Len(avail) /\ i > seen["p"]
  BY <1>1, <1>2
<1>4. Known(b) /\ Made(b)
  <2>1. Known(b)
    BY <1>3, Zenon DEF Known
  <2> QED
    BY <2>1, KnownMade, Zenon DEF Producer
<1>5. seen'["p"] = i /\ i \in Nat /\ DOMAIN seen' = {"p", "q"}
  BY <1>1, <1>2 DEF Producer, ShapeInv
<1> HIDE DEF i, b
<1>6. Top' = Top /\ Own' = Own /\ AvailInv' /\ \A c : Known(c)' <=> Known(c)
  BY <1>1, Zenon DEF Producer, AvailInv, Known, Made, Top, Own
<1>7. /\ Shaped(loop') /\ loop'.step \in {"idle", "write"}
      /\ loop'.step # "idle" => loop'.block = b
  BY <1>1 DEF Producer, ShapeInv, Shaped
<1>8. ShapeInv'
  BY <1>1, <1>4, <1>5, <1>6, <1>7, Zenon DEF Producer, ShapeInv, Busy, Made, Shaped
<1>9. HeadInv' /\ OwnInv'
  BY <1>1, <1>6, <1>7, Zenon DEF Producer, HeadInv, OwnInv
<1>10. CollectInv'
  <2>1. Keys(Own)' = Keys(Own)
    BY <1>6, Zenon DEF Keys, Kind
  <2>2. InHand(loop)' /\ (InHand(writer)' <=> InHand(writer))
    BY <1>1, <1>6, <1>7, Zenon DEF InHand
  <2>3. ~Writes(loop) /\ (Writes(writer)' <=> Writes(writer))
    BY <1>1, <1>6, Zenon DEF Writes
  <2> QED
    BY <1>1, <1>6, <2>1, <2>2, <2>3, Zenon DEF Producer, CollectInv
<1>11. StateInv'
  <2> SUFFICES ASSUME writer.step \in (Before \cup After) \ {"parent"}
               PROVE  /\ \A c \in schanges' : c.by \in {"p", "o"}
                      /\ schanges \subseteq schanges'
    BY <1>1, <1>6, Zenon DEF Producer, StateInv, Before, After
  <2>1. \A c \in schanges : c.by \in {"p", "o"}
    BY Zenon DEF Producer, StateInv
  <2>2. schanges # Nil
    BY <2>1, Zenon DEF NilApart
  <2> QED
    BY <1>1, <1>4, <2>1, <2>2, Zenon DEF Made
<1>12. TurnInv'
  <2> SUFFICES ASSUME ~late, writer.step # "idle" PROVE TurnInv'
    BY <1>1, Zenon DEF TurnInv
  <2>1. b = Own
    BY <1>3, Zenon DEF Producer, TurnInv, b
  <2>2. \A j \in 1..Len(avail) : j > i => avail[j] = Own
    <3>1. \A j \in 1..Len(avail) : j > i => j > seen["p"]
      BY <1>2, <1>3, <1>5
    <3> QED
      BY <3>1, Zenon DEF Producer, TurnInv
  <2>3. ~Heads(loop)' /\ (Heads(writer)' <=> Heads(writer))
    BY <1>1, <1>6, <1>7, Zenon DEF Heads
  <2> QED
    BY <1>1, <1>5, <1>6, <1>7, <2>1, <2>2, <2>3, Zenon DEF Producer, TurnInv
<1> QED
  BY <1>6, <1>8, <1>9, <1>10, <1>11, <1>12, Zenon DEF Producer

\* The blocks of others are none of the producer's, and come late if it makes one.
LEMMA OtherBlockStep ==
    ASSUME NilApart, Producer, OtherBlock PROVE Producer'
<1>1. /\ UNCHANGED <<head, seen, changes, schanges, writer, loop, lock>>
      /\ ~late' => writer.step = "idle"
  BY Zenon DEF OtherBlock
<1>2. PICK b \in {Genesis} \cup {avail[i] : i \in 1..Len(avail)} :
          avail' = Append(avail, [number |-> b.number + 1, by |-> "o", parent |-> b])
  BY Zenon DEF OtherBlock
<1> DEFINE x == [number |-> b.number + 1, by |-> "o", parent |-> b]
<1>3. b.number \in Nat
  <2>1. CASE b = Genesis
    BY <2>1, Zenon DEF Genesis
  <2>2. CASE Known(b)
    BY <2>2, KnownMade DEF Producer, Made
  <2> QED
    BY <1>2, <2>1, <2>2, Zenon DEF Known
<1>4. Made(x) /\ x.by = "o"
  BY <1>3, Zenon DEF Made
<1> HIDE DEF x
<1>5. AvailInv' /\ \A c : Known(c)' <=> Known(c) \/ c = x
  BY <1>2, <1>4, Submitted, Zenon DEF Producer, x
<1>6. Top' = Top /\ Own' = Own
  BY <1>1, Zenon DEF Top, Own
<1>7. ShapeInv'
  BY <1>1, <1>5, <1>6, Zenon DEF Producer, ShapeInv, Made, Shaped
<1>8. HeadInv' /\ OwnInv'
  BY <1>1, <1>4, <1>5, <1>6, Zenon DEF Producer, HeadInv, OwnInv
<1>9. CollectInv' /\ StateInv'
  BY <1>1, <1>6, ZenonT(30) DEF Producer, CollectInv, StateInv, InHand, Writes, Keys, Kind
<1>10. TurnInv'
  BY <1>1, Zenon DEF TurnInv
<1> QED
  BY <1>5, <1>7, <1>8, <1>9, <1>10, Zenon DEF Producer

-----------------------------------------------------------------------------
(* What is sent, and the peer.                                             *)

\* Only SendSnapshot and the peer itself change what the peer depends on.
LEMMA QuietPeer ==
    ASSUME SentInv, PeerInv,
           \/ ReadParent \/ BeginState \/ Begin \/ Commit \/ Submit
           \/ GiveUp \/ End \/ Handle \/ OtherBlock
    PROVE  SentInv' /\ PeerInv'
<1>1. UNCHANGED <<queue, apply, pc, torn, db, head>>
  BY Zenon DEF ReadParent, BeginState, Begin, Commit, Submit, GiveUp,
         End, Handle, OtherBlock, peer
<1>2. late => late'
  BY Zenon DEF ReadParent, BeginState, Begin, Commit, Submit, GiveUp,
         End, Handle, OtherBlock
<1>3. state' = state \/ \E b : Put(b)
  BY Zenon DEF ReadParent, BeginState, Begin, Commit, Submit, GiveUp,
         End, Handle, OtherBlock
<1>4. state'["q"] = state["q"] /\ DOMAIN state' = {"p", "q"}
  BY <1>3, Zenon DEF PeerInv, Put
<1> QED
  BY <1>1, <1>2, <1>4, PeerFrame, Zenon DEF PeerInv

\* What the producer writes leaves snapshots and the peer alone.
LEMMA WritingPeer ==
    ASSUME SentInv, PeerInv, NEW t, Written(t) PROVE SentInv' /\ PeerInv'
<1> USE DEF Written, WriteBlock, WriteBody, WriteHeader, WriteReceipts
<1>1. UNCHANGED <<queue, apply, pc, torn, state, late>>
  BY Zenon DEF peer
<1>2. \/ db' = db
      \/ \E k : db' = [db EXCEPT !["p"].keys = @ \cup {k}]
      \/ \E b : db' = [db EXCEPT !["p"].head = b]
  BY Zenon DEF Set, SetHead
<1>3. head' = head \/ \E b : head' = [head EXCEPT !["p"] = b]
  BY Zenon
<1>4. /\ db'["q"] = db["q"] /\ DOMAIN db' = {"p", "q"}
      /\ db'["p"] = [keys |-> db'["p"].keys, head |-> db'["p"].head]
  BY <1>2, Zenon DEF PeerInv
<1>5. head'["q"] = head["q"] /\ DOMAIN head' = {"p", "q"}
  BY <1>3, Zenon DEF PeerInv
<1> QED
  BY <1>1, <1>4, <1>5, PeerFrame, Zenon DEF PeerInv

\* What the writer collected is the whole block, if the head hash is in it.
LEMMA SendSnapshotPeer ==
    ASSUME NilApart, Producer, SentInv, PeerInv, SendSnapshot PROVE SentInv' /\ PeerInv'
<1> DEFINE s == [block |-> Own, bc |-> writer.todo, st |-> schanges]
<1>1. /\ writer.step = "end" /\ UNCHANGED <<db, state, head, apply, pc, late, torn>>
      /\ queue' = queue \/ queue' = Append(queue, s)
  BY Zenon DEF SendSnapshot, Delivered, Own
<1>2. s.block = Own /\ s.bc = writer.todo /\ s.st = schanges
  BY Zenon
<1>3. Own # Nil
  BY <1>1, Zenon DEF NilApart, Producer, ShapeInv, Made
<1>4. s.bc.head = s.block => Keys(s.block) \subseteq s.bc.keys /\ s.block \in s.st
  BY <1>1, <1>2, Zenon DEF Producer, CollectInv, StateInv, After
<1>5. ~late => s.bc.head = s.block
  BY <1>1, <1>2, Zenon DEF Producer, TurnInv
<1> HIDE DEF s
<1>6. SentInv'
  <2>1. PICK S : queue \in Seq(S) /\ \A x \in S : Safe(x)
    BY Zenon DEF SentInv
  <2>2. queue' \in Seq(S \cup {s})
    <3>1. queue \in Seq(S \cup {s})
      BY <2>1
    <3> QED
      BY <1>1, <3>1
  <2>3. \A x \in S \cup {s} : Safe(x)'
    BY <1>1, <1>2, <1>3, <1>4, <1>5, <2>1, Zenon DEF Safe, Complete, Keys, Kind
  <2> QED
    BY <2>2, <2>3, Zenon DEF SentInv
<1>7. PeerInv'
  BY <1>1, Zenon DEF PeerInv, InTurn, InHandOf, Keys, Kind
<1> QED
  BY <1>6, <1>7, Zenon

\* The peer's own steps leave what was sent, and what is on its way is part of it.
LEMMA SentFrame ==
    ASSUME SentInv, late' = late, queue' = queue \/ queue' = Tail(queue) \/ queue' = <<>>,
           queue = <<>> => queue' = <<>>
    PROVE  SentInv'
<1>1. PICK S : queue \in Seq(S) /\ \A s \in S : Safe(s)
  BY Zenon DEF SentInv
<1>2. queue' \in Seq(S)
  <2>1. <<>> \in Seq(S)
    OBVIOUS
  <2>2. queue # <<>> => Tail(queue) \in Seq(S)
    BY <1>1
  <2> QED
    BY <1>1, <2>1, <2>2, Zenon
<1>3. \A s \in S : Safe(s)'
  BY <1>1, Zenon DEF Safe, Complete, Keys, Kind
<1> QED
  BY <1>2, <1>3, Zenon DEF SentInv

\* The main loop of the peer writes a whole block with its state.
LEMMA HandlePeerStep ==
    ASSUME PeerInv, HandlePeer PROVE PeerInv'
<1> DEFINE b == avail[seen["q"] + 1]
           all == db["q"].keys \cup Keys(b)
<1>1. /\ pc = "up" /\ UNCHANGED <<apply, pc, late, torn>>
      /\ \/ UNCHANGED <<db, state, head>>
         \/ state' = [state EXCEPT !["q"] = @ \cup {b}] /\ UNCHANGED <<db, head>>
         \/ /\ state' = [state EXCEPT !["q"] = @ \cup {b}]
            /\ db' = [db EXCEPT !["q"] = [keys |-> all, head |-> b]]
            /\ head' = [head EXCEPT !["q"] = b]
         \/ /\ state' = [state EXCEPT !["q"] = @ \cup {b}]
            /\ db' = [db EXCEPT !["q"].keys = all] /\ head' = head
  BY Zenon DEF HandlePeer
<1> HIDE DEF b
<1>2. /\ DOMAIN db' = {"p", "q"} /\ DOMAIN state' = {"p", "q"} /\ DOMAIN head' = {"p", "q"}
      /\ db'["p"] = db["p"]
  BY <1>1, Zenon DEF PeerInv
<1>3. db["q"] = [keys |-> db["q"].keys, head |-> db["q"].head]
  BY Zenon DEF PeerInv
<1>4. /\ db'["q"] = [keys |-> db'["q"].keys, head |-> db'["q"].head]
      /\ db["q"].keys \subseteq db'["q"].keys /\ state["q"] \subseteq state'["q"]
      /\ \/ db'["q"].head = db["q"].head /\ head'["q"] = head["q"]
         \/ /\ db'["q"].head = b /\ head'["q"] = b
            /\ Keys(b) \subseteq db'["q"].keys /\ b \in state'["q"]
  <2> HIDE DEF all
  <2>1. all = db["q"].keys \cup Keys(b)
    BY Zenon DEF all
  <2> QED
    BY <1>1, <1>3, <2>1 DEF PeerInv
<1>5. InTurn' => InTurn
  BY <1>1, Zenon DEF InTurn
<1>6. Keys(db["q"].head)' = Keys(db'["q"].head)
  BY Zenon DEF Keys, Kind
<1> QED
  BY <1>1, <1>2, <1>4, <1>5, <1>6, Zenon DEF PeerInv

\* A snapshot that moves the head, taken while sequencers take turns, is complete.
LEMMA ReceiveStep ==
    ASSUME SentInv, PeerInv, Receive PROVE PeerInv'
<1>1. PICK s : /\ Safe(s) /\ pc = "up" /\ UNCHANGED <<db, state, head, late, torn>>
               /\ \/ UNCHANGED <<apply, pc>>
                  \/ /\ apply' = [keys |-> s.bc.keys, head |-> s.bc.head, st |-> s.st]
                     /\ pc' = "apply"
  <2>1. PICK S : queue \in Seq(S) /\ \A x \in S : Safe(x)
    BY Zenon DEF SentInv
  <2>2. Head(queue) \in S
    BY <2>1 DEF Receive
  <2> QED
    BY <2>1, <2>2, Zenon DEF Receive, producer
<1>3. CASE UNCHANGED <<apply, pc>>
  BY <1>1, <1>3, Zenon DEF PeerInv, InTurn, InHandOf, Keys, Kind
<1>4. CASE apply' = [keys |-> s.bc.keys, head |-> s.bc.head, st |-> s.st] /\ pc' = "apply"
  <2>1. InTurn' => /\ s.bc.head = s.block
                        /\ Keys(s.block) \subseteq s.bc.keys /\ s.block \in s.st
    BY <1>1, Zenon DEF Safe, Complete, InTurn
  <2>2. apply'.keys = s.bc.keys /\ apply'.head = s.bc.head /\ apply'.st = s.st
    BY <1>4, Zenon
  <2>3. InTurn' => InHandOf(s.block)'
    BY <1>1, <2>1, <2>2, Zenon DEF InHandOf, Safe, Keys, Kind
  <2>4. apply' = [keys |-> apply'.keys, head |-> apply'.head, st |-> apply'.st]
    BY <1>4, <2>2
  <2>5. InTurn' => \E x : InHandOf(x)'
    BY <2>3, Zenon
  <2> QED
    BY <1>1, <1>4, <2>4, <2>5, Zenon DEF PeerInv
<1> QED
  BY <1>1, <1>3, <1>4, Zenon

\* The peer writes what a snapshot carries, key by key, then its state.
LEMMA ApplyStep ==
    ASSUME SentInv, PeerInv, Apply \/ ApplyState PROVE PeerInv'
<1>1. /\ pc = "apply" /\ UNCHANGED <<head, late, torn, pc>>
      /\ \/ \E k \in apply.keys : /\ db' = [db EXCEPT !["q"].keys = @ \cup {k}] /\ state' = state
                                  /\ apply' = [apply EXCEPT !.keys = @ \ {k}]
         \/ /\ apply.head # Nil /\ db' = [db EXCEPT !["q"].head = apply.head] /\ state' = state
            /\ apply' = [apply EXCEPT !.head = Nil]
         \/ \E b \in apply.st : /\ state' = [state EXCEPT !["q"] = @ \cup {b}] /\ db' = db
                                /\ apply' = [apply EXCEPT !.st = @ \ {b}]
  BY Zenon DEF Apply, ApplyState, producer
<1>2. /\ DOMAIN db' = {"p", "q"} /\ DOMAIN state' = {"p", "q"} /\ DOMAIN head' = {"p", "q"}
      /\ db'["p"] = db["p"] /\ db'["q"] = [keys |-> db'["q"].keys, head |-> db'["q"].head]
  <2>1. db["q"] = [keys |-> db["q"].keys, head |-> db["q"].head]
    BY Zenon DEF PeerInv
  <2> QED
    BY <1>1, <2>1 DEF PeerInv
<1> SUFFICES ASSUME InTurn'
             PROVE  /\ apply' = [keys |-> apply'.keys, head |-> apply'.head, st |-> apply'.st]
                    /\ \E b : InHandOf(b)'
  BY <1>1, <1>2, Zenon DEF PeerInv
<1>3. InTurn
  BY <1>1, Zenon DEF InTurn
<1>4. /\ apply = [keys |-> apply.keys, head |-> apply.head, st |-> apply.st]
      /\ DOMAIN db = {"p", "q"} /\ DOMAIN state = {"p", "q"}
      /\ db["q"] = [keys |-> db["q"].keys, head |-> db["q"].head]
  BY <1>1, <1>3, Zenon DEF PeerInv
<1>5. PICK c : InHandOf(c)
  BY <1>1, <1>3, Zenon DEF PeerInv
<1>6. ASSUME NEW k \in apply.keys, db' = [db EXCEPT !["q"].keys = @ \cup {k}], state' = state,
             apply' = [apply EXCEPT !.keys = @ \ {k}]
      PROVE  /\ apply' = [keys |-> apply.keys \ {k}, head |-> apply.head, st |-> apply.st]
             /\ db'["q"].keys = db["q"].keys \cup {k} /\ db'["q"].head = db["q"].head
  BY <1>4, <1>6, Zenon
<1>7. ASSUME apply.head # Nil, db' = [db EXCEPT !["q"].head = apply.head], state' = state,
             apply' = [apply EXCEPT !.head = Nil]
      PROVE  /\ apply' = [keys |-> apply.keys, head |-> Nil, st |-> apply.st]
             /\ db'["q"].keys = db["q"].keys /\ db'["q"].head = apply.head
  BY <1>4, <1>7, Zenon
<1>8. ASSUME NEW b \in apply.st, state' = [state EXCEPT !["q"] = @ \cup {b}], db' = db,
             apply' = [apply EXCEPT !.st = @ \ {b}]
      PROVE  /\ apply' = [keys |-> apply.keys, head |-> apply.head, st |-> apply.st \ {b}]
             /\ state'["q"] = state["q"] \cup {b}
  BY <1>4, <1>8, Zenon
<1>9. /\ apply' = [keys |-> apply'.keys, head |-> apply'.head, st |-> apply'.st]
      /\ db["q"].keys \cup apply.keys \subseteq db'["q"].keys \cup apply'.keys
      /\ \/ apply'.head = apply.head /\ db'["q"].head = db["q"].head
         \/ apply.head # Nil /\ apply'.head = Nil /\ db'["q"].head = apply.head
      /\ state["q"] \cup apply.st \subseteq state'["q"] \cup apply'.st
  <2>1. CASE \E k \in apply.keys : /\ db' = [db EXCEPT !["q"].keys = @ \cup {k}] /\ state' = state
                                   /\ apply' = [apply EXCEPT !.keys = @ \ {k}]
    <3>1. PICK k \in apply.keys :
              /\ apply' = [keys |-> apply.keys \ {k}, head |-> apply.head, st |-> apply.st]
              /\ db'["q"].keys = db["q"].keys \cup {k} /\ db'["q"].head = db["q"].head /\ state' = state
      BY <2>1, <1>6, Zenon
    <3>2. apply'.keys = apply.keys \ {k} /\ apply'.head = apply.head /\ apply'.st = apply.st
      BY <3>1, Zenon
    <3> QED
      BY <3>1, <3>2, Zenon
  <2>2. CASE /\ apply.head # Nil /\ db' = [db EXCEPT !["q"].head = apply.head] /\ state' = state
             /\ apply' = [apply EXCEPT !.head = Nil]
    BY <1>7, <2>2, Zenon
  <2>3. CASE \E b \in apply.st : /\ state' = [state EXCEPT !["q"] = @ \cup {b}] /\ db' = db
                                 /\ apply' = [apply EXCEPT !.st = @ \ {b}]
    <3>1. PICK b \in apply.st :
              /\ apply' = [keys |-> apply.keys, head |-> apply.head, st |-> apply.st \ {b}]
              /\ state'["q"] = state["q"] \cup {b} /\ db' = db
      BY <2>3, <1>8, Zenon
    <3>2. apply'.keys = apply.keys /\ apply'.head = apply.head /\ apply'.st = apply.st \ {b}
      BY <3>1, Zenon
    <3> QED
      BY <3>1, <3>2, Zenon
  <2> QED
    BY <1>1, <2>1, <2>2, <2>3, Zenon
<1>10. InHandOf(c)'
  BY <1>5, <1>9, Zenon DEF InHandOf, Keys, Kind
<1> QED
  BY <1>9, <1>10, Zenon

\* ComputeGenesis finds the head that was applied, and a peer that died between
\* snapshots the one it had.
LEMMA RefreshStep ==
    ASSUME NilApart, PeerInv, Refresh \/ Restart PROVE PeerInv'
<1>1. /\ UNCHANGED <<db, state, late, torn>>
      /\ \/ <<"header", db["q"].head>> \in db["q"].keys /\ pc' = "up"
            /\ head' = [head EXCEPT !["q"] = db["q"].head]
         \/ <<"header", db["q"].head>> \notin db["q"].keys /\ head' = head
  BY Zenon DEF Refresh, Restart, ComputeGenesis, producer
<1>2. DOMAIN head' = {"p", "q"}
  BY <1>1, Zenon DEF PeerInv
<1>3. CASE ~InTurn
  BY <1>1, <1>2, <1>3, Zenon DEF PeerInv, InTurn
<1>4. CASE InTurn
  <2>1. Keys(db["q"].head) \subseteq db["q"].keys /\ db["q"].head \in state["q"]
    <3>1. CASE Restart
      BY <1>4, <3>1, Zenon DEF PeerInv, Restart
    <3>2. CASE Refresh
      <4>1. pc = "apply" /\ apply.keys = {} /\ apply.head = Nil /\ apply.st = {}
        BY <3>2, Zenon DEF Refresh
      <4>2. PICK b : InHandOf(b)
        BY <1>4, <4>1, Zenon DEF PeerInv
      <4> QED
        BY <4>1, <4>2, Zenon DEF InHandOf
    <3> QED
      BY <3>1, <3>2, Zenon
  <2>2. <<"header", db["q"].head>> \in db["q"].keys
    BY <2>1, KeysOf, Zenon
  <2>3. pc' = "up" /\ head'["q"] = db["q"].head
    BY <1>1, <2>2, Zenon DEF PeerInv
  <2>4. Keys(db["q"].head)' = Keys(db["q"].head)
    BY <1>1, Zenon DEF Keys, Kind
  <2> QED
    BY <1>1, <1>2, <2>1, <2>3, <2>4, Zenon DEF PeerInv
<1> QED
  BY <1>3, <1>4, Zenon

\* A peer that dies keeps its disk; of one cut off in a snapshot nothing is claimed.
LEMMA FaultStep ==
    ASSUME PeerInv, ApplyFails \/ Crash PROVE PeerInv'
<1>1. CASE ApplyFails
  <2>1. UNCHANGED <<db, state>> /\ torn' /\ (head' = head \/ \E b : head' = [head EXCEPT !["q"] = b])
    BY <1>1, Zenon DEF ApplyFails, ComputeGenesis
  <2> QED
    BY <2>1, Zenon DEF PeerInv, InTurn
<1>2. CASE Crash
  <2>1. UNCHANGED <<db, state, head, late>> /\ torn' = (torn \/ pc = "apply") /\ pc' = "down"
    BY <1>2, Zenon DEF Crash, producer
  <2>2. InTurn' => InTurn /\ pc # "apply"
    BY <2>1, Zenon DEF InTurn
  <2>3. Keys(db["q"].head)' = Keys(db["q"].head)
    BY <2>1, Zenon DEF Keys, Kind
  <2> QED
    BY <2>1, <2>2, <2>3, Zenon DEF PeerInv
<1> QED
  BY <1>1, <1>2, Zenon

\* The steps of the peer preserve the invariant.
LEMMA PeerStep ==
    ASSUME NilApart, SnapInv, Peer \/ ApplyFails \/ Crash PROVE SnapInv'
<1> USE DEF SnapInv
<1>1. ASSUME UNCHANGED producer, head'["p"] = head["p"], seen'["p"] = seen["p"],
             DOMAIN head' = {"p", "q"}, DOMAIN seen' = {"p", "q"}
      PROVE  Producer'
  BY <1>1, ProducerFrame, Zenon
<1>2. ASSUME HandlePeer PROVE SnapInv'
  <2>1. /\ UNCHANGED <<avail, changes, schanges, writer, loop, lock, queue, late, others>>
        /\ seen' = [seen EXCEPT !["q"] = @ + 1]
        /\ head' = head \/ \E b : head' = [head EXCEPT !["q"] = b]
    BY <1>2, Zenon DEF HandlePeer
  <2>2. /\ head'["p"] = head["p"] /\ seen'["p"] = seen["p"]
        /\ DOMAIN head' = {"p", "q"} /\ DOMAIN seen' = {"p", "q"}
    BY <2>1, Zenon DEF Producer, ShapeInv
  <2>3. Producer'
    BY <1>1, <2>1, <2>2, Zenon DEF producer
  <2>4. SentInv'
    BY <2>1, SentFrame, Zenon
  <2> QED
    BY <1>2, <2>3, <2>4, HandlePeerStep, Zenon
<1>3. ASSUME Receive \/ Apply \/ ApplyState \/ Refresh \/ ApplyFails \/ Crash \/ Restart
      PROVE  Producer' /\ SentInv'
  <2>1. /\ UNCHANGED producer /\ seen' = seen
        /\ head' = head \/ head' = [head EXCEPT !["q"] = db["q"].head]
    BY <1>3, Zenon DEF Receive, Apply, ApplyState, Refresh, ApplyFails, Crash, Restart,
                ComputeGenesis
  <2>2. /\ head'["p"] = head["p"] /\ seen'["p"] = seen["p"]
        /\ DOMAIN head' = {"p", "q"} /\ DOMAIN seen' = {"p", "q"}
    BY <2>1, Zenon DEF Producer, ShapeInv
  <2>3. /\ queue' = queue \/ queue' = Tail(queue) \/ queue' = <<>>
        /\ queue = <<>> => queue' = <<>>
    BY <1>3, Zenon DEF Receive, Apply, ApplyState, Refresh, ApplyFails, Crash, Restart
  <2>4. late' = late
    BY <2>1, Zenon DEF producer
  <2> QED
    BY <1>1, <2>1, <2>2, <2>3, <2>4, SentFrame, Zenon
<1> QED
  BY <1>2, <1>3, ReceiveStep, ApplyStep, RefreshStep, FaultStep, Zenon DEF Peer

\* Every step preserves the invariant.
LEMMA SnapStep ==
    ASSUME NilApart, SnapInv, [Next]_vars PROVE SnapInv'
<1> USE DEF SnapInv
<1>1. ASSUME NEW t \in {"writer", "loop"}, Written(t) PROVE SnapInv'
  <2>1. Producer'
    BY <1>1, WriteBlockStep, WriteBodyStep, WriteHeaderStep, WriteReceiptsStep, Zenon DEF Written
  <2> QED
    BY <1>1, <2>1, WritingPeer, Zenon
<1>2. CASE ReadParent \/ BeginState \/ Begin \/ Commit \/ Submit \/ GiveUp
           \/ End \/ Handle \/ OtherBlock
  <2>1. Producer'
    BY Zenon, <1>2, ReadParentStep, BeginStep, CommitStep, SubmitStep, ThroughStep, EndStep, HandleStep,
       OtherBlockStep
  <2> QED
    BY <1>2, <2>1, QuietPeer, Zenon
<1>3. CASE SendSnapshot
  BY <1>3, ThroughStep, SendSnapshotPeer, Zenon
<1>4. CASE Peer \/ ApplyFails \/ Crash
  BY <1>4, PeerStep, Zenon
<1>5. CASE UNCHANGED vars
  <2>1. /\ UNCHANGED producer /\ UNCHANGED <<head, seen, db, state, queue, apply, pc, late, torn>>
    BY <1>5, Zenon DEF vars, producer
  <2>2. Producer'
    BY <2>1, ProducerFrame, Zenon DEF Producer, ShapeInv
  <2> QED
    BY <2>1, <2>2, PeerFrame, Zenon DEF PeerInv
<1> QED
  BY <1>1, <1>2, <1>3, <1>4, <1>5, Zenon DEF Next, Writer, Loop, Idle

\* Whatever the main loop writes while the writer makes its block, a snapshot that reaches
\* the peer and moves the head (writeBlock between Begin and End) has the whole block and its state.
THEOREM SnapshotCompleteTheorem ==
    ASSUME NilApart PROVE Spec => []SnapshotComplete
<1>1. SnapInv => SnapshotComplete
  <2> SUFFICES ASSUME SnapInv, NEW i \in 1..Len(queue) PROVE Complete(queue[i])
    BY Zenon DEF SnapshotComplete
  <2>1. PICK S : queue \in Seq(S) /\ \A s \in S : Safe(s)
    BY Zenon DEF SnapInv, SentInv
  <2>2. queue[i] \in S
    BY <2>1
  <2> QED
    BY <2>1, <2>2, Zenon DEF Safe
<1>2. SnapInv /\ [Next]_vars => SnapInv'
  BY SnapStep, Zenon
<1> QED
  BY <1>1, <1>2, SnapStart, PTL DEF Spec

\* While sequencers take turns, a peer that dies only between snapshots finds the head of
\* every one it applies (processStorageSnapshot, ComputeGenesis), after a restart too, and
\* has all of that block.
THEOREM TurnsKeepHeadTheorem ==
    ASSUME NilApart PROVE Spec => []TurnsKeepHead
<1>1. SnapInv => TurnsKeepHead
  <2> SUFFICES ASSUME SnapInv, InTurn PROVE HeadComplete /\ NeverFails
    BY Zenon DEF TurnsKeepHead
  <2>1. /\ pc \in {"up", "apply", "down"}
        /\ pc = "up" => db["q"].head = head["q"]
        /\ pc # "apply" => /\ Keys(db["q"].head) \subseteq db["q"].keys
                           /\ db["q"].head \in state["q"]
    BY Zenon DEF SnapInv, PeerInv
  <2> QED
    BY <2>1, Zenon DEF HeadComplete, NeverFails
<1>2. SnapInv /\ [Next]_vars => SnapInv'
  BY SnapStep
<1> QED
  BY <1>1, <1>2, SnapStart, PTL DEF Spec

-----------------------------------------------------------------------------
(* The gas limits of both producers are accepted, for every divisor,       *)
(* target and genesis.  Accepted is not inductive: the builder looks at    *)
(* the grandparent, whose distance from the new block is not bounded by    *)
(* what Accepted says of the parent.  What is inductive is that a block's  *)
(* limit is either that of its parent or calculateGasLimit of it.  In the  *)
(* first case the grandparent and the parent are as good as each other, in *)
(* the second the builder repeats the parent's limit.                      *)

\* Of GasLimit.
CONSTANTS Divisor, BlockGasTarget, GenesisLimits
VARIABLES grand, parent, used, genesis

Gas == INSTANCE GasLimit

\* What GasLimit assumes of its constants.
GasTyped == Divisor \in Nat \ {0} /\ BlockGasTarget \in Nat /\ GenesisLimits \subseteq Nat

\* The limit of the head is one step of calculateGasLimit from its parent's or none.
OneStep ==
    IF genesis THEN grand = parent
    ELSE parent = grand \/ parent = Gas!calculateGasLimit(grand)

GasInv == Gas!TypeOK /\ OneStep

\* A quotient by the divisor is a natural number and no more than the dividend.
LEMMA Quotient ==
    ASSUME GasTyped, NEW x \in Nat
    PROVE  x \div Divisor \in Nat /\ x \div Divisor <= x
<1> DEFINE q == x \div Divisor
<1>1. Divisor \in Nat /\ Divisor > 0
  BY DEF GasTyped
<1>2. q \in Int
  BY <1>1
<1>3. x = Divisor * q + (x % Divisor) /\ x % Divisor \in 0..(Divisor - 1)
  BY <1>1
<1> QED
  BY <1>1, <1>2, <1>3

\* calculateGasLimit goes from a limit towards the target and not beyond, by no more
\* than verifyGasLimit allows.
LEMMA StepBounds ==
    ASSUME GasTyped, NEW x \in Nat
    PROVE  /\ Gas!calculateGasLimit(x) \in Nat
           /\ Gas!calculateGasLimit(x) - x <= x \div Divisor
           /\ x - Gas!calculateGasLimit(x) <= x \div Divisor
           /\ BlockGasTarget # 0 =>
                Gas!calculateGasLimit(x) \in Gas!Smaller(x, BlockGasTarget)..Gas!Larger(x, BlockGasTarget)
  BY Quotient DEF GasTyped, Gas!calculateGasLimit, Gas!Smaller, Gas!Larger

\* The limit of a new head is that of the old one or a step from it.
LEMMA NewLimit ==
    ASSUME GasInv, Gas!Next
    PROVE  parent' = parent \/ parent' = Gas!calculateGasLimit(parent)
<1>1. CASE Gas!WriteBlock
  BY <1>1, Zenon DEF Gas!WriteBlock, Gas!NewHead
<1>2. CASE Gas!Build
  <2>1. CASE genesis
    BY <1>2, <2>1, Zenon DEF Gas!Build, Gas!NewHead
  <2>2. CASE ~genesis
    BY <1>2, <2>2, Zenon DEF Gas!Build, Gas!NewHead, GasInv, OneStep
  <2> QED
    BY <2>1, <2>2, Zenon
<1> QED
  BY <1>1, <1>2, Zenon DEF Gas!Next

\* A new head has natural limits and its gas used within them.
LEMMA NewHeadShape ==
    ASSUME GasInv, Gas!Next
    PROVE  grand' = parent /\ used' \in {0, parent'} /\ genesis' = FALSE
  BY Zenon DEF Gas!Next, Gas!WriteBlock, Gas!Build, Gas!NewHead

\* GasInv holds of a genesis block.
LEMMA GasStart == ASSUME GasTyped PROVE Gas!Init => GasInv
<1> SUFFICES ASSUME Gas!Init PROVE GasInv
  BY Zenon
<1>1. parent \in Nat /\ grand = parent /\ used = 0 /\ genesis = TRUE
  BY Zenon DEF GasTyped, Gas!Init
<1> QED
  BY <1>1 DEF GasInv, Gas!TypeOK, OneStep

\* GasInv is kept by every step.
LEMMA GasStep == ASSUME GasTyped PROVE GasInv /\ [Gas!Next]_(Gas!vars) => GasInv'
<1> SUFFICES ASSUME GasInv, [Gas!Next]_(Gas!vars) PROVE GasInv'
  BY Zenon
<1>1. CASE UNCHANGED Gas!vars
  BY <1>1, Zenon DEF Gas!vars, GasInv, Gas!TypeOK, OneStep
<1>2. CASE Gas!Next
  <2>1. grand' = parent /\ used' \in {0, parent'} /\ genesis' = FALSE
    BY <1>2, NewHeadShape, Zenon
  <2>2. parent' = parent \/ parent' = Gas!calculateGasLimit(parent)
    BY <1>2, NewLimit, Zenon
  <2>3. parent \in Nat
    BY Zenon DEF GasInv, Gas!TypeOK
  <2>4. parent' \in Nat
    BY <2>2, <2>3, StepBounds, Zenon
  <2>5. Gas!TypeOK'
    <3>1. used' \in 0..parent'
      BY <2>1, <2>4
    <3>2. genesis' \in BOOLEAN
      BY <2>1, Zenon
    <3> QED
      BY <2>1, <2>3, <2>4, <3>1, <3>2, Zenon DEF Gas!TypeOK
  <2>6. OneStep'
    BY <2>1, <2>2, Zenon DEF OneStep, Gas!calculateGasLimit
  <2> QED
    BY <2>5, <2>6, Zenon DEF GasInv
<1> QED
  BY <1>1, <1>2, Zenon

\* The head of every chain the producers build is within a step of its parent.
THEOREM GasInvariant == ASSUME GasTyped PROVE Gas!Spec => []GasInv
  BY GasStart, GasStep, PTL DEF Gas!Spec

\* Every block of a sequencer and of the block builder passes verifyGasLimit, though
\* the builder takes its limit from the block before the parent.
THEOREM AcceptedTheorem == ASSUME GasTyped PROVE Gas!Spec => []Gas!Accepted
<1>1. GasInv => Gas!Accepted
  <2> SUFFICES ASSUME GasInv, ~genesis PROVE Gas!verifyGasLimit(used, parent, grand)
    BY Zenon DEF Gas!Accepted
  <2>1. grand \in Nat /\ parent \in Nat /\ used \in 0..parent
    BY Zenon DEF GasInv, Gas!TypeOK
  <2>2. parent = grand \/ parent = Gas!calculateGasLimit(grand)
    BY Zenon DEF GasInv, OneStep
  <2>3. grand \div Divisor \in Nat
    BY <2>1, Quotient, Zenon
  <2>4. parent - grand <= grand \div Divisor /\ grand - parent <= grand \div Divisor
    <3>1. CASE parent = grand
      BY <3>1, <2>1, <2>3
    <3>2. CASE parent = Gas!calculateGasLimit(grand)
      BY <3>2, <2>1, StepBounds, Zenon
    <3> QED
      BY <2>2, <3>1, <3>2, Zenon
  <2> QED
    BY <2>1, <2>4 DEF Gas!verifyGasLimit
<1> QED
  BY <1>1, GasInvariant, PTL

\* No block's gas limit moves away from the target or past it.
THEOREM TowardsTargetTheorem == ASSUME GasTyped PROVE Gas!Spec => Gas!TowardsTarget
<1>1. GasInv /\ [Gas!Next]_(Gas!vars) =>
        [BlockGasTarget # 0 =>
          parent' \in Gas!Smaller(parent, BlockGasTarget)..Gas!Larger(parent, BlockGasTarget)]_(Gas!vars)
  <2> SUFFICES ASSUME GasInv, Gas!Next, BlockGasTarget # 0
               PROVE  parent' \in Gas!Smaller(parent, BlockGasTarget)..Gas!Larger(parent, BlockGasTarget)
    BY Zenon
  <2>1. parent \in Nat
    BY Zenon DEF GasInv, Gas!TypeOK
  <2>2. CASE parent' = parent
    BY <2>1, <2>2 DEF GasTyped, Gas!Smaller, Gas!Larger
  <2>3. CASE parent' = Gas!calculateGasLimit(parent)
    BY <2>1, <2>3, StepBounds, Zenon
  <2> QED
    BY <2>2, <2>3, NewLimit, Zenon
<1> QED
  BY <1>1, GasInvariant, PTL DEF Gas!Spec, Gas!TowardsTarget
=============================================================================
