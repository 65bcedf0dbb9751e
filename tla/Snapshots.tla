----------------------------- MODULE Snapshots ------------------------------
(***************************************************************************)
(* pkg/snapshot, key by key: a producer whose writer thread collects what  *)
(* the two storages write while it makes a block, whose main loop writes   *)
(* the blocks of others to the same storages at the same time, and a peer  *)
(* that applies the snapshots it gets.                                     *)
(*                                                                         *)
(* A key of the block storage is a pair of a kind and a block ("header"    *)
(* stands for header, difficulty and canonical hash), and the head hash;   *)
(* the state storage holds the states of blocks.  Sequencing has the same  *)
(* snapshots with whole blocks, many nodes and the turns of sequencers.    *)
(***************************************************************************)
EXTENDS Integers, Sequences

CONSTANTS
    Nil,            \* nothing
    MaxNumber,      \* bound on block numbers
    MaxOthers,      \* bound on blocks of others
    MaxFaults       \* bound on crashes and failing writes of the peer

ASSUME SnapshotsAssumption ==
    {MaxNumber, MaxOthers, MaxFaults} \subseteq Nat

VARIABLES
    avail,      \* the blocks in Avail's order
    db, state,  \* of producer "p" and peer "q": keys, head on disk; states
    head,       \* the header in memory
    seen,       \* how much of avail each main loop has handled
    changes,    \* the changes maps of the producer, Nil outside Begin and End
    schanges,
    writer,     \* the producer's writer: step, block and collected block changes
    loop,       \* the producer's main loop: step and block
    lock,       \* who holds writeLock
    queue,      \* snapshotCh of the peer, and after it the handlers that wait for room
    apply,      \* the peer's snapshot in progress: what is left of it
    pc,         \* of the peer: "up", "apply", "failed", "down"
    late,       \* a block of others came while the producer made its own
    torn,       \* the peer has died, or failed to write, in the middle of a snapshot
    others, faults

vars == <<avail, db, state, head, seen, changes, schanges, writer, loop, lock, queue,
          apply, pc, late, torn, others, faults>>

Kind == {"header", "body", "receipts"}
Genesis == [number |-> 0, by |-> "genesis", parent |-> Nil]
Keys(b) == {<<k, b>> : k \in Kind}
None == [step |-> "idle", block |-> Nil, todo |-> {}]

Init ==
    /\ avail = <<>>
    /\ db = [n \in {"p", "q"} |-> [keys |-> Keys(Genesis), head |-> Genesis]]
    /\ state = [n \in {"p", "q"} |-> {Genesis}]
    /\ head = [n \in {"p", "q"} |-> Genesis]
    /\ seen = [n \in {"p", "q"} |-> 0]
    /\ changes = Nil /\ schanges = Nil
    /\ writer = None /\ loop = None /\ lock = Nil
    /\ queue = <<>> /\ apply = Nil
    /\ pc = "up"
    /\ late = FALSE /\ torn = FALSE /\ others = 0 /\ faults = 0

peer == <<queue, apply, pc, torn, faults>>

-----------------------------------------------------------------------------
(* The two storages of the producer.                                       *)

\* blockchainKVStorage.Set, for a key of a block.
Set(k) ==
    /\ db' = [db EXCEPT !["p"].keys = @ \cup {k}]
    /\ changes' = IF changes = Nil THEN Nil ELSE [changes EXCEPT !.keys = @ \cup {k}]

\* ... and for the head hash.
SetHead(b) ==
    /\ db' = [db EXCEPT !["p"].head = b]
    /\ changes' = IF changes = Nil THEN Nil ELSE [changes EXCEPT !.head = b]

\* StateStorage.Put, for all that a block's execution commits.
Put(b) ==
    /\ state' = [state EXCEPT !["p"] = @ \cup {b}]
    /\ schanges' = IF schanges = Nil THEN Nil ELSE schanges \cup {b}

-----------------------------------------------------------------------------
(* WriteBlock at the producer, as thread t ("writer" or "loop") runs it.   *)
(* The database is a map with a Set for every key, so header and head are  *)
(* separate writes, in an order this repository does not determine.        *)

Thread(t) == IF t = "writer" THEN writer ELSE loop
SetThread(t, r) == IF t = "writer" THEN writer' = r /\ UNCHANGED loop
                   ELSE loop' = r /\ UNCHANGED writer
Done(t) == IF t = "writer" THEN [Thread(t) EXCEPT !.step = "written", !.todo = {}] ELSE None

WriteBlock(t) ==
    LET r == Thread(t) IN
    /\ r.step = "write" /\ lock = Nil
    /\ IF r.block.number <= head["p"].number
       THEN SetThread(t, Done(t)) /\ UNCHANGED lock
       ELSE /\ lock' = t
            /\ SetThread(t, [r EXCEPT !.step = "body"])
    /\ UNCHANGED <<avail, db, state, head, seen, changes, schanges, late, others, peer>>

WriteBody(t) ==
    LET r == Thread(t) IN
    /\ r.step = "body"
    /\ Set(<<"body", r.block>>)
    /\ SetThread(t, [r EXCEPT !.step = "header",
                              !.todo = IF r.block.parent = head["p"] THEN {"header", "head"}
                                       ELSE {"header"}])
    /\ UNCHANGED <<avail, state, head, seen, schanges, lock, late, others, peer>>

\* A block that does not extend the head has no more weight and stays a fork.
WriteHeader(t) ==
    LET r == Thread(t) IN
    /\ r.step = "header"
    /\ \E k \in r.todo :
         /\ IF k = "head" THEN SetHead(r.block) ELSE Set(<<"header", r.block>>)
         /\ LET left == r.todo \ {k} IN
            /\ SetThread(t, [r EXCEPT !.todo = left,
                                      !.step = IF left = {} THEN "receipts" ELSE "header"])
            /\ head' = IF left = {} /\ r.block.parent = head["p"]
                       THEN [head EXCEPT !["p"] = r.block] ELSE head
    /\ UNCHANGED <<avail, state, seen, schanges, lock, late, others, peer>>

WriteReceipts(t) ==
    LET r == Thread(t) IN
    /\ r.step = "receipts"
    /\ Set(<<"receipts", r.block>>)
    /\ SetThread(t, Done(t))
    /\ lock' = Nil
    /\ UNCHANGED <<avail, state, head, seen, schanges, late, others, peer>>

-----------------------------------------------------------------------------
(* The producer's writer: sequencer.go, writeBlock.                        *)

\* The header is built on the head.
ReadParent ==
    /\ writer.step = "idle" /\ head["p"].number < MaxNumber
    /\ late' = (late \/ loop.step # "idle" \/ seen["p"] < Len(avail))
    /\ writer' = [None EXCEPT !.step = "parent",
                     !.block = [number |-> head["p"].number + 1, by |-> "p",
                                parent |-> head["p"]]]
    /\ UNCHANGED <<avail, db, state, head, seen, changes, schanges, loop, lock, others,
                   peer>>

\* snapshotter.Begin: first the state storage, then that of the blocks.
BeginState ==
    /\ writer.step = "parent"
    /\ schanges' = {}
    /\ writer' = [writer EXCEPT !.step = "begin"]
    /\ UNCHANGED <<avail, db, state, head, seen, changes, loop, lock, late, others, peer>>

Begin ==
    /\ writer.step = "begin"
    /\ changes' = [keys |-> {}, head |-> Nil]
    /\ writer' = [writer EXCEPT !.step = "commit"]
    /\ UNCHANGED <<avail, db, state, head, seen, schanges, loop, lock, late, others, peer>>

Commit ==
    /\ writer.step = "commit"
    /\ Put(writer.block)
    /\ writer' = [writer EXCEPT !.step = "submit"]
    /\ UNCHANGED <<avail, db, head, seen, changes, loop, lock, late, others, peer>>

\* SendAndWaitForStatus: the block gets into Avail.
Submit ==
    /\ writer.step = "submit"
    /\ avail' = Append(avail, writer.block)
    /\ writer' = [writer EXCEPT !.step = "write"]
    /\ UNCHANGED <<db, state, head, seen, changes, schanges, loop, lock, late, others, peer>>

\* An error on the way: the deferred End takes the changes and they are dropped.
GiveUp ==
    /\ writer.step = "submit"
    /\ writer' = None
    /\ changes' = Nil /\ schanges' = Nil
    /\ UNCHANGED <<avail, db, state, head, seen, loop, lock, late, others, peer>>

\* Mutant: the block's changes are taken before it is written.
EndEarly ==
    /\ writer.step \in {"write", "written"}
    /\ writer' = [writer EXCEPT !.step = "end", !.todo = changes]
    /\ changes' = Nil
    /\ UNCHANGED <<avail, db, state, head, seen, schanges, loop, lock, late, others, peer>>

End ==
    /\ writer.step = "written"
    /\ writer' = [writer EXCEPT !.step = "end", !.todo = changes]
    /\ changes' = Nil
    /\ UNCHANGED <<avail, db, state, head, seen, schanges, loop, lock, late, others, peer>>

\* What the peer's queue may be after a snapshot is published: gossip loses it, or
\* handleIncomingSnapshot sends it on the channel.  A full channel blocks the handler, and
\* receiving lets the handlers that wait go on in their order.
Delivered(s) == {queue} \cup (IF pc # "down" THEN {Append(queue, s)} ELSE {})

\* StateStorage.End, and the snapshot goes to the peers.
SendSnapshot ==
    /\ writer.step = "end"
    /\ queue' \in Delivered([block |-> writer.block, bc |-> writer.todo, st |-> schanges])
    /\ schanges' = Nil
    /\ writer' = None
    /\ UNCHANGED <<avail, db, state, head, seen, changes, loop, lock, apply, pc, late, others,
                   torn, faults>>

-----------------------------------------------------------------------------
(* The main loops.                                                         *)

\* Another sequencer submits a block on some block that is in Avail.
OtherBlock ==
    /\ others < MaxOthers
    /\ \E b \in {Genesis} \cup {avail[i] : i \in 1 .. Len(avail)} :
         /\ b.number < MaxNumber
         /\ LET new == [number |-> b.number + 1, by |-> "o", parent |-> b]
            IN /\ \A i \in 1 .. Len(avail) : avail[i] # new
               /\ avail' = Append(avail, new)
         /\ late' = \/ late \/ writer.step # "idle"
                    \/ b # IF avail = <<>> THEN Genesis ELSE avail[Len(avail)]
    /\ others' = others + 1
    /\ UNCHANGED <<db, state, head, seen, changes, schanges, writer, loop, lock, peer>>

\* validator.Check: the parent is known and the block can be executed on its state.
Checks(n, b) == <<"header", b.parent>> \in db[n].keys /\ b.parent \in state[n]

\* The producer's main loop takes the next Avail block; executing commits the state.
Handle ==
    /\ loop.step = "idle" /\ seen["p"] < Len(avail)
    /\ seen' = [seen EXCEPT !["p"] = @ + 1]
    /\ LET b == avail[seen["p"] + 1] IN
       IF Checks("p", b) THEN Put(b) /\ loop' = [None EXCEPT !.step = "write", !.block = b]
       ELSE UNCHANGED <<state, schanges, loop>>
    /\ UNCHANGED <<avail, db, head, changes, writer, lock, late, others, peer>>

\* Mutant: the peer leaves the producer's blocks to the snapshots.
HandlePeerOthers ==
    /\ pc = "up" /\ seen["q"] < Len(avail)
    /\ seen' = [seen EXCEPT !["q"] = @ + 1]
    /\ LET b == avail[seen["q"] + 1] IN
       IF b.by = "o" /\ Checks("q", b) /\ b.parent = head["q"]
       THEN /\ state' = [state EXCEPT !["q"] = @ \cup {b}]
            /\ db' = [db EXCEPT !["q"] = [keys |-> @.keys \cup Keys(b), head |-> b]]
            /\ head' = [head EXCEPT !["q"] = b]
       ELSE UNCHANGED <<db, state, head>>
    /\ UNCHANGED <<avail, changes, schanges, writer, loop, lock, queue, apply, pc,
                   late, others, torn, faults>>

\* The peer's, in one step: Blockchain has the single writes and the crashes.
HandlePeer ==
    /\ pc = "up" /\ seen["q"] < Len(avail)
    /\ seen' = [seen EXCEPT !["q"] = @ + 1]
    /\ LET b == avail[seen["q"] + 1] IN
       IF ~Checks("q", b) THEN UNCHANGED <<db, state, head>>
       ELSE /\ state' = [state EXCEPT !["q"] = @ \cup {b}]
            /\ IF b.number <= head["q"].number THEN UNCHANGED <<db, head>>
               ELSE IF b.parent = head["q"]
               THEN /\ db' = [db EXCEPT !["q"] = [keys |-> @.keys \cup Keys(b), head |-> b]]
                    /\ head' = [head EXCEPT !["q"] = b]
               ELSE /\ db' = [db EXCEPT !["q"].keys = @ \cup Keys(b)]
                    /\ UNCHANGED head
    /\ UNCHANGED <<avail, changes, schanges, writer, loop, lock, queue, apply, pc,
                   late, others, torn, faults>>

producer == <<avail, changes, schanges, writer, loop, lock, late, others>>

-----------------------------------------------------------------------------
(* The peer: processStorageSnapshot and the Apply of both storages.        *)

Receive ==
    /\ pc = "up" /\ queue # <<>>
    /\ queue' = Tail(queue)
    /\ LET s == Head(queue) IN
       IF s.block.number # head["q"].number + 1 THEN UNCHANGED <<apply, pc>>
       ELSE /\ apply' = [keys |-> s.bc.keys, head |-> s.bc.head, st |-> s.st]
            /\ pc' = "apply"
    /\ UNCHANGED <<producer, db, state, head, seen, torn, faults>>

\* blockchainKVStorage.Apply: the keys come in the random order of the changes map.
Apply ==
    /\ pc = "apply"
    /\ \/ \E k \in apply.keys :
            /\ db' = [db EXCEPT !["q"].keys = @ \cup {k}]
            /\ apply' = [apply EXCEPT !.keys = @ \ {k}]
       \/ /\ apply.head # Nil
          /\ db' = [db EXCEPT !["q"].head = apply.head]
          /\ apply' = [apply EXCEPT !.head = Nil]
    /\ UNCHANGED <<producer, state, head, seen, queue, pc, torn, faults>>

\* StateStorage.Apply comes second.
ApplyState ==
    /\ pc = "apply" /\ apply.keys = {} /\ apply.head = Nil /\ apply.st # {}
    /\ \E b \in apply.st :
         /\ state' = [state EXCEPT !["q"] = @ \cup {b}]
         /\ apply' = [apply EXCEPT !.st = @ \ {b}]
    /\ UNCHANGED <<producer, db, head, seen, queue, pc, torn, faults>>

\* ComputeGenesis loads the head from disk and fails when its header is missing;
\* the main loop returns the error and the process panics.
ComputeGenesis ==
    IF <<"header", db["q"].head>> \in db["q"].keys
    THEN head' = [head EXCEPT !["q"] = db["q"].head] /\ pc' = "up"
    ELSE pc' = "failed" /\ UNCHANGED head

\* Mutant: the head is refreshed before the state storage has its part.
RefreshEarly ==
    /\ pc = "apply" /\ apply.keys = {} /\ apply.head = Nil
    /\ apply' = Nil
    /\ ComputeGenesis
    /\ UNCHANGED <<producer, db, state, seen, queue, torn, faults>>

Refresh ==
    /\ pc = "apply" /\ apply.keys = {} /\ apply.head = Nil /\ apply.st = {}
    /\ apply' = Nil
    /\ ComputeGenesis
    /\ UNCHANGED <<producer, db, state, seen, queue, torn, faults>>

\* A Set of the block storage fails: Apply returns, the state gets nothing, the error is
\* logged and the head refreshed from what is written.
ApplyFails ==
    /\ pc = "apply" /\ (apply.keys # {} \/ apply.head # Nil)
    /\ faults < MaxFaults
    /\ faults' = faults + 1
    /\ torn' = TRUE
    /\ apply' = Nil
    /\ ComputeGenesis
    /\ UNCHANGED <<producer, db, state, seen, queue>>

Crash ==
    /\ pc \in {"up", "apply"} /\ faults < MaxFaults
    /\ faults' = faults + 1
    /\ torn' = (torn \/ pc = "apply")
    /\ pc' = "down" /\ apply' = Nil /\ queue' = <<>>
    /\ UNCHANGED <<producer, db, state, head, seen>>

\* The node starts again; what it has missed in Avail it has still to handle.
Restart ==
    /\ pc = "down"
    /\ ComputeGenesis
    /\ UNCHANGED <<producer, db, state, seen, queue, apply, torn, faults>>

\* All is made and handled.
Idle ==
    /\ writer.step = "idle" /\ loop.step = "idle" /\ pc \in {"up", "failed"}
    /\ seen["p"] = Len(avail)
    /\ UNCHANGED vars

Written(t) == WriteBlock(t) \/ WriteBody(t) \/ WriteHeader(t) \/ WriteReceipts(t)
Writer == BeginState \/ Begin \/ Commit \/ Submit \/ End \/ SendSnapshot \/ Written("writer")
Loop == Handle \/ Written("loop")
Peer == HandlePeer \/ Receive \/ Apply \/ ApplyState \/ Refresh \/ Restart

Next ==
    \/ ReadParent \/ GiveUp \/ Writer \/ Loop \/ Peer \/ OtherBlock
    \/ ApplyFails \/ Crash \/ Idle

Spec == Init /\ [][Next]_vars

\* The peer goes on when it can: its main loop handles Avail blocks and what is in the
\* channel, and a process that died is started again.
FairSpec == Spec /\ WF_vars(Peer)

-----------------------------------------------------------------------------
Complete(s) ==
    s.bc.head = s.block => Keys(s.block) \subseteq s.bc.keys /\ s.block \in s.st

\* Whatever the main loop writes meanwhile, the writer's own block too, a snapshot that
\* reaches the peer and moves the head to its block has the whole block and its state.
SnapshotComplete == \A i \in 1 .. Len(queue) : Complete(queue[i])

\* "StateRoot is the root hash of the state at which the snapshot was taken": a peer
\* that has applied a snapshot has all of its head, with the state.
HeadComplete ==
    pc = "up" => Keys(head["q"]) \subseteq db["q"].keys /\ head["q"] \in state["q"]

\* "After applying the snapshot, it refreshes the internal HEAD block in the
\* blockchain": ComputeGenesis finds the header of the head on disk.
NeverFails == pc # "failed"

\* Sequencers take turns, and the peer was never cut off in the middle of a snapshot.
InTurn == ~late /\ ~torn

\* Both as far as they hold: while sequencers take turns, a peer that dies, if it does,
\* between snapshots finds the head of every snapshot it applies, after a restart too,
\* and has all of that block.
TurnsKeepHead == InTurn => HeadComplete /\ NeverFails

\* While sequencers take turns, the peer, restarted or not, catches up with the producer
\* again and again, by snapshot or from Avail, and has the state of its head.
Follows ==
    []<>(InTurn => /\ pc = "up" /\ head["q"].number >= head["p"].number
                   /\ head["q"] \in state["q"])
=============================================================================
