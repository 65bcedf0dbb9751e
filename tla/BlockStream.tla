---------------------------- MODULE BlockStream -----------------------------
(***************************************************************************)
(* The stream of Avail blocks (pkg/avail/stream.go) and what is read from  *)
(* it: by syncNode (consensus/avail/syncer.go), which stops at the block   *)
(* that was the latest when it began, or by a main loop that never stops.  *)
(*                                                                         *)
(* The stream first catches up to Avail's head and then follows the new    *)
(* heads; it hands the blocks over one at a time.  Avail does not          *)
(* reorganise.  An Avail block is the sequence of the kinds of its         *)
(* extrinsics.                                                             *)
(***************************************************************************)
EXTENDS Integers, Sequences, FiniteSets

CONSTANTS
    Contents,      \* the extrinsics that an Avail block may have
    InitHeight,    \* of Avail when the node starts
    MaxHeight,     \* bound on Avail's height
    MaxFaults,     \* bound on failing fetches
    MaxDrops       \* bound on failing subscriptions

ASSUME StreamAssumption ==
    MaxHeight \in Nat /\ InitHeight \in 1..MaxHeight

VARIABLES
    chain,         \* the Avail blocks
    heads,         \* heads announced to the subscription and not yet read
    offset,        \* where the stream is to begin, 0 for the next new block
    stopAt,        \* the block that ends syncNode, 0 for a main loop
    pc,            \* of the stream
    latest,        \* latestBlockNumber
    next, to,      \* where catchUp is and where it ends
    delivered,     \* numbers of the blocks handed over
    handled,       \* the Edge blocks checked and written, as number of block and extrinsic
    reader,        \* "new", "next", "open", "reading", "done", "stopped"
    closed,        \* the stream was closed
    faults, lost, drops \* failed fetches, those of them in catchUp, failed subscriptions

stream == <<pc, latest, next, to>>
counts == <<faults, lost, drops>>
vars == <<chain, heads, offset, stopAt, stream, delivered, handled, reader, closed, counts>>

height == Len(chain)

Init ==
    /\ chain \in [1..InitHeight -> Contents]
    /\ heads = <<>> /\ offset = 0 /\ stopAt = 0
    /\ pc = "new" /\ latest = 0 /\ next = 0 /\ to = 0
    /\ delivered = <<>> /\ handled = {} /\ reader = "new" /\ closed = FALSE
    /\ faults = 0 /\ lost = 0 /\ drops = 0

-----------------------------------------------------------------------------
(* What is in an Avail block.                                              *)

\* Blob.Decode and the decoding before it: whether the extrinsic holds a blob.
IsBlob(kind) == kind \in {"block", "badrlp"}

\* Mutant: the extrinsics that are no blobs are an error too.
BlockFromAvailStrict(exts) ==
    IF \E i \in DOMAIN exts : exts[i] # "block"
    THEN [err |-> "decode", blocks |-> {}]
    ELSE [err |-> "none", blocks |-> DOMAIN exts]

\* BlockFromAvail: the extrinsics of other applications and those that hold no
\* blob are passed over, a blob that is no block is an error of the whole.
BlockFromAvail(exts) ==
    LET blobs == {i \in DOMAIN exts : IsBlob(exts[i])}
    IN CASE \E i \in blobs : exts[i] = "badrlp" -> [err |-> "decode", blocks |-> {}]
         [] blobs = {} -> [err |-> "noextrinsic", blocks |-> {}]
         [] OTHER -> [err |-> "none", blocks |-> blobs]

-----------------------------------------------------------------------------
(* Avail.                                                                  *)

Subscribed == pc \in {"receive", "fetch", "catchup"}

NewAvailBlock ==
    /\ height < MaxHeight
    /\ \E c \in Contents : chain' = Append(chain, c)
    /\ heads' = IF Subscribed THEN Append(heads, height + 1) ELSE heads
    /\ UNCHANGED <<offset, stopAt, stream, delivered, handled, reader, closed, counts>>

-----------------------------------------------------------------------------
(* The reader.                                                             *)

\* syncNode asks for the latest header; a main loop never stops.
LatestHeader ==
    /\ reader = "new"
    /\ stopAt' \in {0, height}
    /\ reader' = "next"
    /\ UNCHANGED <<chain, heads, offset, stream, delivered, handled, closed, counts>>

\* getNextAvailBlockNumber: from the first block, or, when it fails, 0.
NextAvailBlock ==
    /\ reader = "next"
    /\ \/ offset' = 1 /\ UNCHANGED faults
       \/ faults < MaxFaults /\ faults' = faults + 1 /\ offset' = 0
    /\ reader' = "open"
    /\ UNCHANGED <<chain, heads, stopAt, stream, delivered, handled, closed, lost, drops>>

\* BlockStream: starts watch.
NewBlockStream ==
    /\ reader = "open"
    /\ reader' = "reading"
    /\ pc' = "start"
    /\ UNCHANGED <<chain, heads, offset, stopAt, latest, next, to, delivered, handled, closed, counts>>

\* The condition that ends syncNode.
Stop(k) == k = stopAt

\* The reader takes block k: its Edge blocks are written, unless it does not
\* decode, when it is left without a look at the condition.
Read(k) ==
    LET res == BlockFromAvail(chain[k])
        done == res.err # "decode" /\ Stop(k)
    IN /\ reader = "reading"
       /\ delivered' = Append(delivered, k)
       /\ handled' = handled \cup {<<k, i>> : i \in res.blocks}
       /\ reader' = IF done THEN "done" ELSE reader
       /\ closed' = (closed \/ done)

\* The node is closed: the reader leaves and closes the stream.
Shutdown ==
    /\ reader = "reading"
    /\ reader' = "stopped"
    /\ closed' = TRUE
    /\ UNCHANGED <<chain, heads, offset, stopAt, stream, delivered, handled, counts>>

-----------------------------------------------------------------------------
(* watch.                                                                  *)

\* GetHeaderLatest: on an error watch returns.
Start ==
    /\ pc = "start"
    /\ \/ /\ latest' = height + 1
          /\ next' = IF offset > 0 THEN offset ELSE height + 1
          /\ to' = height
          /\ pc' = "first"
          /\ UNCHANGED faults
       \/ /\ faults < MaxFaults /\ faults' = faults + 1
          /\ pc' = "dead"
          /\ UNCHANGED <<latest, next, to>>
    /\ UNCHANGED <<chain, heads, offset, stopAt, delivered, handled, reader, closed, lost, drops>>

\* SubscribeNewHeads, which announces the present head; on an error watch returns.
Subscribe ==
    /\ pc = "subscribe"
    /\ \/ heads' = <<height>> /\ pc' = "receive" /\ UNCHANGED faults
       \/ /\ faults < MaxFaults /\ faults' = faults + 1
          /\ pc' = "dead" /\ UNCHANGED heads
    /\ UNCHANGED <<chain, offset, stopAt, latest, next, to, delivered, handled, reader, closed, lost, drops>>

\* Mutant: a head that is ahead is caught up with to the block before it.
ReceiveShort ==
    /\ pc = "receive" /\ heads # <<>>
    /\ heads' = Tail(heads)
    /\ LET h == Head(heads)
       IN \/ h < latest /\ UNCHANGED stream
          \/ h > latest /\ next' = latest /\ to' = h - 1 /\ latest' = h + 1 /\ pc' = "catchup"
          \/ h = latest /\ pc' = "fetch" /\ UNCHANGED <<latest, next, to>>
    /\ UNCHANGED <<chain, offset, stopAt, delivered, handled, reader, closed, counts>>

\* Mutant: what was caught up with is not remembered.
ReceiveForgets ==
    /\ pc = "receive" /\ heads # <<>>
    /\ heads' = Tail(heads)
    /\ LET h == Head(heads)
       IN \/ h < latest /\ UNCHANGED stream
          \/ h > latest /\ next' = latest /\ to' = h /\ pc' = "catchup" /\ UNCHANGED latest
          \/ h = latest /\ pc' = "fetch" /\ UNCHANGED <<latest, next, to>>
    /\ UNCHANGED <<chain, offset, stopAt, delivered, handled, reader, closed, counts>>

\* A head: streamed already, ahead of the next block, or the next block.
Receive ==
    /\ pc = "receive" /\ heads # <<>>
    /\ heads' = Tail(heads)
    /\ LET h == Head(heads)
       IN \/ h < latest /\ UNCHANGED stream
          \/ h > latest /\ next' = latest /\ to' = h /\ latest' = h + 1 /\ pc' = "catchup"
          \/ h = latest /\ pc' = "fetch" /\ UNCHANGED <<latest, next, to>>
    /\ UNCHANGED <<chain, offset, stopAt, delivered, handled, reader, closed, counts>>

\* The next block is fetched and handed over.
Deliver ==
    /\ pc = "fetch"
    /\ Read(latest)
    /\ latest' = latest + 1
    /\ pc' = "receive"
    /\ UNCHANGED <<chain, heads, offset, stopAt, next, to, counts>>

\* Mutant: a block that cannot be fetched counts as streamed.
FetchFailsAdvances ==
    /\ pc = "fetch" /\ faults < MaxFaults
    /\ faults' = faults + 1
    /\ latest' = latest + 1
    /\ pc' = "receive"
    /\ UNCHANGED <<chain, heads, offset, stopAt, next, to, delivered, handled, reader, closed, lost, drops>>

\* It cannot be fetched: the block is left to the head after it.
FetchFails ==
    /\ pc = "fetch" /\ faults < MaxFaults
    /\ faults' = faults + 1
    /\ pc' = "receive"
    /\ UNCHANGED <<chain, heads, offset, stopAt, latest, next, to, delivered, handled, reader, closed, lost, drops>>

InCatchUp == pc \in {"first", "catchup"}

\* catchUp: a block is fetched and handed over.
CatchUp ==
    /\ InCatchUp /\ next <= to
    /\ Read(next)
    /\ next' = next + 1
    /\ UNCHANGED <<chain, heads, offset, stopAt, pc, latest, to, counts>>

\* A block that cannot be fetched is passed over.
CatchUpFails ==
    /\ InCatchUp /\ next <= to /\ faults < MaxFaults
    /\ faults' = faults + 1
    /\ lost' = lost + 1
    /\ next' = next + 1
    /\ UNCHANGED <<chain, heads, offset, stopAt, pc, latest, to, delivered, handled, reader, closed, drops>>

\* catchUp is done.
CaughtUp ==
    /\ InCatchUp /\ next > to
    /\ pc' = IF pc = "first" THEN "subscribe" ELSE "receive"
    /\ UNCHANGED <<chain, heads, offset, stopAt, latest, next, to, delivered, handled, reader, closed, counts>>

\* The subscription fails, and what it had announced is gone.
SubscriptionFails ==
    /\ pc = "receive" /\ drops < MaxDrops
    /\ drops' = drops + 1
    /\ heads' = <<>>
    /\ pc' = "subscribe"
    /\ UNCHANGED <<chain, offset, stopAt, latest, next, to, delivered, handled, reader, closed, faults, lost>>

\* Close was called: the data channel is closed and watch returns.
CloseStream ==
    /\ closed /\ \/ pc \in {"receive", "fetch"}
                 \/ InCatchUp /\ next <= to
    /\ pc' = "closed"
    /\ UNCHANGED <<chain, heads, offset, stopAt, latest, next, to, delivered, handled, reader, closed, counts>>

Watch ==
    \/ Start \/ Subscribe \/ Receive \/ Deliver \/ CatchUp \/ CaughtUp \/ CloseStream

Open == LatestHeader \/ NextAvailBlock \/ NewBlockStream

\* Avail is at its bound and the stream has nothing to do, or is gone.
Quiet ==
    /\ height = MaxHeight
    /\ \/ pc \in {"dead", "closed"}
       \/ pc = "receive" /\ heads = <<>> /\ ~closed
    /\ UNCHANGED vars

Next ==
    \/ NewAvailBlock \/ Open \/ Watch
    \/ FetchFails \/ CatchUpFails \/ SubscriptionFails \/ Shutdown \/ Quiet

Spec == Init /\ [][Next]_vars

\* Avail makes blocks, the stream and its reader go on.
FairSpec == Spec /\ WF_vars(NewAvailBlock) /\ WF_vars(Open) /\ WF_vars(Watch)

-----------------------------------------------------------------------------
\* Across catching up, lost subscriptions and failing fetches, the stream hands the
\* blocks over in the order of their numbers and none twice.
InOrder == \A i \in DOMAIN delivered : i > 1 => delivered[i - 1] < delivered[i]

\* Of the blocks from the first to the last it handed over, only those are missing
\* that could not be fetched while it caught up: one that fails otherwise is
\* retried, and none is missed between catching up and following.
Missing ==
    IF delivered = <<>> THEN {}
    ELSE (delivered[1]..delivered[Len(delivered)]) \ {delivered[i] : i \in DOMAIN delivered}
OnlyCatchUpSkips == Cardinality(Missing) <= lost

\* "watch continuously watches for new blocks and sends them to the data channel":
\* unless a call fails, the reader has every Avail block again and again, until it
\* closes the stream, also those made while the subscription was down.
EventuallyDelivered ==
    []<>(\/ closed \/ faults > 0
         \/ \A k \in 1..height : \E i \in DOMAIN delivered : delivered[i] = k)

\* "syncs the local node until it catches up to this block": syncNode ends,
\* if only because the node is closed.
SyncEnds == stopAt > 0 ~> reader \in {"done", "stopped"}

\* The same as far as it holds: unless a call fails or the block it waits for
\* holds a blob that is no block, syncNode ends, whatever else the Avail blocks
\* hold and however many come meanwhile.
SyncEndsUnlessFault ==
    stopAt > 0 /\ (\A i \in DOMAIN chain[stopAt] : chain[stopAt][i] # "badrlp")
        ~> reader \in {"done", "stopped"} \/ faults > 0

\* "there is no way of filtering uninteresting extrinsics [...] failing decoding is
\* the only way to distinct those": an extrinsic that does not decode is passed over
\* and the blocks beside it are handled.
BlocksHandled ==
    \A j \in DOMAIN delivered : LET k == delivered[j] IN
        \A i \in DOMAIN chain[k] : chain[k][i] = "block" => <<k, i>> \in handled
=============================================================================
