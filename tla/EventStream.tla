---------------------------- MODULE EventStream -----------------------------
(***************************************************************************)
(* The event stream of the blockchain (pkg/blockchain/subscription.go),    *)
(* between the goroutines that write blocks and the clients of the         *)
(* Subscribe service (server/system_service.go).                           *)
(*                                                                         *)
(* A writer holds the write lock of the blockchain while it pushes the     *)
(* block's event, under the lock of the stream, into the channel of every  *)
(* subscription.  Events are numbered in the order of the writes.          *)
(***************************************************************************)
EXTENDS Integers, Sequences, FiniteSets

CONSTANTS
    Writer,     \* goroutines that call WriteBlock
    Client,     \* callers of Subscribe
    Nil,
    Cap,        \* capacity of an update channel: 5
    MaxWrites,  \* bound on the writes
    MaxLeave    \* bound on the clients that leave

ASSUME EventAssumption == Cap \in Nat \ {0} /\ MaxWrites \in Nat

VARIABLES
    writeLock, streamLock, \* their holders
    updateCh,   \* the clients whose channels are registered
    at,         \* how far the push of a writer is, 0 outside a push
    events,     \* number of writes begun
    pushed,     \* number of events pushed to all
    buf,        \* what is in the channel of a client
    since,      \* the last event before a client's subscription
    got,        \* events that a client was sent
    sub,        \* "none", "open", "closed"
    gone        \* clients that have left

vars == <<writeLock, streamLock, updateCh, at, events, pushed, buf, since, got, sub, gone>>
locks == <<writeLock, streamLock>>
clients == <<buf, since, got, sub, gone>>

Init ==
    /\ writeLock = Nil /\ streamLock = Nil /\ updateCh = <<>>
    /\ at = [w \in Writer |-> 0]
    /\ events = 0 /\ pushed = 0
    /\ buf = [c \in Client |-> <<>>]
    /\ since = [c \in Client |-> 0]
    /\ got = [c \in Client |-> <<>>]
    /\ sub = [c \in Client |-> "none"]
    /\ gone = {}

-----------------------------------------------------------------------------
(* WriteBlock.                                                             *)

\* It takes the write lock and writes the block.
WriteBlock(w) ==
    /\ writeLock = Nil /\ events < MaxWrites
    /\ writeLock' = w
    /\ events' = events + 1
    /\ UNCHANGED <<streamLock, updateCh, at, pushed, clients>>

\* push takes the lock of the stream.
PushLock(w) ==
    /\ writeLock = w /\ at[w] = 0 /\ streamLock = Nil
    /\ streamLock' = w
    /\ at' = [at EXCEPT ![w] = 1]
    /\ UNCHANGED <<writeLock, updateCh, events, pushed, clients>>

\* Mutant: an event that does not fit is dropped.
PushDrops(w) ==
    /\ at[w] \in DOMAIN updateCh
    /\ LET c == updateCh[at[w]]
       IN buf' = [buf EXCEPT ![c] = IF Len(@) < Cap THEN Append(@, events) ELSE @]
    /\ at' = [at EXCEPT ![w] = @ + 1]
    /\ UNCHANGED <<locks, updateCh, events, pushed, since, got, sub, gone>>

\* It sends to the next channel, which blocks while the channel is full.
Push(w) ==
    /\ at[w] \in DOMAIN updateCh
    /\ LET c == updateCh[at[w]]
       IN Len(buf[c]) < Cap /\ buf' = [buf EXCEPT ![c] = Append(@, events)]
    /\ at' = [at EXCEPT ![w] = @ + 1]
    /\ UNCHANGED <<locks, updateCh, events, pushed, since, got, sub, gone>>

\* Mutant: the lock of the stream is not given back.
PushedKeeps(w) ==
    /\ at[w] > Len(updateCh)
    /\ at' = [at EXCEPT ![w] = 0]
    /\ writeLock' = Nil
    /\ pushed' = pushed + 1
    /\ UNCHANGED <<streamLock, updateCh, events, clients>>

\* All channels have it: push and WriteBlock return.
Pushed(w) ==
    /\ at[w] > Len(updateCh)
    /\ at' = [at EXCEPT ![w] = 0]
    /\ streamLock' = Nil /\ writeLock' = Nil
    /\ pushed' = pushed + 1
    /\ UNCHANGED <<updateCh, events, clients>>

-----------------------------------------------------------------------------
(* Subscribe.                                                              *)

\* SubscribeEvents registers a new channel under the lock of the stream.
SubscribeEvents(c) ==
    /\ sub[c] = "none" /\ streamLock = Nil
    /\ updateCh' = Append(updateCh, c)
    /\ sub' = [sub EXCEPT ![c] = "open"]
    /\ since' = [since EXCEPT ![c] = pushed]
    /\ UNCHANGED <<locks, at, events, pushed, buf, got, gone>>

\* GetEvent and the Send after it; when the client has left, Send fails and the
\* subscription is closed.
GetEvent(c) ==
    /\ sub[c] = "open" /\ buf[c] # <<>>
    /\ buf' = [buf EXCEPT ![c] = Tail(@)]
    /\ IF c \in gone
       THEN sub' = [sub EXCEPT ![c] = "closed"] /\ UNCHANGED got
       ELSE got' = [got EXCEPT ![c] = Append(@, Head(buf[c]))] /\ UNCHANGED sub
    /\ UNCHANGED <<locks, updateCh, at, events, pushed, since, gone>>

Leave(c) ==
    /\ sub[c] = "open" /\ c \notin gone /\ Cardinality(gone) < MaxLeave
    /\ gone' = gone \cup {c}
    /\ UNCHANGED <<locks, updateCh, at, events, pushed, buf, since, got, sub>>

\* There is nothing to read for the moment, or nothing more to write.
Idle ==
    /\ events = MaxWrites \/ \A c \in Client : buf[c] = <<>>
    /\ UNCHANGED vars

Write(w) == PushLock(w) \/ Push(w) \/ Pushed(w)

Next ==
    \/ \E w \in Writer : WriteBlock(w) \/ Write(w)
    \/ \E c \in Client : SubscribeEvents(c) \/ GetEvent(c) \/ Leave(c)
    \/ Idle

Spec == Init /\ [][Next]_vars

\* A writer goes on when it can, and an open Subscribe call reads.
FairSpec ==
    Spec /\ (\A w \in Writer : WF_vars(Write(w))) /\ \A c \in Client : WF_vars(GetEvent(c))

-----------------------------------------------------------------------------
\* A client that stays is sent every event from its subscription on, in the order of
\* the writes, none twice and none left out, also one that subscribes while a block
\* is written.
Stream(c) == got[c] \o buf[c]
NoEventLost ==
    \A c \in Client : sub[c] = "open" /\ c \notin gone =>
        /\ \A i \in DOMAIN Stream(c) : Stream(c)[i] = since[c] + i
        /\ streamLock = Nil => since[c] + Len(Stream(c)) = pushed

\* "Close closes the subscription": events are for those who listen, and WriteBlock
\* gives back the write lock, whoever has subscribed before.
WriteReturns == \A w \in Writer : writeLock = w ~> writeLock # w

\* The same as far as it holds: while no client has left, however the channels fill,
\* WriteBlock gives back the write lock.
WriteReturnsUnlessLeft ==
    \A w \in Writer : writeLock = w ~> (writeLock # w \/ gone # {})
=============================================================================
