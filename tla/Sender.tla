------------------------------- MODULE Sender -------------------------------
(***************************************************************************)
(* pkg/avail/sender.go: the threads of a node (block production, dispute,  *)
(* unstaking) submit their blocks through one sender, which numbers the    *)
(* extrinsics of the node's Avail account.                                 *)
(*                                                                         *)
(* prepareExtrinsicForSend fetches the nonce of the account, compares it   *)
(* with nextNonce, takes nextNonce when that is larger, and stores the     *)
(* successor in nextNonce.  Nothing guards nextNonce, so its two reads and *)
(* the store are three steps.                                              *)
(***************************************************************************)
EXTENDS Integers, FiniteSets

CONSTANTS
    Thread,      \* the threads that share the sender
    Waits,       \* those that call SendAndWaitForStatus
    MaxSends,    \* bound on the calls of a thread
    MaxFaults    \* bound on failing submissions and dropped extrinsics

ASSUME SenderAssumption == Waits \subseteq Thread /\ MaxSends \in Nat /\ MaxFaults \in Nat

VARIABLES
    account,     \* the nonce of the account in Avail: the next one it takes
    pool,        \* the nonces in Avail's pool, each with the call it is from
    nextNonce,   \* of the sender
    pc, nonce,   \* where a thread is and the nonce it works with, 0 when it has none
    sends,       \* how many calls each thread has made
    included,    \* the waiting calls that are told their extrinsic is in a block
    faults

vars == <<account, pool, nextNonce, pc, nonce, sends, included, faults>>

Init ==
    /\ account = 0 /\ pool = {} /\ nextNonce = 0
    /\ pc = [t \in Thread |-> "idle"]
    /\ nonce = [t \in Thread |-> 0]
    /\ sends = [t \in Thread |-> 0]
    /\ included = {} /\ faults = 0

-----------------------------------------------------------------------------
(* Avail's pool.                                                           *)

\* The pool takes an extrinsic whose nonce is neither used nor in the pool.
Accepts(k) == k >= account /\ \A e \in pool : e.nonce # k

\* The calls that watch their extrinsic.
Watching == {<<t, sends[t]>> : t \in {u \in Thread : pc[u] = "waiting"}}

\* A block includes the extrinsic that has the account's nonce.
Include ==
    \E e \in pool :
        /\ e.nonce = account
        /\ account' = account + 1
        /\ pool' = pool \ {e}
        /\ included' = included \cup ({e.call} \cap Watching)
        /\ UNCHANGED <<nextNonce, pc, nonce, sends, faults>>

\* The pool drops an extrinsic; a thread that watches it gets an error.
Drop ==
    \E e \in pool :
        /\ faults < MaxFaults
        /\ faults' = faults + 1
        /\ pool' = pool \ {e}
        /\ pc' = [t \in Thread |->
                    IF pc[t] = "waiting" /\ e.call = <<t, sends[t]>> THEN "idle" ELSE pc[t]]
        /\ UNCHANGED <<account, nextNonce, nonce, sends, included>>

-----------------------------------------------------------------------------
(* The calls.                                                              *)

\* The account's nonce arrives.
FetchNonce(t) ==
    /\ pc[t] = "idle" /\ sends[t] < MaxSends
    /\ sends' = [sends EXCEPT ![t] = @ + 1]
    /\ nonce' = [nonce EXCEPT ![t] = account]
    /\ pc' = [pc EXCEPT ![t] = "fetched"]
    /\ UNCHANGED <<account, pool, nextNonce, included, faults>>

\* The first read of nextNonce: is it larger than the account's nonce?
CompareNextNonce(t) ==
    /\ pc[t] = "fetched"
    /\ pc' = [pc EXCEPT ![t] = IF nextNonce > nonce[t] THEN "larger" ELSE "loaded"]
    /\ UNCHANGED <<account, pool, nextNonce, nonce, sends, included, faults>>

\* Mutant: nextNonce is taken for the last nonce used.
LoadAfterNext(t) ==
    /\ pc[t] = "larger"
    /\ nonce' = [nonce EXCEPT ![t] = nextNonce + 1]
    /\ pc' = [pc EXCEPT ![t] = "loaded"]
    /\ UNCHANGED <<account, pool, nextNonce, sends, included, faults>>

\* The second read, whose value may have changed since the comparison.
LoadNextNonce(t) ==
    /\ pc[t] = "larger"
    /\ nonce' = [nonce EXCEPT ![t] = nextNonce]
    /\ pc' = [pc EXCEPT ![t] = "loaded"]
    /\ UNCHANGED <<account, pool, nextNonce, sends, included, faults>>

\* Mutant: the nonce is counted twice.
StoreSkipping(t) ==
    /\ pc[t] = "loaded"
    /\ nextNonce' = nonce[t] + 2
    /\ pc' = [pc EXCEPT ![t] = "stored"]
    /\ UNCHANGED <<account, pool, nonce, sends, included, faults>>

StoreNextNonce(t) ==
    /\ pc[t] = "loaded"
    /\ nextNonce' = nonce[t] + 1
    /\ pc' = [pc EXCEPT ![t] = "stored"]
    /\ UNCHANGED <<account, pool, nonce, sends, included, faults>>

\* Mutant: a rejected extrinsic is waited for.
SubmitUnchecked(t) ==
    /\ pc[t] = "stored"
    /\ pool' = IF Accepts(nonce[t])
               THEN pool \cup {[nonce |-> nonce[t], call |-> <<t, sends[t]>>]} ELSE pool
    /\ pc' = [pc EXCEPT ![t] = IF t \in Waits THEN "waiting" ELSE "idle"]
    /\ nonce' = [nonce EXCEPT ![t] = 0]
    /\ UNCHANGED <<account, nextNonce, sends, included, faults>>

\* SubmitExtrinsic, or SubmitAndWatchExtrinsic; an extrinsic that the pool does
\* not take is an error of the call.
Submit(t) ==
    /\ pc[t] = "stored"
    /\ IF Accepts(nonce[t])
       THEN /\ pool' = pool \cup {[nonce |-> nonce[t], call |-> <<t, sends[t]>>]}
            /\ pc' = [pc EXCEPT ![t] = IF t \in Waits THEN "waiting" ELSE "idle"]
       ELSE pc' = [pc EXCEPT ![t] = "idle"] /\ UNCHANGED pool
    /\ nonce' = [nonce EXCEPT ![t] = 0]
    /\ UNCHANGED <<account, nextNonce, sends, included, faults>>

\* A remote call or the signing fails: the call returns the error, and a nonce
\* that was taken stays taken.
CallFails(t) ==
    /\ pc[t] \in {"fetched", "stored"}
    /\ faults < MaxFaults
    /\ faults' = faults + 1
    /\ pc' = [pc EXCEPT ![t] = "idle"]
    /\ nonce' = [nonce EXCEPT ![t] = 0]
    /\ UNCHANGED <<account, pool, nextNonce, sends, included>>

\* SendAndWaitForStatus returns when the extrinsic is in a block.
Return(t) ==
    /\ pc[t] = "waiting" /\ <<t, sends[t]>> \in included
    /\ pc' = [pc EXCEPT ![t] = "idle"]
    /\ included' = included \ {<<t, sends[t]>>}
    /\ UNCHANGED <<account, pool, nextNonce, nonce, sends, faults>>

\* Its subscription fails: the call returns the error, the extrinsic stays.
SubscriptionFails(t) ==
    /\ pc[t] = "waiting"
    /\ faults < MaxFaults
    /\ faults' = faults + 1
    /\ pc' = [pc EXCEPT ![t] = "idle"]
    /\ included' = included \ {<<t, sends[t]>>}
    /\ UNCHANGED <<account, pool, nextNonce, nonce, sends>>

Step(t) ==
    \/ CompareNextNonce(t) \/ LoadNextNonce(t) \/ StoreNextNonce(t) \/ Submit(t) \/ Return(t)

\* Every thread has made its calls; what is stuck stays stuck.
Done ==
    /\ \A t \in Thread : \/ pc[t] = "idle" /\ sends[t] = MaxSends
                         \/ pc[t] = "waiting" /\ <<t, sends[t]>> \notin included
    /\ \A e \in pool : e.nonce # account
    /\ UNCHANGED vars

Next ==
    \/ Include \/ Drop \/ Done
    \/ \E t \in Thread :
           FetchNonce(t) \/ Step(t) \/ CallFails(t) \/ SubscriptionFails(t)

Spec == Init /\ [][Next]_vars

\* Avail goes on making blocks and a thread that has started a call goes on
\* with it.
FairSpec == Spec /\ WF_vars(Include) /\ \A t \in Thread : WF_vars(Step(t))

-----------------------------------------------------------------------------
\* Nonces, calls and counters have their types.
TypeOK ==
    /\ account \in Nat /\ nextNonce \in Nat
    /\ pool \subseteq [nonce : Nat, call : Thread \X Nat]
    /\ pc \in [Thread -> {"idle", "fetched", "larger", "loaded", "stored", "waiting"}]
    /\ nonce \in [Thread -> Nat]
    /\ sends \in [Thread -> Nat]
    /\ included \subseteq Thread \X Nat
    /\ faults \in Nat

\* A thread has nonce k and is about to submit it.
Held(k) == \E t \in Thread : pc[t] \in {"loaded", "stored"} /\ nonce[t] = k

InPool(k) == \E e \in pool : e.nonce = k

\* Every nonce from the account's up to k is in the pool or about to be.
Covered(k) == \A j \in account..(k - 1) : InPool(j) \/ Held(j)

\* As long as nothing has failed, the races between threads leave no gap before
\* an extrinsic in the pool, so that Avail can include it.
NoGap == faults = 0 => \A e \in pool : Covered(e.nonce)

\* Each failure costs at most one nonce: however threads race, the nonces missing
\* before an extrinsic in the pool are no more than the failures.
GapsBounded ==
    \A e \in pool :
        Cardinality({j \in account..(e.nonce - 1) : ~InPool(j) /\ ~Held(j)}) <= faults

\* "submits data to Avail ... returns an error if there was a problem": a call of
\* SendAndWaitForStatus returns.
WaitReturns == \A t \in Thread : pc[t] = "waiting" ~> pc[t] = "idle"

\* The same as far as it holds: such a call returns unless some call failed or
\* an extrinsic was dropped, however the threads race for their nonces.
Returns == \A t \in Waits : []<>(pc[t] # "waiting" \/ faults > 0)
=============================================================================
