---------------------------- MODULE SenderProofs ----------------------------
(***************************************************************************)
(* For any number of threads, calls and failures: races on nextNonce leave *)
(* no gap in the nonces of the pool, and a failure leaves at most one.     *)
(*                                                                         *)
(* GapsBounded is not inductive: a submission can only close the pool up   *)
(* to what the thread loaded, and that comes from nextNonce, as it is when *)
(* it is read again, or from the account.  GapInv bounds all three: what   *)
(* is missing before the nonces of the pool, before what threads hold, and *)
(* before nextNonce.  FetchInv says that a fetched nonce may be old but is *)
(* never ahead of the account.                                             *)
(***************************************************************************)
EXTENDS Sender, FiniteSetTheorems, TLAPS

\* The nonces before k that nobody has submitted or is about to.
Absent(k) == {j \in account..(k - 1) : ~InPool(j) /\ ~Held(j)}

FewAbsent(k) == Cardinality(Absent(k)) <= faults

GapInv ==
    /\ FewAbsent(nextNonce)
    /\ \A e \in pool : FewAbsent(e.nonce)
    /\ \A t \in Thread : pc[t] \in {"loaded", "stored"} => FewAbsent(nonce[t])

FetchInv == \A t \in Thread : pc[t] = "fetched" => nonce[t] <= account

NonceInv == TypeOK /\ GapInv /\ FetchInv

-----------------------------------------------------------------------------
\* The initial state satisfies the invariant: nothing is numbered yet.
LEMMA NonceInit == Init => NonceInv
  <1> SUFFICES ASSUME Init PROVE NonceInv
    OBVIOUS
  <1>1. TypeOK
    BY Zenon DEF Init, TypeOK
  <1>2. Absent(0) = {}
    BY DEF Init, Absent
  <1>3. GapInv
    BY <1>2, FS_EmptySet DEF Init, GapInv, FewAbsent
  <1>4. FetchInv
    BY Zenon DEF Init, FetchInv
  <1> QED BY <1>1, <1>3, <1>4, Zenon DEF NonceInv

\* Every step of the sender and of the pool preserves the types.
LEMMA NonceTypes == TypeOK /\ [Next]_(vars) => TypeOK'
  <1> SUFFICES ASSUME TypeOK, [Next]_(vars) PROVE TypeOK'
    OBVIOUS
  <1> USE DEF TypeOK
  <1>1. CASE Include
    BY <1>1 DEF Include
  <1>2. CASE Drop
    BY <1>2 DEF Drop
  <1>3. ASSUME NEW t \in Thread, FetchNonce(t) PROVE TypeOK'
    BY <1>3 DEF FetchNonce
  <1>4. ASSUME NEW t \in Thread, LoadNextNonce(t) PROVE TypeOK'
    BY <1>4, Zenon DEF LoadNextNonce
  <1>11. ASSUME NEW t \in Thread, CompareNextNonce(t) PROVE TypeOK'
    BY <1>11, Zenon DEF CompareNextNonce
  <1>5. ASSUME NEW t \in Thread, StoreNextNonce(t) PROVE TypeOK'
    BY <1>5 DEF StoreNextNonce
  <1>6. ASSUME NEW t \in Thread, Submit(t) PROVE TypeOK'
    <2>1. [nonce |-> nonce[t], call |-> <<t, sends[t]>>] \in [nonce : Nat, call : Thread \X Nat]
      BY <1>6, Zenon
    <2>2. pool' \subseteq [nonce : Nat, call : Thread \X Nat]
      BY <1>6, <2>1 DEF Submit
    <2>3. /\ pc' \in [Thread -> {"idle", "fetched", "larger", "loaded", "stored", "waiting"}]
          /\ nonce' \in [Thread -> Nat]
      BY <1>6, Zenon DEF Submit
    <2> QED BY <1>6, <2>2, <2>3, Zenon DEF Submit
  <1>7. ASSUME NEW t \in Thread, CallFails(t) PROVE TypeOK'
    BY <1>7 DEF CallFails
  <1>8. ASSUME NEW t \in Thread, Return(t) PROVE TypeOK'
    BY <1>8, Zenon DEF Return
  <1>9. ASSUME NEW t \in Thread, SubscriptionFails(t) PROVE TypeOK'
    BY <1>9 DEF SubscriptionFails
  <1>10. CASE UNCHANGED vars
    BY <1>10, Zenon DEF vars
  <1> QED BY <1>1, <1>2, <1>3, <1>4, <1>5, <1>6, <1>7, <1>8, <1>9, <1>10, <1>11, Zenon
          DEF Next, Step, Done

\* A fetched nonce stays at or below the account's, which only grows.
LEMMA FetchStep == NonceInv /\ [Next]_(vars) => FetchInv'
  <1> SUFFICES ASSUME NonceInv, [Next]_(vars) PROVE FetchInv'
    BY Zenon
  <1> USE DEF NonceInv, TypeOK, FetchInv
  <1>1. CASE Include
    BY <1>1 DEF Include
  <1>2. CASE Drop
    BY <1>2, Zenon DEF Drop
  <1>3. ASSUME NEW t \in Thread, FetchNonce(t) PROVE FetchInv'
    BY <1>3 DEF FetchNonce
  <1>4. ASSUME NEW t \in Thread, LoadNextNonce(t) PROVE FetchInv'
    BY <1>4, Zenon DEF LoadNextNonce
  <1>11. ASSUME NEW t \in Thread, CompareNextNonce(t) PROVE FetchInv'
    BY <1>11, Zenon DEF CompareNextNonce
  <1>5. ASSUME NEW t \in Thread, StoreNextNonce(t) PROVE FetchInv'
    BY <1>5, Zenon DEF StoreNextNonce
  <1>6. ASSUME NEW t \in Thread, Submit(t) PROVE FetchInv'
    BY <1>6, Zenon DEF Submit
  <1>7. ASSUME NEW t \in Thread, CallFails(t) PROVE FetchInv'
    BY <1>7, Zenon DEF CallFails
  <1>8. ASSUME NEW t \in Thread, Return(t) PROVE FetchInv'
    BY <1>8, Zenon DEF Return
  <1>9. ASSUME NEW t \in Thread, SubscriptionFails(t) PROVE FetchInv'
    BY <1>9, Zenon DEF SubscriptionFails
  <1>10. CASE UNCHANGED vars
    BY <1>10, Zenon DEF vars
  <1> QED BY <1>1, <1>2, <1>3, <1>4, <1>5, <1>6, <1>7, <1>8, <1>9, <1>10, <1>11, Zenon
          DEF Next, Step, Done

\* Few are missing when nothing that was there is missing now, or when one more is and
\* one more call has failed.
LEMMA StaysFew ==
  ASSUME TypeOK, TypeOK', NEW k \in Nat, FewAbsent(k), NEW x,
         \/ Absent(k)' \subseteq Absent(k) /\ faults' = faults
         \/ Absent(k)' \subseteq Absent(k) \cup {x} /\ faults' = faults + 1
  PROVE  FewAbsent(k)'
  <1> DEFINE old == Absent(k)
             new == Absent(k)'
  <1>1. IsFiniteSet(old) /\ old \in SUBSET (account..(k - 1))
    <2>1. old \in SUBSET (account..(k - 1))
      BY Zenon DEF Absent
    <2>2. IsFiniteSet(account..(k - 1))
      BY FS_Interval DEF TypeOK
    <2> QED BY <2>1, <2>2, FS_Subset, Zenon
  <1>2. /\ IsFiniteSet(old \cup {x})
        /\ Cardinality(old) \in Nat
        /\ Cardinality(old \cup {x}) \in Nat
        /\ Cardinality(old \cup {x}) <= Cardinality(old) + 1
    <2> HIDE DEF old
    <2>1. IsFiniteSet(old \cup {x})
      BY <1>1, FS_AddElement, Zenon
    <2>2. Cardinality(old) \in Nat /\ Cardinality(old \cup {x}) \in Nat
      BY <1>1, <2>1, FS_CardinalityType, Zenon
    <2>3. \/ Cardinality(old \cup {x}) = Cardinality(old)
          \/ Cardinality(old \cup {x}) = Cardinality(old) + 1
      BY <1>1, FS_AddElement, Zenon
    <2> QED BY <2>1, <2>2, <2>3
  <1>3. Cardinality(old) <= faults /\ faults \in Nat /\ faults' \in Nat
    BY Zenon DEF FewAbsent, TypeOK
  <1> HIDE DEF old, new
  <1>4. CASE new \in SUBSET old /\ faults' = faults
    <2>1. Cardinality(new) \in Nat /\ Cardinality(new) <= Cardinality(old)
      BY <1>1, <1>4, FS_Subset, FS_CardinalityType, Zenon
    <2>2. Cardinality(new) <= faults'
      BY <1>2, <1>3, <1>4, <2>1
    <2> QED BY <2>2, Zenon DEF FewAbsent, new
  <1>5. CASE new \in SUBSET (old \cup {x}) /\ faults' = faults + 1
    <2>1. Cardinality(new) \in Nat /\ Cardinality(new) <= Cardinality(old \cup {x})
      BY <1>2, <1>5, FS_Subset, FS_CardinalityType, Zenon
    <2>2. Cardinality(new) <= faults'
      BY <1>2, <1>3, <1>5, <2>1
    <2> QED BY <2>2 DEF FewAbsent, new
  <1> QED BY <1>4, <1>5, Zenon DEF old, new

\* A nonce that is not ahead of the account misses nothing before it, and one that is
\* submitted or held misses no more than the one before it.
LEMMA FewAtAccount ==
  ASSUME TypeOK, NEW k \in Nat
  PROVE  /\ k <= account => FewAbsent(k)
         /\ FewAbsent(k) /\ (InPool(k) \/ Held(k)) => FewAbsent(k + 1)
  <1>1. ASSUME k <= account PROVE FewAbsent(k)
    <2>1. Absent(k) = {}
      BY <1>1 DEF Absent, TypeOK
    <2> QED BY <2>1, FS_EmptySet DEF FewAbsent, TypeOK
  <1>2. ASSUME FewAbsent(k), InPool(k) \/ Held(k) PROVE FewAbsent(k + 1)
    <2>1. \A j \in account..k : j = k \/ j \in account..(k - 1)
      BY DEF TypeOK
    <2>2. account..(k - 1) \subseteq account..k /\ account..((k + 1) - 1) = account..k
      BY DEF TypeOK
    <2>3. Absent(k + 1) = Absent(k)
      BY <1>2, <2>1, <2>2, Zenon DEF Absent
    <2> QED BY <1>2, <2>3, Zenon DEF FewAbsent
  <1> QED BY <1>1, <1>2, Zenon

\* A step makes at most one more nonce miss, and only by failing.
LEMMA GapStep == NonceInv /\ [Next]_(vars) => GapInv'
  <1> SUFFICES ASSUME NonceInv, [Next]_(vars) PROVE GapInv'
    OBVIOUS
  <1> USE DEF NonceInv
  <1>0. TypeOK'
    BY NonceTypes, Zenon
  <1>1. CASE Include
    <2>1. PICK x \in pool : /\ x.nonce = account /\ account' = account + 1
                             /\ pool' = pool \ {x} /\ UNCHANGED <<nextNonce, pc, nonce, faults>>
      BY <1>1, Zenon DEF Include
    <2>2. \A j \in Nat : j >= account' /\ (InPool(j) \/ Held(j)) =>
              (InPool(j) \/ Held(j))'
      BY <2>1 DEF InPool, Held, TypeOK
    <2>3. \A k \in Nat : Absent(k)' \subseteq Absent(k)
      BY <2>1, <2>2 DEF Absent, TypeOK
    <2>4. \A k \in Nat : FewAbsent(k) => FewAbsent(k)'
      BY <2>1, <2>3, <1>0, StaysFew, Zenon
    <2> QED BY <2>1, <2>4, <1>0, Zenon DEF GapInv, TypeOK
  <1>2. CASE Drop
    <2>1. PICK x \in pool : /\ pool' = pool \ {x} /\ faults' = faults + 1
                             /\ UNCHANGED <<account, nextNonce, nonce>>
                             /\ pc' = [t \in Thread |->
                                  IF pc[t] = "waiting" /\ x.call = <<t, sends[t]>>
                                  THEN "idle" ELSE pc[t]]
      BY <1>2, Zenon DEF Drop
    <2>2. \A j \in Nat : j # x.nonce /\ (InPool(j) \/ Held(j)) =>
              (InPool(j) \/ Held(j))'
      BY <2>1, Zenon DEF InPool, Held, TypeOK
    <2>3. \A k \in Nat : Absent(k)' \subseteq Absent(k) \cup {x.nonce}
      BY <2>1, <2>2 DEF Absent, TypeOK
    <2>4. \A k \in Nat : FewAbsent(k) => FewAbsent(k)'
      BY <2>1, <2>3, <1>0, StaysFew, Zenon
    <2>5. \A u \in Thread : pc'[u] \in {"loaded", "stored"} => pc[u] = pc'[u]
      BY <2>1, Zenon DEF TypeOK
    <2> QED BY <2>1, <2>4, <2>5, <1>0, Zenon DEF GapInv, TypeOK
  <1>3. ASSUME NEW t \in Thread, FetchNonce(t) PROVE GapInv'
    <2>1. \A j \in Nat : Held(j) => Held(j)'
      BY <1>3, Zenon DEF FetchNonce, Held, TypeOK
    <2>2. \A k \in Nat : Absent(k)' \subseteq Absent(k)
      BY <1>3, <2>1 DEF FetchNonce, Absent, InPool, TypeOK
    <2>3. \A k \in Nat : FewAbsent(k) => FewAbsent(k)'
      BY <1>3, <2>2, <1>0, StaysFew, Zenon DEF FetchNonce
    <2>4. \A u \in Thread : pc'[u] \in {"loaded", "stored"} =>
              pc[u] \in {"loaded", "stored"} /\ nonce'[u] = nonce[u]
      BY <1>3, Zenon DEF FetchNonce, TypeOK
    <2> QED BY <1>3, <2>3, <2>4, <1>0, Zenon DEF FetchNonce, GapInv, TypeOK
  <1>4. ASSUME NEW t \in Thread, LoadNextNonce(t) PROVE GapInv'
    <2>1. \A j \in Nat : Held(j) => Held(j)'
      BY <1>4, Zenon DEF LoadNextNonce, Held, TypeOK
    <2>2. \A k \in Nat : Absent(k)' \subseteq Absent(k)
      BY <1>4, <2>1 DEF LoadNextNonce, Absent, InPool, TypeOK
    <2>3. \A k \in Nat : FewAbsent(k) => FewAbsent(k)'
      BY <1>4, <2>2, <1>0, StaysFew, Zenon DEF LoadNextNonce
    <2>4. \A u \in Thread \ {t} : pc'[u] = pc[u] /\ nonce'[u] = nonce[u]
      BY <1>4, Zenon DEF LoadNextNonce, TypeOK
    <2>5. nonce'[t] = nextNonce /\ FewAbsent(nextNonce)
      BY <1>4, Zenon DEF LoadNextNonce, GapInv, TypeOK
    <2> QED BY <1>4, <2>3, <2>4, <2>5, <1>0, Zenon DEF LoadNextNonce, GapInv, TypeOK
  <1>11. ASSUME NEW t \in Thread, CompareNextNonce(t) PROVE GapInv'
    <2>1. \A j \in Nat : Held(j) => Held(j)'
      BY <1>11, Zenon DEF CompareNextNonce, Held, TypeOK
    <2>2. \A k \in Nat : Absent(k)' \subseteq Absent(k)
      BY <1>11, <2>1 DEF CompareNextNonce, Absent, InPool, TypeOK
    <2>3. \A k \in Nat : FewAbsent(k) => FewAbsent(k)'
      BY <1>11, <2>2, <1>0, StaysFew, Zenon DEF CompareNextNonce
    <2>4. \A u \in Thread \ {t} : pc'[u] = pc[u]
      BY <1>11, Zenon DEF CompareNextNonce, TypeOK
    <2>5. nonce[t] \in Nat /\ nonce[t] <= account
      BY <1>11, Zenon DEF CompareNextNonce, FetchInv, TypeOK
    <2>6. FewAbsent(nonce[t])
      BY <2>5, FewAtAccount, Zenon
    <2> QED BY <1>11, <2>3, <2>4, <2>6, <1>0, Zenon DEF CompareNextNonce, GapInv, TypeOK
  <1>5. ASSUME NEW t \in Thread, StoreNextNonce(t) PROVE GapInv'
    <2>1. \A j \in Nat : Held(j) => Held(j)'
      BY <1>5, Zenon DEF StoreNextNonce, Held, TypeOK
    <2>2. \A k \in Nat : Absent(k)' \subseteq Absent(k)
      BY <1>5, <2>1 DEF StoreNextNonce, Absent, InPool, TypeOK
    <2>3. \A k \in Nat : FewAbsent(k) => FewAbsent(k)'
      BY <1>5, <2>2, <1>0, StaysFew, Zenon DEF StoreNextNonce
    <2>4. \A u \in Thread : pc'[u] \in {"loaded", "stored"} =>
              pc[u] \in {"loaded", "stored"} /\ nonce'[u] = nonce[u]
      BY <1>5, Zenon DEF StoreNextNonce, TypeOK
    <2>5. nonce[t] \in Nat /\ Held(nonce[t]) /\ FewAbsent(nonce[t])
      BY <1>5, Zenon DEF StoreNextNonce, Held, GapInv, TypeOK
    <2>6. FewAbsent(nonce[t] + 1)
      BY <2>5, FewAtAccount, Zenon
    <2> QED BY <1>5, <2>3, <2>4, <2>6, <1>0, Zenon DEF StoreNextNonce, GapInv, TypeOK
  <1>6. ASSUME NEW t \in Thread, Submit(t) PROVE GapInv'
    <2>1. nonce[t] < account \/ \E e \in pool' : e.nonce = nonce[t]
      <3>1. CASE Accepts(nonce[t])
        <4>1. [nonce |-> nonce[t], call |-> <<t, sends[t]>>] \in pool'
          BY <1>6, <3>1, Zenon DEF Submit
        <4> QED BY <4>1, Zenon
      <3>2. CASE ~Accepts(nonce[t])
        BY <1>6, <3>2 DEF Submit, Accepts, TypeOK
      <3> QED BY <3>1, <3>2, Zenon
    <2>2. \A j \in Nat : InPool(j) => InPool(j)'
      BY <1>6, Zenon DEF Submit, InPool
    <2>3. \A j \in Nat : Held(j) /\ j # nonce[t] => Held(j)'
      BY <1>6, Zenon DEF Submit, Held, TypeOK
    <2>4. \A k \in Nat : Absent(k)' \subseteq Absent(k)
      <3>1. account' = account /\ account \in Nat /\ nonce[t] \in Nat
        BY <1>6, Zenon DEF Submit, TypeOK
      <3>2. \A j \in Nat : j = nonce[t] /\ j >= account => InPool(j)'
        BY <2>1, <3>1 DEF InPool
      <3>3. \A k \in Nat : \A j \in account..(k - 1) : j \in Nat /\ j >= account
        BY <3>1
      <3> QED BY <2>2, <2>3, <3>1, <3>2, <3>3, Zenon DEF Absent
    <2>5. \A k \in Nat : FewAbsent(k) => FewAbsent(k)'
      BY <1>6, <2>4, <1>0, StaysFew, Zenon DEF Submit
    <2>6. \A u \in Thread : pc'[u] \in {"loaded", "stored"} =>
              pc[u] \in {"loaded", "stored"} /\ nonce'[u] = nonce[u]
      BY <1>6, Zenon DEF Submit, TypeOK
    <2>7. \A e \in pool' : e \in pool \/ e.nonce = nonce[t]
      BY <1>6 DEF Submit
    <2>8. FewAbsent(nonce[t])
      BY <1>6, Zenon DEF Submit, GapInv
    <2> QED BY <1>6, <2>5, <2>6, <2>7, <2>8, <1>0, Zenon DEF Submit, GapInv, TypeOK
  <1>7. ASSUME NEW t \in Thread, CallFails(t) PROVE GapInv'
    <2>1. \A j \in Nat : Held(j) /\ j # nonce[t] => Held(j)'
      BY <1>7, Zenon DEF CallFails, Held, TypeOK
    <2>2. \A k \in Nat : Absent(k)' \subseteq Absent(k) \cup {nonce[t]}
      <3>1. account' = account /\ account \in Nat /\ pool' = pool
        BY <1>7, Zenon DEF CallFails, TypeOK
      <3>2. \A j : InPool(j) => InPool(j)'
        BY <3>1, Zenon DEF InPool
      <3>3. \A k \in Nat : account..(k - 1) \subseteq Nat
        BY <3>1
      <3> QED BY <2>1, <3>1, <3>2, <3>3, Zenon DEF Absent
    <2>3. \A k \in Nat : FewAbsent(k) => FewAbsent(k)'
      BY <1>7, <2>2, <1>0, StaysFew, Zenon DEF CallFails
    <2>4. \A u \in Thread : pc'[u] \in {"loaded", "stored"} =>
              pc[u] \in {"loaded", "stored"} /\ nonce'[u] = nonce[u]
      BY <1>7, Zenon DEF CallFails, TypeOK
    <2> QED BY <1>7, <2>3, <2>4, <1>0, Zenon DEF CallFails, GapInv, TypeOK
  <1>8. ASSUME NEW t \in Thread, Return(t) PROVE GapInv'
    <2>1. \A j \in Nat : Held(j) => Held(j)'
      BY <1>8, Zenon DEF Return, Held, TypeOK
    <2>2. \A k \in Nat : Absent(k)' \subseteq Absent(k)
      BY <1>8, <2>1 DEF Return, Absent, InPool, TypeOK
    <2>3. \A k \in Nat : FewAbsent(k) => FewAbsent(k)'
      BY <1>8, <2>2, <1>0, StaysFew, Zenon DEF Return
    <2>4. \A u \in Thread : pc'[u] \in {"loaded", "stored"} => pc[u] \in {"loaded", "stored"}
      BY <1>8, Zenon DEF Return, TypeOK
    <2> QED BY <1>8, <2>3, <2>4, <1>0, Zenon DEF Return, GapInv, TypeOK
  <1>9. ASSUME NEW t \in Thread, SubscriptionFails(t) PROVE GapInv'
    <2>1. \A j \in Nat : Held(j) => Held(j)'
      BY <1>9, Zenon DEF SubscriptionFails, Held, TypeOK
    <2>2. \A k \in Nat : Absent(k)' \subseteq Absent(k)
      BY <1>9, <2>1 DEF SubscriptionFails, Absent, InPool, TypeOK
    <2>3. \A k \in Nat : FewAbsent(k) => FewAbsent(k)'
      BY <1>9, <2>2, <1>0, StaysFew, Zenon DEF SubscriptionFails
    <2>4. \A u \in Thread : pc'[u] \in {"loaded", "stored"} => pc[u] \in {"loaded", "stored"}
      BY <1>9, Zenon DEF SubscriptionFails, TypeOK
    <2> QED BY <1>9, <2>3, <2>4, <1>0, Zenon DEF SubscriptionFails, GapInv, TypeOK
  <1>10. CASE UNCHANGED vars
    BY <1>10, Zenon DEF vars, GapInv, FewAbsent, Absent, InPool, Held
  <1> QED BY <1>1, <1>2, <1>3, <1>4, <1>5, <1>6, <1>7, <1>8, <1>9, <1>10, <1>11, Zenon
          DEF Next, Step, Done

\* The sender's invariant holds in every state.
THEOREM SenderInvariant == Spec => []NonceInv
  <1>1. NonceInv /\ [Next]_(vars) => NonceInv'
    BY NonceTypes, FetchStep, GapStep, Zenon DEF NonceInv
  <1> QED BY NonceInit, <1>1, PTL DEF Spec

\* However many threads race on nextNonce and whatever fails, the nonces missing
\* before an extrinsic in Avail's pool are no more than the failures.
THEOREM GapsBoundedTheorem == Spec => []GapsBounded
  <1>1. NonceInv => GapsBounded
    <2>1. GapsBounded <=> \A e \in pool : Cardinality(Absent(e.nonce)) <= faults
      BY Zenon DEF GapsBounded, Absent, Cardinality
    <2>2. NonceInv => \A e \in pool : Cardinality(Absent(e.nonce)) <= faults
      BY Zenon DEF NonceInv, GapInv, FewAbsent
    <2> QED BY <2>1, <2>2, Zenon
  <1> QED BY SenderInvariant, <1>1, PTL

\* As long as nothing has failed there is no gap before an extrinsic in the pool,
\* whatever the number of threads that race on nextNonce.
THEOREM NoGapTheorem == Spec => []NoGap
  <1>1. NonceInv => NoGap
    <2> SUFFICES ASSUME NonceInv, faults = 0, NEW e \in pool PROVE Covered(e.nonce)
      BY Zenon DEF NoGap
    <2>1. e.nonce \in Nat /\ account \in Nat
      BY Zenon DEF NonceInv, TypeOK
    <2>2. IsFiniteSet(account..(e.nonce - 1))
      BY <2>1, FS_Interval
    <2>3. Absent(e.nonce) \in SUBSET (account..(e.nonce - 1))
      BY Zenon DEF Absent
    <2>4. IsFiniteSet(Absent(e.nonce)) /\ Cardinality(Absent(e.nonce)) \in Nat
      BY <2>2, <2>3, FS_Subset, FS_CardinalityType, Zenon
    <2>5. Cardinality(Absent(e.nonce)) <= 0
      BY Zenon DEF NonceInv, GapInv, FewAbsent
    <2>6. Absent(e.nonce) = {}
      BY <2>4, <2>5, FS_EmptySet
    <2> QED BY <2>6, Zenon DEF Absent, Covered
  <1> QED BY SenderInvariant, <1>1, PTL

\* Nonces, calls and counters keep their types.
THEOREM SenderTypes == Spec => []TypeOK
  <1>1. NonceInv => TypeOK
    BY Zenon DEF NonceInv
  <1> QED BY SenderInvariant, <1>1, PTL
=============================================================================
