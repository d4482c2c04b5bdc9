----------------------------- MODULE ContextProofs -----------------------------
(***************************************************************************)
(* For any number of callers, limit and sizes: reserve refuses for memory  *)
(* only if at some moment of the call there was no room; used is the bytes *)
(* of the reservations that exist or are about to, within the limit; and   *)
(* the lock-free context implements the atomic budget.                     *)
(*                                                                         *)
(* The argument: the value of used a call is about to judge was read while *)
(* the call was under way, so if it leaves no room, that moment was met.   *)
(* An exchange adds its call to the bag of held sizes and the same bytes   *)
(* to used; publishing moves them from call to reservation and changes     *)
(* neither; a drop takes a reservation's bytes from both. So the exchange  *)
(* is where reserve takes effect, and the drop's fetch_sub never wraps.    *)
(***************************************************************************)
EXTENDS MCExecutionContext, FiniteSetTheorems, WellFoundedInduction, TLAPS

Calls == [Threads -> [pc : PCs, want : Nat, seen : Nat, result : Results]]

Judging(t) ==
  /\ call[t].pc \in {"load", "try"} => call[t].result = "none"
  /\ call[t].pc = "try" =>
       (call[t].seen + call[t].want > Limit => t \in tight)

IInv ==
  /\ used \in Nat
  /\ DOMAIN live \subseteq Nat
  /\ call \in Calls
  /\ \A t \in Threads : Judging(t)

-----------------------------------------------------------------------------
\* The words a call can stand at and end with.
LEMMA Words ==
  /\ {"idle", "load", "try", "publish"} \subseteq PCs
  /\ {"none", "Reserved", "Cancelled", "MemoryLimit"} \subseteq Results
  /\ 0 \in Nat
  BY DEF PCs, Results

\* The limit, the largest usize and the sizes callers ask for are numbers.
LEMMA SizesAreNat == UsizeMax \in Nat /\ Limit \in Nat /\ \A bytes \in Sizes : bytes \in Nat
  BY ContextAssumption

\* A call that returns makes its thread idle and touches no other thread.
LEMMA ReturnKeeps ==
  ASSUME IInv, NEW t \in Threads, NEW result \in Results, Return(t, result)
  PROVE  /\ call' \in Calls
         /\ call'[t].pc = "idle"
         /\ \A o \in Threads \ {t} : call'[o] = call[o]
<1>1. Frame("idle", 0, 0, result) \in [pc : PCs, want : Nat, seen : Nat, result : Results]
  BY Words DEF Frame
<1> QED BY <1>1 DEF IInv, Calls, Return, Frame

\* No call is under way at first.
LEMMA InitKeeps == ObsInit => IInv
<1>1. Frame("idle", 0, 0, "none") \in [pc : PCs, want : Nat, seen : Nat, result : Results]
  BY Words DEF Frame
<1> QED BY <1>1 DEF ObsInit, Init, IInv, Calls, Judging, Frame, EmptyBag, SetToBag

\* Calls a step does not touch remember the moments they met.
LEMMA OthersKeep ==
  ASSUME IInv, Observe, NEW o \in Threads, call'[o] = call[o]
  PROVE  Judging(o)'
  BY DEF IInv, Judging, Observe

\* Every step leaves calls, live sizes and the used bytes well formed.
LEMMA StepTyped ==
  ASSUME IInv, Next
  PROVE  used' \in Nat /\ DOMAIN live' \subseteq Nat /\ call' \in Calls
<1>1. ASSUME NEW t \in Threads, NEW bytes \in Sizes, Reserve(t, bytes)
      PROVE  used' \in Nat /\ DOMAIN live' \subseteq Nat /\ call' \in Calls
  <2>1. Frame("load", bytes, 0, "none") \in [pc : PCs, want : Nat, seen : Nat, result : Results]
    BY Words, SizesAreNat DEF Frame
  <2>2. CASE cancelled
    BY <1>1, <2>2, Words, ReturnKeeps DEF Reserve, IInv
  <2>3. CASE ~cancelled
    BY <1>1, <2>1, <2>3 DEF Reserve, IInv, Calls
  <2> QED BY <2>2, <2>3
<1>2. ASSUME NEW t \in Threads, Load(t) \/ Retry(t) \/ Exchange(t)
      PROVE  used' \in Nat /\ DOMAIN live' \subseteq Nat /\ call' \in Calls
  BY <1>2, Words DEF Load, Retry, Exchange, IInv, Calls
<1>3. ASSUME NEW t \in Threads, Refuse(t)
      PROVE  used' \in Nat /\ DOMAIN live' \subseteq Nat /\ call' \in Calls
  <2>1. Verdict(call[t].seen, call[t].want) \in Results
    BY DEF Verdict, Results
  <2> QED BY <1>3, <2>1, ReturnKeeps DEF Refuse, IInv
<1>4. ASSUME NEW t \in Threads, Publish(t)
      PROVE  used' \in Nat /\ DOMAIN live' \subseteq Nat /\ call' \in Calls
  <2>1. call[t].want \in Nat
    BY DEF IInv, Calls
  <2>2. DOMAIN live' = DOMAIN live \cup {call[t].want}
    BY <1>4 DEF Publish, (+), SetToBag
  <2> QED BY <1>4, <2>1, <2>2, Words, ReturnKeeps DEF Publish, IInv
<1>5. ASSUME NEW bytes \in BagToSet(live), Drop(bytes)
      PROVE  used' \in Nat /\ DOMAIN live' \subseteq Nat /\ call' \in Calls
  <2>1. bytes \in Nat
    BY DEF BagToSet, IInv
  <2>2. used' \in Nat
    BY <1>5, <2>1, SizesAreNat DEF Drop, IInv
  <2>3. DOMAIN live' \subseteq DOMAIN live
    BY <1>5 DEF Drop, (-)
  <2> QED BY <1>5, <2>2, <2>3 DEF Drop, IInv
<1>6. CASE Cancel
  BY <1>6 DEF Cancel, IInv
<1> QED BY <1>1, <1>2, <1>3, <1>4, <1>5, <1>6 DEF Next

\* A call comes to judge a value by reading it, in Load or by a failed
\* exchange, and the moment it reads is one of those observed.
LEMMA ReadIsObserved ==
  ASSUME IInv, Observe, NEW t \in Threads, Load(t) \/ Retry(t), call' \in Calls
  PROVE  Judging(t)'
<1>1. /\ call'[t].want = call[t].want /\ call'[t].seen = used /\ used' = used
      /\ call'[t].pc = "try" /\ call'[t].result = call[t].result /\ call[t].pc \in {"load", "try"}
  BY DEF Load, Retry, At, IInv, Calls
<1>2. call'[t].result = "none"
  BY <1>1 DEF IInv, Judging
<1>3. used + call[t].want > Limit => t \in tight'
  BY <1>1 DEF Observe, NoRoom
<1> QED BY <1>1, <1>2, <1>3 DEF Judging

\* IInv is inductive.
LEMMA StepKeeps == IInv /\ [ObsNext]_ovars => IInv'
<1> SUFFICES ASSUME IInv, [ObsNext]_ovars PROVE IInv'
  OBVIOUS
<1>1. CASE UNCHANGED ovars
  BY <1>1 DEF ovars, IInv, Judging
<1>2. CASE ObsNext
  <2>1. Observe /\ used' \in Nat /\ DOMAIN live' \subseteq Nat /\ call' \in Calls
    BY <1>2, StepTyped DEF ObsNext
  <2>2. ASSUME NEW t \in Threads, NEW bytes \in Sizes, Reserve(t, bytes)
        PROVE  \A o \in Threads : Judging(o)'
    <3>1. Judging(t)'
      <4>1. CASE cancelled
        BY <2>2, <4>1, Words, ReturnKeeps DEF Reserve, Judging
      <4>2. CASE ~cancelled
        <5>1. call'[t] = Frame("load", bytes, 0, "none")
          BY <2>2, <4>2 DEF Reserve, IInv, Calls
        <5> QED BY <5>1 DEF Judging, Frame
      <4> QED BY <4>1, <4>2
    <3>2. \A o \in Threads \ {t} : call'[o] = call[o]
      BY <2>2 DEF Reserve, Return, IInv, Calls
    <3> QED BY <2>1, <3>1, <3>2, OthersKeep
  <2>3. ASSUME NEW t \in Threads, Load(t) \/ Retry(t)
        PROVE  \A o \in Threads : Judging(o)'
    <3>1. \A o \in Threads \ {t} : call'[o] = call[o]
      BY <2>3 DEF Load, Retry, IInv, Calls
    <3> QED BY <2>1, <2>3, <3>1, OthersKeep, ReadIsObserved
  <2>4. ASSUME NEW t \in Threads, Exchange(t)
        PROVE  \A o \in Threads : Judging(o)'
    <3>1. call'[t].pc = "publish" /\ \A o \in Threads \ {t} : call'[o] = call[o]
      BY <2>4 DEF Exchange, IInv, Calls
    <3>2. Judging(t)'
      BY <3>1 DEF Judging
    <3> QED BY <2>1, <3>1, <3>2, OthersKeep
  <2>5. ASSUME NEW t \in Threads, Refuse(t) \/ Publish(t)
        PROVE  \A o \in Threads : Judging(o)'
    <3>1. call'[t].pc = "idle" /\ \A o \in Threads \ {t} : call'[o] = call[o]
      BY <2>5 DEF Refuse, Publish, Return, Frame, IInv, Calls
    <3>2. Judging(t)'
      BY <3>1 DEF Judging
    <3> QED BY <2>1, <3>1, <3>2, OthersKeep
  <2>6. ASSUME call' = call
        PROVE  \A o \in Threads : Judging(o)'
    BY <2>1, <2>6, OthersKeep
  <2>7. \A o \in Threads : Judging(o)'
    BY <1>2, <2>2, <2>3, <2>4, <2>5, <2>6 DEF ObsNext, Next, Drop, Cancel
  <2> QED BY <2>1, <2>7 DEF IInv
<1> QED BY <1>1, <1>2

\* A refusal is given on a value that leaves no room.
LEMMA RefusedForRoom ==
  ASSUME NEW seen \in Nat, NEW want \in Nat, Verdict(seen, want) = "MemoryLimit"
  PROVE  seen + want > Limit
  BY SizesAreNat DEF Verdict, Available

\* A refusal is decided by a thread that saw too little room since it asked.
LEMMA StepJustified == IInv /\ [ObsNext]_ovars =>
  [\A t \in Threads : call[t].pc = "try" /\ call'[t].result = "MemoryLimit" => t \in tight]_ovars
<1> SUFFICES ASSUME IInv, ObsNext, NEW t \in Threads, call[t].pc = "try", call'[t].result = "MemoryLimit"
             PROVE  t \in tight
  OBVIOUS
<1>1. call[t].result = "none" /\ call[t].seen \in Nat /\ call[t].want \in Nat
  BY DEF IInv, Judging, Calls
<1>2. call'[t] # call[t]
  BY <1>1
<1>3. Refuse(t) \/ Exchange(t) \/ Retry(t)
  <2>1. ASSUME NEW o \in Threads, NEW bytes \in Sizes, Reserve(o, bytes)
        PROVE  call'[t] = call[t]
    BY <2>1 DEF Reserve, At, Return, IInv, Calls
  <2>2. ASSUME NEW o \in Threads, Load(o) \/ Publish(o)
        PROVE  call'[t] = call[t]
    BY <2>2 DEF Load, Publish, At, Return, IInv, Calls
  <2>3. ASSUME NEW o \in Threads, o # t, Refuse(o) \/ Exchange(o) \/ Retry(o)
        PROVE  call'[t] = call[t]
    BY <2>3 DEF Refuse, Exchange, Retry, Return, IInv, Calls
  <2> QED BY <1>2, <2>1, <2>2, <2>3 DEF ObsNext, Next, Drop, Cancel
<1>4. CASE Refuse(t)
  <2>1. Verdict(call[t].seen, call[t].want) = "MemoryLimit"
    BY <1>4 DEF Refuse, Return, Frame, IInv, Calls
  <2> QED BY <1>1, <2>1, RefusedForRoom DEF IInv, Judging
<1>5. CASE Exchange(t) \/ Retry(t)
  BY <1>1, <1>5 DEF Exchange, Retry, IInv, Calls
<1> QED BY <1>3, <1>4, <1>5

\* reserve's MemoryLimit is never the product of a stale read of used, for any
\* number of callers and any limit.
THEOREM RefusalIsJustified == ObsSpec => RefusalJustified
  BY InitKeeps, StepKeeps, StepJustified, PTL DEF ObsSpec, RefusalJustified

-----------------------------------------------------------------------------
(* Induction over the naturals, and the bytes of a bag of sizes.           *)

\* A set of naturals has a least element.
LEMMA Least ==
  ASSUME NEW T, T \subseteq Nat, T # {}
  PROVE  \E m \in T : \A k \in T : m <= k
<1> DEFINE R == OpToRel(<, Nat)
<1>1. IsWellFoundedOn(R, Nat)
  BY NatLessThanWellFounded, Zenon
<1>2. PICK m \in T : \A k \in T : ~(<<k, m>> \in R)
  <2> HIDE DEF R
  <2> QED BY <1>1, WFMin
<1>3. \A k, j \in Nat : k < j => <<k, j>> \in R
  BY SMT DEF OpToRel
<1>4. \A k \in T : ~(k < m)
  <2> HIDE DEF R
  <2> QED BY <1>2, <1>3, Zenon
<1> HIDE DEF R
<1>5. ASSUME NEW k \in T PROVE m <= k
  <2>1. ~(k < m) /\ k \in Nat /\ m \in Nat
    BY <1>4
  <2> QED BY <2>1, SMT
<1> QED BY <1>5

\* Induction over the numbers, as a fact about sets.
LEMMA Induction ==
  ASSUME NEW T, 0 \in T, \A n \in Nat : n \in T => n + 1 \in T
  PROVE  Nat \subseteq T
<1> SUFFICES ASSUME Nat \ T # {} PROVE FALSE
  OBVIOUS
<1>1. PICK m \in Nat \ T : \A k \in Nat \ T : m <= k
  BY Least
<1>2. m # 0 /\ m - 1 \in Nat
  OBVIOUS
<1>3. m - 1 \in T
  BY <1>1, <1>2
<1> QED BY <1>2, <1>3

\* The partial sums of a sequence of naturals exist: the recursive function
\* that adds them up is the function its equation describes.
LEMMA PartialSums ==
  ASSUME NEW w \in [Nat -> Nat]
  PROVE  \E s \in [Nat -> Nat] : s[0] = 0 /\ \A k \in Nat : s[k + 1] = s[k] + w[k + 1]
<1> DEFINE Sums(s, n) ==
             s \in [0 .. n -> Nat] /\ s[0] = 0 /\ \A k \in 0 .. n - 1 : s[k + 1] = s[k] + w[k + 1]
           Some == {n \in Nat : \E s : Sums(s, n)}
<1>1. Nat \subseteq Some
  <2>1. 0 \in Some
    <3>1. Sums([k \in 0 .. 0 |-> 0], 0)
      OBVIOUS
    <3> QED BY <3>1
  <2>2. ASSUME NEW n \in Nat, n \in Some PROVE n + 1 \in Some
    <3>1. PICK s : Sums(s, n)
      BY <2>2
    <3> DEFINE longer == [k \in 0 .. n + 1 |-> IF k = n + 1 THEN s[n] + w[n + 1] ELSE s[k]]
    <3>2. longer \in [0 .. n + 1 -> Nat] /\ longer[0] = 0
      <4>1. 0 \in 0 .. n + 1 /\ 0 # n + 1 /\ n \in 0 .. n /\ s[0] = 0
        BY <3>1
      <4>2. s[n] + w[n + 1] \in Nat
        BY SMTT(20), <3>1, <4>1
      <4>3. \A k \in 0 .. n + 1 : k # n + 1 => s[k] \in Nat
        BY <3>1
      <4> QED BY <4>1, <4>2, <4>3
    <3>3. ASSUME NEW k \in 0 .. (n + 1) - 1 PROVE longer[k + 1] = longer[k] + w[k + 1]
      <4>1. CASE k = n
        BY <3>1, <4>1
      <4>2. CASE k # n
        <5>1. k \in 0 .. n - 1 /\ k + 1 \in 0 .. n
          BY <4>2
        <5>2. longer[k + 1] = s[k + 1] /\ longer[k] = s[k]
          BY <5>1
        <5> QED BY <3>1, <5>1, <5>2
      <4> QED BY <4>1, <4>2
    <3>4. Sums(longer, n + 1)
      <4> HIDE DEF longer
      <4> QED BY <3>2, <3>3
    <3> HIDE DEF Sums, longer
    <3> QED BY <3>4
  <2> HIDE DEF Some
  <2> QED BY <2>1, <2>2, Induction
<1>2. ASSUME NEW n \in Nat, NEW m \in Nat, NEW s, NEW z, n <= m, Sums(s, n), Sums(z, m)
      PROVE  s[n] = z[n]
  <2> DEFINE Same == {k \in Nat : k <= n => s[k] = z[k]}
  <2>1. 0 \in Same
    BY <1>2
  <2>2. ASSUME NEW k \in Nat, k \in Same PROVE k + 1 \in Same
    BY <1>2, <2>2
  <2>3. Nat \subseteq Same
    <3> HIDE DEF Same
    <3> QED BY <2>1, <2>2, Induction
  <2> QED BY <2>3
<1> DEFINE at(n) == CHOOSE s : Sums(s, n)
           all == [n \in Nat |-> at(n)[n]]
<1>3. \A n \in Nat : Sums(at(n), n)
  <2> SUFFICES ASSUME NEW n \in Nat PROVE Sums(at(n), n)
    OBVIOUS
  <2>1. \E s : Sums(s, n)
    BY <1>1
  <2> HIDE DEF Sums
  <2> QED BY <2>1
<1>4. all \in [Nat -> Nat] /\ all[0] = 0
  <2>1. ASSUME NEW n \in Nat PROVE at(n)[n] \in Nat /\ (n = 0 => at(n)[n] = 0)
    <3>1. Sums(at(n), n)
      BY <1>3
    <3> HIDE DEF at
    <3> QED BY <3>1
  <2> HIDE DEF at
  <2> QED BY <2>1
<1>5. ASSUME NEW k \in Nat PROVE all[k + 1] = all[k] + w[k + 1]
  <2>1. Sums(at(k + 1), k + 1) /\ Sums(at(k), k)
    <3> HIDE DEF Sums, at
    <3> QED BY <1>3
  <2>2. at(k)[k] = at(k + 1)[k]
    <3> HIDE DEF at, Sums
    <3> QED BY <1>2, <2>1
  <2>3. at(k + 1)[k + 1] = at(k + 1)[k] + w[k + 1]
    <3> HIDE DEF at
    <3> QED BY <2>1
  <2> HIDE DEF at
  <2> QED BY <2>2, <2>3
<1> HIDE DEF all
<1> QED BY <1>4, <1>5

IsSizes(bag) == IsABag(bag) /\ DOMAIN bag \subseteq Nat

\* The sum over a bag of sizes, size by size: what its recursive function
\* computes.
LEMMA BytesUpTo ==
  ASSUME NEW bag, IsSizes(bag)
  PROVE  /\ Atomic!BytesUpTo(bag) \in [Nat -> Nat] /\ Atomic!BytesUpTo(bag)[0] = 0
         /\ \A k \in Nat : Atomic!BytesUpTo(bag)[k + 1] =
              Atomic!BytesUpTo(bag)[k] + (k + 1) * Atomic!Copies(k + 1, bag)
<1> DEFINE w == [k \in Nat |-> k * Atomic!Copies(k, bag)]
<1>1. w \in [Nat -> Nat]
  <2>1. \A k \in Nat : Atomic!Copies(k, bag) \in Nat
    BY DEF IsSizes, IsABag, Atomic!Copies
  <2> QED BY <2>1
<1>2. PICK s \in [Nat -> Nat] : s[0] = 0 /\ \A k \in Nat : s[k + 1] = s[k] + w[k + 1]
  <2> HIDE DEF w
  <2> QED BY <1>1, PartialSums
<1>3. s = [k \in Nat |-> IF k = 0 THEN 0 ELSE s[k - 1] + k * Atomic!Copies(k, bag)]
  <2>1. ASSUME NEW k \in Nat \ {0} PROVE s[k] = s[k - 1] + k * Atomic!Copies(k, bag)
    <3>1. k - 1 \in Nat /\ (k - 1) + 1 = k
      OBVIOUS
    <3>2. s[(k - 1) + 1] = s[k - 1] + w[(k - 1) + 1]
      <4> HIDE DEF w
      <4> QED BY <1>2, <3>1
    <3> QED BY <3>1, <3>2
  <2> QED BY <1>2, <2>1
<1> DEFINE up == Atomic!BytesUpTo(bag)
<1>4. up = [k \in Nat |-> IF k = 0 THEN 0 ELSE up[k - 1] + k * Atomic!Copies(k, bag)]
  BY <1>3 DEF Atomic!BytesUpTo
<1> HIDE DEF up
<1>5. \A k \in Nat : Atomic!Copies(k, bag) \in Nat
  BY DEF IsSizes, IsABag, Atomic!Copies
<1>6. up[0] = 0
  BY <1>4
<1>7. ASSUME NEW k \in Nat PROVE up[k + 1] = up[k] + (k + 1) * Atomic!Copies(k + 1, bag)
  <2>1. k + 1 \in Nat /\ k + 1 # 0 /\ (k + 1) - 1 = k
    OBVIOUS
  <2> QED BY <1>4, <2>1
<1>8. Nat \subseteq {k \in Nat : up[k] \in Nat}
  <2>1. ASSUME NEW k \in Nat, up[k] \in Nat PROVE up[k + 1] \in Nat
    <3>1. k + 1 \in Nat /\ Atomic!Copies(k + 1, bag) \in Nat
      BY <1>5
    <3>2. (k + 1) * Atomic!Copies(k + 1, bag) \in Nat
      BY <3>1
    <3> QED BY <1>7, <2>1, <3>2
  <2> DEFINE T == {k \in Nat : up[k] \in Nat}
  <2>2. 0 \in T /\ \A k \in Nat : k \in T => k + 1 \in T
    BY <1>6, <2>1
  <2> HIDE DEF T
  <2>3. Nat \subseteq T
    BY <2>2, Induction
  <2> QED BY <2>3 DEF T
<1>9. up \in [Nat -> Nat]
  BY <1>4, <1>8
<1> QED BY <1>6, <1>7, <1>9 DEF up

\* No reservation, no bytes.
LEMMA BytesEmpty == Atomic!Bytes(EmptyBag) = 0
<1>1. IsSizes(EmptyBag) /\ \A k \in Nat : Atomic!Copies(k, EmptyBag) = 0
  BY DEF IsSizes, IsABag, EmptyBag, SetToBag, Atomic!Copies
<1> DEFINE up == Atomic!BytesUpTo(EmptyBag)
           T == {k \in Nat : up[k] = 0}
<1> HIDE DEF up
<1>2. 0 \in T /\ \A k \in Nat : k \in T => k + 1 \in T
  <2>1. up[0] = 0 /\ \A k \in Nat : up[k + 1] = up[k] + (k + 1) * Atomic!Copies(k + 1, EmptyBag)
    BY <1>1, BytesUpTo DEF up
  <2>2. ASSUME NEW k \in Nat PROVE (k + 1) * Atomic!Copies(k + 1, EmptyBag) = 0
    BY <1>1
  <2> QED BY <2>1, <2>2
<1>3. Nat \subseteq T
  <2> HIDE DEF T
  <2> QED BY <1>2, Induction
<1> QED BY <1>3, SizesAreNat DEF up, Atomic!Bytes

\* One more copy of a size is that many bytes more.
LEMMA BytesAdd ==
  ASSUME NEW A, NEW B, IsSizes(A), IsSizes(B), NEW b \in 0 .. UsizeMax,
         \A k \in Nat : Atomic!Copies(k, B) = Atomic!Copies(k, A) + (IF k = b THEN 1 ELSE 0)
  PROVE  Atomic!Bytes(A) \in Nat /\ Atomic!Bytes(B) = Atomic!Bytes(A) + b
<1> DEFINE upA == Atomic!BytesUpTo(A)
           upB == Atomic!BytesUpTo(B)
           T == {k \in Nat : upB[k] = upA[k] + (IF b <= k THEN b ELSE 0)}
<1>1. /\ upA \in [Nat -> Nat] /\ upA[0] = 0
      /\ upB \in [Nat -> Nat] /\ upB[0] = 0
  BY BytesUpTo
<1>2. ASSUME NEW k \in Nat
      PROVE  /\ upA[k + 1] = upA[k] + (k + 1) * Atomic!Copies(k + 1, A)
             /\ upB[k + 1] = upB[k] + (k + 1) * Atomic!Copies(k + 1, B)
  BY BytesUpTo
<1> HIDE DEF upA, upB
<1>3. b \in Nat /\ b <= UsizeMax /\ UsizeMax \in Nat
  BY SizesAreNat
<1>4. 0 \in T
  BY <1>1, <1>3
<1>5. ASSUME NEW k \in Nat, k \in T PROVE k + 1 \in T
  <2>1. Atomic!Copies(k + 1, A) \in Nat
    BY DEF IsSizes, IsABag, Atomic!Copies
  <2> DEFINE c == Atomic!Copies(k + 1, A)
  <2>2. Atomic!Copies(k + 1, B) = c + (IF k + 1 = b THEN 1 ELSE 0)
    OBVIOUS
  <2> HIDE DEF c
  <2>3. (k + 1) * (c + 1) = (k + 1) * c + (k + 1) /\ (k + 1) * c \in Nat
    BY <2>1 DEF c
  <2>4. upB[k] = upA[k] + (IF b <= k THEN b ELSE 0) /\ upA[k] \in Nat
    BY <1>1, <1>5
  <2>5. CASE k + 1 = b
    BY <1>2, <1>3, <2>1, <2>2, <2>3, <2>4, <2>5 DEF c
  <2>6. CASE k + 1 # b
    <3>1. (IF b <= k + 1 THEN b ELSE 0) = (IF b <= k THEN b ELSE 0)
      BY <1>3, <2>6
    <3>2. Atomic!Copies(k + 1, B) = c
      BY <2>1, <2>2, <2>6 DEF c
    <3> QED BY <1>2, <1>3, <2>3, <2>4, <3>1, <3>2 DEF c
  <2> QED BY <2>5, <2>6
<1>6. Nat \subseteq T
  <2> HIDE DEF T
  <2> QED BY <1>4, <1>5, Induction
<1> QED BY <1>1, <1>3, <1>6 DEF upA, upB, Atomic!Bytes

\* Bags that count the same are the same.
LEMMA SameBag ==
  ASSUME NEW A, NEW B, IsSizes(A), IsSizes(B),
         \A k \in Nat : Atomic!Copies(k, B) = Atomic!Copies(k, A)
  PROVE  A = B
<1>1. ASSUME NEW k \in Nat PROVE (k \in DOMAIN A <=> k \in DOMAIN B) /\ (k \in DOMAIN A => A[k] = B[k])
  BY DEF IsSizes, IsABag, Atomic!Copies
<1>2. DOMAIN A = DOMAIN B
  BY <1>1 DEF IsSizes
<1>3. A = [k \in DOMAIN A |-> A[k]] /\ B = [k \in DOMAIN B |-> B[k]]
  BY DEF IsSizes, IsABag
<1> QED BY <1>1, <1>2, <1>3 DEF IsSizes

\* Adding a reservation adds one copy of its size.
LEMMA BagPlus ==
  ASSUME NEW A, IsSizes(A), NEW b \in Nat
  PROVE  /\ IsSizes(A (+) SetToBag({b}))
         /\ \A k \in Nat : Atomic!Copies(k, A (+) SetToBag({b}))
                             = Atomic!Copies(k, A) + (IF k = b THEN 1 ELSE 0)
<1> DEFINE B == A (+) SetToBag({b})
<1>1. DOMAIN B = DOMAIN A \cup {b} /\ B = [k \in DOMAIN B |-> B[k]]
  BY DEF (+), SetToBag
<1>2. \A k \in DOMAIN B : B[k] = (IF k \in DOMAIN A THEN A[k] ELSE 0) + (IF k = b THEN 1 ELSE 0)
  BY DEF (+), SetToBag
<1>3. \A k \in DOMAIN A : k \in Nat /\ A[k] \in Nat /\ A[k] > 0
  BY DEF IsSizes, IsABag
<1> HIDE DEF B
<1>4. \A k \in DOMAIN B : k \in Nat /\ B[k] \in Nat /\ B[k] > 0
  BY <1>1, <1>2, <1>3
<1>5. \A k \in Nat : Atomic!Copies(k, B) = Atomic!Copies(k, A) + (IF k = b THEN 1 ELSE 0)
  BY <1>1, <1>2, <1>3 DEF Atomic!Copies
<1>6. IsSizes(B)
  BY <1>1, <1>4 DEF IsSizes, IsABag
<1> QED BY <1>5, <1>6 DEF B

\* Dropping a reservation takes one copy of its size.
LEMMA BagMinus ==
  ASSUME NEW A, IsSizes(A), NEW b \in DOMAIN A
  PROVE  /\ IsSizes(A (-) SetToBag({b}))
         /\ \A k \in Nat : Atomic!Copies(k, A)
                             = Atomic!Copies(k, A (-) SetToBag({b})) + (IF k = b THEN 1 ELSE 0)
<1> DEFINE B == A (-) SetToBag({b})
           Left(k) == IF k = b THEN A[k] - 1 ELSE A[k]
<1>1. DOMAIN B = {k \in DOMAIN A : Left(k) > 0} /\ B = [k \in DOMAIN B |-> B[k]]
  BY DEF (-), SetToBag
<1>2. \A k \in DOMAIN B : B[k] = Left(k)
  BY DEF (-), SetToBag
<1>3. \A k \in DOMAIN A : k \in Nat /\ A[k] \in Nat /\ A[k] > 0
  BY DEF IsSizes, IsABag
<1> HIDE DEF B
<1>4. \A k \in DOMAIN B : k \in Nat /\ B[k] \in Nat /\ B[k] > 0
  BY <1>1, <1>2, <1>3
<1>5. \A k \in Nat : Atomic!Copies(k, A) = Atomic!Copies(k, B) + (IF k = b THEN 1 ELSE 0)
  BY <1>1, <1>2, <1>3 DEF Atomic!Copies
<1>6. IsSizes(B)
  BY <1>1, <1>4 DEF IsSizes, IsABag
<1> QED BY <1>5, <1>6 DEF B

HeldTyped == IsSizes(live) /\ IsFiniteSet(Publishing) /\ call \in Calls

\* What the bag of held sizes counts: live reservations and calls about to
\* build theirs.
LEMMA HeldCounts == HeldTyped =>
  IsSizes(Held) /\ \A k \in Nat : Atomic!Copies(k, Held) = Atomic!Copies(k, live) + Cardinality(Taking(k))
<1> SUFFICES ASSUME HeldTyped
             PROVE  /\ IsSizes(Held)
                    /\ \A k \in Nat : Atomic!Copies(k, Held) = Atomic!Copies(k, live) + Cardinality(Taking(k))
  OBVIOUS
<1>1. ASSUME NEW k PROVE IsFiniteSet(Taking(k)) /\ Cardinality(Taking(k)) \in Nat
                         /\ (Cardinality(Taking(k)) = 0 <=> Taking(k) = {})
  <2>1. Taking(k) \subseteq Publishing
    BY DEF Taking
  <2>2. IsFiniteSet(Taking(k))
    BY <2>1, FS_Subset DEF HeldTyped
  <2> QED BY <2>2, FS_CardinalityType, FS_EmptySet
<1>2. DOMAIN PublishingBag = {k \in Nat : Taking(k) # {}}
  <2>1. \A t \in Publishing : call[t].want \in Nat
    BY DEF Publishing, HeldTyped, Calls
  <2> QED BY <2>1 DEF PublishingBag, Taking
<1>3. \A k \in DOMAIN PublishingBag : PublishingBag[k] = Cardinality(Taking(k))
  BY DEF PublishingBag
<1>4. \A k \in DOMAIN live : k \in Nat /\ live[k] \in Nat /\ live[k] > 0
  BY DEF HeldTyped, IsSizes, IsABag
<1>5. /\ DOMAIN Held = DOMAIN live \cup DOMAIN PublishingBag
      /\ Held = [k \in DOMAIN Held |-> Held[k]]
  BY DEF Held, (+)
<1>6. \A k \in DOMAIN Held : Held[k] =
        (IF k \in DOMAIN live THEN live[k] ELSE 0)
        + (IF k \in DOMAIN PublishingBag THEN PublishingBag[k] ELSE 0)
  BY DEF Held, (+)
<1>7. ASSUME NEW k \in DOMAIN Held PROVE k \in Nat /\ Held[k] \in Nat /\ Held[k] > 0
  BY <1>1, <1>2, <1>3, <1>4, <1>5, <1>6
<1>8. IsSizes(Held)
  BY <1>5, <1>7 DEF IsSizes, IsABag
<1>9. ASSUME NEW k \in Nat
      PROVE  Atomic!Copies(k, Held) = Atomic!Copies(k, live) + Cardinality(Taking(k))
  BY <1>1, <1>2, <1>3, <1>4, <1>5, <1>6 DEF Atomic!Copies
<1> QED BY <1>8, <1>9

Accounts ==
  /\ IsSizes(live) /\ DOMAIN live \subseteq Sizes
  /\ IsFiniteSet(Publishing) /\ IsFiniteSet(Asking)
  /\ \A t \in Threads : call[t].pc # "idle" => call[t].want \in Sizes
  /\ used = Atomic!Bytes(Held) /\ used <= Limit

\* While the peak lags, a call that took the bytes of the largest value is
\* still on its way to publish it.
PeakLags ==
  /\ peak \in Nat /\ high \in Nat /\ peak <= high /\ used <= high
  /\ \A t \in Publishing : call[t].seen + call[t].want <= high
  /\ peak = high \/ \E t \in Publishing : call[t].seen + call[t].want = high

AInv == IInv /\ Accounts /\ PeakLags

Kept(o) == call'[o].pc = call[o].pc /\ call'[o].want = call[o].want /\ call'[o].seen = call[o].seen

\* A step of thread t among the calls.
Turn(t, from, to) ==
  /\ call[t].pc \in from /\ call'[t].pc \in to
  /\ \A o \in Threads \ {t} : Kept(o)

\* From where to where each step of a call moves its thread, and what it
\* keeps.
LEMMA Turns ==
  ASSUME AInv, NEW t \in Threads
  PROVE  /\ \A b \in Sizes : Reserve(t, b) => Turn(t, {"idle"}, IF cancelled THEN {"idle"} ELSE {"load"})
                                         /\ call'[t].want \in Sizes \cup {0}
         /\ Load(t) \/ Retry(t) => Turn(t, {"load", "try"}, {"try"}) /\ call'[t].want = call[t].want
         /\ Refuse(t) => Turn(t, {"try"}, {"idle"})
         /\ Exchange(t) => Turn(t, {"try"}, {"publish"})
                           /\ call'[t].want = call[t].want /\ call'[t].seen = call[t].seen
         /\ Publish(t) => Turn(t, {"publish"}, {"idle"})
<1>1. ASSUME NEW b \in Sizes, Reserve(t, b)
      PROVE  Turn(t, {"idle"}, IF cancelled THEN {"idle"} ELSE {"load"})
             /\ call'[t].want \in Sizes \cup {0}
  BY <1>1 DEF Reserve, At, Return, Frame, AInv, IInv, Calls, Turn, Kept
<1>2. ASSUME Load(t) \/ Retry(t)
      PROVE  Turn(t, {"load", "try"}, {"try"}) /\ call'[t].want = call[t].want
  BY <1>2 DEF Load, Retry, At, AInv, IInv, Calls, Turn, Kept
<1>3. ASSUME Refuse(t) PROVE Turn(t, {"try"}, {"idle"})
  BY <1>3 DEF Refuse, At, Return, Frame, AInv, IInv, Calls, Turn, Kept
<1>4. ASSUME Exchange(t)
      PROVE  Turn(t, {"try"}, {"publish"})
             /\ call'[t].want = call[t].want /\ call'[t].seen = call[t].seen
  BY <1>4 DEF Exchange, At, AInv, IInv, Calls, Turn, Kept
<1>5. ASSUME Publish(t) PROVE Turn(t, {"publish"}, {"idle"})
  BY <1>5 DEF Publish, At, Return, Frame, AInv, IInv, Calls, Turn, Kept
<1> QED BY <1>1, <1>2, <1>3, <1>4, <1>5

\* How a turn changes who is asking and who is publishing.
LEMMA TurnSets ==
  ASSUME AInv, NEW t \in Threads, NEW from, NEW to, Turn(t, from, to)
  PROVE  /\ Publishing' = (IF call'[t].pc = "publish" THEN {t} ELSE {}) \cup (Publishing \ {t})
         /\ Asking' = (IF call'[t].pc \in {"load", "try"} THEN {t} ELSE {}) \cup (Asking \ {t})
  BY DEF Turn, Kept, Publishing, Asking, At

\* The threads that have taken bytes but not returned, and those still
\* asking, are finitely many.
LEMMA FiniteSets ==
  ASSUME AInv, NEW t \in Threads, NEW from, NEW to, Turn(t, from, to)
  PROVE  IsFiniteSet(Publishing') /\ IsFiniteSet(Asking')
<1>1. IsFiniteSet(Publishing \ {t}) /\ IsFiniteSet(Asking \ {t})
  BY FS_RemoveElement DEF AInv, Accounts
<1>2. IsFiniteSet({t} \cup (Publishing \ {t})) /\ IsFiniteSet({t} \cup (Asking \ {t}))
  BY <1>1, FS_AddElement
<1>3. IsFiniteSet({} \cup (Publishing \ {t})) /\ IsFiniteSet({} \cup (Asking \ {t}))
  BY <1>1
<1> QED BY <1>2, <1>3, TurnSets

\* A step that neither takes nor hands over bytes.
LEMMA QuietHeld ==
  ASSUME AInv, Publishing' = Publishing, \A t \in Publishing : call'[t].want = call[t].want, live' = live
  PROVE  Held' = Held
<1>1. \A b : Taking(b)' = Taking(b)
  BY DEF Taking
<1>2. {call'[t].want : t \in Publishing'} = {call[t].want : t \in Publishing}
  OBVIOUS
<1>3. PublishingBag' = PublishingBag
  <2> HIDE DEF Taking
  <2> QED BY <1>1, <1>2 DEF PublishingBag
<1> QED BY <1>3 DEF Held

\* Held after a step: the live reservations and those taken but not yet
\* returned.
LEMMA HeldPrimed == HeldTyped' =>
  IsSizes(Held') /\ \A k \in Nat : Atomic!Copies(k, Held') = Atomic!Copies(k, live') + Cardinality(Taking(k)')
<1>1. HeldTyped' =>
        (IsSizes(Held) /\ \A k \in Nat : Atomic!Copies(k, Held) = Atomic!Copies(k, live) + Cardinality(Taking(k)))'
  BY HeldCounts, PTL
<1> QED BY <1>1

\* The compare-exchange that succeeds charges the bytes and holds the
\* reservation at once.
LEMMA ExchangeHeld ==
  ASSUME AInv, HeldTyped', NEW t \in Threads, Exchange(t)
  PROVE  /\ Held' = Held (+) SetToBag({call[t].want})
         /\ used' = used + call[t].want
         /\ used' = Atomic!Bytes(Held') /\ used' <= Limit
<1> DEFINE b == call[t].want
<1>1. /\ Turn(t, {"try"}, {"publish"}) /\ call'[t].want = b /\ b \in Sizes /\ b \in Nat
      /\ b \in 0 .. UsizeMax
  <2>1. Turn(t, {"try"}, {"publish"}) /\ call'[t].want = b
    BY Turns
  <2>2. b \in Sizes
    BY <2>1 DEF Turn, AInv, Accounts
  <2> HIDE DEF b
  <2>3. b \in Nat /\ b \in 0 .. UsizeMax
    BY <2>2, SizesAreNat, ContextAssumption
  <2> QED BY <2>1, <2>2, <2>3
<1>2. t \notin Publishing /\ Publishing' = Publishing \cup {t}
  BY <1>1, TurnSets DEF Turn, Publishing, At
<1>3. \A o \in Publishing : call'[o].want = call[o].want
  BY <1>1, <1>2 DEF Turn, Kept, Publishing
<1>4. ASSUME NEW k \in Nat
      PROVE  Cardinality(Taking(k)') = Cardinality(Taking(k)) + (IF k = b THEN 1 ELSE 0)
             /\ Cardinality(Taking(k)) \in Nat
  <2>1. IsFiniteSet(Taking(k)) /\ t \notin Taking(k)
    BY <1>2, FS_Subset DEF Taking, AInv, Accounts
  <2>2. Taking(k)' = IF k = b THEN Taking(k) \cup {t} ELSE Taking(k)
    BY <1>1, <1>2, <1>3 DEF Taking
  <2>3. Cardinality(Taking(k) \cup {t}) = Cardinality(Taking(k)) + 1 /\ Cardinality(Taking(k)) \in Nat
    BY <2>1, FS_AddElement, FS_CardinalityType
  <2> HIDE DEF b
  <2> QED BY <2>2, <2>3
<1>5. HeldTyped
  BY DEF AInv, IInv, Accounts, HeldTyped
<1>6. live' = live
  BY DEF Exchange
<1>7. ASSUME NEW k \in Nat
      PROVE  Atomic!Copies(k, Held') = Atomic!Copies(k, Held) + (IF k = b THEN 1 ELSE 0)
  <2>1. Atomic!Copies(k, live) \in Nat
    BY <1>5 DEF HeldTyped, IsSizes, IsABag, Atomic!Copies
  <2>2. Atomic!Copies(k, Held) = Atomic!Copies(k, live) + Cardinality(Taking(k))
    BY <1>5, HeldCounts
  <2>3. Atomic!Copies(k, Held') = Atomic!Copies(k, live') + Cardinality(Taking(k)')
    BY HeldPrimed
  <2> HIDE DEF b
  <2> QED BY <1>4, <1>6, <2>1, <2>2, <2>3
<1>8. IsSizes(Held) /\ IsSizes(Held')
  BY <1>5, HeldCounts, HeldPrimed
<1>9. Held' = Held (+) SetToBag({b})
  <2> HIDE DEF b
  <2>1. IsSizes(Held (+) SetToBag({b})) /\ \A k \in Nat :
          Atomic!Copies(k, Held (+) SetToBag({b})) = Atomic!Copies(k, Held) + (IF k = b THEN 1 ELSE 0)
    BY <1>1, <1>8, BagPlus
  <2> DEFINE more == Held (+) SetToBag({b})
  <2> HIDE DEF more
  <2>2. \A k \in Nat : Atomic!Copies(k, Held') = Atomic!Copies(k, more)
    BY <1>7, <2>1 DEF more
  <2>3. Held' = more
    BY <1>8, <2>1, <2>2, SameBag DEF more
  <2> QED BY <2>3 DEF more
<1>10. Atomic!Bytes(Held) \in Nat /\ Atomic!Bytes(Held') = Atomic!Bytes(Held) + b
  BY <1>1, <1>7, <1>8, BytesAdd
<1>11. used = call[t].seen /\ used' = call[t].seen + b /\ b <= Limit - used
  BY SizesAreNat DEF Exchange, Verdict, Available, AInv, IInv, Accounts, Calls
<1>12. used' = Atomic!Bytes(Held') /\ used' <= Limit
  BY <1>1, <1>10, <1>11, SizesAreNat DEF AInv, IInv, Accounts
<1> QED BY <1>9, <1>11, <1>12

\* Returning the reservation to the caller charges nothing: it was held
\* before.
LEMMA PublishHeld ==
  ASSUME AInv, HeldTyped', NEW t \in Threads, Publish(t)
  PROVE  Held' = Held
<1> DEFINE b == call[t].want
<1>1. Turn(t, {"publish"}, {"idle"}) /\ b \in Nat
  BY Turns DEF AInv, IInv, Calls
<1>2. t \in Publishing /\ Publishing' = Publishing \ {t}
  BY <1>1, TurnSets DEF Turn, Publishing, At
<1>3. \A o \in Publishing \ {t} : call'[o].want = call[o].want
  BY <1>1, <1>2 DEF Turn, Kept, Publishing
<1>4. ASSUME NEW k \in Nat
      PROVE  Cardinality(Taking(k)) = Cardinality(Taking(k)') + (IF k = b THEN 1 ELSE 0)
             /\ Cardinality(Taking(k)') \in Nat
  <2>1. IsFiniteSet(Taking(k)) /\ (t \in Taking(k) <=> k = b)
    BY <1>2, FS_Subset DEF Taking, AInv, Accounts
  <2>2. Taking(k)' = IF k = b THEN Taking(k) \ {t} ELSE Taking(k)
    BY <1>1, <1>2, <1>3 DEF Taking
  <2>3. Cardinality(Taking(k)) \in Nat
    BY <2>1, FS_CardinalityType
  <2>4. CASE k = b
    <3>1. /\ Cardinality(Taking(k) \ {t}) = Cardinality(Taking(k)) - 1
          /\ IsFiniteSet(Taking(k) \ {t})
      BY <2>1, <2>4, FS_RemoveElement
    <3>2. Cardinality(Taking(k) \ {t}) \in Nat
      BY <3>1, FS_CardinalityType
    <3> HIDE DEF b
    <3> QED BY <2>2, <2>3, <2>4, <3>1, <3>2
  <2>5. CASE k # b
    <3> HIDE DEF b
    <3> QED BY <2>2, <2>3, <2>5
  <2> QED BY <2>4, <2>5
<1>5. HeldTyped
  BY DEF AInv, IInv, Accounts, HeldTyped
<1>6. live' = live (+) SetToBag({b})
  BY DEF Publish
<1>7. ASSUME NEW k \in Nat
      PROVE  Atomic!Copies(k, Held') = Atomic!Copies(k, Held)
  <2>1. Atomic!Copies(k, live) \in Nat
    BY <1>5 DEF HeldTyped, IsSizes, IsABag, Atomic!Copies
  <2>2. Atomic!Copies(k, Held) = Atomic!Copies(k, live) + Cardinality(Taking(k))
    BY <1>5, HeldCounts
  <2>3. Atomic!Copies(k, Held') = Atomic!Copies(k, live') + Cardinality(Taking(k)')
    BY HeldPrimed
  <2> HIDE DEF b
  <2>4. Atomic!Copies(k, live') = Atomic!Copies(k, live) + (IF k = b THEN 1 ELSE 0)
    BY <1>1, <1>5, <1>6, BagPlus DEF HeldTyped
  <2> QED BY <1>4, <2>1, <2>2, <2>3, <2>4
<1>8. IsSizes(Held) /\ IsSizes(Held')
  BY <1>5, HeldCounts, HeldPrimed
<1> QED BY <1>7, <1>8, SameBag

\* A drop returns exactly the bytes of the reservation dropped.
LEMMA DropHeld ==
  ASSUME AInv, HeldTyped', NEW b \in BagToSet(live), Drop(b)
  PROVE  /\ b \in DOMAIN Held /\ Held' = Held (-) SetToBag({b})
         /\ used' = used - b /\ used' \in Nat /\ used' = Atomic!Bytes(Held')
<1>1. HeldTyped /\ b \in DOMAIN live
  BY DEF AInv, IInv, Accounts, HeldTyped, BagToSet
<1>2. b \in DOMAIN Held /\ b \in Nat
  BY <1>1 DEF Held, (+), HeldTyped, IsSizes
<1>3. live' = live (-) SetToBag({b}) /\ call' = call
  BY DEF Drop
<1>4. \A k : Taking(k)' = Taking(k)
  BY <1>3 DEF Taking, Publishing, At
<1>5. IsSizes(Held) /\ IsSizes(Held')
  BY <1>1, HeldCounts, HeldPrimed
<1>6. ASSUME NEW k \in Nat
      PROVE  Atomic!Copies(k, Held) = Atomic!Copies(k, Held') + (IF k = b THEN 1 ELSE 0)
             /\ Atomic!Copies(k, Held') \in Nat
  <2>1. Atomic!Copies(k, live) = Atomic!Copies(k, live') + (IF k = b THEN 1 ELSE 0)
    BY <1>1, <1>3, BagMinus DEF HeldTyped
  <2>2. Atomic!Copies(k, Held) = Atomic!Copies(k, live) + Cardinality(Taking(k))
    BY <1>1, HeldCounts
  <2>3. Atomic!Copies(k, Held') = Atomic!Copies(k, live') + Cardinality(Taking(k))
    BY <1>4, HeldPrimed
  <2>4. Cardinality(Taking(k)) \in Nat /\ Atomic!Copies(k, live') \in Nat /\ Atomic!Copies(k, Held') \in Nat
    <3>1. IsFiniteSet(Taking(k))
      BY FS_Subset DEF Taking, AInv, Accounts
    <3>2. IsSizes(live')
      BY DEF HeldTyped
    <3> QED BY <1>5, <3>1, <3>2, FS_CardinalityType DEF IsSizes, IsABag, Atomic!Copies
  <2> QED BY <2>1, <2>2, <2>3, <2>4
<1>7. Held' = Held (-) SetToBag({b})
  <2> DEFINE fewer == Held (-) SetToBag({b})
  <2>1. IsSizes(fewer) /\ \A k \in Nat :
          Atomic!Copies(k, Held) = Atomic!Copies(k, fewer) + (IF k = b THEN 1 ELSE 0)
    BY <1>2, <1>5, BagMinus
  <2> HIDE DEF fewer
  <2>2. ASSUME NEW k \in Nat PROVE Atomic!Copies(k, Held') = Atomic!Copies(k, fewer)
    <3>1. Atomic!Copies(k, fewer) \in Nat
      BY <2>1 DEF IsSizes, IsABag, Atomic!Copies
    <3> QED BY <1>6, <2>1, <3>1
  <2>3. Held' = fewer
    BY <1>5, <2>1, <2>2, SameBag
  <2> QED BY <2>3 DEF fewer
<1>8. b \in 0 .. UsizeMax
  BY <1>1, ContextAssumption DEF AInv, Accounts
<1>9. Atomic!Bytes(Held') \in Nat /\ Atomic!Bytes(Held) = Atomic!Bytes(Held') + b
  BY <1>5, <1>6, <1>8, BytesAdd
<1>10. used \in Nat /\ used <= UsizeMax
  BY ContextAssumption DEF AInv, IInv, Accounts
<1>11. used - b = Atomic!Bytes(Held')
  BY <1>2, <1>9, <1>10 DEF AInv, Accounts
<1>12. used - b \in 0 .. UsizeMax
  BY <1>2, <1>9, <1>10, <1>11, SizesAreNat
<1>13. used' = used - b
  BY <1>12, SizesAreNat DEF Drop
<1> QED BY <1>2, <1>7, <1>11, <1>12, <1>13

-----------------------------------------------------------------------------
\* At first nothing is reserved and nothing is used.
LEMMA AccountsInit == ObsInit => AInv
<1> SUFFICES ASSUME ObsInit PROVE AInv
  OBVIOUS
<1>1. IInv
  BY InitKeeps
<1>2. \A t \in Threads : call[t].pc = "idle"
  BY DEF ObsInit, Init, Frame
<1>3. Publishing = {} /\ Asking = {}
  BY <1>2 DEF Publishing, Asking, At
<1>4. IsFiniteSet(Publishing) /\ IsFiniteSet(Asking)
  BY <1>3, FS_EmptySet
<1>5. IsSizes(live) /\ DOMAIN live \subseteq Sizes
  BY DEF ObsInit, Init, IsSizes, IsABag, EmptyBag, SetToBag
<1>6. Held = EmptyBag
  BY <1>3 DEF Held, PublishingBag, ObsInit, Init, EmptyBag, SetToBag, (+)
<1>7. used = Atomic!Bytes(Held) /\ used <= Limit /\ used = 0 /\ peak = 0 /\ high = 0
  BY <1>6, BytesEmpty, ContextAssumption DEF ObsInit, Init
<1> QED BY <1>1, <1>2, <1>3, <1>4, <1>5, <1>7 DEF AInv, Accounts, PeakLags

\* What a step may do to the bytes held and to the calls asking for more.
Effect ==
  \/ Held' = Held /\ used' = used /\ Asking' = Asking
  \/ /\ Held' = Held /\ used' = used /\ ~cancelled
     /\ \E t \in Threads \ Asking : Asking' = Asking \cup {t}
  \/ /\ Held' = Held /\ used' = used
     /\ \E t \in Asking : Asking' = Asking \ {t}
  \/ \E t \in Asking, b \in Sizes :
       /\ Asking' = Asking \ {t} /\ Held' = Held (+) SetToBag({b})
       /\ used' = used + b /\ used' <= Limit
  \/ \E b \in DOMAIN Held :
       /\ b \in Sizes /\ Asking' = Asking
       /\ Held' = Held (-) SetToBag({b}) /\ used' = used - b

\* The other threads keep the size they ask for.
LEMMA FramesKeep ==
  ASSUME AInv, NEW t \in Threads, NEW from, NEW to, Turn(t, from, to),
         call'[t].pc = "idle" \/ call'[t].want \in Sizes
  PROVE  \A o \in Threads : call'[o].pc # "idle" => call'[o].want \in Sizes
  BY DEF Turn, Kept, AInv, Accounts

\* Every step keeps the accounts and has the effect on the held bytes that
\* the budget allows.
LEMMA AccountsStep ==
  ASSUME AInv, ObsNext
  PROVE  Accounts' /\ Effect
<1> DEFINE Goal ==
             /\ HeldTyped' /\ DOMAIN live' \subseteq Sizes /\ IsFiniteSet(Asking')
             /\ \A o \in Threads : call'[o].pc # "idle" => call'[o].want \in Sizes
             /\ used' = Atomic!Bytes(Held') /\ used' <= Limit
             /\ Effect
<1> SUFFICES Goal
  BY DEF Accounts, HeldTyped
<1>1. call' \in Calls /\ IInv /\ Accounts /\ used \in Nat /\ Limit \in Nat
  BY StepTyped, SizesAreNat DEF ObsNext, AInv, IInv
<1>2. ASSUME NEW t \in Threads, NEW b \in Sizes, Reserve(t, b) PROVE Goal
  <2>1. Turn(t, {"idle"}, IF cancelled THEN {"idle"} ELSE {"load"})
    BY <1>2, Turns
  <2>2. call'[t].pc = "idle" \/ call'[t].want \in Sizes
    BY <1>2 DEF Reserve, Return, Frame, AInv, IInv, Calls
  <2>3. t \notin Publishing /\ t \notin Asking /\ call'[t].pc # "publish"
    BY <2>1 DEF Turn, Publishing, Asking, At
  <2>4. Publishing' = Publishing
    BY <2>1, <2>3, TurnSets
  <2>5. live' = live /\ used' = used
    BY <1>2 DEF Reserve
  <2>6. \A o \in Publishing : call'[o].want = call[o].want
    BY <2>1, <2>3 DEF Turn, Kept, Publishing
  <2>7. Held' = Held
    BY <2>4, <2>5, <2>6, QuietHeld
  <2>8. IF cancelled THEN Asking' = Asking ELSE Asking' = Asking \cup {t}
    BY <2>1, <2>3, TurnSets DEF Turn
  <2>9. Effect
    BY <2>3, <2>5, <2>7, <2>8 DEF Effect
  <2>10. HeldTyped' /\ IsFiniteSet(Asking')
    BY <1>1, <2>1, <2>5, FiniteSets DEF HeldTyped, Accounts
  <2>11. \A o \in Threads : call'[o].pc # "idle" => call'[o].want \in Sizes
    BY <2>1, <2>2, FramesKeep
  <2> QED BY <1>1, <2>5, <2>7, <2>9, <2>10, <2>11 DEF Accounts
<1>3. ASSUME NEW t \in Threads, Load(t) \/ Retry(t) PROVE Goal
  <2>1. Turn(t, {"load", "try"}, {"try"}) /\ call'[t].want = call[t].want
    BY <1>3, Turns
  <2>2. t \notin Publishing /\ t \in Asking /\ call'[t].pc = "try" /\ call'[t].want \in Sizes
    BY <2>1 DEF Turn, Publishing, Asking, At, AInv, Accounts
  <2>3. Publishing' = Publishing /\ Asking' = Asking
    BY <2>1, <2>2, TurnSets
  <2>4. live' = live /\ used' = used
    BY <1>3 DEF Load, Retry
  <2>5. \A o \in Publishing : call'[o].want = call[o].want
    BY <2>1, <2>2 DEF Turn, Kept, Publishing
  <2>6. Held' = Held
    BY <2>3, <2>4, <2>5, QuietHeld
  <2>7. Effect
    BY <2>3, <2>4, <2>6 DEF Effect
  <2>8. HeldTyped' /\ IsFiniteSet(Asking')
    BY <1>1, <2>1, <2>4, FiniteSets DEF HeldTyped, Accounts
  <2>9. \A o \in Threads : call'[o].pc # "idle" => call'[o].want \in Sizes
    BY <2>1, <2>2, FramesKeep
  <2> QED BY <1>1, <2>4, <2>6, <2>7, <2>8, <2>9 DEF Accounts
<1>4. ASSUME NEW t \in Threads, Refuse(t) PROVE Goal
  <2>1. Turn(t, {"try"}, {"idle"})
    BY <1>4, Turns
  <2>2. t \notin Publishing /\ t \in Asking /\ call'[t].pc = "idle"
    BY <2>1 DEF Turn, Publishing, Asking, At
  <2>3. Publishing' = Publishing /\ Asking' = Asking \ {t}
    BY <2>1, <2>2, TurnSets
  <2>4. live' = live /\ used' = used
    BY <1>4 DEF Refuse
  <2>5. \A o \in Publishing : call'[o].want = call[o].want
    BY <2>1, <2>2 DEF Turn, Kept, Publishing
  <2>6. Held' = Held
    BY <2>3, <2>4, <2>5, QuietHeld
  <2>7. Effect
    BY <2>2, <2>3, <2>4, <2>6 DEF Effect
  <2>8. HeldTyped' /\ IsFiniteSet(Asking')
    BY <1>1, <2>1, <2>4, FiniteSets DEF HeldTyped, Accounts
  <2>9. \A o \in Threads : call'[o].pc # "idle" => call'[o].want \in Sizes
    BY <2>1, <2>2, FramesKeep
  <2> QED BY <1>1, <2>4, <2>6, <2>7, <2>8, <2>9 DEF Accounts
<1>5. ASSUME NEW t \in Threads, Exchange(t) PROVE Goal
  <2>1. Turn(t, {"try"}, {"publish"}) /\ call'[t].want = call[t].want
    BY <1>5, Turns
  <2>2. t \in Asking /\ call'[t].pc = "publish" /\ call[t].want \in Sizes
    BY <2>1 DEF Turn, Asking, At, AInv, Accounts
  <2>3. Asking' = Asking \ {t}
    BY <2>1, <2>2, TurnSets
  <2>4. live' = live
    BY <1>5 DEF Exchange
  <2>5. HeldTyped' /\ IsFiniteSet(Asking')
    BY <1>1, <2>1, <2>4, FiniteSets DEF HeldTyped, Accounts
  <2>6. /\ Held' = Held (+) SetToBag({call[t].want}) /\ used' = used + call[t].want
        /\ used' = Atomic!Bytes(Held') /\ used' <= Limit
    BY <1>5, <2>5, ExchangeHeld
  <2>7. Effect
    BY <2>2, <2>3, <2>6 DEF Effect
  <2>8. \A o \in Threads : call'[o].pc # "idle" => call'[o].want \in Sizes
    BY <2>1, <2>2, FramesKeep
  <2> QED BY <1>1, <2>4, <2>5, <2>6, <2>7, <2>8 DEF Accounts
<1>6. ASSUME NEW t \in Threads, Publish(t) PROVE Goal
  <2>1. Turn(t, {"publish"}, {"idle"})
    BY <1>6, Turns
  <2>2. t \notin Asking /\ call'[t].pc = "idle" /\ call[t].want \in Sizes /\ call[t].want \in Nat
    BY <2>1, SizesAreNat DEF Turn, Asking, At, AInv, Accounts
  <2>3. Asking' = Asking
    BY <2>1, <2>2, TurnSets
  <2>4. live' = live (+) SetToBag({call[t].want}) /\ used' = used
    BY <1>6 DEF Publish
  <2>5. IsSizes(live') /\ DOMAIN live' = DOMAIN live \cup {call[t].want}
    <3>1. DOMAIN live' = DOMAIN live \cup {call[t].want}
      BY <2>4 DEF (+), SetToBag
    <3> QED BY <1>1, <2>2, <2>4, <3>1, BagPlus DEF Accounts
  <2>6. HeldTyped' /\ IsFiniteSet(Asking')
    BY <1>1, <2>1, <2>5, FiniteSets DEF HeldTyped
  <2>7. Held' = Held
    BY <1>6, <2>6, PublishHeld
  <2>8. Effect
    BY <2>3, <2>4, <2>7 DEF Effect
  <2>9. \A o \in Threads : call'[o].pc # "idle" => call'[o].want \in Sizes
    BY <2>1, <2>2, FramesKeep
  <2> QED BY <1>1, <2>2, <2>4, <2>5, <2>6, <2>7, <2>8, <2>9 DEF Accounts
<1>7. ASSUME NEW b \in BagToSet(live), Drop(b) PROVE Goal
  <2>1. call' = call /\ live' = live (-) SetToBag({b}) /\ b \in DOMAIN live
    BY <1>7 DEF Drop, BagToSet
  <2>2. Publishing' = Publishing /\ Asking' = Asking
    BY <2>1 DEF Publishing, Asking, At
  <2>3. IsSizes(live') /\ DOMAIN live' \subseteq DOMAIN live /\ b \in Sizes /\ b \in Nat
    BY <1>1, <2>1, BagMinus, SizesAreNat DEF Accounts, (-)
  <2>4. HeldTyped'
    BY <1>1, <2>2, <2>3 DEF HeldTyped, Accounts
  <2>5. /\ b \in DOMAIN Held /\ Held' = Held (-) SetToBag({b})
        /\ used' = used - b /\ used' = Atomic!Bytes(Held')
    BY <1>7, <2>4, DropHeld
  <2>6. Effect
    BY <2>2, <2>3, <2>5 DEF Effect
  <2>7. used' <= Limit
    <3>1. used <= Limit
      BY <1>1 DEF Accounts
    <3> QED BY <1>1, <2>3, <2>5, <3>1
  <2>8. DOMAIN live' \subseteq Sizes /\ IsFiniteSet(Asking')
    BY <1>1, <2>2, <2>3 DEF Accounts
  <2>9. \A o \in Threads : call'[o].pc # "idle" => call'[o].want \in Sizes
    BY <1>1, <2>1 DEF Accounts
  <2> QED BY <2>4, <2>5, <2>6, <2>7, <2>8, <2>9
<1>8. ASSUME Cancel PROVE Goal
  <2>1. call' = call /\ live' = live /\ used' = used
    BY <1>8 DEF Cancel
  <2>2. Publishing' = Publishing /\ Asking' = Asking
    BY <2>1 DEF Publishing, Asking, At
  <2>3. Held' = Held
    BY <2>1, <2>2, QuietHeld
  <2>4. HeldTyped' /\ Effect
    BY <1>1, <2>1, <2>2, <2>3 DEF HeldTyped, Accounts, Effect
  <2> QED BY <1>1, <2>1, <2>2, <2>3, <2>4 DEF Accounts
<1> QED BY <1>2, <1>3, <1>4, <1>5, <1>6, <1>7, <1>8 DEF ObsNext, Next

\* The recorded peak never runs ahead of what was used, nor behind except for
\* threads about to record.
LEMMA PeakStep ==
  ASSUME AInv, ObsNext, used' \in Nat
  PROVE  PeakLags'
<1>1. /\ high' = (IF used' > high THEN used' ELSE high) /\ high' \in Nat
      /\ high \in Nat /\ used \in Nat /\ peak \in Nat /\ peak <= high /\ used <= high
  BY DEF ObsNext, Observe, AInv, IInv, PeakLags
<1>2. \A t \in Threads : call[t].seen \in Nat /\ call[t].want \in Nat
  BY DEF AInv, IInv, Calls
<1>3. ASSUME peak' = peak, used' = used, Publishing' = Publishing,
             \A o \in Publishing : Kept(o)
      PROVE  PeakLags'
  BY <1>1, <1>3 DEF PeakLags, AInv, Kept
<1>4. ASSUME NEW t \in Threads,
             (\E b \in Sizes : Reserve(t, b)) \/ Load(t) \/ Retry(t) \/ Refuse(t)
      PROVE  PeakLags'
  <2>1. PICK from \in SUBSET {"idle", "load", "try"}, to \in SUBSET {"idle", "load", "try"} : Turn(t, from, to)
    BY <1>4, Turns
  <2>2. t \notin Publishing /\ call'[t].pc # "publish"
    BY <2>1 DEF Turn, Publishing, At
  <2>3. Publishing' = Publishing /\ \A o \in Publishing : Kept(o)
    BY <2>1, <2>2, TurnSets DEF Turn, Publishing
  <2>4. peak' = peak /\ used' = used
    BY <1>4 DEF Reserve, Load, Retry, Refuse
  <2> QED BY <1>3, <2>3, <2>4
<1>5. ASSUME NEW t \in Threads, Exchange(t)
      PROVE  PeakLags'
  <2> DEFINE next == call[t].seen + call[t].want
  <2>1. Turn(t, {"try"}, {"publish"}) /\ call'[t].want = call[t].want /\ call'[t].seen = call[t].seen
    BY <1>5, Turns
  <2>2. t \notin Publishing /\ Publishing' = Publishing \cup {t} /\ \A o \in Publishing : Kept(o)
    BY <2>1, TurnSets DEF Turn, Publishing, At
  <2>3. peak' = peak /\ used' = next /\ call'[t].seen + call'[t].want = next
    BY <1>5, <2>1 DEF Exchange
  <2>4. \A o \in Publishing : call'[o].seen + call'[o].want = call[o].seen + call[o].want
    BY <2>2 DEF Kept
  <2> HIDE DEF next
  <2>5. \A o \in Publishing' : call'[o].seen + call'[o].want <= high'
    <3>1. \A o \in Publishing : call[o].seen + call[o].want <= high
      BY DEF AInv, PeakLags
    <3>2. \A o \in Publishing : call[o].seen + call[o].want \in Nat
      BY <1>2 DEF Publishing
    <3> QED BY <1>1, <2>2, <2>3, <2>4, <3>1, <3>2
  <2>6. peak' = high' \/ \E o \in Publishing' : call'[o].seen + call'[o].want = high'
    <3>1. CASE used' > high
      BY <1>1, <2>2, <2>3, <3>1
    <3>2. CASE ~(used' > high)
      <4>1. peak = high \/ \E o \in Publishing : call[o].seen + call[o].want = high
        BY DEF AInv, PeakLags
      <4> QED BY <1>1, <2>2, <2>3, <2>4, <3>2, <4>1
    <3> QED BY <3>1, <3>2
  <2>7. peak' \in Nat /\ high' \in Nat /\ peak' <= high' /\ used' <= high'
    BY <1>1, <2>3
  <2> QED BY <2>5, <2>6, <2>7 DEF PeakLags
<1>6. ASSUME NEW t \in Threads, Publish(t)
      PROVE  PeakLags'
  <2> DEFINE next == call[t].seen + call[t].want
  <2>1. Turn(t, {"publish"}, {"idle"})
    BY <1>6, Turns
  <2>2. t \in Publishing /\ Publishing' = Publishing \ {t} /\ \A o \in Publishing' : Kept(o)
    BY <2>1, TurnSets DEF Turn, Publishing, At
  <2>3. peak' = (IF next > peak THEN next ELSE peak) /\ used' = used
    BY <1>6 DEF Publish
  <2>4. next \in Nat /\ next <= high
    BY <1>2, <2>2 DEF AInv, PeakLags
  <2>5. \A o \in Publishing' : call'[o].seen + call'[o].want = call[o].seen + call[o].want
    BY <2>2 DEF Kept
  <2>6. peak = high \/ next = high \/ \E o \in Publishing' : call[o].seen + call[o].want = high
    BY <2>2 DEF AInv, PeakLags
  <2> HIDE DEF next
  <2>7. high' = high /\ peak' \in Nat /\ peak' <= high
    BY <1>1, <2>3, <2>4
  <2>8. peak' = high \/ \E o \in Publishing' : call[o].seen + call[o].want = high
    BY <1>1, <2>3, <2>4, <2>6
  <2>9. \A o \in Publishing' : call[o].seen + call[o].want <= high
    BY <2>2 DEF AInv, PeakLags
  <2> QED BY <1>1, <2>3, <2>5, <2>7, <2>8, <2>9 DEF PeakLags
<1>7. ASSUME (\E b \in BagToSet(live) : Drop(b)) \/ Cancel
      PROVE  PeakLags'
  <2>1. call' = call /\ peak' = peak
    BY <1>7 DEF Drop, Cancel
  <2>2. Publishing' = Publishing
    BY <2>1 DEF Publishing, At
  <2>3. used' <= used
    <3>1. HeldTyped'
      BY AccountsStep, StepTyped DEF Accounts, HeldTyped, AInv, ObsNext
    <3>2. ASSUME NEW b \in BagToSet(live), Drop(b) PROVE used' <= used
      <4>1. used' = used - b /\ b \in Nat
        BY <3>1, <3>2, DropHeld DEF BagToSet, AInv, Accounts, IsSizes
      <4> QED BY <1>1, <4>1
    <3> QED BY <1>1, <1>7, <3>2 DEF Cancel
  <2> QED BY <1>1, <2>1, <2>2, <2>3 DEF PeakLags, AInv
<1> QED BY <1>4, <1>5, <1>6, <1>7 DEF ObsNext, Next

\* AInv holds in every state.
LEMMA AccountsInvariant == ObsSpec => []AInv
<1>1. AInv /\ [ObsNext]_ovars => AInv'
  <2> SUFFICES ASSUME AInv, [ObsNext]_ovars PROVE AInv'
    OBVIOUS
  <2>1. IInv'
    BY StepKeeps DEF AInv
  <2>2. CASE UNCHANGED ovars
    BY <2>1, <2>2 DEF ovars, AInv, Accounts, PeakLags, Held, PublishingBag, Publishing, Asking, Taking, At
  <2>3. CASE ObsNext
    BY <2>1, <2>3, AccountsStep, PeakStep DEF AInv, IInv
  <2> QED BY <2>2, <2>3
<1> QED BY <1>1, AccountsInit, PTL DEF ObsSpec

\* For any number of callers and any sizes: used is the bytes of the live
\* reservations and of those about to be built, within the limit; and the peak
\* is the largest value used ever had whenever no call is about to publish one.
THEOREM BytesAccounted == ObsSpec => []Accounted
<1>1. AInv => Accounted
  <2> SUFFICES ASSUME AInv, PublishingBag = EmptyBag PROVE peak = high
    BY DEF AInv, Accounts, Accounted
  <2>1. DOMAIN PublishingBag = {}
    BY DEF EmptyBag, SetToBag
  <2>2. Publishing = {}
    BY <2>1 DEF PublishingBag
  <2> QED BY <2>2 DEF AInv, PeakLags
<1> QED BY <1>1, AccountsInvariant, PTL

-----------------------------------------------------------------------------
(* The lock-free context implements the atomic one.                        *)

\* An unused context is an unused budget.
LEMMA RefinesInit == ObsInit => Atomic!Init
<1> SUFFICES ASSUME ObsInit PROVE Atomic!Init
  OBVIOUS
<1>1. \A t \in Threads : call[t].pc = "idle"
  BY DEF ObsInit, Init, Frame
<1>2. Publishing = {} /\ Asking = {}
  BY <1>1 DEF Publishing, Asking, At
<1>3. Held = EmptyBag
  BY <1>2 DEF Held, PublishingBag, ObsInit, Init, EmptyBag, SetToBag, (+)
<1>4. Cardinality(Asking) = 0
  BY <1>2, FS_EmptySet
<1> QED BY <1>3, <1>4 DEF Atomic!Init, ObsInit, Init, Atomic!EmptyBag, Atomic!SetToBag, EmptyBag, SetToBag

\* Every step of the calls is one atomic step of the budget or leaves it as
\* it is.
LEMMA RefinesStep == AInv /\ [ObsNext]_ovars => [Atomic!Next]_(Atomic!bvars)
<1> SUFFICES ASSUME AInv, [ObsNext]_ovars PROVE [Atomic!Next]_(Atomic!bvars)
  OBVIOUS
<1>1. CASE UNCHANGED ovars
  BY <1>1 DEF ovars, Atomic!bvars, Held, PublishingBag, Publishing, Asking, Taking, At
<1>2. CASE ObsNext
  <2>1. Effect /\ (cancelled' = cancelled \/ Cancel)
    BY <1>2, AccountsStep DEF ObsNext, Next, Reserve, Load, Refuse, Exchange, Retry, Publish, Drop
  <2>2. IsFiniteSet(Asking) /\ Cardinality(Asking) \in Nat /\ used = Atomic!Bytes(Held)
    BY FS_CardinalityType DEF AInv, Accounts
  <2>3. CASE Cancel
    <3>1. call' = call /\ live' = live /\ cancelled' = TRUE
      BY <2>3 DEF Cancel
    <3>2. Held' = Held /\ Asking' = Asking
      BY <3>1 DEF Held, PublishingBag, Publishing, Asking, Taking, At
    <3>3. Atomic!Close
      BY <3>1, <3>2 DEF Atomic!Close
    <3> QED BY <3>3 DEF Atomic!Next
  <2>4. CASE cancelled' = cancelled
    <3>1. CASE Held' = Held /\ Asking' = Asking
      BY <2>4, <3>1 DEF Atomic!bvars
    <3>2. ASSUME Held' = Held, ~cancelled, NEW t \in Threads \ Asking, Asking' = Asking \cup {t}
          PROVE  Atomic!Admit
      <4>1. Cardinality(Asking') = Cardinality(Asking) + 1
        BY <2>2, <3>2, FS_AddElement
      <4> QED BY <2>4, <3>2, <4>1 DEF Atomic!Admit
    <3>3. ASSUME NEW t \in Asking, Asking' = Asking \ {t}
          PROVE  Cardinality(Asking) > 0 /\ Cardinality(Asking') = Cardinality(Asking) - 1
      <4>1. Cardinality(Asking') = Cardinality(Asking) - 1 /\ IsFiniteSet(Asking')
        BY <2>2, <3>3, FS_RemoveElement
      <4>2. Cardinality(Asking') \in Nat
        BY <4>1, FS_CardinalityType
      <4> QED BY <2>2, <4>1, <4>2
    <3>4. ASSUME Held' = Held, NEW t \in Asking, Asking' = Asking \ {t}
          PROVE  Atomic!Refuse
      BY <2>4, <3>3, <3>4 DEF Atomic!Refuse
    <3>5. ASSUME NEW t \in Asking, NEW b \in Sizes, Asking' = Asking \ {t},
                 Held' = Held (+) SetToBag({b}), used' = used + b, used' <= Limit
          PROVE  Atomic!Grant(b)
      BY <2>2, <2>4, <3>3, <3>5 DEF Atomic!Grant, Atomic!SetToBag, SetToBag, Atomic!(+), (+)
    <3>6. ASSUME NEW b \in DOMAIN Held, Asking' = Asking, Held' = Held (-) SetToBag({b})
          PROVE  Atomic!Release(b)
      BY <2>4, <3>6 DEF Atomic!Release, Atomic!BagIn, Atomic!BagToSet, Atomic!SetToBag, SetToBag, Atomic!(-), (-)
    <3> QED BY <2>1, <3>1, <3>2, <3>4, <3>5, <3>6 DEF Effect, Atomic!Next
  <2> QED BY <2>1, <2>3, <2>4
<1> QED BY <1>1, <1>2

\* Every step of reserve, of Drop and of cancel is one indivisible step of the
\* atomic budget, or none of its steps: reserve is linearizable at its
\* successful exchange.
THEOREM BudgetImplemented == ObsSpec => ImplementsBudget
  BY AccountsInvariant, RefinesInit, RefinesStep, PTL DEF ObsSpec, ImplementsBudget, Atomic!Spec

=============================================================================
