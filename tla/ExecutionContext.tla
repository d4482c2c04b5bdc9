-------------------------- MODULE ExecutionContext --------------------------
(***************************************************************************)
(* icebug-core's ExecutionContext: a byte budget shared by every clone of  *)
(* the context, taken lock-free and given back when a Reservation drops.   *)
(* One action is one atomic access of used, peak or cancelled.             *)
(*                                                                         *)
(* Reservations are Send: they are dropped by any thread, in any order, so *)
(* the ones in existence are a bag of sizes and not a property of threads. *)
(***************************************************************************)
EXTENDS Integers, FiniteSets, Bags

CONSTANTS
  Threads,    \* callers of reserve
  Limit,      \* the context's limit, in bytes
  Sizes,      \* byte counts the callers ask for
  UsizeMax    \* usize::MAX

ASSUME ContextAssumption ==
  /\ UsizeMax \in Nat
  /\ Limit \in 0 .. UsizeMax
  /\ Sizes \subseteq 0 .. UsizeMax

VARIABLES
  used,       \* bytes reserved, AtomicUsize
  peak,       \* largest value of used published, AtomicUsize
  cancelled,  \* AtomicBool, set for ever by cancel
  call,       \* [Threads -> the frame of reserve]
  live        \* bag of the sizes of the Reservation values in existence

vars == <<used, peak, cancelled, call, live>>

\* Where a reserve call stands: before or after a call ("idle"), past its
\* cancellation check ("load"), about to compare and exchange ("try"), or
\* with the bytes taken and the peak not yet raised ("publish").
PCs == {"idle", "load", "try", "publish"}
Results == {"none", "Reserved", "Cancelled", "MemoryLimit", "Overflow"}

Frame(pc, want, seen, result) ==
  [pc |-> pc, want |-> want, seen |-> seen, result |-> result]

Init ==
  /\ used = 0
  /\ peak = 0
  /\ cancelled = FALSE
  /\ call = [t \in Threads |-> Frame("idle", 0, 0, "none")]
  /\ live = EmptyBag

-----------------------------------------------------------------------------
At(t, pc) == call[t].pc = pc

Return(t, result) == call' = [call EXCEPT ![t] = Frame("idle", 0, 0, result)]

Available(seen) == IF seen > Limit THEN 0 ELSE Limit - seen

VerdictExact(seen, want) ==      \* mutant: the last byte is never granted
  IF want >= Available(seen) THEN "MemoryLimit" ELSE "Reserved"

\* The verdict of one turn of the loop on the value of used it has read.
Verdict(seen, want) ==
  CASE want > Available(seen)    -> "MemoryLimit"
    [] seen + want > UsizeMax    -> "Overflow"
    [] OTHER                     -> "Reserved"

ReserveUnchecked(t, bytes) ==    \* mutant: no check of cancellation
  /\ At(t, "idle")
  /\ call' = [call EXCEPT ![t] = Frame("load", bytes, 0, "none")]
  /\ UNCHANGED <<used, peak, cancelled, live>>

\* reserve begins with check().
Reserve(t, bytes) ==
  /\ At(t, "idle")
  /\ IF cancelled
     THEN Return(t, "Cancelled")
     ELSE call' = [call EXCEPT ![t] = Frame("load", bytes, 0, "none")]
  /\ UNCHANGED <<used, peak, cancelled, live>>

Load(t) ==
  /\ At(t, "load")
  /\ call' = [call EXCEPT ![t].pc = "try", ![t].seen = used]
  /\ UNCHANGED <<used, peak, cancelled, live>>

Refuse(t) ==
  /\ At(t, "try")
  /\ Verdict(call[t].seen, call[t].want) # "Reserved"
  /\ Return(t, Verdict(call[t].seen, call[t].want))
  /\ UNCHANGED <<used, peak, cancelled, live>>

ExchangeBlind(t) ==              \* mutant: a store instead of the exchange
  /\ At(t, "try")
  /\ Verdict(call[t].seen, call[t].want) = "Reserved"
  /\ used' = call[t].seen + call[t].want
  /\ call' = [call EXCEPT ![t].pc = "publish"]
  /\ UNCHANGED <<peak, cancelled, live>>

\* compare_exchange_weak succeeds.
Exchange(t) ==
  /\ At(t, "try")
  /\ Verdict(call[t].seen, call[t].want) = "Reserved"
  /\ used = call[t].seen
  /\ used' = call[t].seen + call[t].want
  /\ call' = [call EXCEPT ![t].pc = "publish"]
  /\ UNCHANGED <<peak, cancelled, live>>

RetryStale(t) ==                 \* mutant: the actual value is ignored
  /\ At(t, "try")
  /\ used # call[t].seen
  /\ UNCHANGED vars

\* compare_exchange_weak fails and hands back the actual value. A spurious
\* failure hands back the value already seen, and is a stuttering step.
Retry(t) ==
  /\ At(t, "try")
  /\ Verdict(call[t].seen, call[t].want) = "Reserved"
  /\ used # call[t].seen
  /\ call' = [call EXCEPT ![t].seen = used]
  /\ UNCHANGED <<used, peak, cancelled, live>>

PublishLast(t) ==                \* mutant: a store instead of fetch_max
  /\ At(t, "publish")
  /\ peak' = call[t].seen + call[t].want
  /\ live' = live (+) SetToBag({call[t].want})
  /\ Return(t, "Reserved")
  /\ UNCHANGED <<used, cancelled>>

\* peak.fetch_max(next), then the Reservation is built and returned.
Publish(t) ==
  /\ At(t, "publish")
  /\ LET next == call[t].seen + call[t].want
     IN  peak' = IF next > peak THEN next ELSE peak
  /\ live' = live (+) SetToBag({call[t].want})
  /\ Return(t, "Reserved")
  /\ UNCHANGED <<used, cancelled>>

\* Drop for Reservation: used.fetch_sub(bytes), which wraps.
Drop(bytes) ==
  /\ BagIn(bytes, live)
  /\ live' = live (-) SetToBag({bytes})
  /\ used' = (used - bytes) % (UsizeMax + 1)
  /\ UNCHANGED <<peak, cancelled, call>>

Cancel ==
  /\ cancelled' = TRUE
  /\ UNCHANGED <<used, peak, call, live>>

Next ==
  \/ \E t \in Threads :
       \/ \E bytes \in Sizes : Reserve(t, bytes)
       \/ Load(t) \/ Refuse(t) \/ Exchange(t) \/ Retry(t) \/ Publish(t)
  \/ \E bytes \in BagToSet(live) : Drop(bytes)
  \/ Cancel

Spec == Init /\ [][Next]_vars

\* A running thread takes its next instruction, a reservation is dropped when
\* the operation that owns it ends, and a weak compare-and-exchange that could
\* succeed again and again does not fail for ever.
Fairness ==
  /\ \A t \in Threads :
       /\ WF_vars(Load(t)) /\ WF_vars(Refuse(t)) /\ WF_vars(Retry(t))
       /\ WF_vars(Publish(t))
       /\ SF_vars(Exchange(t))
  /\ \A bytes \in Sizes : WF_vars(Drop(bytes))

FairSpec == Spec /\ Fairness

-----------------------------------------------------------------------------
\* Bytes taken by calls that have not built their Reservation yet.
Publishing == {t \in Threads : At(t, "publish")}
Taking(b) == {t \in Publishing : call[t].want = b}
PublishingBag == [b \in {call[t].want : t \in Publishing} |-> Cardinality(Taking(b))]

\* Every reservation that exists or is about to.
Held == live (+) PublishingBag

TypeOK ==
  /\ used \in 0 .. Limit
  /\ peak \in 0 .. Limit
  /\ cancelled \in BOOLEAN
  /\ call \in [Threads -> [pc : PCs, want : Sizes \cup {0},
                           seen : 0 .. Limit, result : Results]]
  /\ IsABag(live) /\ BagToSet(live) \subseteq Sizes
=============================================================================
