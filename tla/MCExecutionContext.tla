------------------------- MODULE MCExecutionContext -------------------------
(***************************************************************************)
(* The shared budget with two observers: the largest value used ever had,  *)
(* and, for every call under way, whether the budget was at some moment of *)
(* the call too full for it.                                               *)
(***************************************************************************)
EXTENDS ExecutionContext

VARIABLES
  high,    \* largest value used ever had
  tight    \* threads whose current call met a moment without room

ovars == <<used, peak, cancelled, call, live, high, tight>>

NoRoom(t, bytes, u) == u + bytes > Limit

ObsInit == Init /\ high = 0 /\ tight = {}

Observe ==
  /\ high' = IF used' > high THEN used' ELSE high
  /\ tight' = {t \in Threads :
                 /\ call'[t].pc # "idle" \/ call[t].pc # "idle"
                 /\ \/ t \in tight /\ call[t].pc # "idle"
                    \/ call'[t].pc # "idle" /\ NoRoom(t, call'[t].want, used')}

ObsNext == Next /\ Observe

ObsSpec == ObsInit /\ [][ObsNext]_ovars /\ Fairness

\* The calls past their cancellation check that have taken no bytes yet.
Asking == {t \in Threads : call[t].pc \in {"load", "try"}}

\* The lock-free context implements the context whose reservations are atomic.
Atomic == INSTANCE Budget WITH
  granted  <- Held,
  closed   <- cancelled,
  admitted <- Cardinality(Asking)

-----------------------------------------------------------------------------
(* Every reserved byte belongs to exactly one reservation, and the limit   *)
(* holds at every instant, whatever calls race in compare_exchange_weak    *)
(* and whatever reservations drop meanwhile (reserve, Drop). peak_bytes    *)
(* lags used only while a successful reserve has not reached its           *)
(* fetch_max: with no call there, it is the largest value used ever had,   *)
(* although the fetch_max of racing calls land in any order.               *)
Accounted ==
  /\ used = Atomic!Bytes(Held) /\ used <= Limit
  /\ PublishingBag = EmptyBag => peak = high

(* A MemoryLimit error is never the product of a stale read: at some       *)
(* moment of the call there really was no room for the bytes it asked for. *)
RefusalJustified ==
  [][\A t \in Threads :
       call[t].pc = "try" /\ call'[t].result = "MemoryLimit" => t \in tight]_ovars

(* The lock-free reserve and drop are linearizable: each behaves as one    *)
(* indivisible grant or release on an atomic budget.                       *)
ImplementsBudget == Atomic!Spec

(* A call of reserve returns, whatever the other callers do.               *)
ReserveReturns == \A t \in Threads : call[t].pc # "idle" ~> call[t].pc = "idle"

(* After cancel at most the calls already past their check get bytes, so   *)
(* that once the operations have dropped theirs the budget is empty and    *)
(* stays empty.                                                            *)
CancelDrains == cancelled ~> [](used = 0)

=============================================================================
