------------------------------- MODULE Budget -------------------------------
(***************************************************************************)
(* What an ExecutionContext promises its clients, with every reservation   *)
(* granted and released in one step: the bytes granted never exceed the    *)
(* limit, nothing is granted once every call that passed its cancellation  *)
(* check has answered, and a released grant gives back exactly its bytes.  *)
(***************************************************************************)
EXTENDS Integers, Bags

CONSTANTS
  Limit,     \* byte limit of the context
  Sizes,     \* request sizes clients use
  UsizeMax   \* the largest of them any client can ask for

VARIABLES
  granted,   \* bag of the sizes of the reservations in existence
  closed,    \* cancellation has been requested
  admitted   \* number of calls past their cancellation check

bvars == <<granted, closed, admitted>>

Copies(b, bag) == IF b \in DOMAIN bag THEN bag[b] ELSE 0

\* The bytes of a bag of sizes, size by size.
BytesUpTo(bag) ==
  LET upTo[k \in Nat] == IF k = 0 THEN 0 ELSE upTo[k - 1] + k * Copies(k, bag) IN upTo
Bytes(bag) == BytesUpTo(bag)[UsizeMax]

Init ==
  /\ granted = EmptyBag
  /\ closed = FALSE
  /\ admitted = 0

\* A call that finds the context open may go on to ask for bytes.
Admit ==
  /\ ~closed
  /\ admitted' = admitted + 1
  /\ UNCHANGED <<granted, closed>>

Grant(b) ==
  /\ admitted > 0
  /\ Bytes(granted) + b <= Limit
  /\ granted' = granted (+) SetToBag({b})
  /\ admitted' = admitted - 1
  /\ UNCHANGED closed

\* A call is refused only when there is no room for its bytes; the room may be
\* found missing at any moment of the call, so this step has no guard on it.
Refuse ==
  /\ admitted > 0
  /\ admitted' = admitted - 1
  /\ UNCHANGED <<granted, closed>>

Release(b) ==
  /\ BagIn(b, granted)
  /\ granted' = granted (-) SetToBag({b})
  /\ UNCHANGED <<closed, admitted>>

Close ==
  /\ closed' = TRUE
  /\ UNCHANGED <<granted, admitted>>

Next ==
  \/ Admit
  \/ \E b \in Sizes : Grant(b) \/ Release(b)
  \/ Refuse
  \/ Close

Spec == Init /\ [][Next]_bvars
=============================================================================
