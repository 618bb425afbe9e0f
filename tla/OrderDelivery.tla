---------------------------- MODULE OrderDelivery ----------------------------
(***************************************************************************)
(* What the transactional outbox of the Order API promises, without its    *)
(* tables, its job or its failures: an order that was accepted is handed   *)
(* to the broker at least once, nothing is handed over that was never      *)
(* accepted, and an order is retired (never looked at again) only after it *)
(* was handed over.                                                        *)
(***************************************************************************)
CONSTANT Orders

VARIABLES
  accepted,   \* orders the API has committed to
  delivered,  \* orders whose OrderCreatedMessage reached the broker
  retired     \* orders the relay will never look at again

vars == <<accepted, delivered, retired>>

TypeOK ==
  /\ accepted \subseteq Orders
  /\ delivered \subseteq accepted
  /\ retired \subseteq delivered

Init ==
  /\ accepted = {}
  /\ delivered = {}
  /\ retired = {}

Accept(o) ==
  /\ o \notin accepted
  /\ accepted' = accepted \union {o}
  /\ UNCHANGED <<delivered, retired>>

Deliver(o) ==
  /\ o \in accepted \ delivered
  /\ delivered' = delivered \union {o}
  /\ UNCHANGED <<accepted, retired>>

\* A whole batch is retired at once.
Retire(batch) ==
  /\ batch \subseteq delivered
  /\ retired' = retired \union batch
  /\ UNCHANGED <<accepted, delivered>>

Next ==
  \/ \E o \in Orders : Accept(o) \/ Deliver(o)
  \/ \E batch \in SUBSET delivered : Retire(batch)

Spec == Init /\ [][Next]_vars

\* An accepted order is eventually delivered and eventually retired.
EveryAcceptedIsDelivered ==
  \A o \in Orders : o \in accepted ~> o \in delivered

EveryAcceptedIsRetired ==
  \A o \in Orders : o \in accepted ~> o \in retired

FairSpec == Spec /\ EveryAcceptedIsDelivered /\ EveryAcceptedIsRetired
=============================================================================
