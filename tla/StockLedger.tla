------------------------------ MODULE StockLedger ------------------------------
(***************************************************************************)
(* What a stock reservation promises, without lines, tracked entities,     *)
(* consumers or failures: the whole basket is reserved in one step or not  *)
(* at all, a confirmation stands for a reservation that was made, and a    *)
(* rejection is true when it is given.                                     *)
(***************************************************************************)
EXTENDS Integers

CONSTANTS
  Products,
  Commands,
  Demand,       \* Demand[c][p]: units of p that c asks for
  InitialStock

VARIABLES
  stock,
  saves,        \* saves[c]: reservations made for c
  confirmed,
  rejected

vars == <<stock, saves, confirmed, rejected>>

Init ==
  /\ stock = InitialStock
  /\ saves = [c \in Commands |-> 0]
  /\ confirmed = [c \in Commands |-> 0]
  /\ rejected = [c \in Commands |-> 0]

InStock(c) == \A p \in Products : Demand[c][p] <= stock[p]

Reserve(c) ==
  /\ InStock(c)
  /\ stock' = [p \in Products |-> stock[p] - Demand[c][p]]
  /\ saves' = [saves EXCEPT ![c] = @ + 1]
  /\ UNCHANGED <<confirmed, rejected>>

Confirm(c) ==
  /\ confirmed[c] < saves[c]
  /\ confirmed' = [confirmed EXCEPT ![c] = @ + 1]
  /\ UNCHANGED <<stock, saves, rejected>>

Reject(c) ==
  /\ ~InStock(c)
  /\ rejected' = [rejected EXCEPT ![c] = @ + 1]
  /\ UNCHANGED <<stock, saves, confirmed>>

Next == \E c \in Commands : Reserve(c) \/ Confirm(c) \/ Reject(c)

Spec == Init /\ [][Next]_vars
=============================================================================
