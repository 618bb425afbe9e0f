-------------------------- MODULE OrderOutboxProofs --------------------------
(***************************************************************************)
(* Safety of the transactional outbox for every set of orders and relays   *)
(* and every number of faults.  The invariant that carries the proofs is   *)
(* IInv: it ties the in-memory batch of every relay to the tables.         *)
(***************************************************************************)
EXTENDS OrderOutbox, TLAPS

\* An outbox row exists exactly for the orders that were saved.
RowsMatchOrders == \A o \in Orders : outbox[o] # "absent" <=> request[o] = "saved"

\* A batch consists of stored rows; its marked rows were sent by this relay.
BatchIsStored ==
  \A r \in Relays :
    /\ \A o \in relay[r].todo \union relay[r].marked : request[o] = "saved"
    /\ \A o \in relay[r].marked : sends[r][o] > 0
    /\ ~relay[r].running => relay[r].todo = {} /\ relay[r].marked = {}

\* Every send of r that left no mark was paid for by a fault of r.
SendsPaidFor ==
  \A r \in Relays, o \in Orders :
    \/ o \in relay[r].todo
    \/ outbox[o] = "pending" /\ o \notin relay[r].marked
    => sends[r][o] <= faults[r]

\* Nothing is sent for an order that is not in the database: the saga and
\* the catalogue would reserve stock for an order that does not exist.
SentWasStored == \A o \in Orders : Sent(o) => request[o] = "saved"

IInv ==
  /\ TypeOK
  /\ RowsMatchOrders
  /\ BatchIsStored
  /\ SendsPaidFor
  /\ ProcessedWasSent
  /\ SentWasStored
  /\ SendsBounded
  /\ BatchInOrder

LEMMA InitIInv == Init => IInv
  BY DEF Init, IInv, TypeOK, RequestState, Idle, RowsMatchOrders, BatchIsStored,
         SendsPaidFor, ProcessedWasSent, Sent, SentWasStored, SendsBounded, BatchInOrder

\* The type invariant is inductive on its own.
LEMMA TypeStep == TypeOK /\ [Next]_vars => TypeOK'
<1> SUFFICES ASSUME TypeOK, [Next]_vars PROVE TypeOK'
  OBVIOUS
<1> USE DEF TypeOK, RequestState
<1>1. ASSUME NEW o \in Orders, CreateOrder(o) PROVE TypeOK'
  BY <1>1 DEF CreateOrder
<1>2. ASSUME NEW o \in Orders, SaveOrder(o) PROVE TypeOK'
  BY <1>2 DEF SaveOrder
<1>3. ASSUME NEW o \in Orders, RequestFails(o) PROVE TypeOK'
  BY <1>3 DEF RequestFails
<1>4. ASSUME NEW r \in Relays, ReadBatch(r) PROVE TypeOK'
  BY <1>4 DEF ReadBatch, Pending
<1>5. ASSUME NEW r \in Relays, NEW o \in Orders, SendNext(r, o) PROVE TypeOK'
  BY <1>5 DEF SendNext, Oldest
<1>6. ASSUME NEW r \in Relays, SaveMarks(r) PROVE TypeOK'
  BY <1>6 DEF SaveMarks, Mark, Idle
<1>7. ASSUME NEW r \in Relays, NEW o \in Orders, SendFails(r, o) PROVE TypeOK'
  BY <1>7 DEF SendFails, Oldest, Fault, Idle
<1>8. ASSUME NEW r \in Relays, SaveMarksFails(r) PROVE TypeOK'
  BY <1>8 DEF SaveMarksFails, Fault, Mark, Idle
<1>9. ASSUME NEW r \in Relays, CrashRelay(r) PROVE TypeOK'
  BY <1>9 DEF CrashRelay, Fault, Idle
<1>10. CASE UNCHANGED vars
  BY <1>10 DEF vars
<1> QED
  BY <1>1, <1>2, <1>3, <1>4, <1>5, <1>6, <1>7, <1>8, <1>9, <1>10
  DEF Next, Request, RelayStep, RelayFault

\* Type correctness of the outbox tables and of the job's local state.
THEOREM TypeCorrect == Spec => []TypeOK
<1>1. Init => TypeOK
  BY DEF Init, TypeOK, RequestState, Idle
<1> QED
  BY <1>1, TypeStep, PTL DEF Spec

-----------------------------------------------------------------------------
(* The inductive step, one action at a time.                               *)

LEMMA StepIInv == IInv /\ [Next]_vars => IInv'
<1> SUFFICES ASSUME IInv, [Next]_vars PROVE IInv'
  OBVIOUS
<1>0. TypeOK'
  BY TypeStep DEF IInv
<1> USE DEF IInv, TypeOK, RequestState
<1>1. ASSUME NEW o \in Orders, CreateOrder(o) PROVE IInv'
  <2> USE <1>0, <1>1 DEF CreateOrder
  <2>1. RowsMatchOrders'
    BY DEF RowsMatchOrders
  <2>2. BatchIsStored'
    BY DEF BatchIsStored
  <2>3. SendsPaidFor' /\ SendsBounded'
    BY DEF SendsPaidFor, SendsBounded
  <2>4. ProcessedWasSent' /\ SentWasStored'
    BY DEF ProcessedWasSent, SentWasStored, Sent
  <2>5. BatchInOrder'
    BY DEF BatchInOrder, BatchIsStored
  <2> QED
    BY <2>1, <2>2, <2>3, <2>4, <2>5
<1>2. ASSUME NEW o \in Orders, SaveOrder(o) PROVE IInv'
  <2> USE <1>0, <1>2 DEF SaveOrder
  <2>1. RowsMatchOrders'
    BY DEF RowsMatchOrders
  <2>2. BatchIsStored'
    BY DEF BatchIsStored
  <2>3. SendsPaidFor' /\ SendsBounded'
    BY DEF SendsPaidFor, SendsBounded, SentWasStored, Sent
  <2>4. ProcessedWasSent' /\ SentWasStored'
    BY DEF ProcessedWasSent, SentWasStored, Sent
  <2>5. BatchInOrder'
    BY DEF BatchInOrder
  <2> QED
    BY <2>1, <2>2, <2>3, <2>4, <2>5
<1>3. ASSUME NEW o \in Orders, RequestFails(o) PROVE IInv'
  <2> USE <1>0, <1>3 DEF RequestFails
  <2>1. RowsMatchOrders'
    BY DEF RowsMatchOrders
  <2>2. BatchIsStored'
    BY DEF BatchIsStored
  <2>3. SendsPaidFor' /\ SendsBounded'
    BY DEF SendsPaidFor, SendsBounded
  <2>4. ProcessedWasSent' /\ SentWasStored'
    BY DEF ProcessedWasSent, SentWasStored, Sent
  <2>5. BatchInOrder'
    BY DEF BatchInOrder
  <2> QED
    BY <2>1, <2>2, <2>3, <2>4, <2>5
<1>4. ASSUME NEW r \in Relays, ReadBatch(r) PROVE IInv'
  <2> USE <1>0, <1>4 DEF ReadBatch, Pending
  <2>1. RowsMatchOrders'
    BY DEF RowsMatchOrders
  <2>2. BatchIsStored'
    BY DEF BatchIsStored, RowsMatchOrders
  <2>3. SendsPaidFor' /\ SendsBounded'
    BY DEF SendsPaidFor, SendsBounded, BatchIsStored
  <2>4. ProcessedWasSent' /\ SentWasStored'
    BY DEF ProcessedWasSent, SentWasStored, Sent
  <2>5. BatchInOrder'
    BY DEF BatchInOrder
  <2> QED
    BY <2>1, <2>2, <2>3, <2>4, <2>5
<1>5. ASSUME NEW r \in Relays, NEW o \in Orders, SendNext(r, o) PROVE IInv'
  <2> USE <1>0, <1>5 DEF SendNext, Oldest
  <2>1. RowsMatchOrders'
    BY DEF RowsMatchOrders
  <2>2. BatchIsStored'
    BY DEF BatchIsStored
  <2>3. SendsPaidFor'
    BY DEF SendsPaidFor
  <2>4. SendsBounded'
    BY DEF SendsPaidFor, SendsBounded
  <2>5. ProcessedWasSent' /\ SentWasStored'
    BY DEF ProcessedWasSent, SentWasStored, Sent, BatchIsStored
  <2>6. BatchInOrder'
    BY DEF BatchInOrder
  <2> QED
    BY <2>1, <2>2, <2>3, <2>4, <2>5, <2>6
<1>6. ASSUME NEW r \in Relays, SaveMarks(r) PROVE IInv'
  <2> USE <1>0, <1>6 DEF SaveMarks, Mark, Idle
  <2>1. RowsMatchOrders'
    BY DEF RowsMatchOrders, BatchIsStored
  <2>2. BatchIsStored'
    BY DEF BatchIsStored
  <2>3. SendsPaidFor' /\ SendsBounded'
    BY DEF SendsPaidFor, SendsBounded
  <2>4. ProcessedWasSent' /\ SentWasStored'
    BY DEF ProcessedWasSent, SentWasStored, Sent, BatchIsStored
  <2>5. BatchInOrder'
    BY DEF BatchInOrder
  <2> QED
    BY <2>1, <2>2, <2>3, <2>4, <2>5
<1>7. ASSUME NEW r \in Relays, NEW o \in Orders, SendFails(r, o) PROVE IInv'
  <2> USE <1>0, <1>7 DEF SendFails, Oldest, Fault, Idle
  <2>1. RowsMatchOrders'
    BY DEF RowsMatchOrders
  <2>2. BatchIsStored'
    BY DEF BatchIsStored
  <2>a. \A q \in Relays, p \in Orders :
          \/ sends'[q][p] = sends[q][p]
          \/ q = r /\ p = o /\ sends'[q][p] = sends[q][p] + 1
    OBVIOUS
  <2>b. \A q \in Relays : faults'[q] = IF q = r THEN faults[q] + 1 ELSE faults[q]
    OBVIOUS
  <2>c. sends[r][o] <= faults[r]
    BY DEF SendsPaidFor
  <2>3. SendsBounded'
    <3> SUFFICES ASSUME NEW q \in Relays, NEW p \in Orders
                 PROVE sends'[q][p] <= faults'[q] + 1
      BY DEF SendsBounded
    <3>1. sends[q][p] <= faults[q] + 1
      BY DEF SendsBounded
    <3> QED
      BY <3>1, <2>a, <2>b, <2>c
  <2>3a. SendsPaidFor'
    <3> SUFFICES ASSUME NEW q \in Relays, NEW p \in Orders,
                        \/ p \in relay'[q].todo
                        \/ outbox'[p] = "pending" /\ p \notin relay'[q].marked
                 PROVE sends'[q][p] <= faults'[q]
      BY DEF SendsPaidFor
    <3>0. sends[q][p] <= faults[q] + 1 /\ sends[q][p] \in Nat /\ faults[q] \in Nat
      BY DEF SendsBounded
    <3>1. CASE q = r
      BY <3>0, <3>1, <2>a, <2>b, <2>c
    <3>2. CASE q # r
      BY <3>2, <2>a, <2>b DEF SendsPaidFor
    <3> QED
      BY <3>1, <3>2
  <2>4. ProcessedWasSent'
    <3> SUFFICES ASSUME NEW p \in Orders, outbox'[p] = "processed" PROVE Sent(p)'
      BY DEF ProcessedWasSent
    <3>1. PICK q \in Relays : sends[q][p] > 0
      BY DEF ProcessedWasSent, Sent
    <3>2. sends[q][p] \in Nat
      OBVIOUS
    <3> QED
      BY <3>1, <3>2, <2>a DEF Sent
  <2>4a. SentWasStored'
    BY <2>a DEF SentWasStored, Sent, BatchIsStored
  <2>5. BatchInOrder'
    BY DEF BatchInOrder
  <2> QED
    BY <2>1, <2>2, <2>3, <2>3a, <2>4, <2>4a, <2>5
<1>8. ASSUME NEW r \in Relays, SaveMarksFails(r) PROVE IInv'
  <2> USE <1>0, <1>8 DEF SaveMarksFails, Fault, Mark, Idle
  <2>1. RowsMatchOrders'
    BY DEF RowsMatchOrders, BatchIsStored
  <2>2. BatchIsStored'
    BY DEF BatchIsStored
  <2>3. SendsPaidFor' /\ SendsBounded'
    BY DEF SendsPaidFor, SendsBounded
  <2>4. ProcessedWasSent' /\ SentWasStored'
    BY DEF ProcessedWasSent, SentWasStored, Sent, BatchIsStored
  <2>5. BatchInOrder'
    BY DEF BatchInOrder
  <2> QED
    BY <2>1, <2>2, <2>3, <2>4, <2>5
<1>9. ASSUME NEW r \in Relays, CrashRelay(r) PROVE IInv'
  <2> USE <1>0, <1>9 DEF CrashRelay, Fault, Idle
  <2>1. RowsMatchOrders'
    BY DEF RowsMatchOrders
  <2>2. BatchIsStored'
    BY DEF BatchIsStored
  <2>3. SendsPaidFor' /\ SendsBounded'
    BY DEF SendsPaidFor, SendsBounded
  <2>4. ProcessedWasSent' /\ SentWasStored'
    BY DEF ProcessedWasSent, SentWasStored, Sent
  <2>5. BatchInOrder'
    BY DEF BatchInOrder
  <2> QED
    BY <2>1, <2>2, <2>3, <2>4, <2>5
<1>10. CASE UNCHANGED vars
  BY <1>10 DEF vars, RowsMatchOrders, BatchIsStored, SendsPaidFor, ProcessedWasSent,
               Sent, SentWasStored, SendsBounded, BatchInOrder
<1> QED
  BY <1>1, <1>2, <1>3, <1>4, <1>5, <1>6, <1>7, <1>8, <1>9, <1>10
  DEF Next, Request, RelayStep, RelayFault

\* No interleaving of two relays, failed saves and crashes marks a row whose
\* message never reached the broker, and none sends an order that is not
\* stored; duplicates are bounded by the faults and batches leave in order.
THEOREM OutboxSafe ==
  Spec => [](ProcessedWasSent /\ SentWasStored /\ SendsBounded /\ BatchInOrder)
<1>1. IInv => ProcessedWasSent /\ SentWasStored /\ SendsBounded /\ BatchInOrder
  BY DEF IInv
<1> QED
  BY <1>1, InitIInv, StepIInv, PTL DEF Spec

\* A relay sends a row once more than its batches were cut short, at most.
THEOREM DuplicatesBounded == Spec => []SendsBounded
BY OutboxSafe, PTL

\* A batch leaves in the order its events occurred.
THEOREM BatchKeepsOrder == Spec => []BatchInOrder
BY OutboxSafe, PTL

-----------------------------------------------------------------------------
(* One relay never works on a stale batch.                                 *)

\* The rows of the only relay's batch are still pending.
FreshBatch ==
  SingleRelay => \A r \in Relays : relay[r].todo \union relay[r].marked \subseteq Pending

LEMMA FreshBatchStep == IInv /\ FreshBatch /\ [Next]_vars => FreshBatch'
<1> SUFFICES ASSUME IInv, FreshBatch, [Next]_vars, SingleRelay
             PROVE \A r \in Relays : relay'[r].todo \union relay'[r].marked \subseteq Pending'
  BY DEF FreshBatch, SingleRelay
<1> USE DEF IInv, TypeOK, FreshBatch, Pending, SingleRelay
<1>1. ASSUME NEW o \in Orders, Request(o)
      PROVE \A r \in Relays : relay'[r].todo \union relay'[r].marked \subseteq Pending'
  BY <1>1 DEF Request, CreateOrder, SaveOrder, RequestFails, RowsMatchOrders
<1>2. ASSUME NEW q \in Relays, ReadBatch(q)
      PROVE \A r \in Relays : relay'[r].todo \union relay'[r].marked \subseteq Pending'
  BY <1>2 DEF ReadBatch
<1>3. ASSUME NEW q \in Relays, NEW o \in Orders, SendNext(q, o)
      PROVE \A r \in Relays : relay'[r].todo \union relay'[r].marked \subseteq Pending'
  BY <1>3 DEF SendNext, Oldest
<1>4. ASSUME NEW q \in Relays, SaveMarks(q) \/ RelayFault(q)
      PROVE \A r \in Relays : relay'[r].todo \union relay'[r].marked \subseteq Pending'
  BY <1>4 DEF SaveMarks, RelayFault, SendFails, SaveMarksFails, CrashRelay, Fault, Idle
<1>5. CASE UNCHANGED vars
  BY <1>5 DEF vars
<1> QED
  BY <1>1, <1>2, <1>3, <1>4, <1>5 DEF Next, RelayStep

\* With a single OrderApi process no message is sent for a row that is
\* already marked processed, whatever faults its batches suffer.
THEOREM SingleRelaySendsPendingOnly == Spec => NoSendOfProcessed
<1>1. Init => FreshBatch
  BY DEF Init, FreshBatch, Idle
<1>2. IInv /\ FreshBatch /\ [Next]_vars
        => [SingleRelay =>
              \A r \in Relays, o \in Orders :
                sends'[r][o] > sends[r][o] => outbox[o] = "pending"]_vars
  <2> SUFFICES ASSUME IInv, FreshBatch, Next, SingleRelay,
                      NEW r \in Relays, NEW o \in Orders, sends'[r][o] > sends[r][o]
               PROVE outbox[o] = "pending"
    OBVIOUS
  <2>1. o \in relay[r].todo
    <3> USE DEF IInv, TypeOK
    <3>0. sends[r][o] \in Nat /\ ~(sends[r][o] > sends[r][o])
      OBVIOUS
    <3>1. ASSUME NEW p \in Orders, Request(p) PROVE FALSE
      BY <3>0, <3>1 DEF Request, CreateOrder, SaveOrder, RequestFails
    <3>2. ASSUME NEW q \in Relays, ReadBatch(q) \/ SaveMarks(q) PROVE FALSE
      BY <3>0, <3>2 DEF ReadBatch, SaveMarks
    <3>3. ASSUME NEW q \in Relays, NEW p \in Orders, SendNext(q, p) PROVE q = r /\ p = o
      BY <3>0, <3>3 DEF SendNext
    <3>4. ASSUME NEW q \in Relays, NEW p \in Orders, SendFails(q, p) PROVE q = r /\ p = o
      BY <3>0, <3>4 DEF SendFails
    <3>5. ASSUME NEW q \in Relays, SaveMarksFails(q) \/ CrashRelay(q) PROVE FALSE
      BY <3>0, <3>5 DEF SaveMarksFails, CrashRelay
    <3> QED
      BY <3>1, <3>2, <3>3, <3>4, <3>5
      DEF Next, RelayStep, RelayFault, SendNext, SendFails, Oldest
  <2> QED
    BY <2>1 DEF FreshBatch, Pending
<1> QED
  BY <1>1, <1>2, InitIInv, StepIInv, FreshBatchStep, PTL DEF Spec, NoSendOfProcessed

-----------------------------------------------------------------------------
(* The tables and the job implement at-least-once delivery.                *)

LEMMA DeliveryStep == IInv /\ [Next]_vars => [Delivery!Next]_(Delivery!vars)
<1> SUFFICES ASSUME IInv, [Next]_vars PROVE [Delivery!Next]_(Delivery!vars)
  OBVIOUS
<1> USE DEF IInv, TypeOK, Accepted, Delivered, Retired, Sent
<1>1. ASSUME NEW o \in Orders, CreateOrder(o) \/ RequestFails(o)
      PROVE UNCHANGED Delivery!vars
  BY <1>1 DEF CreateOrder, RequestFails, Delivery!vars
<1>2. ASSUME NEW o \in Orders, SaveOrder(o) PROVE Delivery!Accept(o)
  BY <1>2 DEF SaveOrder, Delivery!Accept, RowsMatchOrders
<1>3. ASSUME NEW r \in Relays, NEW o \in Orders,
             outbox[o] # "absent", UNCHANGED <<outbox, request>>,
             sends' = [sends EXCEPT ![r][o] = @ + 1]
      PROVE Delivery!Deliver(o) \/ UNCHANGED Delivery!vars
  <2>1. /\ sends'[r][o] = sends[r][o] + 1
        /\ \A q \in Relays, p \in Orders : p # o => sends'[q][p] = sends[q][p]
        /\ \A q \in Relays : q # r => sends'[q][o] = sends[q][o]
        /\ sends[r][o] \in Nat
    BY <1>3
  <2>2. Delivered' = Delivered \union {o}
    <3>1. Sent(o)'
      BY <2>1
    <3>2. ASSUME NEW p \in Orders, p # o PROVE Sent(p)' <=> Sent(p)
      BY <2>1, <3>2
    <3>3. Delivered \subseteq Orders /\ Delivered' \subseteq Orders
      BY DEF Delivered
    <3> HIDE DEF Sent
    <3> QED
      BY <3>1, <3>2, <3>3 DEF Delivered
  <2>3. Accepted' = Accepted /\ Retired' = Retired /\ o \in Accepted
    BY <1>3 DEF RowsMatchOrders
  <2> QED
    BY <2>2, <2>3 DEF Delivery!Deliver, Delivery!vars
<1>4. ASSUME NEW r \in Relays, UNCHANGED <<sends, request>>, outbox' = Mark(relay[r].marked)
      PROVE \E batch \in SUBSET Delivered : Delivery!Retire(batch)
  <2>1. relay[r].marked \in SUBSET Delivered
    BY DEF BatchIsStored
  <2>2. Retired' = Retired \union relay[r].marked /\ Delivered' = Delivered
    BY <1>4 DEF Mark
  <2>3. Accepted' = Accepted
    BY <1>4
  <2> QED
    BY <2>1, <2>2, <2>3 DEF Delivery!Retire
<1>5. ASSUME NEW r \in Relays, NEW o \in Orders, SendNext(r, o)
      PROVE Delivery!Deliver(o) \/ UNCHANGED Delivery!vars
  <2>1. outbox[o] # "absent"
    BY <1>5 DEF SendNext, Oldest, BatchIsStored, RowsMatchOrders
  <2> QED
    BY <1>3, <1>5, <2>1 DEF SendNext
<1>6. ASSUME NEW r \in Relays, NEW o \in Orders, SendFails(r, o)
      PROVE Delivery!Deliver(o) \/ UNCHANGED Delivery!vars
  <2>1. outbox[o] # "absent"
    BY <1>6 DEF SendFails, Oldest, BatchIsStored, RowsMatchOrders
  <2>2. CASE UNCHANGED sends
    BY <1>6, <2>2 DEF SendFails, Fault, Delivery!vars
  <2>3. CASE sends' = [sends EXCEPT ![r][o] = @ + 1]
    BY <1>3, <1>6, <2>1, <2>3 DEF SendFails, Fault
  <2> QED
    BY <1>6, <2>2, <2>3 DEF SendFails, Fault
<1>7. ASSUME NEW r \in Relays, ReadBatch(r) \/ CrashRelay(r) PROVE UNCHANGED Delivery!vars
  BY <1>7 DEF ReadBatch, CrashRelay, Fault, Delivery!vars
<1>8. ASSUME NEW r \in Relays, SaveMarks(r)
      PROVE \E batch \in SUBSET Delivered : Delivery!Retire(batch)
  BY <1>4, <1>8 DEF SaveMarks
<1>9. ASSUME NEW r \in Relays, SaveMarksFails(r)
      PROVE \/ \E batch \in SUBSET Delivered : Delivery!Retire(batch)
            \/ UNCHANGED Delivery!vars
  <2>1. CASE UNCHANGED outbox
    BY <1>9, <2>1 DEF SaveMarksFails, Fault, Delivery!vars
  <2>2. CASE outbox' = Mark(relay[r].marked)
    BY <1>4, <1>9, <2>2 DEF SaveMarksFails, Fault
  <2> QED
    BY <1>9, <2>1, <2>2 DEF SaveMarksFails, Fault
<1>10. CASE UNCHANGED vars
  BY <1>10 DEF vars, Delivery!vars
<1> QED
  BY <1>1, <1>2, <1>5, <1>6, <1>7, <1>8, <1>9, <1>10
  DEF Next, Request, RelayStep, RelayFault, Delivery!Next

\* The safety half of ImplementsDelivery: every step of the outbox is a step
\* of at-least-once delivery or leaves it unchanged.
THEOREM OutboxImplementsDelivery == Spec => Delivery!Spec
<1>1. Init => Delivery!Init
  BY DEF Init, Delivery!Init, Accepted, Delivered, Retired, Sent
<1> QED
  BY <1>1, InitIInv, StepIInv, DeliveryStep, PTL DEF Spec, Delivery!Spec
=============================================================================
