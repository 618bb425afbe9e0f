------------------------------- MODULE OrderSaga -------------------------------
(***************************************************************************)
(* The order state machine of SagaOrchestration.                           *)
(*                                                                         *)
(* One endpoint, create-order-message-queue, receives OrderCreatedMessage, *)
(* StockConfirmedEvent and StockReservationFailedEvent and handles several *)
(* messages at a time.  OrderCreated is correlated by a query on OrderId   *)
(* and makes an instance with a new CorrelationId when the query finds     *)
(* none; the stock events carry the CorrelationId.  An event the state of  *)
(* its instance does not handle moves the message to the error queue.      *)
(*                                                                         *)
(* Two transactions store the effect of a message.  The saga repository    *)
(* saves the instance in a DbContext of its own: a plain INSERT or UPDATE, *)
(* OrderStateInstance has no concurrency token.  Then the outbox commits   *)
(* the outgoing message and the inbox mark in another one; the message is  *)
(* delivered and acknowledged afterwards.  A message whose inbox row says  *)
(* consumed skips the state machine and goes on with delivery; the row is  *)
(* removed some time after the delivery.                                   *)
(***************************************************************************)
EXTENDS Integers, FiniteSets

CONSTANTS
  Orders,
  Instances,  \* values Guid.NewGuid can return for a CorrelationId
  Workers,    \* messages the endpoint handles at the same time
  Sends,      \* numbers of the sends of one order's OrderCreatedMessage
  Answers,    \* numbers of the Catalogue's answers of one kind to a command
  MaxFaults   \* bound: failed commits and crashes

ASSUME InstancesAssumption == IsFiniteSet(Instances)
ASSUME MaxFaultsAssumption == MaxFaults \in Nat

\* The relay of the Order API may send OrderCreated again, under a new
\* MessageId; so may the Catalogue answer the same command again.
Created == [event : {"OrderCreated"}, of : Orders, copy : Sends]
Answer ==
  [event : {"StockConfirmed", "StockReservationFailed"}, of : Instances, copy : Answers]
Message == Created \union Answer

State == {"none", "StockCheck", "StockReserved", "Final"}
Command == {"CheckBookStock", "CompletePayment", "OrderFailed"}

VARIABLES
  broker,    \* broker[m]: where message m is
  state,     \* state[i]: column CurrentState of instance i
  creator,   \* creator[i]: the message that made instance i
  inbox,     \* inbox[m]: the InboxState row of m
  outbox,    \* outbox[m]: OutboxMessage rows committed for m
  published, \* what reached the broker, with the message it answers
  work,      \* work[w]: what worker w is doing
  faults

tables == <<state, creator, inbox, outbox>>
vars == <<broker, tables, published, work, faults>>

Row == [command : Command, to : Instances]

\* A worker between loading an instance and the two commits, and between the
\* commits and the acknowledgement.
Handling ==
  [at : {"handled", "stored"}, msg : Message, inst : Instances]
    \union [at : {"committed", "sent", "delivered"}, msg : Message]

Nobody == [event |-> "none"]

Idle == [at |-> "idle"]

TypeOK ==
  /\ broker \in [Message -> {"unsent", "queued", "taken", "settled", "error"}]
  /\ state \in [Instances -> State]
  /\ creator \in [Instances -> Created \union {Nobody}]
  /\ inbox \in [Message -> {"new", "consumed", "delivered"}]
  /\ outbox \in [Message -> SUBSET Row]
  /\ published \in SUBSET [row : Row, by : Message]
  /\ work \in [Workers -> Handling \union {Idle}]
  /\ faults \in Nat

Init ==
  /\ broker = [m \in Message |-> "unsent"]
  /\ state = [i \in Instances |-> "none"]
  /\ creator = [i \in Instances |-> Nobody]
  /\ inbox = [m \in Message |-> "new"]
  /\ outbox = [m \in Message |-> {}]
  /\ published = {}
  /\ work = [w \in Workers |-> Idle]
  /\ faults = 0

-----------------------------------------------------------------------------
(* The other services                                                      *)

\* Did command c for instance i reach the broker?
Published(c, i) == \E p \in published : p.row = [command |-> c, to |-> i]

\* The outbox of the Order API sends OrderCreated; the Catalogue answers a
\* CheckBookStock command, each copy on its own.
Send(m) ==
  /\ broker[m] = "unsent"
  /\ m \in Answer => Published("CheckBookStock", m.of)
  /\ broker' = [broker EXCEPT ![m] = "queued"]
  /\ UNCHANGED <<tables, published, work, faults>>

-----------------------------------------------------------------------------
(* The state machine                                                       *)

\* Rows the OrderId query returns for a created message.
Correlated(m) == {i \in Instances : state[i] # "none" /\ creator[i].of = m.of}

\* Identifiers no row and no worker has: what Guid.NewGuid may return.
Fresh == {i \in Instances :
            /\ state[i] = "none"
            /\ \A w \in Workers : work[w].at \in {"handled", "stored"} => work[w].inst # i}

\* Mutations of Handlers: OrderCreated is not correlated; the events are handled
\* in every state.
HandlersUncorrelated(m) ==
  IF m \in Created THEN Fresh ELSE {i \in {m.of} : state[i] = "StockCheck"}

HandlersAnyState(m) ==
  IF m \in Created
    THEN IF Correlated(m) = {} THEN Fresh ELSE Correlated(m)
    ELSE {m.of}

\* The instances a message is handled by; none when its event is unhandled.
Handlers(m) ==
  IF m \in Created
    THEN IF Correlated(m) = {} THEN Fresh ELSE {}
    ELSE {i \in {m.of} : state[i] = "StockCheck"}

Unhandled(m) ==
  IF m \in Created THEN Correlated(m) # {} ELSE state[m.of] # "StockCheck"

\* Mutation of NextState: Finalize is forgotten.
NextStateUnfinalized(m) ==
  CASE m.event = "OrderCreated" -> "StockCheck"
    [] m.event = "StockConfirmed" -> "StockReserved"
    [] m.event = "StockReservationFailed" -> "StockReservationFailed"

\* What handling m makes of the instance, and what it sends or publishes.
NextState(m) ==
  CASE m.event = "OrderCreated" -> "StockCheck"
    [] m.event = "StockConfirmed" -> "StockReserved"
    [] m.event = "StockReservationFailed" -> "Final"

Output(m) ==
  CASE m.event = "OrderCreated" -> "CheckBookStock"
    [] m.event = "StockConfirmed" -> "CompletePayment"
    [] m.event = "StockReservationFailed" -> "OrderFailed"

Take(w, m) ==
  /\ work[w] = Idle
  /\ broker[m] = "queued"

\* The inbox row is new: the instance is loaded, or made, and the activities
\* run on it in memory.
Handle(w, m) ==
  /\ Take(w, m)
  /\ inbox[m] = "new"
  /\ \E i \in Handlers(m) :
       work' = [work EXCEPT ![w] = [at |-> "handled", msg |-> m, inst |-> i]]
  /\ broker' = [broker EXCEPT ![m] = "taken"]
  /\ UNCHANGED <<tables, published, faults>>

\* Mutation of RejectEvent: Ignore(...) in the states that do not handle it.
IgnoreEvent(w, m) ==
  /\ Take(w, m)
  /\ inbox[m] = "new"
  /\ Unhandled(m)
  /\ broker' = [broker EXCEPT ![m] = "settled"]
  /\ UNCHANGED <<tables, published, work, faults>>

\* Mutation of RejectEvent: the event waits for a state that handles it.
LeaveEvent(w, m) ==
  /\ Take(w, m)
  /\ inbox[m] = "new"
  /\ Unhandled(m)
  /\ UNCHANGED vars

\* UnhandledEventException.
RejectEvent(w, m) ==
  /\ Take(w, m)
  /\ inbox[m] = "new"
  /\ Unhandled(m)
  /\ broker' = [broker EXCEPT ![m] = "error"]
  /\ UNCHANGED <<tables, published, work, faults>>

\* The inbox row says consumed or delivered: the state machine is skipped.
Resume(w, m) ==
  /\ Take(w, m)
  /\ inbox[m] # "new"
  /\ work' = [work EXCEPT ![w] =
                [at |-> IF inbox[m] = "consumed" THEN "committed" ELSE "delivered",
                 msg |-> m]]
  /\ broker' = [broker EXCEPT ![m] = "taken"]
  /\ UNCHANGED <<tables, published, faults>>

\* The saga repository saves the instance: commit of the first transaction.
StoreInstance(w) ==
  /\ work[w].at = "handled"
  /\ LET m == work[w].msg
         i == work[w].inst
     IN /\ state' = [state EXCEPT ![i] = NextState(m)]
        /\ creator' = IF m \in Created THEN [creator EXCEPT ![i] = m] ELSE creator
        /\ work' = [work EXCEPT ![w] = [at |-> "stored", msg |-> m, inst |-> i]]
  /\ UNCHANGED <<broker, inbox, outbox, published, faults>>

\* Mutation of CommitOutbox: the outbox commits before the instance is saved.
CommitOutboxFirst(w) ==
  /\ work[w].at = "handled"
  /\ LET m == work[w].msg
         row == [command |-> Output(m), to |-> work[w].inst]
     IN /\ outbox' = [outbox EXCEPT ![m] = @ \union {row}]
        /\ inbox' = [inbox EXCEPT ![m] = "consumed"]
        /\ work' = [work EXCEPT ![w] = [at |-> "committed", msg |-> m]]
  /\ UNCHANGED <<broker, state, creator, published, faults>>

\* The outbox commits the outgoing message and the inbox mark: the second one.
CommitOutbox(w) ==
  /\ work[w].at = "stored"
  /\ LET m == work[w].msg
         row == [command |-> Output(m), to |-> work[w].inst]
     IN /\ outbox' = [outbox EXCEPT ![m] = @ \union {row}]
        /\ inbox' = [inbox EXCEPT ![m] = "consumed"]
        /\ work' = [work EXCEPT ![w] = [at |-> "committed", msg |-> m]]
  /\ UNCHANGED <<broker, state, creator, published, faults>>

-----------------------------------------------------------------------------
(* Delivery                                                                *)

SendOutbox(w) ==
  /\ work[w].at = "committed"
  /\ LET m == work[w].msg
     IN /\ published' = published \union [row : outbox[m], by : {m}]
        /\ work' = [work EXCEPT ![w] = [at |-> "sent", msg |-> m]]
  /\ UNCHANGED <<broker, tables, faults>>

\* The delivered rows are removed with the mark of the inbox row.
MarkDelivered(w) ==
  /\ work[w].at = "sent"
  /\ LET m == work[w].msg
     IN /\ outbox' = [outbox EXCEPT ![m] = {}]
        /\ inbox' = [inbox EXCEPT ![m] = "delivered"]
        /\ work' = [work EXCEPT ![w] = [at |-> "delivered", msg |-> m]]
  /\ UNCHANGED <<broker, state, creator, published, faults>>

Acknowledge(w) ==
  /\ work[w].at = "delivered"
  /\ broker' = [broker EXCEPT ![work[w].msg] = "settled"]
  /\ work' = [work EXCEPT ![w] = Idle]
  /\ UNCHANGED <<tables, published, faults>>

\* The inbox cleanup removes rows older than DuplicateDetectionWindow.
ForgetDelivered(m) ==
  /\ inbox[m] = "delivered"
  /\ inbox' = [inbox EXCEPT ![m] = "new"]
  /\ UNCHANGED <<broker, state, creator, outbox, published, work, faults>>

-----------------------------------------------------------------------------
(* Failures                                                                *)

Fault ==
  /\ faults < MaxFaults
  /\ faults' = faults + 1

\* A commit fails, or the outbox cannot send its rows or mark them delivered,
\* and the exception moves the message to the error queue.  What was stored or
\* sent before stays.
CommitFails(w) ==
  /\ work[w].at \in {"handled", "stored", "committed", "sent"}
  /\ Fault
  /\ broker' = [broker EXCEPT ![work[w].msg] = "error"]
  /\ work' = [work EXCEPT ![w] = Idle]
  /\ UNCHANGED <<tables, published>>

\* The process dies and starts again; the broker queues again what was not
\* acknowledged.
Restart ==
  /\ Fault
  /\ broker' = [m \in Message |-> IF broker[m] = "taken" THEN "queued" ELSE broker[m]]
  /\ work' = [w \in Workers |-> Idle]
  /\ UNCHANGED <<tables, published>>

-----------------------------------------------------------------------------
WorkerStep(w) ==
  \/ \E m \in Message : Handle(w, m) \/ RejectEvent(w, m) \/ Resume(w, m)
  \/ StoreInstance(w)
  \/ CommitOutbox(w)
  \/ SendOutbox(w)
  \/ MarkDelivered(w)
  \/ Acknowledge(w)

Next ==
  \/ \E m \in Message : Send(m) \/ ForgetDelivered(m)
  \/ \E w \in Workers : WorkerStep(w) \/ CommitFails(w)
  \/ Restart

Spec == Init /\ [][Next]_vars

\* The endpoint takes what is queued and no handler blocks forever.
Fairness == \A w \in Workers : WF_vars(WorkerStep(w))

FairSpec == Spec /\ Fairness

-----------------------------------------------------------------------------
(* Properties                                                              *)

Arrived(m) == broker[m] # "unsent"

\* A stock check goes out only for an instance that is in the database: its
\* answer always finds the instance it is correlated with.
CommandsHaveInstance ==
  \A c \in Command, i \in Instances : Published(c, i) => state[i] # "none"

\* Payment is asked for only after the Catalogue confirmed the stock of that
\* instance, a failure is announced only after it was refused.
OutcomeWasAnswered ==
  \A i \in Instances :
    /\ Published("CompletePayment", i) =>
         \E m \in Answer : m.of = i /\ m.event = "StockConfirmed" /\ Arrived(m)
    /\ Published("OrderFailed", i) =>
         \E m \in Answer : m.of = i /\ m.event = "StockReservationFailed" /\ Arrived(m)

\* A message has one effect at most, however often it is redelivered, even
\* after its inbox row is gone.
OneEffectPerMessage == \A p, q \in published : p.by = q.by => p = q

\* An instance whose stock check is not on its way has left a trace: the
\* message that made it is queued, in work or in the error queue.
LostCheckIsTraceable ==
  \A i \in Instances :
    state[i] # "none" /\ ~Published("CheckBookStock", i) =>
      broker[creator[i]] \in {"queued", "taken", "error"}

\* The endpoint handles one message at a time.
OneWorker == \A v, w \in Workers : v = w

\* One at a time, an order has one instance however often it was sent.
OneInstancePerOrder ==
  OneWorker =>
    \A i, j \in Instances :
      state[i] # "none" /\ state[j] # "none" /\ creator[i].of = creator[j].of => i = j

\* One at a time, an instance has one outcome: it never both asks for payment
\* and announces failure, and never asks for payment twice, although the
\* Catalogue may answer duplicates differently.
OneOutcome ==
  OneWorker =>
    \A p, q \in published :
      p.row.to = q.row.to /\ "CheckBookStock" \notin {p.row.command, q.row.command} => p = q

\* Every message is handled to its end or moved to the error queue.
EveryMessageSettles ==
  \A m \in Message : broker[m] = "queued" ~> broker[m] \in {"settled", "error"}

\* The outbox is configured "to ensure atomic message publishing and state
\* changes": an instance that is stored has its command published, or at least
\* in the outbox, from where it can still be sent.
StateChangeIsPublished ==
  \A i \in Instances : state[i] # "none" ~>
    \/ Published("CheckBookStock", i)
    \/ \E m \in Message : [command |-> "CheckBookStock", to |-> i] \in outbox[m]
=============================================================================
