----------------------------- MODULE PaymentInbox -----------------------------
(***************************************************************************)
(* The Order API's CompletePaymentCommandConsumer, an InboxConsumer.       *)
(*                                                                         *)
(* For every copy of a CompletePayment message the consumer looks for the  *)
(* message's inbox row and inserts it when there is none, opens a          *)
(* transaction, stores an internal command under a new identifier, and     *)
(* commits.  Row and command are written by two DbContexts: the scheduler  *)
(* lives in MassTransit's scope, the inbox in a scope of the consumer, and *)
(* the transaction itself covers no write, since the row with the          *)
(* processed date is a copy nobody tracks.  Rows are never deleted, so the *)
(* row that line 41 reads is always there.                                 *)
(*                                                                         *)
(* A row does not stop a copy from being handled.  The endpoint has no     *)
(* retry: an exception moves the copy to the error queue.                  *)
(***************************************************************************)
EXTENDS Integers, FiniteSets

CONSTANTS
  Messages,   \* identifiers of CompletePayment messages
  Consumers,  \* copies the endpoint handles at the same time
  MaxCopies,  \* bound: how often the broker receives the same message
  MaxFaults   \* bound: failed calls and crashes

ASSUME ConsumersAssumption == IsFiniteSet(Consumers)
ASSUME BoundsAssumption == MaxCopies \in Nat /\ MaxFaults \in Nat

VARIABLES
  sent,      \* sent[m]: copies of m the queue received so far
  waiting,   \* waiting[m]: copies of m in the queue
  work,      \* work[k]: the copy consumer k handles and how far it is
  inbox,     \* messages with a row in InboxMessage
  scheduled, \* scheduled[m]: rows of InternalCommand that m led to
  acked,     \* acked[m]: copies of m that were acknowledged
  faulted,   \* faulted[m]: copies of m moved to the error queue
  faults

queue == <<sent, waiting>>
vars == <<queue, work, inbox, scheduled, acked, faulted, faults>>

Zero == [m \in Messages |-> 0]
Bump(f, m) == [f EXCEPT ![m] = @ + 1]

\* A copy is received, known to have no row, known to have one, or scheduled.
Copy == [at : {"received", "absent", "stored", "scheduled"}, msg : Messages]

Free == [at |-> "idle"]

TypeOK ==
  /\ sent \in [Messages -> Nat] /\ waiting \in [Messages -> Nat]
  /\ work \in [Consumers -> Copy \union {Free}]
  /\ inbox \subseteq Messages
  /\ scheduled \in [Messages -> Nat]
  /\ acked \in [Messages -> Nat] /\ faulted \in [Messages -> Nat]
  /\ faults \in Nat

Init ==
  /\ sent = Zero /\ waiting = Zero
  /\ work = [k \in Consumers |-> Free]
  /\ inbox = {}
  /\ scheduled = Zero
  /\ acked = Zero /\ faulted = Zero
  /\ faults = 0

-----------------------------------------------------------------------------
(* The queue                                                               *)

\* The saga's outbox delivers the message, at least once and always under
\* the identifier it was built with.
Send(m) ==
  /\ sent[m] < MaxCopies
  /\ sent' = Bump(sent, m)
  /\ waiting' = Bump(waiting, m)
  /\ UNCHANGED <<work, inbox, scheduled, acked, faulted, faults>>

\* Mutation of Receive: the copy is taken without looking.
ReceiveUnchecked(k, m) ==
  /\ work[k] = Free
  /\ waiting' = [waiting EXCEPT ![m] = @ - 1]
  /\ work' = [work EXCEPT ![k] = [at |-> "received", msg |-> m]]
  /\ UNCHANGED <<sent, inbox, scheduled, acked, faulted, faults>>

Receive(k, m) ==
  /\ work[k] = Free
  /\ waiting[m] > 0
  /\ waiting' = [waiting EXCEPT ![m] = @ - 1]
  /\ work' = [work EXCEPT ![k] = [at |-> "received", msg |-> m]]
  /\ UNCHANGED <<sent, inbox, scheduled, acked, faulted, faults>>

-----------------------------------------------------------------------------
(* Consume                                                                 *)

Moves(k, step) == work' = [work EXCEPT ![k] = [at |-> step, msg |-> work[k].msg]]

\* Mutation of LookUp: a row ends the handler, as if it proved that the
\* message was handled.
LookUpAndSkip(k) ==
  /\ work[k].at = "received"
  /\ IF work[k].msg \in inbox
       THEN /\ work' = [work EXCEPT ![k] = Free]
            /\ acked' = Bump(acked, work[k].msg)
       ELSE Moves(k, "absent") /\ UNCHANGED acked
  /\ UNCHANGED <<queue, inbox, scheduled, faulted, faults>>

\* AnyAsync: does the message have a row?
LookUp(k) ==
  /\ work[k].at = "received"
  /\ Moves(k, IF work[k].msg \in inbox THEN "stored" ELSE "absent")
  /\ UNCHANGED <<queue, inbox, scheduled, acked, faulted, faults>>

\* The row is inserted in a save of its own.
InsertRow(k) ==
  /\ work[k].at = "absent"
  /\ work[k].msg \notin inbox
  /\ inbox' = inbox \union {work[k].msg}
  /\ Moves(k, "stored")
  /\ UNCHANGED <<queue, scheduled, acked, faulted, faults>>

MoveToError(k) ==
  /\ faulted' = Bump(faulted, work[k].msg)
  /\ work' = [work EXCEPT ![k] = Free]

\* Mutations of InsertRefused: the insert is tried again for ever; a handler that
\* has inserted its row is refused as well, for instance because it inserts it
\* again inside the transaction.
RetryInsert(k) ==
  /\ work[k].at = "absent"
  /\ work[k].msg \in inbox
  /\ UNCHANGED vars

RefuseFound(k) ==
  /\ work[k].at \in {"absent", "stored"}
  /\ work[k].msg \in inbox
  /\ MoveToError(k)
  /\ UNCHANGED <<queue, inbox, scheduled, acked, faults>>

\* Another copy inserted the row since the look-up: the primary key refuses.
InsertRefused(k) ==
  /\ work[k].at = "absent"
  /\ work[k].msg \in inbox
  /\ MoveToError(k)
  /\ UNCHANGED <<queue, inbox, scheduled, acked, faults>>

\* EnqueueAsync with a new Guid, committed at once by the other DbContext.
Schedule(k) ==
  /\ work[k].at = "stored"
  /\ scheduled' = Bump(scheduled, work[k].msg)
  /\ Moves(k, "scheduled")
  /\ UNCHANGED <<queue, inbox, acked, faulted, faults>>

\* The finally block commits a transaction without writes; the copy leaves
\* the queue.
Finish(k) ==
  /\ work[k].at = "scheduled"
  /\ acked' = Bump(acked, work[k].msg)
  /\ work' = [work EXCEPT ![k] = Free]
  /\ UNCHANGED <<queue, inbox, scheduled, faulted, faults>>

-----------------------------------------------------------------------------
(* Failures                                                                *)

Fault ==
  /\ faults < MaxFaults
  /\ faults' = faults + 1

\* A database call throws.  An insert may have been committed nevertheless.
CallFails(k) ==
  /\ work[k] # Free
  /\ Fault
  /\ MoveToError(k)
  /\ \/ UNCHANGED <<inbox, scheduled>>
     \/ /\ work[k].at = "absent"
        /\ inbox' = inbox \union {work[k].msg}
        /\ UNCHANGED scheduled
     \/ /\ work[k].at = "stored"
        /\ scheduled' = Bump(scheduled, work[k].msg)
        /\ UNCHANGED inbox
  /\ UNCHANGED <<queue, acked>>

Busy(m) == {k \in Consumers : work[k].at # "idle" /\ work[k].msg = m}

\* The process dies and starts again; the broker queues again what was not
\* acknowledged.  The two tables are not seeded.
Restart ==
  /\ Fault
  /\ waiting' = [m \in Messages |-> waiting[m] + Cardinality(Busy(m))]
  /\ work' = [k \in Consumers |-> Free]
  /\ UNCHANGED <<sent, inbox, scheduled, acked, faulted>>

-----------------------------------------------------------------------------
Consume(k) ==
  \/ LookUp(k)
  \/ InsertRow(k)
  \/ InsertRefused(k)
  \/ Schedule(k)
  \/ Finish(k)

ConsumerStep(k) == Consume(k) \/ \E m \in Messages : Receive(k, m)

Next ==
  \/ \E m \in Messages : Send(m)
  \/ \E k \in Consumers : ConsumerStep(k) \/ CallFails(k)
  \/ Restart

Spec == Init /\ [][Next]_vars

\* The endpoint takes what waits and no call in Consume blocks forever.
Fairness == \A k \in Consumers : WF_vars(ConsumerStep(k))

FairSpec == Spec /\ Fairness

-----------------------------------------------------------------------------
(* Properties                                                              *)

\* The insert race refuses a copy only in favour of another one, which has
\* the row and goes on: while nothing fails, some copy is always handled.
RefusedHasTwin ==
  \A m \in Messages : faults = 0 /\ faulted[m] > 0 =>
    \/ acked[m] > 0
    \/ \E k \in Busy(m) : work[k].at \in {"stored", "scheduled"}

Ended(m) == acked[m] + faulted[m]

\* Every copy ends, acknowledged or in the error queue for an operator: as many
\* as were sent, those that lost the insert race or were queued again included.
EveryCopyEnds ==
  \A m \in Messages, n \in 1..MaxCopies : sent[m] >= n ~> Ended(m) >= n

-----------------------------------------------------------------------------
(* The inbox delivers like an outbox: at least once.                       *)

Accepted == {m \in Messages : sent[m] > 0}
Delivered == {m \in Messages : scheduled[m] > 0}
Retired == {m \in Messages : acked[m] > 0}

Delivery == INSTANCE OrderDelivery
  WITH Orders <- Messages, accepted <- Accepted, delivered <- Delivered, retired <- Retired

\* A message becomes a command only after it was sent and is dropped only
\* after it became one.
ImplementsDelivery == Delivery!Spec
=============================================================================
