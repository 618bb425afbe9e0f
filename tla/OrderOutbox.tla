----------------------------- MODULE OrderOutbox -----------------------------
(***************************************************************************)
(* The transactional outbox of the Order API.                              *)
(*                                                                         *)
(* CreateOrderCommandHandler builds an order, whose constructor registers  *)
(* an OrderCreatedDomainEvent, and saves it: SaveEntitiesAsync turns the   *)
(* event into an OutboxMessage row and stores order and row in one         *)
(* transaction.  Every ten seconds ProcessOutboxJob reads the rows that    *)
(* are not processed, sends them one by one to create-order-message-queue, *)
(* marks each in memory and stores all marks in one SaveChanges at the     *)
(* end.  A failure between a send and that save leaves sent rows unmarked. *)
(*                                                                         *)
(* A relay is the Quartz scheduler of one OrderApi process: the job is     *)
(* [DisallowConcurrentExecution], so one relay runs one batch at a time,   *)
(* but the job store is in memory and two processes do not see each other. *)
(***************************************************************************)
EXTENDS Integers

CONSTANTS
  Orders,     \* identifiers of the orders customers ask for
  Relays,     \* OrderApi processes, each running ProcessOutboxJob
  Times,      \* values of DateTime.UtcNow; clocks may tie and may go back
  MaxFaults   \* bound: failed sends, failed saves and crashes of one relay

ASSUME TimesAssumption == Times \subseteq Nat \ {0}
ASSUME MaxFaultsAssumption == MaxFaults \in Nat

VARIABLES
  request,    \* request[o]: how far CreateOrderCommandHandler is with o
  occurredOn, \* occurredOn[o]: DateOccurred of o's OrderCreatedDomainEvent
  outbox,     \* outbox[o]: the row of o in the OutboxMessages table
  relay,      \* relay[r]: local state of r's ProcessOutboxCommandHandler
  sends,      \* sends[r][o]: how often r handed o's message to the broker
  faults      \* faults[r]: how often a batch of r was cut short

vars == <<request, occurredOn, outbox, relay, sends, faults>>

RequestState == {"none", "built", "saved", "failed"}

Idle == [running |-> FALSE, todo |-> {}, marked |-> {}]

TypeOK ==
  /\ request \in [Orders -> RequestState]
  /\ occurredOn \in [Orders -> Times \union {0}]
  /\ outbox \in [Orders -> {"absent", "pending", "processed"}]
  /\ relay \in [Relays -> [running : BOOLEAN, todo : SUBSET Orders, marked : SUBSET Orders]]
  /\ sends \in [Relays -> [Orders -> Nat]]
  /\ faults \in [Relays -> Nat]

Init ==
  /\ request = [o \in Orders |-> "none"]
  /\ occurredOn = [o \in Orders |-> 0]
  /\ outbox = [o \in Orders |-> "absent"]
  /\ relay = [r \in Relays |-> Idle]
  /\ sends = [r \in Relays |-> [o \in Orders |-> 0]]
  /\ faults = [r \in Relays |-> 0]

-----------------------------------------------------------------------------
(* The request side: CreateOrderCommandHandler                             *)

\* Order.CreateOrder: the event takes the time of its construction, which
\* precedes the commit of the row and may follow the commit of others.
CreateOrder(o) ==
  /\ request[o] = "none"
  /\ request' = [request EXCEPT ![o] = "built"]
  /\ \E now \in Times : occurredOn' = [occurredOn EXCEPT ![o] = now]
  /\ UNCHANGED <<outbox, relay, sends, faults>>

\* SaveOrder: the Orders row and the OutboxMessages row in one SaveChanges.
SaveOrder(o) ==
  /\ request[o] = "built"
  /\ request' = [request EXCEPT ![o] = "saved"]
  /\ outbox' = [outbox EXCEPT ![o] = "pending"]
  /\ UNCHANGED <<occurredOn, relay, sends, faults>>

\* Mutation of RequestFails: the row has a transaction of its own, which stays.
RequestFailsKeepingRow(o) ==
  /\ request[o] = "built"
  /\ request' = [request EXCEPT ![o] = "failed"]
  /\ outbox' = [outbox EXCEPT ![o] = "pending"]
  /\ UNCHANGED <<occurredOn, relay, sends, faults>>

\* A validation error of an item, a database exception or the death of the
\* process: nothing is stored and the event dies with the order object.
RequestFails(o) ==
  /\ request[o] = "built"
  /\ request' = [request EXCEPT ![o] = "failed"]
  /\ UNCHANGED <<occurredOn, outbox, relay, sends, faults>>

-----------------------------------------------------------------------------
(* The relay side: ProcessOutboxCommandHandler                             *)

\* Mutation of Pending: the query reads what is newer than all processed rows.
NewerThanProcessed ==
  {o \in Orders :
     /\ outbox[o] = "pending"
     /\ \A p \in Orders : outbox[p] = "processed" => occurredOn[p] < occurredOn[o]}

Pending == {o \in Orders : outbox[o] = "pending"}

\* The query: rows without ProcessedDate.  An empty result ends the run.
ReadBatch(r) ==
  /\ ~relay[r].running
  /\ Pending # {}
  /\ relay' = [relay EXCEPT ![r] = [running |-> TRUE, todo |-> Pending, marked |-> {}]]
  /\ UNCHANGED <<request, occurredOn, outbox, sends, faults>>

\* Mutation of Oldest: ORDER BY is dropped.
AnyRow(o, rows) == o \in rows

\* The query is ordered by OccurredOn, so the loop takes the oldest row left.
Oldest(o, rows) == o \in rows /\ \A p \in rows : occurredOn[o] <= occurredOn[p]

\* One turn of the loop: Send returns, the updated row is attached in memory.
SendNext(r, o) ==
  /\ relay[r].running
  /\ Oldest(o, relay[r].todo)
  /\ sends' = [sends EXCEPT ![r][o] = @ + 1]
  /\ relay' = [relay EXCEPT ![r] = [running |-> TRUE,
                                     todo |-> relay[r].todo \ {o},
                                     marked |-> relay[r].marked \union {o}]]
  /\ UNCHANGED <<request, occurredOn, outbox, faults>>

\* Mutations of Mark: the new row is never attached; only attached rows remain.
MarkNothing(rows) == outbox

MarkAndPurge(rows) == [o \in rows |-> "processed"]

\* Storing the attached rows: a plain UPDATE, whatever the row says by now.
Mark(rows) == [o \in Orders |-> IF o \in rows THEN "processed" ELSE outbox[o]]

SaveMarks(r) ==
  /\ relay[r].running
  /\ relay[r].todo = {}
  /\ outbox' = Mark(relay[r].marked)
  /\ relay' = [relay EXCEPT ![r] = Idle]
  /\ UNCHANGED <<request, occurredOn, sends, faults>>

Fault(r) ==
  /\ relay[r].running
  /\ faults[r] < MaxFaults
  /\ faults' = [faults EXCEPT ![r] = @ + 1]
  /\ relay' = [relay EXCEPT ![r] = Idle]
  /\ UNCHANGED <<request, occurredOn>>

\* Mutation of SendFails: the row is marked before Send, and a finally block
\* saves the marks.
SendFailsSavingMarks(r, o) ==
  /\ Oldest(o, relay[r].todo)
  /\ Fault(r)
  /\ outbox' = Mark(relay[r].marked \union {o})
  /\ UNCHANGED sends

\* Send throws and the exception is rethrown: the marks of the whole batch
\* are dropped with the scope.  The broker may have taken the message.
SendFails(r, o) ==
  /\ Oldest(o, relay[r].todo)
  /\ Fault(r)
  /\ \/ UNCHANGED sends
     \/ sends' = [sends EXCEPT ![r][o] = @ + 1]
  /\ UNCHANGED outbox

\* The final SaveChanges throws.  The database may have committed it.
SaveMarksFails(r) ==
  /\ relay[r].todo = {}
  /\ Fault(r)
  /\ \/ UNCHANGED outbox
     \/ outbox' = Mark(relay[r].marked)
  /\ UNCHANGED sends

\* The process dies anywhere in the batch and is restarted.
CrashRelay(r) ==
  /\ Fault(r)
  /\ UNCHANGED <<outbox, sends>>

-----------------------------------------------------------------------------
Request(o) == CreateOrder(o) \/ SaveOrder(o) \/ RequestFails(o)

RelayStep(r) ==
  \/ ReadBatch(r)
  \/ \E o \in Orders : SendNext(r, o)
  \/ SaveMarks(r)

RelayFault(r) ==
  \/ \E o \in Orders : SendFails(r, o)
  \/ SaveMarksFails(r)
  \/ CrashRelay(r)

Next ==
  \/ \E o \in Orders : Request(o)
  \/ \E r \in Relays : RelayStep(r) \/ RelayFault(r)

Spec == Init /\ [][Next]_vars

\* The trigger repeats forever and a batch that is not cut short goes on.
Fairness == \A r \in Relays : WF_vars(RelayStep(r))

FairSpec == Spec /\ Fairness

-----------------------------------------------------------------------------
(* Properties                                                              *)

Sent(o) == \E r \in Relays : sends[r][o] > 0

\* A row is marked processed only after its message reached the broker, by
\* whatever interleaving of sends, failed saves, crashes and second relays:
\* otherwise the order is accepted and no saga ever hears of it.
ProcessedWasSent == \A o \in Orders : outbox[o] = "processed" => Sent(o)

\* The only source of duplicates on one relay is a batch that was cut short:
\* a relay sends a message at most once more than its batches failed, no
\* matter what other relays do.
SendsBounded ==
  \A r \in Relays, o \in Orders : sends[r][o] <= faults[r] + 1

\* Inside one batch messages leave in the order their events occurred: the
\* rows still to send are not older than any row already sent.
BatchInOrder ==
  \A r \in Relays : \A o \in relay[r].marked, p \in relay[r].todo :
    occurredOn[o] <= occurredOn[p]

SingleRelay == \A r, q \in Relays : r = q

\* With one relay a row that is marked processed is never sent again: its
\* batches cannot be stale, since nobody else marks rows.
NoSendOfProcessed ==
  [][SingleRelay =>
       \A r \in Relays, o \in Orders :
         sends'[r][o] > sends[r][o] => outbox[o] = "pending"]_vars

\* An order that was stored is eventually marked, hence sent, although
\* batches may be cut short anywhere: the job re-reads what is unmarked.
EventuallyProcessed ==
  \A o \in Orders : request[o] = "saved" ~> outbox[o] = "processed"

-----------------------------------------------------------------------------
(* The outbox implements at-least-once delivery.                           *)

Accepted == {o \in Orders : request[o] = "saved"}
Delivered == {o \in Orders : Sent(o)}
Retired == {o \in Orders : outbox[o] = "processed"}

Delivery == INSTANCE OrderDelivery
  WITH accepted <- Accepted, delivered <- Delivered, retired <- Retired

\* Every behaviour of the two tables and the job is a behaviour of the
\* abstract delivery, its liveness included.
ImplementsDelivery == Delivery!FairSpec
=============================================================================
