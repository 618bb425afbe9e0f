------------------------ MODULE InternalCommandsProofs ------------------------
(***************************************************************************)
(* Safety of the stored commands for any orders, customers, commands,      *)
(* processes, fulfilment requests and failures.  The invariant follows     *)
(* what a run of the job holds in its DbContext: tracked copies belong to  *)
(* customers who paid, what was saved is approved, and an outcome that is  *)
(* not stored yet is already true of the table.                            *)
(***************************************************************************)
EXTENDS InternalCommands, TLAPS

Busy(j) == job[j] # Idle

\* A payment came from the customer of o.
Paid(o) == \E c \in Commands : command[c] # "none" /\ payer[c] = Customer[o]

\* Reached by no write of a handler that would take it back to Pending.
Settled(o) == status[o] \in {"Approved", "Fulfilled"}

ApprovedOrdersPaid == \A o \in Orders : status[o] = "Approved" => o \notin Cancelled /\ Paid(o)

\* The orders a command is due for are orders of its customer in the table.
DueIsFound ==
  \A c \in Commands : \A o \in due[c] : status[o] # "absent" /\ Customer[o] = payer[c]

\* A batch consists of stored commands.
BatchIsStored(j) ==
  \A c \in job[j].todo \union {job[j].cmd} \union job[j].done : command[c] # "none"

\* Modified copies are orders their customer paid for, and none is cancelled.
TrackedPaid(j) == \A o \in job[j].modified : o \notin Cancelled /\ Paid(o)

\* An unchanged copy is one that was saved.
TrackedSaved(j) == \A o \in job[j].unchanged : Settled(o)

\* An attempt about to save tracks every order its command is due for.
AttachedAll(j) ==
  job[j].at = "attached" => due[job[j].cmd] \subseteq job[j].modified \union job[j].unchanged

\* An outcome is set after the orders were written.
DoneIsWritten(j) == \A c \in job[j].done : \A o \in due[c] : Settled(o)

\* What the tables say, and what the batches in memory say of the tables.
TableOK == ApprovedOrdersPaid /\ DueIsFound /\ PaidOrdersApproved

BatchOK(j) ==
  /\ BatchIsStored(j)
  /\ TrackedPaid(j)
  /\ TrackedSaved(j)
  /\ AttachedAll(j)
  /\ DoneIsWritten(j)

MemoryOK == \A j \in Jobs : Busy(j) => BatchOK(j)

IInv == TypeOK /\ TableOK /\ MemoryOK

\* No step takes back what a table says of an order or a command.
StoreGrows ==
  /\ \A o \in Orders : Settled(o) => Settled(o)'
  /\ \A o \in Orders : status[o] # "absent" => status'[o] # "absent"
  /\ \A c \in Commands : command[c] # "none" =>
       command'[c] # "none" /\ payer'[c] = payer[c] /\ due'[c] = due[c]

-----------------------------------------------------------------------------
(* Type correctness                                                        *)

LEMMA IdleIsNoBatch == Idle \notin Batch /\ Idle.at = "idle"
BY DEF Idle, Batch

LEMMA BusyIsBatch ==
  ASSUME TypeOK, NEW j \in Jobs, job[j].at # "idle"
  PROVE  job[j] \in Batch /\ Busy(j)
BY IdleIsNoBatch DEF TypeOK, Busy

LEMMA AttachType ==
  ASSUME TypeOK, NEW j \in Jobs, job[j] \in Batch, NEW S \in SUBSET Orders
  PROVE  Attach(j, S) \in SUBSET Orders
BY DEF Attach, Batch

LEMMA OrdersOfType == ASSUME NEW customer PROVE OrdersOf(customer) \in SUBSET Orders
BY DEF OrdersOf

LEMMA FoundType == ASSUME NEW j \in Jobs PROVE Found(j) \in SUBSET Orders
BY OrdersOfType DEF Found

LEMMA AttemptFailsType ==
  ASSUME TypeOK, NEW j \in Jobs, job[j] \in Batch, NEW S \in SUBSET Orders, AttemptFails(j, S)
  PROVE  job' \in [Jobs -> Batch \union {Idle}]
<1>1. CASE job[j].attempt < Attempts
  <2> DEFINE b == [job[j] EXCEPT !.at = "attempting", !.attempt = @ + 1, !.modified = S]
  <2>1. job[j].attempt \in 1..Attempts
    BY DEF Batch
  <2>2. job[j].attempt + 1 \in 1..Attempts
    BY <1>1, <2>1 DEF Attempts
  <2>3. b \in Batch
    BY <2>2 DEF Batch
  <2>4. job' = [job EXCEPT ![j] = b]
    BY <1>1 DEF AttemptFails, TypeOK
  <2> QED BY <2>3, <2>4 DEF TypeOK
<1>2. CASE ~(job[j].attempt < Attempts)
  <2> DEFINE b == [job[j] EXCEPT !.at = "ready", !.modified = S,
                                 !.failed = @ \union {job[j].cmd}]
  <2>1. b \in Batch
    BY DEF Batch
  <2>2. job' = [job EXCEPT ![j] = b]
    BY <1>2 DEF AttemptFails, TypeOK
  <2> QED BY <2>1, <2>2 DEF TypeOK
<1> QED BY <1>1, <1>2

LEMMA WriteAllType ==
  ASSUME TypeOK, NEW j \in Jobs, WriteAll(j)
  PROVE  status' \in [Orders -> Status]
         /\ command' \in [Commands -> {"none", "pending"} \union Outcome]
BY DEF TypeOK, WriteAll, Status, Outcome

LEMMA TypeStep == TypeOK /\ [Next]_vars => TypeOK'
<1> SUFFICES ASSUME TypeOK, [Next]_vars PROVE TypeOK'
  OBVIOUS
<1>1. ASSUME NEW o \in Orders, PlaceOrder(o) PROVE TypeOK'
  BY <1>1 DEF PlaceOrder, TypeOK, Status
<1>2. ASSUME NEW c \in Commands, NEW customer \in Customers, Enqueue(c, customer) PROVE TypeOK'
  BY <1>2, OrdersOfType DEF Enqueue, TypeOK
<1>3. ASSUME NEW j \in Jobs, ReadBatch(j) PROVE TypeOK'
  <2>1. PICK c \in Unprocessed :
          job' = [job EXCEPT ![j] =
            [at |-> "attempting", todo |-> Unprocessed \ {c}, cmd |-> c, attempt |-> 1,
             modified |-> {}, unchanged |-> {}, done |-> {}, failed |-> {}]]
    BY <1>3 DEF ReadBatch
  <2>2. [at |-> "attempting", todo |-> Unprocessed \ {c}, cmd |-> c, attempt |-> 1,
         modified |-> {}, unchanged |-> {}, done |-> {}, failed |-> {}] \in Batch
    BY DEF Batch, Unprocessed, Attempts
  <2> QED BY <1>3, <2>1, <2>2 DEF ReadBatch, TypeOK
<1>4. ASSUME NEW j \in Jobs, NEW c \in Commands, TakeNext(j, c) PROVE TypeOK'
  <2> DEFINE b == [job[j] EXCEPT !.at = "attempting", !.todo = @ \ {c},
                                 !.cmd = c, !.attempt = 1]
  <2>1. job[j] \in Batch
    BY <1>4, BusyIsBatch DEF TakeNext
  <2>2. 1 \in 1..Attempts
    BY DEF Attempts
  <2>3. b \in Batch
    BY <2>1, <2>2 DEF Batch
  <2>4. job' = [job EXCEPT ![j] = b]
    BY <1>4 DEF TakeNext, TypeOK
  <2> QED BY <1>4, <2>3, <2>4 DEF TakeNext, TypeOK
<1>5. ASSUME NEW j \in Jobs, Approve(j) PROVE TypeOK'
  <2> DEFINE b == [job[j] EXCEPT !.at = "attached", !.modified = Attach(j, Found(j))]
  <2>1. job[j] \in Batch
    BY <1>5, BusyIsBatch DEF Approve
  <2>2. Attach(j, Found(j)) \in SUBSET Orders
    BY <2>1, AttachType, FoundType
  <2>3. b \in Batch
    BY <2>1, <2>2 DEF Batch
  <2>4. job' = [job EXCEPT ![j] = b]
    BY <1>5 DEF Approve, TypeOK
  <2> QED BY <1>5, <2>3, <2>4 DEF Approve, TypeOK
<1>6. ASSUME NEW j \in Jobs, ApproveRefused(j) PROVE TypeOK'
  <2>1. job[j] \in Batch
    BY <1>6, BusyIsBatch DEF ApproveRefused
  <2>2. PICK before \in SUBSET (Found(j) \ Cancelled) : AttemptFails(j, Attach(j, before))
    BY <1>6 DEF ApproveRefused
  <2>3. before \in SUBSET Orders
    BY FoundType
  <2>4. job' \in [Jobs -> Batch \union {Idle}]
    BY <2>1, <2>2, <2>3, AttachType, AttemptFailsType
  <2> QED BY <1>6, <2>4 DEF ApproveRefused, TypeOK
<1>7. ASSUME NEW j \in Jobs, SaveAttempt(j) PROVE TypeOK'
  <2> DEFINE b == [at |-> "ready", todo |-> job[j].todo, cmd |-> job[j].cmd,
                   attempt |-> job[j].attempt, modified |-> {},
                   unchanged |-> job[j].unchanged \union job[j].modified,
                   done |-> {job[j].cmd}, failed |-> {}]
  <2>1. job[j] \in Batch
    BY <1>7, BusyIsBatch DEF SaveAttempt
  <2>2. b \in Batch
    BY <2>1 DEF Batch
  <2>3. job' = [job EXCEPT ![j] = b]
    BY <1>7 DEF SaveAttempt
  <2> QED BY <1>7, <2>2, <2>3, WriteAllType DEF SaveAttempt, TypeOK
<1>8. ASSUME NEW j \in Jobs, SaveBatch(j) PROVE TypeOK'
  BY <1>8, WriteAllType DEF SaveBatch, TypeOK
<1>9. ASSUME NEW j \in Jobs, AttemptThrows(j) PROVE TypeOK'
  <2>1. job[j] \in Batch
    BY <1>9, BusyIsBatch DEF AttemptThrows
  <2>2. job' \in [Jobs -> Batch \union {Idle}]
    BY <1>9, <2>1, AttemptFailsType DEF AttemptThrows, Batch
  <2>3. status' \in [Orders -> Status]
        /\ command' \in [Commands -> {"none", "pending"} \union Outcome]
    BY <1>9, WriteAllType DEF AttemptThrows, TypeOK
  <2> QED BY <1>9, <2>2, <2>3 DEF AttemptThrows, Fault, TypeOK
<1>10. ASSUME NEW j \in Jobs, SaveBatchFails(j) PROVE TypeOK'
  BY <1>10, WriteAllType DEF SaveBatchFails, Fault, TypeOK
<1>11. ASSUME NEW j \in Jobs, Crash(j) PROVE TypeOK'
  BY <1>11 DEF Crash, Fault, TypeOK
<1>12. ASSUME NEW h \in Requests, Fulfilment(h) PROVE TypeOK'
  <2> USE DEF TypeOK, Status
  <2>1. ASSUME NEW o \in Orders, ReadForFulfilment(h, o) PROVE TypeOK'
    BY <2>1 DEF ReadForFulfilment
  <2>2. CASE MailFulfilment(h)
    BY <2>2 DEF MailFulfilment
  <2>3. CASE SaveFulfilment(h)
    BY <2>3 DEF SaveFulfilment
  <2>4. CASE FulfilmentFails(h)
    <3>1. fulfil[h] \in [at : {"new", "read", "mailed", "saved", "failed"},
                         order : Orders]
      BY <2>4 DEF FulfilmentFails
    <3> QED BY <2>4, <3>1 DEF FulfilmentFails, Fault
  <2> QED BY <1>12, <2>1, <2>2, <2>3, <2>4 DEF Fulfilment
<1>13. CASE UNCHANGED vars
  BY <1>13 DEF vars, TypeOK
<1> QED
  BY <1>1, <1>2, <1>3, <1>4, <1>5, <1>6, <1>7, <1>8, <1>9, <1>10, <1>11, <1>12, <1>13
  DEF Next, JobStep, JobFault

LEMMA TypeInit == Init => TypeOK
BY DEF Init, TypeOK, Status, Outcome

\* Every variable keeps its type.
THEOREM TypeCorrect == Spec => []TypeOK
<1> QED BY TypeInit, TypeStep, PTL DEF Spec

-----------------------------------------------------------------------------
(* The invariant                                                           *)

LEMMA PaidStays ==
  ASSUME TypeOK, StoreGrows, NEW o \in Orders, Paid(o)
  PROVE  Paid(o)'
BY DEF Paid, StoreGrows

\* A batch that did not move keeps its facts while the tables grow.
LEMMA OtherBatch ==
  ASSUME TypeOK, StoreGrows, NEW k \in Jobs, job[k] \in Batch, BatchOK(k), job'[k] = job[k]
  PROVE  BatchOK(k)'
<1> USE DEF BatchOK, Batch, TypeOK
<1>1. BatchIsStored(k)'
  BY DEF BatchIsStored, StoreGrows
<1>2. TrackedPaid(k)'
  BY PaidStays DEF TrackedPaid
<1>3. TrackedSaved(k)'
  BY DEF TrackedSaved, StoreGrows
<1>4. AttachedAll(k)'
  BY DEF AttachedAll, StoreGrows, BatchIsStored
<1>5. DoneIsWritten(k)'
  <2> SUFFICES ASSUME NEW c \in job[k].done, NEW o \in due'[c] PROVE Settled(o)'
    BY DEF DoneIsWritten
  <2>1. c \in Commands /\ due'[c] = due[c]
    BY DEF StoreGrows, BatchIsStored
  <2>2. o \in Orders /\ Settled(o)
    BY <2>1 DEF DoneIsWritten
  <2> QED BY <2>2 DEF StoreGrows
<1> QED BY <1>1, <1>2, <1>3, <1>4, <1>5

\* So do all batches but one.
LEMMA OneBatchMoves ==
  ASSUME TypeOK, MemoryOK, StoreGrows, NEW j \in Jobs, Busy(j)' => BatchOK(j)',
         \A k \in Jobs \ {j} : job'[k] = job[k]
  PROVE  MemoryOK'
<1> SUFFICES ASSUME NEW k \in Jobs, Busy(k)' PROVE BatchOK(k)'
  BY DEF MemoryOK
<1>1. CASE k = j
  BY <1>1
<1>2. CASE k # j
  <2>1. job'[k] = job[k] /\ Busy(k)
    BY <1>2 DEF Busy
  <2>2. job[k] \in Batch /\ BatchOK(k)
    BY <2>1 DEF MemoryOK, Busy, TypeOK
  <2> QED BY <2>1, <2>2, OtherBatch
<1> QED BY <1>1, <1>2

LEMMA NoBatchMoves ==
  ASSUME TypeOK, MemoryOK, StoreGrows, UNCHANGED job
  PROVE  MemoryOK'
<1> SUFFICES ASSUME NEW k \in Jobs, Busy(k)' PROVE BatchOK(k)'
  BY DEF MemoryOK
<1>1. job[k] \in Batch /\ BatchOK(k) /\ job'[k] = job[k]
  BY DEF MemoryOK, Busy, TypeOK
<1> QED BY <1>1, OtherBatch

LEMMA TablesUnchanged ==
  ASSUME TableOK, UNCHANGED <<status, command, payer, due>>
  PROVE  TableOK' /\ StoreGrows
BY DEF TableOK, ApprovedOrdersPaid, DueIsFound, PaidOrdersApproved, StoreGrows, Paid, Settled

\* A save with what a batch tracks and has decided.
LEMMA WriteAllGrows ==
  ASSUME TypeOK, NEW j \in Jobs, WriteAll(j), UNCHANGED <<payer, due>>
  PROVE  StoreGrows
BY DEF StoreGrows, WriteAll, TypeOK, Settled

LEMMA WriteAllKeeps ==
  ASSUME TypeOK, TableOK, NEW j \in Jobs, job[j] \in Batch, BatchOK(j),
         WriteAll(j), UNCHANGED <<payer, due>>
  PROVE  TableOK'
<1> StoreGrows
  BY WriteAllGrows
<1>1. ApprovedOrdersPaid'
  <2> SUFFICES ASSUME NEW o \in Orders, status'[o] = "Approved"
               PROVE  o \notin Cancelled /\ Paid(o)'
    BY DEF ApprovedOrdersPaid
  <2>1. o \in job[j].modified \/ status[o] = "Approved"
    BY DEF WriteAll
  <2>2. o \notin Cancelled /\ Paid(o)
    BY <2>1 DEF BatchOK, TrackedPaid, TableOK, ApprovedOrdersPaid
  <2> QED BY <2>2, PaidStays
<1>2. DueIsFound'
  BY DEF DueIsFound, TableOK, StoreGrows, TypeOK
<1>3. PaidOrdersApproved'
  <2> SUFFICES ASSUME NEW c \in Commands, command'[c] = "done", NEW o \in due[c]
               PROVE  Settled(o)'
    BY DEF PaidOrdersApproved, Settled
  <2>1. c \in job[j].done \/ command[c] = "done"
    BY DEF WriteAll
  <2>2. Settled(o)
    BY <2>1 DEF BatchOK, DoneIsWritten, TableOK, PaidOrdersApproved, Settled
  <2> QED BY <2>2 DEF StoreGrows, TypeOK
<1> QED BY <1>1, <1>2, <1>3 DEF TableOK

\* An attempt that fails leaves copies of paid orders behind and nothing else.
LEMMA FailedAttemptKeeps ==
  ASSUME TypeOK, StoreGrows, NEW j \in Jobs, job[j] \in Batch, BatchOK(j),
         NEW S \in SUBSET Orders, \A o \in S : o \notin Cancelled /\ Paid(o),
         AttemptFails(j, S)
  PROVE  BatchOK(j)' /\ \A k \in Jobs \ {j} : job'[k] = job[k]
<1>1. /\ job'[j].todo = job[j].todo /\ job'[j].cmd = job[j].cmd
      /\ job'[j].done = job[j].done /\ job'[j].unchanged = job[j].unchanged
      /\ job'[j].modified = S /\ job'[j].at # "attached"
      /\ \A k \in Jobs \ {j} : job'[k] = job[k]
  BY DEF AttemptFails, TypeOK, Batch
<1>2. BatchIsStored(j)'
  BY <1>1 DEF BatchOK, BatchIsStored, StoreGrows, Batch
<1>3. TrackedPaid(j)'
  BY <1>1, PaidStays DEF TrackedPaid
<1>4. TrackedSaved(j)'
  BY <1>1 DEF BatchOK, TrackedSaved, StoreGrows, Batch
<1>5. AttachedAll(j)'
  BY <1>1 DEF AttachedAll
<1>6. DoneIsWritten(j)'
  <2> SUFFICES ASSUME NEW c \in job[j].done, NEW o \in due'[c] PROVE Settled(o)'
    BY <1>1 DEF DoneIsWritten
  <2>1. c \in Commands /\ due'[c] = due[c]
    BY DEF StoreGrows, BatchOK, BatchIsStored, Batch
  <2>2. o \in Orders /\ Settled(o)
    BY <2>1 DEF BatchOK, DoneIsWritten, TypeOK
  <2> QED BY <2>2 DEF StoreGrows
<1> QED BY <1>1, <1>2, <1>3, <1>4, <1>5, <1>6 DEF BatchOK

\* The payer of the command in work paid for what its attempt finds.
LEMMA FoundIsPaid ==
  ASSUME TypeOK, NEW j \in Jobs, job[j] \in Batch, BatchOK(j), NEW o \in Found(j)
  PROVE  o \in Orders /\ Paid(o)
<1>1. job[j].cmd \in Commands /\ command[job[j].cmd] # "none"
  BY DEF Batch, BatchOK, BatchIsStored
<1>2. o \in Orders /\ payer[job[j].cmd] = Customer[o]
  BY DEF Found, OrdersOf
<1> QED BY <1>1, <1>2 DEF Paid

\* Every step keeps what the tables and the batches say.
LEMMA StoreStep == IInv /\ [Next]_vars => TableOK' /\ MemoryOK'
<1> SUFFICES ASSUME IInv, [Next]_vars PROVE TableOK' /\ MemoryOK'
  OBVIOUS
<1> TypeOK /\ TableOK /\ MemoryOK
  BY DEF IInv
<1>1. ASSUME NEW o \in Orders, PlaceOrder(o) PROVE TableOK' /\ MemoryOK'
  <2>1. TableOK' /\ StoreGrows
    BY <1>1 DEF PlaceOrder, TableOK, ApprovedOrdersPaid, DueIsFound, PaidOrdersApproved,
                StoreGrows, Paid, Settled, TypeOK
  <2> QED BY <1>1, <2>1, NoBatchMoves DEF PlaceOrder
<1>2. ASSUME NEW c \in Commands, NEW customer \in Customers, Enqueue(c, customer)
      PROVE  TableOK' /\ MemoryOK'
  <2>1. StoreGrows
    BY <1>2 DEF Enqueue, StoreGrows, Settled, TypeOK
  <2>2. ApprovedOrdersPaid'
    BY <1>2, <2>1, PaidStays DEF Enqueue, TableOK, ApprovedOrdersPaid
  <2>3. DueIsFound'
    BY <1>2 DEF Enqueue, TableOK, DueIsFound, OrdersOf, TypeOK
  <2>4. PaidOrdersApproved'
    BY <1>2 DEF Enqueue, TableOK, PaidOrdersApproved, TypeOK
  <2>5. MemoryOK'
    BY <1>2, <2>1, NoBatchMoves DEF Enqueue
  <2> QED BY <2>2, <2>3, <2>4, <2>5 DEF TableOK
<1>3. ASSUME NEW j \in Jobs, ReadBatch(j) PROVE TableOK' /\ MemoryOK'
  <2>1. TableOK' /\ StoreGrows
    BY <1>3, TablesUnchanged DEF ReadBatch
  <2>2. BatchOK(j)' /\ \A k \in Jobs \ {j} : job'[k] = job[k]
    BY <1>3 DEF ReadBatch, Unprocessed, BatchOK, BatchIsStored, TrackedPaid, TrackedSaved,
                AttachedAll, DoneIsWritten, TypeOK
  <2> QED BY <2>1, <2>2, OneBatchMoves
<1>4. ASSUME NEW j \in Jobs, NEW c \in Commands, TakeNext(j, c) PROVE TableOK' /\ MemoryOK'
  <2>1. TableOK' /\ StoreGrows
    BY <1>4, TablesUnchanged DEF TakeNext
  <2>2. job[j] \in Batch /\ BatchOK(j)
    BY <1>4, BusyIsBatch DEF TakeNext, MemoryOK
  <2>3. /\ job'[j].todo = job[j].todo \ {c} /\ job'[j].cmd = c /\ job'[j].at = "attempting"
        /\ job'[j].done = job[j].done /\ job'[j].modified = job[j].modified
        /\ job'[j].unchanged = job[j].unchanged
        /\ \A k \in Jobs \ {j} : job'[k] = job[k]
    BY <1>4, <2>2 DEF TakeNext, TypeOK, Batch
  <2>4. BatchIsStored(j)'
    BY <1>4, <2>2, <2>3 DEF TakeNext, BatchOK, BatchIsStored
  <2>5. TrackedPaid(j)' /\ TrackedSaved(j)'
    BY <1>4, <2>2, <2>3 DEF TakeNext, BatchOK, TrackedPaid, TrackedSaved, Paid, Settled
  <2>6. AttachedAll(j)' /\ DoneIsWritten(j)'
    BY <1>4, <2>2, <2>3 DEF TakeNext, BatchOK, AttachedAll, DoneIsWritten, Settled
  <2> QED BY <2>1, <2>3, <2>4, <2>5, <2>6, OneBatchMoves DEF BatchOK
<1>5. ASSUME NEW j \in Jobs, Approve(j) PROVE TableOK' /\ MemoryOK'
  <2>1. TableOK' /\ StoreGrows
    BY <1>5, TablesUnchanged DEF Approve
  <2>2. job[j] \in Batch /\ BatchOK(j)
    BY <1>5, BusyIsBatch DEF Approve, MemoryOK
  <2>3. /\ job'[j].todo = job[j].todo /\ job'[j].cmd = job[j].cmd
        /\ job'[j].done = job[j].done /\ job'[j].unchanged = job[j].unchanged
        /\ job'[j].modified = job[j].modified \union (Found(j) \ job[j].unchanged)
        /\ \A k \in Jobs \ {j} : job'[k] = job[k]
    BY <1>5, <2>2 DEF Approve, Attach, TypeOK, Batch
  <2>4. TrackedPaid(j)'
    <3> SUFFICES ASSUME NEW o \in job'[j].modified PROVE o \notin Cancelled /\ Paid(o)'
      BY DEF TrackedPaid
    <3>1. CASE o \in job[j].modified
      BY <1>5, <2>2, <3>1 DEF BatchOK, TrackedPaid, Paid, Approve
    <3>2. CASE o \in Found(j)
      BY <1>5, <2>2, <3>2, FoundIsPaid DEF Paid, Approve
    <3> QED BY <2>3, <3>1, <3>2
  <2>5. AttachedAll(j)'
    <3>1. job[j].cmd \in Commands
      BY <2>2 DEF Batch
    <3>2. due[job[j].cmd] \subseteq Found(j)
      BY <3>1 DEF TableOK, DueIsFound, Found, OrdersOf, TypeOK
    <3> QED BY <1>5, <2>3, <3>2 DEF AttachedAll, Approve
  <2>6. BatchIsStored(j)' /\ TrackedSaved(j)' /\ DoneIsWritten(j)'
    BY <1>5, <2>2, <2>3 DEF Approve, BatchOK, BatchIsStored, TrackedSaved, DoneIsWritten, Settled
  <2> QED BY <2>1, <2>3, <2>4, <2>5, <2>6, OneBatchMoves DEF BatchOK
<1>6. ASSUME NEW j \in Jobs, ApproveRefused(j) PROVE TableOK' /\ MemoryOK'
  <2>1. TableOK' /\ StoreGrows
    BY <1>6, TablesUnchanged DEF ApproveRefused
  <2>2. job[j] \in Batch /\ BatchOK(j)
    BY <1>6, BusyIsBatch DEF ApproveRefused, MemoryOK
  <2>3. PICK before \in SUBSET (Found(j) \ Cancelled) : AttemptFails(j, Attach(j, before))
    BY <1>6 DEF ApproveRefused
  <2>4. Attach(j, before) \in SUBSET Orders
    BY <2>2, FoundType, AttachType
  <2>5. \A o \in Attach(j, before) : o \notin Cancelled /\ Paid(o)
    BY <2>2, FoundIsPaid DEF Attach, BatchOK, TrackedPaid
  <2>6. BatchOK(j)' /\ \A k \in Jobs \ {j} : job'[k] = job[k]
    BY <2>1, <2>2, <2>3, <2>4, <2>5, FailedAttemptKeeps
  <2> QED BY <2>1, <2>6, OneBatchMoves
<1>7. ASSUME NEW j \in Jobs, SaveAttempt(j) PROVE TableOK' /\ MemoryOK'
  <2>1. job[j] \in Batch /\ BatchOK(j) /\ job[j].at = "attached"
    BY <1>7, BusyIsBatch DEF SaveAttempt, MemoryOK
  <2>2. TableOK' /\ StoreGrows
    BY <1>7, <2>1, WriteAllGrows, WriteAllKeeps DEF SaveAttempt
  <2>3. /\ job'[j].todo = job[j].todo /\ job'[j].cmd = job[j].cmd
        /\ job'[j].done = {job[j].cmd} /\ job'[j].modified = {} /\ job'[j].at = "ready"
        /\ job'[j].unchanged = job[j].unchanged \union job[j].modified
        /\ \A k \in Jobs \ {j} : job'[k] = job[k]
    BY <1>7 DEF SaveAttempt, TypeOK
  <2>4. \A o \in job[j].unchanged \union job[j].modified : Settled(o)'
    <3>1. \A o \in job[j].unchanged : Settled(o)'
      BY <2>1, <2>2 DEF BatchOK, TrackedSaved, StoreGrows, Batch
    <3>2. \A o \in job[j].modified : Settled(o)'
      BY <1>7, <2>1 DEF SaveAttempt, WriteAll, Batch, Settled
    <3> QED BY <3>1, <3>2
  <2>5. TrackedSaved(j)'
    BY <2>3, <2>4 DEF TrackedSaved
  <2>6. DoneIsWritten(j)'
    BY <1>7, <2>1, <2>3, <2>4 DEF SaveAttempt, DoneIsWritten, BatchOK, AttachedAll
  <2>7. BatchIsStored(j)'
    BY <2>1, <2>2, <2>3 DEF BatchOK, BatchIsStored, StoreGrows, Batch
  <2>8. TrackedPaid(j)' /\ AttachedAll(j)'
    BY <2>3 DEF TrackedPaid, AttachedAll
  <2> QED BY <2>2, <2>3, <2>5, <2>6, <2>7, <2>8, OneBatchMoves DEF BatchOK
<1>8. ASSUME NEW j \in Jobs, SaveBatch(j) PROVE TableOK' /\ MemoryOK'
  <2>1. job[j] \in Batch /\ BatchOK(j)
    BY <1>8, BusyIsBatch DEF SaveBatch, MemoryOK
  <2>2. TableOK' /\ StoreGrows
    BY <1>8, <2>1, WriteAllGrows, WriteAllKeeps DEF SaveBatch
  <2>3. ~Busy(j)' /\ \A k \in Jobs \ {j} : job'[k] = job[k]
    BY <1>8 DEF SaveBatch, Busy, TypeOK
  <2> QED BY <2>2, <2>3, OneBatchMoves
<1>9. ASSUME NEW j \in Jobs, AttemptThrows(j) PROVE TableOK' /\ MemoryOK'
  <2>1. job[j] \in Batch /\ BatchOK(j)
    BY <1>9, BusyIsBatch DEF AttemptThrows, MemoryOK
  <2>2. TableOK' /\ StoreGrows
    BY <1>9, <2>1, TablesUnchanged, WriteAllGrows, WriteAllKeeps DEF AttemptThrows
  <2>3. job[j].modified \in SUBSET Orders /\ \A o \in job[j].modified : o \notin Cancelled /\ Paid(o)
    BY <2>1 DEF Batch, BatchOK, TrackedPaid
  <2>4. BatchOK(j)' /\ \A k \in Jobs \ {j} : job'[k] = job[k]
    BY <1>9, <2>1, <2>2, <2>3, FailedAttemptKeeps DEF AttemptThrows
  <2> QED BY <2>2, <2>4, OneBatchMoves
<1>10. ASSUME NEW j \in Jobs, SaveBatchFails(j) PROVE TableOK' /\ MemoryOK'
  <2>1. job[j] \in Batch /\ BatchOK(j)
    BY <1>10, BusyIsBatch DEF SaveBatchFails, MemoryOK
  <2>2. TableOK' /\ StoreGrows
    BY <1>10, <2>1, TablesUnchanged, WriteAllGrows, WriteAllKeeps DEF SaveBatchFails
  <2>3. ~Busy(j)' /\ \A k \in Jobs \ {j} : job'[k] = job[k]
    BY <1>10 DEF SaveBatchFails, Busy, TypeOK
  <2> QED BY <2>2, <2>3, OneBatchMoves
<1>11. ASSUME NEW j \in Jobs, Crash(j) PROVE TableOK' /\ MemoryOK'
  <2>1. TableOK' /\ StoreGrows
    BY <1>11, TablesUnchanged DEF Crash
  <2>2. ~Busy(j)' /\ \A k \in Jobs \ {j} : job'[k] = job[k]
    BY <1>11 DEF Crash, Busy, TypeOK
  <2> QED BY <2>1, <2>2, OneBatchMoves
<1>12. ASSUME NEW h \in Requests, Fulfilment(h) PROVE TableOK' /\ MemoryOK'
  <2>1. UNCHANGED <<command, payer, due, job>>
    BY <1>12 DEF Fulfilment, ReadForFulfilment, MailFulfilment, SaveFulfilment, FulfilmentFails
  <2>2. \A o \in Orders : status'[o] = status[o] \/ status'[o] = "Fulfilled"
    BY <1>12 DEF Fulfilment, ReadForFulfilment, MailFulfilment, SaveFulfilment, FulfilmentFails,
                 TypeOK
  <2>3. TableOK' /\ StoreGrows
    BY <2>1, <2>2 DEF TableOK, ApprovedOrdersPaid, DueIsFound, PaidOrdersApproved, StoreGrows,
                      Paid, Settled, TypeOK
  <2> QED BY <2>1, <2>3, NoBatchMoves
<1>13. CASE UNCHANGED vars
  <2>1. TableOK' /\ StoreGrows
    BY <1>13, TablesUnchanged DEF vars
  <2> QED BY <1>13, <2>1, NoBatchMoves DEF vars
<1> QED
  BY <1>1, <1>2, <1>3, <1>4, <1>5, <1>6, <1>7, <1>8, <1>9, <1>10, <1>11, <1>12, <1>13
  DEF Next, JobStep, JobFault

LEMMA IInvInit == Init => IInv
BY TypeInit
DEF Init, IInv, TableOK, ApprovedOrdersPaid, DueIsFound, PaidOrdersApproved, MemoryOK, Busy

\* A successful command has approved its customer's orders, and an order is
\* approved only for a customer who paid, whatever retries, crashes and
\* concurrent fulfilments did to the tracked copies.
THEOREM ApprovalsSafe == Spec => [](PaidOrdersApproved /\ ApprovedWasPaid)
<1>1. IInv /\ [Next]_vars => IInv'
  BY StoreStep, TypeStep DEF IInv
<1>2. IInv => PaidOrdersApproved /\ ApprovedWasPaid
  BY DEF IInv, TableOK, ApprovedOrdersPaid, ApprovedWasPaid, Paid
<1> QED BY IInvInit, <1>1, <1>2, PTL DEF Spec

\* Only customers who paid have approved orders, and never cancelled ones.
THEOREM ApprovalsPaid == Spec => []ApprovedWasPaid
BY ApprovalsSafe, PTL

-----------------------------------------------------------------------------
(* Outcomes                                                                *)

\* What batch b of the only process says of the table t of commands: those it
\* has not tried are pending, an outcome it set is not contradicted there.
Agrees(b, t) ==
  /\ \A c \in b.todo : t[c] = "pending" /\ c \notin b.done /\ c \notin b.failed
  /\ \A c \in b.done : t[c] \in {"pending", "done"}
  /\ \A c \in b.failed : t[c] \in {"pending", "failed"} /\ c \notin b.done
  /\ b.at # "ready" =>
       t[b.cmd] = "pending" /\ b.cmd \notin b.todo \union b.done \union b.failed

OutcomeInv == OneJob => \A j \in Jobs : job[j].at # "idle" => Agrees(job[j], command)

OutcomesKept == \A c \in Commands : command[c] \in Outcome => command'[c] = command[c]

LEMMA WriteAllKeepsOutcomes ==
  ASSUME TypeOK, NEW j \in Jobs, job[j] \in Batch, Agrees(job[j], command), WriteAll(j)
  PROVE  OutcomesKept /\ Agrees(job[j], command')
<1>1. /\ job[j].todo \subseteq Commands /\ job[j].cmd \in Commands
      /\ job[j].done \subseteq Commands /\ job[j].failed \subseteq Commands
  BY DEF Batch
<1>2. \A c \in Commands :
        command'[c] = IF c \in job[j].done THEN "done"
                      ELSE IF c \in job[j].failed THEN "failed" ELSE command[c]
  BY DEF WriteAll
<1> QED BY <1>1, <1>2 DEF Agrees, OutcomesKept, Outcome

LEMMA AttemptFailsAgrees ==
  ASSUME TypeOK, NEW j \in Jobs, job[j] \in Batch, job[j].at # "ready", NEW t,
         Agrees(job[j], t), NEW S \in SUBSET Orders, AttemptFails(j, S)
  PROVE  Agrees(job'[j], t)
<1>1. CASE job[j].attempt < Attempts
  <2> DEFINE b == [job[j] EXCEPT !.at = "attempting", !.attempt = @ + 1, !.modified = S]
  <2>1. job' = [job EXCEPT ![j] = b]
    BY <1>1 DEF AttemptFails, TypeOK
  <2>2. /\ b.todo = job[j].todo /\ b.cmd = job[j].cmd
        /\ b.done = job[j].done /\ b.failed = job[j].failed
    BY DEF Batch
  <2>3. job'[j] = b
    BY <2>1 DEF TypeOK
  <2> HIDE DEF b
  <2> QED BY <2>2, <2>3 DEF Agrees
<1>2. CASE ~(job[j].attempt < Attempts)
  <2> DEFINE b == [job[j] EXCEPT !.at = "ready", !.modified = S,
                                 !.failed = @ \union {job[j].cmd}]
  <2>1. job' = [job EXCEPT ![j] = b]
    BY <1>2 DEF AttemptFails, TypeOK
  <2>2. /\ b.at = "ready" /\ b.todo = job[j].todo /\ b.cmd = job[j].cmd
        /\ b.done = job[j].done /\ b.failed = job[j].failed \union {job[j].cmd}
    BY DEF Batch
  <2>3. job'[j] = b
    BY <2>1 DEF TypeOK
  <2> HIDE DEF b
  <2> QED BY <2>2, <2>3 DEF Agrees
<1> QED BY <1>1, <1>2

\* With one process, a step of its job keeps the invariant if its batch does.
LEMMA OnlyBatch ==
  ASSUME NEW j \in Jobs,
         OneJob => OutcomesKept /\ (job'[j].at # "idle" => Agrees(job'[j], command'))
  PROVE  OutcomeInv' /\ (OneJob => OutcomesKept)
<1>1. OneJob => \A i \in Jobs : i = j
  BY DEF OneJob
<1>2. OneJob' = OneJob
  BY DEF OneJob
<1> QED BY <1>1, <1>2 DEF OutcomeInv

LEMMA OutcomeStep ==
  TypeOK /\ OutcomeInv /\ [Next]_vars => OutcomeInv' /\ (OneJob => OutcomesKept)
<1> SUFFICES ASSUME TypeOK, OutcomeInv, [Next]_vars
             PROVE  OutcomeInv' /\ (OneJob => OutcomesKept)
  OBVIOUS
<1>0. ASSUME UNCHANGED <<command, job>> PROVE OutcomeInv' /\ (OneJob => OutcomesKept)
  BY <1>0 DEF OutcomeInv, OneJob, OutcomesKept
<1>1. ASSUME NEW o \in Orders, PlaceOrder(o) PROVE OutcomeInv' /\ (OneJob => OutcomesKept)
  BY <1>0, <1>1 DEF PlaceOrder
<1>2. ASSUME NEW c \in Commands, NEW customer \in Customers, Enqueue(c, customer)
      PROVE OutcomeInv' /\ (OneJob => OutcomesKept)
  <2>1. /\ \A d \in Commands : d # c => command'[d] = command[d]
        /\ command[c] = "none" /\ job' = job
    BY <1>2 DEF Enqueue, TypeOK
  <2>2. OutcomesKept
    BY <2>1 DEF OutcomesKept, Outcome
  <2>3. ASSUME NEW j \in Jobs, job[j].at # "idle", Agrees(job[j], command)
        PROVE  Agrees(job[j], command')
    <3>1. job[j] \in Batch
      BY <2>3, BusyIsBatch
    <3>2. /\ job[j].todo \subseteq Commands /\ job[j].cmd \in Commands
          /\ job[j].done \subseteq Commands /\ job[j].failed \subseteq Commands
      BY <3>1 DEF Batch
    <3> QED BY <2>1, <2>3, <3>2 DEF Agrees
  <2> QED BY <2>1, <2>2, <2>3 DEF OutcomeInv, OneJob
<1>3. ASSUME NEW j \in Jobs, ReadBatch(j) PROVE OutcomeInv' /\ (OneJob => OutcomesKept)
  <2>1. PICK c \in Unprocessed :
          job' = [job EXCEPT ![j] =
            [at |-> "attempting", todo |-> Unprocessed \ {c}, cmd |-> c, attempt |-> 1,
             modified |-> {}, unchanged |-> {}, done |-> {}, failed |-> {}]]
    BY <1>3 DEF ReadBatch
  <2>2. job'[j] = [at |-> "attempting", todo |-> Unprocessed \ {c}, cmd |-> c, attempt |-> 1,
                   modified |-> {}, unchanged |-> {}, done |-> {}, failed |-> {}]
    BY <2>1 DEF TypeOK
  <2>3. Agrees(job'[j], command)
    BY <2>2 DEF Agrees, Unprocessed
  <2>4. command' = command
    BY <1>3 DEF ReadBatch
  <2> QED BY <2>3, <2>4, OnlyBatch DEF OutcomesKept
<1>4. ASSUME NEW j \in Jobs, NEW c \in Commands, TakeNext(j, c)
      PROVE OutcomeInv' /\ (OneJob => OutcomesKept)
  <2> DEFINE b == [job[j] EXCEPT !.at = "attempting", !.todo = @ \ {c},
                                 !.cmd = c, !.attempt = 1]
  <2>1. job[j] \in Batch /\ job[j].at # "idle" /\ c \in job[j].todo /\ command' = command
    BY <1>4, BusyIsBatch DEF TakeNext
  <2>2. job' = [job EXCEPT ![j] = b]
    BY <1>4 DEF TakeNext, TypeOK
  <2>3. /\ b.todo = job[j].todo \ {c} /\ b.cmd = c
        /\ b.done = job[j].done /\ b.failed = job[j].failed
    BY <2>1 DEF Batch
  <2>4. job'[j] = b
    BY <2>2 DEF TypeOK
  <2> HIDE DEF b
  <2>5. OneJob => Agrees(job'[j], command)
    BY <2>1, <2>3, <2>4 DEF OutcomeInv, Agrees
  <2> QED BY <2>1, <2>5, OnlyBatch DEF OutcomesKept
<1>5. ASSUME NEW j \in Jobs, Approve(j) PROVE OutcomeInv' /\ (OneJob => OutcomesKept)
  <2> DEFINE b == [job[j] EXCEPT !.at = "attached", !.modified = Attach(j, Found(j))]
  <2>1. job[j] \in Batch /\ job[j].at = "attempting" /\ command' = command
    BY <1>5, BusyIsBatch DEF Approve
  <2>2. job' = [job EXCEPT ![j] = b]
    BY <1>5 DEF Approve, TypeOK
  <2>3. /\ b.todo = job[j].todo /\ b.cmd = job[j].cmd
        /\ b.done = job[j].done /\ b.failed = job[j].failed
    BY <2>1 DEF Batch
  <2>4. job'[j] = b
    BY <2>2 DEF TypeOK
  <2> HIDE DEF b
  <2>5. OneJob => Agrees(job'[j], command)
    BY <2>1, <2>3, <2>4 DEF OutcomeInv, Agrees
  <2> QED BY <2>1, <2>5, OnlyBatch DEF OutcomesKept
<1>6. ASSUME NEW j \in Jobs, ApproveRefused(j) PROVE OutcomeInv' /\ (OneJob => OutcomesKept)
  <2>1. job[j] \in Batch /\ job[j].at = "attempting" /\ command' = command
    BY <1>6, BusyIsBatch DEF ApproveRefused
  <2>2. PICK before \in SUBSET (Found(j) \ Cancelled) : AttemptFails(j, Attach(j, before))
    BY <1>6 DEF ApproveRefused
  <2>3. Attach(j, before) \in SUBSET Orders
    BY <2>1, FoundType, AttachType
  <2>4. OneJob => Agrees(job'[j], command)
    BY <2>1, <2>2, <2>3, AttemptFailsAgrees DEF OutcomeInv
  <2> QED BY <2>1, <2>4, OnlyBatch DEF OutcomesKept
<1>7. ASSUME NEW j \in Jobs, SaveAttempt(j) PROVE OutcomeInv' /\ (OneJob => OutcomesKept)
  <2> DEFINE b == [at |-> "ready", todo |-> job[j].todo, cmd |-> job[j].cmd,
                   attempt |-> job[j].attempt, modified |-> {},
                   unchanged |-> job[j].unchanged \union job[j].modified,
                   done |-> {job[j].cmd}, failed |-> {}]
  <2>1. job[j] \in Batch /\ job[j].at = "attached" /\ WriteAll(j)
    BY <1>7, BusyIsBatch DEF SaveAttempt
  <2>2. job'[j] = b
    BY <1>7 DEF SaveAttempt, TypeOK
  <2>3. /\ b.at = "ready" /\ b.todo = job[j].todo
        /\ b.done = {job[j].cmd} /\ b.failed = {}
    OBVIOUS
  <2> HIDE DEF b
  <2>4. OneJob => OutcomesKept /\ Agrees(job[j], command')
    BY <2>1, WriteAllKeepsOutcomes DEF OutcomeInv
  <2>5. OneJob => Agrees(job'[j], command')
    BY <2>1, <2>2, <2>3, <2>4 DEF Agrees
  <2> QED BY <2>4, <2>5, OnlyBatch
<1>8. ASSUME NEW j \in Jobs, SaveBatch(j) \/ SaveBatchFails(j)
      PROVE OutcomeInv' /\ (OneJob => OutcomesKept)
  <2>1. /\ job[j] \in Batch /\ job[j].at = "ready" /\ (WriteAll(j) \/ command' = command)
        /\ job'[j].at = "idle"
    BY <1>8, BusyIsBatch, IdleIsNoBatch DEF SaveBatch, SaveBatchFails, TypeOK
  <2>2. OneJob => OutcomesKept
    BY <2>1, WriteAllKeepsOutcomes DEF OutcomeInv, OutcomesKept
  <2> QED BY <2>1, <2>2, OnlyBatch
<1>9. ASSUME NEW j \in Jobs, AttemptThrows(j) PROVE OutcomeInv' /\ (OneJob => OutcomesKept)
  <2>1. /\ job[j] \in Batch /\ job[j].at \in {"attempting", "attached"}
        /\ WriteAll(j) \/ command' = command
        /\ AttemptFails(j, job[j].modified)
    BY <1>9, BusyIsBatch DEF AttemptThrows
  <2>2. job[j].modified \in SUBSET Orders
    BY <2>1 DEF Batch
  <2>3. OneJob => OutcomesKept /\ Agrees(job[j], command')
    BY <2>1, WriteAllKeepsOutcomes DEF OutcomeInv, OutcomesKept
  <2>4. OneJob => Agrees(job'[j], command')
    BY <2>1, <2>2, <2>3, AttemptFailsAgrees
  <2> QED BY <2>3, <2>4, OnlyBatch
<1>10. ASSUME NEW j \in Jobs, Crash(j) PROVE OutcomeInv' /\ (OneJob => OutcomesKept)
  <2>1. job'[j].at = "idle" /\ command' = command
    BY <1>10, IdleIsNoBatch DEF Crash, TypeOK
  <2> QED BY <2>1, OnlyBatch DEF OutcomesKept
<1>11. ASSUME NEW h \in Requests, Fulfilment(h) PROVE OutcomeInv' /\ (OneJob => OutcomesKept)
  BY <1>0, <1>11 DEF Fulfilment, ReadForFulfilment, MailFulfilment, SaveFulfilment, FulfilmentFails
<1>12. CASE UNCHANGED vars
  BY <1>0, <1>12 DEF vars
<1> QED
  BY <1>1, <1>2, <1>3, <1>4, <1>5, <1>6, <1>7, <1>8, <1>9, <1>10, <1>11, <1>12
  DEF Next, JobStep, JobFault

\* With one process, no retry, repeated save or later batch changes the outcome
\* a command was recorded with.
THEOREM OutcomesFinal == Spec => OutcomeIsFinal
<1>1. Init => OutcomeInv
  BY IdleIsNoBatch DEF Init, OutcomeInv
<1>2. TypeOK /\ OutcomeInv /\ [Next]_vars =>
        [OneJob => \A c \in Commands : command[c] \in Outcome => command'[c] = command[c]]_vars
  BY OutcomeStep DEF OutcomesKept
<1>3. TypeOK /\ OutcomeInv /\ [Next]_vars => OutcomeInv'
  BY OutcomeStep
<1> QED BY <1>1, <1>2, <1>3, TypeCorrect, PTL DEF Spec, OutcomeIsFinal
=============================================================================
