--------------------------- MODULE InternalCommands ---------------------------
(***************************************************************************)
(* The Order API after a payment: stored commands and the orders they      *)
(* approve.                                                                *)
(*                                                                         *)
(* ProcessInternalCommandJob reads every ten seconds the commands without  *)
(* ProcessedDate and executes each of them up to four times, all on the    *)
(* one DbContext of the run.  CompletePaymentInternalCommand reads the     *)
(* customer's orders, attaches an approved copy of each and saves.  A      *)
(* cancelled order throws, with an arbitrary part of the others already    *)
(* attached.  An attempt attaches nothing where the DbContext still tracks *)
(* the copy of an earlier one: the exception of Attach ends in a task that *)
(* nobody awaits.  What a failed attempt attached stays and goes with the  *)
(* next save, whichever command makes it.  Outcomes are set in memory and  *)
(* are stored by the next save as well, at the latest by the one that ends *)
(* the batch.                                                              *)
(*                                                                         *)
(* The fulfilment of an order is a request of its own, with its own        *)
(* DbContext: it reads the order, mails the customer and then writes the   *)
(* row.  Rows have no concurrency token, so the last writer wins.          *)
(*                                                                         *)
(* The commands of a batch are ordered by EnqueueDate, a clock that was    *)
(* read before the row was committed: any order is possible.               *)
(***************************************************************************)
EXTENDS Integers

CONSTANTS
  Orders,
  Customers,
  Customer,   \* Customer[o]: who placed o
  Cancelled,  \* orders whose IsCancelled is set
  Seeded,     \* orders the table holds from the start
  Commands,   \* identifiers of CompletePaymentInternalCommands
  Jobs,       \* OrderApi processes, each running the job
  Requests,   \* requests to fulfil an order
  MaxFaults   \* bound: failed calls and crashes

ASSUME CustomerAssumption == Customer \in [Orders -> Customers]
ASSUME CancelledAssumption == Cancelled \subseteq Seeded /\ Seeded \subseteq Orders
ASSUME MaxFaultsAssumption == MaxFaults \in Nat

VARIABLES
  status,   \* status[o]: column Status, or absent
  command,  \* command[c]: the row of c in InternalCommand
  payer,    \* payer[c]: the customer c was stored for
  due,      \* due[c]: the payer's orders when c was stored
  job,      \* job[j]: the DbContext and the loop of j's running batch
  fulfil,   \* fulfil[h]: how far request h is
  faults

vars == <<status, command, payer, due, job, fulfil, faults>>

\* Pending stands for every status that no guard tells apart from it.
Status == {"absent", "Pending", "Approved", "Fulfilled"}

Outcome == {"done", "failed"}

\* One execution and a retry after one, two and three seconds.
Attempts == 4

Nobody == "nobody"

\* The run of a job: the commands left, the one in work and its attempt, the
\* orders tracked as modified or unchanged, outcomes set but not stored.
Batch ==
  [at : {"ready", "attempting", "attached"}, todo : SUBSET Commands, cmd : Commands,
   attempt : 1..Attempts, modified : SUBSET Orders, unchanged : SUBSET Orders,
   done : SUBSET Commands, failed : SUBSET Commands]

Idle == [at |-> "idle"]

TypeOK ==
  /\ status \in [Orders -> Status]
  /\ command \in [Commands -> {"none", "pending"} \union Outcome]
  /\ payer \in [Commands -> Customers \union {Nobody}]
  /\ due \in [Commands -> SUBSET Orders]
  /\ job \in [Jobs -> Batch \union {Idle}]
  /\ fulfil \in [Requests -> [at : {"new", "read", "mailed", "saved", "failed"},
                              order : Orders]
                             \union {[at |-> "new"]}]
  /\ faults \in Nat

Init ==
  /\ status = [o \in Orders |-> IF o \in Seeded THEN "Pending" ELSE "absent"]
  /\ command = [c \in Commands |-> "none"]
  /\ payer = [c \in Commands |-> Nobody]
  /\ due = [c \in Commands |-> {}]
  /\ job = [j \in Jobs |-> Idle]
  /\ fulfil = [h \in Requests |-> [at |-> "new"]]
  /\ faults = 0

-----------------------------------------------------------------------------
(* Orders and payments arrive                                              *)

OrdersOf(customer) == {o \in Orders : Customer[o] = customer /\ status[o] # "absent"}

PlaceOrder(o) ==
  /\ status[o] = "absent"
  /\ status' = [status EXCEPT ![o] = "Pending"]
  /\ UNCHANGED <<command, payer, due, job, fulfil, faults>>

\* The payment inbox stores a command; its customer has placed an order.
Enqueue(c, customer) ==
  /\ command[c] = "none"
  /\ OrdersOf(customer) # {}
  /\ command' = [command EXCEPT ![c] = "pending"]
  /\ payer' = [payer EXCEPT ![c] = customer]
  /\ due' = [due EXCEPT ![c] = OrdersOf(customer)]
  /\ UNCHANGED <<status, job, fulfil, faults>>

-----------------------------------------------------------------------------
(* ProcessInternalCommandHandler                                           *)

\* Mutation of Unprocessed: the commands that failed are tried again.
UnprocessedOrFailed == {c \in Commands : command[c] \in {"pending", "failed"}}

Unprocessed == {c \in Commands : command[c] = "pending"}

ReadBatch(j) ==
  /\ job[j] = Idle
  /\ Unprocessed # {}
  /\ \E c \in Unprocessed :
       job' = [job EXCEPT ![j] =
         [at |-> "attempting", todo |-> Unprocessed \ {c}, cmd |-> c, attempt |-> 1,
          modified |-> {}, unchanged |-> {}, done |-> {}, failed |-> {}]]
  /\ UNCHANGED <<status, command, payer, due, fulfil, faults>>

\* The loop takes the next command.
TakeNext(j, c) ==
  /\ job[j].at = "ready"
  /\ c \in job[j].todo
  /\ job' = [job EXCEPT ![j].at = "attempting", ![j].todo = @ \ {c},
                        ![j].cmd = c, ![j].attempt = 1]
  /\ UNCHANGED <<status, command, payer, due, fulfil, faults>>

\* Mutation of AttemptFails: a retry too many.
AttemptFailsLate(j, tracked) ==
  IF job[j].attempt <= Attempts
    THEN job' = [job EXCEPT ![j].at = "attempting", ![j].attempt = @ + 1,
                            ![j].modified = tracked]
    ELSE job' = [job EXCEPT ![j].at = "ready", ![j].modified = tracked,
                            ![j].failed = @ \union {job[j].cmd}]

\* An attempt throws with the DbContext tracking these orders as modified.
AttemptFails(j, tracked) ==
  IF job[j].attempt < Attempts
    THEN job' = [job EXCEPT ![j].at = "attempting", ![j].attempt = @ + 1,
                            ![j].modified = tracked]
    ELSE job' = [job EXCEPT ![j].at = "ready", ![j].modified = tracked,
                            ![j].failed = @ \union {job[j].cmd}]

Found(j) == OrdersOf(payer[job[j].cmd])

\* What the handler attaches of some orders: those it does not track yet.
Attach(j, orders) == job[j].modified \union (orders \ job[j].unchanged)

\* Mutations of Approve: only one order is looked for; cancelled orders are
\* not refused.
ApproveOne(j) ==
  /\ job[j].at = "attempting"
  /\ Found(j) \intersect Cancelled = {}
  /\ \E o \in Found(j) :
       job' = [job EXCEPT ![j].at = "attached", ![j].modified = Attach(j, {o})]
  /\ UNCHANGED <<status, command, payer, due, fulfil, faults>>

ApproveAny(j) ==
  /\ job[j].at = "attempting"
  /\ job' = [job EXCEPT ![j].at = "attached", ![j].modified = Attach(j, Found(j))]
  /\ UNCHANGED <<status, command, payer, due, fulfil, faults>>

\* The customer's orders are read and an approved copy of each is attached.
Approve(j) ==
  /\ job[j].at = "attempting"
  /\ Found(j) \intersect Cancelled = {}
  /\ job' = [job EXCEPT ![j].at = "attached", ![j].modified = Attach(j, Found(j))]
  /\ UNCHANGED <<status, command, payer, due, fulfil, faults>>

\* ApproveOrder refuses a cancelled order, after some others were attached.
ApproveRefused(j) ==
  /\ job[j].at = "attempting"
  /\ Found(j) \intersect Cancelled # {}
  /\ \E before \in SUBSET (Found(j) \ Cancelled) : AttemptFails(j, Attach(j, before))
  /\ UNCHANGED <<status, command, payer, due, fulfil, faults>>

\* Mutation of WriteAll: the outcomes are not part of the save.
WriteOrders(j) ==
  /\ status' = [o \in Orders |-> IF o \in job[j].modified THEN "Approved" ELSE status[o]]
  /\ UNCHANGED command

\* A save stores every modified copy and every outcome set so far.
WriteAll(j) ==
  /\ status' = [o \in Orders |-> IF o \in job[j].modified THEN "Approved" ELSE status[o]]
  /\ command' = [c \in Commands |->
                   IF c \in job[j].done THEN "done"
                   ELSE IF c \in job[j].failed THEN "failed" ELSE command[c]]

\* SaveEntitiesAsync returns, and with it the attempt: the outcome is set.
SaveAttempt(j) ==
  /\ job[j].at = "attached"
  /\ WriteAll(j)
  /\ job' = [job EXCEPT ![j] =
       [at |-> "ready", todo |-> job[j].todo, cmd |-> job[j].cmd, attempt |-> job[j].attempt,
        modified |-> {}, unchanged |-> job[j].unchanged \union job[j].modified,
        done |-> {job[j].cmd}, failed |-> {}]]
  /\ UNCHANGED <<payer, due, fulfil, faults>>

\* The save after the loop.
SaveBatch(j) ==
  /\ job[j].at = "ready"
  /\ job[j].todo = {}
  /\ WriteAll(j)
  /\ job' = [job EXCEPT ![j] = Idle]
  /\ UNCHANGED <<payer, due, fulfil, faults>>

-----------------------------------------------------------------------------
(* OrderFulfillmentHandler                                                 *)

ReadForFulfilment(h, o) ==
  /\ fulfil[h].at = "new"
  /\ status[o] # "absent"
  /\ o \notin Cancelled
  /\ fulfil' = [fulfil EXCEPT ![h] = [at |-> "read", order |-> o]]
  /\ UNCHANGED <<status, command, payer, due, job, faults>>

\* SaveEntitiesAsync dispatches the domain event, whose handler mails.
MailFulfilment(h) ==
  /\ fulfil[h].at = "read"
  /\ fulfil' = [fulfil EXCEPT ![h].at = "mailed"]
  /\ UNCHANGED <<status, command, payer, due, job, faults>>

\* Then the whole row is written.
SaveFulfilment(h) ==
  /\ fulfil[h].at = "mailed"
  /\ status' = [status EXCEPT ![fulfil[h].order] = "Fulfilled"]
  /\ fulfil' = [fulfil EXCEPT ![h].at = "saved"]
  /\ UNCHANGED <<command, payer, due, job, faults>>

-----------------------------------------------------------------------------
(* Failures                                                                *)

Fault ==
  /\ faults < MaxFaults
  /\ faults' = faults + 1

\* A query of an attempt throws, or its save does, which the database may
\* have committed.
AttemptThrows(j) ==
  /\ job[j].at \in {"attempting", "attached"}
  /\ Fault
  /\ AttemptFails(j, job[j].modified)
  /\ \/ UNCHANGED <<status, command>>
     \/ job[j].at = "attached" /\ WriteAll(j)
  /\ UNCHANGED <<payer, due, fulfil>>

\* The save after the loop throws, committed or not: the run ends.
SaveBatchFails(j) ==
  /\ job[j].at = "ready"
  /\ job[j].todo = {}
  /\ Fault
  /\ UNCHANGED <<status, command>> \/ WriteAll(j)
  /\ job' = [job EXCEPT ![j] = Idle]
  /\ UNCHANGED <<payer, due, fulfil>>

\* The process dies anywhere in the batch.
Crash(j) ==
  /\ job[j] # Idle
  /\ Fault
  /\ job' = [job EXCEPT ![j] = Idle]
  /\ UNCHANGED <<status, command, payer, due, fulfil>>

\* The mail server or the database refuses; the save may have been committed.
FulfilmentFails(h) ==
  /\ fulfil[h].at \in {"read", "mailed"}
  /\ Fault
  /\ \/ /\ fulfil[h].at = "mailed"
        /\ status' = [status EXCEPT ![fulfil[h].order] = "Fulfilled"]
        /\ fulfil' = [fulfil EXCEPT ![h].at = "saved"]
     \/ /\ fulfil' = [fulfil EXCEPT ![h].at = "failed"]
        /\ UNCHANGED status
  /\ UNCHANGED <<command, payer, due, job>>

-----------------------------------------------------------------------------
JobStep(j) ==
  \/ ReadBatch(j)
  \/ \E c \in Commands : TakeNext(j, c)
  \/ Approve(j)
  \/ ApproveRefused(j)
  \/ SaveAttempt(j)
  \/ SaveBatch(j)

JobFault(j) == AttemptThrows(j) \/ SaveBatchFails(j) \/ Crash(j)

Fulfilment(h) ==
  \/ \E o \in Orders : ReadForFulfilment(h, o)
  \/ MailFulfilment(h)
  \/ SaveFulfilment(h)
  \/ FulfilmentFails(h)

Next ==
  \/ \E o \in Orders : PlaceOrder(o)
  \/ \E c \in Commands, customer \in Customers : Enqueue(c, customer)
  \/ \E j \in Jobs : JobStep(j) \/ JobFault(j)
  \/ \E h \in Requests : Fulfilment(h)

Spec == Init /\ [][Next]_vars

\* The trigger repeats forever and a batch that is not cut short goes on.
Fairness == \A j \in Jobs : WF_vars(JobStep(j))

FairSpec == Spec /\ Fairness

-----------------------------------------------------------------------------
(* Properties                                                              *)

\* A command recorded as successful has approved every order its customer had
\* when the payment came; fulfilment alone may have moved one further.
PaidOrdersApproved ==
  \A c \in Commands : command[c] = "done" =>
    \A o \in due[c] : status[o] \in {"Approved", "Fulfilled"}

\* Copies that a failed command leaves behind are saved with other commands,
\* but no order is approved unless its customer's payment came, and a
\* cancelled one never.
ApprovedWasPaid ==
  \A o \in Orders : status[o] = "Approved" =>
    /\ o \notin Cancelled
    /\ \E c \in Commands : payer[c] = Customer[o]

\* One OrderApi process runs the job.
OneJob == \A i, j \in Jobs : i = j

\* With one process the recorded outcome of a command is final, although
\* saves are repeated and batches start again.
OutcomeIsFinal ==
  [][OneJob =>
       \A c \in Commands : command[c] \in Outcome => command'[c] = command[c]]_vars

\* Every stored command is eventually recorded as done or failed.
EveryCommandProcessed == \A c \in Commands : command[c] = "pending" ~> command[c] \in Outcome
=============================================================================
