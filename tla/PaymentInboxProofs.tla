-------------------------- MODULE PaymentInboxProofs --------------------------
(***************************************************************************)
(* Safety of the payment inbox for any messages, copies, concurrent        *)
(* consumers and failures.  RowBeforeCommand and CommandBeforeAck tie what *)
(* a consumer holds in memory to the two tables; with them the properties  *)
(* are inductive.                                                          *)
(***************************************************************************)
EXTENDS PaymentInbox, FiniteSetTheorems, TLAPS

\* Whoever is past the insert finds the row, whoever is past the scheduling
\* finds the command.
RowBeforeCommand ==
  \A k \in Consumers :
    work[k].at \in {"stored", "scheduled"} => work[k].msg \in inbox

CommandBeforeAck ==
  \A k \in Consumers : work[k].at = "scheduled" => scheduled[work[k].msg] > 0

\* A message that leaves the queue as handled has its command in the table,
\* although a crash may separate its row from its command.
AckedWasScheduled == \A m \in Messages : acked[m] > 0 => scheduled[m] > 0

\* Every stored command can be traced to the inbox row of its message.
CommandHasInboxRow == \A m \in Messages : scheduled[m] > 0 => m \in inbox

\* While nothing fails, a row has an owner that goes on or has finished.
RowHasOwner ==
  \A m \in inbox : faults = 0 =>
    \/ acked[m] > 0
    \/ \E k \in Busy(m) : work[k].at \in {"stored", "scheduled"}

\* Refused copies met a row.
RefusedMetRow == \A m \in Messages : faults = 0 /\ faulted[m] > 0 => m \in inbox

IInv ==
  /\ TypeOK
  /\ RowBeforeCommand
  /\ CommandBeforeAck
  /\ CommandHasInboxRow
  /\ AckedWasScheduled

TwinInv == RowHasOwner /\ RefusedMetRow

-----------------------------------------------------------------------------
(* Type correctness                                                        *)

LEMMA BusyHasCopy ==
  ASSUME TypeOK, NEW k \in Consumers, work[k] # Free
  PROVE  /\ work[k] \in Copy
         /\ work[k].msg \in Messages
BY DEF TypeOK, Copy

LEMMA FreeIsIdle == Free.at = "idle"
BY DEF Free

LEMMA BumpType ==
  ASSUME NEW f \in [Messages -> Nat], NEW m \in Messages
  PROVE  /\ Bump(f, m) \in [Messages -> Nat]
         /\ Bump(f, m)[m] = f[m] + 1
         /\ \A n \in Messages : Bump(f, m)[n] >= f[n]
         /\ \A n \in Messages : n # m => Bump(f, m)[n] = f[n]
BY DEF Bump

LEMMA MovesType ==
  ASSUME TypeOK, NEW k \in Consumers, work[k] # Free,
         NEW step \in {"received", "absent", "stored", "scheduled"}, Moves(k, step)
  PROVE  /\ work' \in [Consumers -> Copy \union {Free}]
         /\ work'[k] = [at |-> step, msg |-> work[k].msg]
         /\ work'[k].at = step /\ work'[k].msg = work[k].msg
         /\ \A j \in Consumers : j # k => work'[j] = work[j]
BY BusyHasCopy DEF TypeOK, Moves, Copy

LEMMA MoveToErrorType ==
  ASSUME TypeOK, NEW k \in Consumers, work[k] # Free, MoveToError(k)
  PROVE  /\ work' \in [Consumers -> Copy \union {Free}]
         /\ faulted' \in [Messages -> Nat]
         /\ work'[k] = Free
         /\ \A j \in Consumers : j # k => work'[j] = work[j]
BY BusyHasCopy, BumpType DEF TypeOK, MoveToError

LEMMA TypeStep == TypeOK /\ [Next]_vars => TypeOK'
<1> SUFFICES ASSUME TypeOK, [Next]_vars PROVE TypeOK'
  OBVIOUS
<1>1. ASSUME NEW m \in Messages, Send(m) PROVE TypeOK'
  BY <1>1, BumpType DEF Send, TypeOK
<1>2. ASSUME NEW k \in Consumers, NEW m \in Messages, Receive(k, m) PROVE TypeOK'
  BY <1>2 DEF Receive, TypeOK, Copy
<1>3. ASSUME NEW k \in Consumers, LookUp(k) PROVE TypeOK'
  BY <1>3, MovesType, FreeIsIdle DEF LookUp, TypeOK, queue
<1>4. ASSUME NEW k \in Consumers, InsertRow(k) PROVE TypeOK'
  BY <1>4, MovesType, BusyHasCopy, FreeIsIdle DEF InsertRow, TypeOK, queue
<1>5. ASSUME NEW k \in Consumers, InsertRefused(k) PROVE TypeOK'
  BY <1>5, MoveToErrorType, FreeIsIdle DEF InsertRefused, TypeOK, queue
<1>6. ASSUME NEW k \in Consumers, Schedule(k) PROVE TypeOK'
  BY <1>6, MovesType, BusyHasCopy, BumpType, FreeIsIdle DEF Schedule, TypeOK, queue
<1>7. ASSUME NEW k \in Consumers, Finish(k) PROVE TypeOK'
  BY <1>7, BusyHasCopy, BumpType, FreeIsIdle DEF Finish, TypeOK, queue
<1>8. ASSUME NEW k \in Consumers, CallFails(k) PROVE TypeOK'
  BY <1>8, MoveToErrorType, BusyHasCopy, BumpType DEF CallFails, Fault, TypeOK, queue
<1>9. ASSUME Restart PROVE TypeOK'
  <2>1. ASSUME NEW m \in Messages PROVE Cardinality(Busy(m)) \in Nat
    <3>1. IsFiniteSet(Busy(m))
      BY ConsumersAssumption, FS_Subset DEF Busy
    <3> QED
      BY <3>1, FS_CardinalityType
  <2> QED
    BY <1>9, <2>1 DEF Restart, Fault, TypeOK
<1>10. CASE UNCHANGED vars
  BY <1>10 DEF vars, queue, TypeOK
<1> QED
  BY <1>1, <1>2, <1>3, <1>4, <1>5, <1>6, <1>7, <1>8, <1>9, <1>10
  DEF Next, ConsumerStep, Consume

\* Type correctness of the queue, the tables and the consumers.
THEOREM TypeCorrect == Spec => []TypeOK
<1>1. Init => TypeOK
  BY DEF Init, TypeOK, Zero
<1> QED
  BY <1>1, TypeStep, PTL DEF Spec

-----------------------------------------------------------------------------
(* Rows, commands and acknowledgements                                     *)

LEMMA IInvStep == IInv /\ [Next]_vars => IInv'
<1> SUFFICES ASSUME IInv, [Next]_vars PROVE IInv'
  OBVIOUS
<1> TypeOK /\ TypeOK'
  BY TypeStep DEF IInv
<1> USE DEF RowBeforeCommand, CommandBeforeAck, CommandHasInboxRow, AckedWasScheduled
<1>1. ASSUME NEW m \in Messages, Send(m) PROVE IInv'
  BY <1>1 DEF Send, IInv
<1>2. ASSUME NEW k \in Consumers, NEW m \in Messages, Receive(k, m) PROVE IInv'
  BY <1>2 DEF Receive, IInv, TypeOK
<1>3. ASSUME NEW k \in Consumers, LookUp(k) PROVE IInv'
  BY <1>3, MovesType, FreeIsIdle DEF LookUp, IInv
<1>4. ASSUME NEW k \in Consumers, InsertRow(k) PROVE IInv'
  BY <1>4, MovesType, FreeIsIdle DEF InsertRow, IInv
<1>5. ASSUME NEW k \in Consumers, InsertRefused(k) PROVE IInv'
  BY <1>5, MoveToErrorType, FreeIsIdle DEF InsertRefused, IInv
<1>6. ASSUME NEW k \in Consumers, Schedule(k) PROVE IInv'
  <2> DEFINE c == work[k].msg
  <2>1. work[k] # Free /\ c \in Messages /\ c \in inbox
    BY <1>6, BusyHasCopy, FreeIsIdle DEF Schedule, IInv
  <2>2. scheduled \in [Messages -> Nat]
    BY DEF TypeOK
  <2>3. /\ scheduled'[c] = scheduled[c] + 1
        /\ \A n \in Messages : scheduled'[n] >= scheduled[n]
        /\ \A n \in Messages : n # c => scheduled'[n] = scheduled[n]
    BY <1>6, <2>1, <2>2, BumpType DEF Schedule
  <2>4. /\ work'[k].msg = c
        /\ \A j \in Consumers : j # k => work'[j] = work[j]
    BY <1>6, <2>1, MovesType DEF Schedule
  <2>5. UNCHANGED <<inbox, acked>>
    BY <1>6 DEF Schedule
  <2>6. RowBeforeCommand'
    BY <2>1, <2>4, <2>5 DEF IInv
  <2>7. CommandBeforeAck'
    BY <2>1, <2>2, <2>3, <2>4, BusyHasCopy, FreeIsIdle DEF IInv
  <2>8. CommandHasInboxRow' /\ AckedWasScheduled'
    BY <2>1, <2>2, <2>3, <2>5 DEF IInv, TypeOK
  <2> QED
    BY <2>6, <2>7, <2>8 DEF IInv
<1>7. ASSUME NEW k \in Consumers, Finish(k) PROVE IInv'
  <2>1. work[k] # Free /\ work[k].msg \in Messages /\ scheduled[work[k].msg] > 0
    BY <1>7, BusyHasCopy, FreeIsIdle DEF Finish, IInv
  <2>2. \A n \in Messages : n # work[k].msg => acked'[n] = acked[n]
    <3>1. acked \in [Messages -> Nat] /\ acked' = Bump(acked, work[k].msg)
      BY <1>7 DEF Finish, TypeOK
    <3> QED
      BY <2>1, <3>1, BumpType
  <2> QED
    BY <1>7, <2>1, <2>2, FreeIsIdle DEF Finish, IInv, TypeOK
<1>8. ASSUME NEW k \in Consumers, CallFails(k) PROVE IInv'
  <2> DEFINE c == work[k].msg
  <2>1. /\ c \in Messages /\ work'[k] = Free
        /\ \A j \in Consumers : j # k => work'[j] = work[j]
    BY <1>8, BusyHasCopy, MoveToErrorType DEF CallFails
  <2>2. \/ UNCHANGED <<inbox, scheduled>>
        \/ inbox' = inbox \union {c} /\ UNCHANGED scheduled
        \/ c \in inbox /\ scheduled' = Bump(scheduled, c) /\ UNCHANGED inbox
    BY <1>8 DEF CallFails, IInv
  <2> HIDE DEF c
  <2>3. scheduled \in [Messages -> Nat]
    BY DEF TypeOK
  <2>4. ASSUME scheduled' = Bump(scheduled, c)
        PROVE  /\ \A n \in Messages : scheduled'[n] >= scheduled[n]
               /\ \A n \in Messages : n # c => scheduled'[n] = scheduled[n]
    BY <2>1, <2>3, <2>4, BumpType
  <2>5. inbox \subseteq inbox' /\ \A n \in Messages : scheduled'[n] >= scheduled[n]
    <3>1. \A n \in Messages : scheduled'[n] >= scheduled[n]
      BY <2>2, <2>3, <2>4
    <3> QED
      BY <2>2, <3>1
  <2>6. RowBeforeCommand' /\ CommandBeforeAck'
    BY <2>1, <2>5, BusyHasCopy, FreeIsIdle DEF IInv, TypeOK
  <2>7. CommandHasInboxRow'
    BY <2>2, <2>4 DEF IInv
  <2>8. AckedWasScheduled'
    BY <1>8, <2>5 DEF CallFails, IInv, TypeOK
  <2> QED
    BY <2>6, <2>7, <2>8 DEF IInv
<1>9. ASSUME Restart PROVE IInv'
  BY <1>9, FreeIsIdle DEF Restart, IInv
<1>10. CASE UNCHANGED vars
  BY <1>10 DEF vars, queue, IInv
<1> QED
  BY <1>1, <1>2, <1>3, <1>4, <1>5, <1>6, <1>7, <1>8, <1>9, <1>10
  DEF Next, ConsumerStep, Consume

\* A command in the table has its inbox row, and what was acknowledged has a
\* command in the table, whatever crashes and concurrent copies did.
THEOREM CommandsTraceable == Spec => [](CommandHasInboxRow /\ AckedWasScheduled)
<1>1. Init => IInv
  BY FreeIsIdle
  DEF Init, IInv, TypeOK, Zero, RowBeforeCommand, CommandBeforeAck,
      CommandHasInboxRow, AckedWasScheduled
<1>2. IInv => CommandHasInboxRow /\ AckedWasScheduled
  BY DEF IInv
<1> QED
  BY <1>1, <1>2, IInvStep, PTL DEF Spec

-----------------------------------------------------------------------------
(* The insert race                                                         *)

\* Consumers that have the row of m, or are past it.
Owners(m) == {k \in Busy(m) : work[k].at \in {"stored", "scheduled"}}

LEMMA TwinStep == TypeOK /\ TwinInv /\ [Next]_vars => TwinInv'
<1> SUFFICES ASSUME TypeOK, TwinInv, [Next]_vars, faults' = 0 PROVE TwinInv'
  BY DEF TwinInv, RowHasOwner, RefusedMetRow
<1> TypeOK'
  BY TypeStep
<1> USE DEF TypeOK
<1>1. faults = 0 /\ ~Restart /\ \A k \in Consumers : ~CallFails(k)
  <2>1. faults' = faults \/ faults' = faults + 1
    BY DEF Next, ConsumerStep, Consume, Send, Receive, LookUp, InsertRow, InsertRefused,
           Schedule, Finish, CallFails, Fault, Restart, vars
  <2> QED
    BY <2>1 DEF CallFails, Restart, Fault
<1>2. \A m \in inbox : acked[m] > 0 \/ Owners(m) # {}
  BY <1>1 DEF TwinInv, RowHasOwner, Owners
<1>3. \A m \in Messages : faulted[m] > 0 => m \in inbox
  BY <1>1 DEF TwinInv, RefusedMetRow
\* It is enough that a step keeps rows, acknowledgements and owners.
<1>4. ASSUME \A m \in inbox' : acked'[m] > 0 \/ Owners(m)' # {},
             \A m \in Messages : faulted'[m] > 0 => m \in inbox'
      PROVE  TwinInv'
  BY <1>4 DEF TwinInv, RowHasOwner, RefusedMetRow, Owners
<1>5. ASSUME NEW m \in Messages, Send(m) PROVE TwinInv'
  BY <1>2, <1>3, <1>4, <1>5 DEF Send, Owners, Busy
<1>6. ASSUME NEW k \in Consumers, NEW m \in Messages, Receive(k, m) PROVE TwinInv'
  <2>1. \A n \in Messages : Owners(n) \subseteq Owners(n)'
    BY <1>6, FreeIsIdle DEF Receive, Owners, Busy
  <2> QED
    BY <1>2, <1>3, <1>4, <1>6, <2>1 DEF Receive
<1>7. ASSUME NEW k \in Consumers, LookUp(k) PROVE TwinInv'
  <2>1. work[k] # Free
    BY <1>7, FreeIsIdle DEF LookUp
  <2>2. \A n \in Messages : Owners(n) \subseteq Owners(n)'
    BY <1>7, <2>1, MovesType DEF LookUp, Owners, Busy
  <2> QED
    BY <1>2, <1>3, <1>4, <1>7, <2>2 DEF LookUp
<1>8. ASSUME NEW k \in Consumers, InsertRow(k) PROVE TwinInv'
  <2>1. work[k] # Free
    BY <1>8, FreeIsIdle DEF InsertRow
  <2>2. /\ \A n \in Messages : Owners(n) \subseteq Owners(n)'
        /\ \A n \in Messages : n = work[k].msg => k \in Owners(n)'
    BY <1>8, <2>1, MovesType DEF InsertRow, Owners, Busy
  <2>3. \A m \in inbox' : acked'[m] > 0 \/ Owners(m)' # {}
    BY <1>2, <1>8, <2>2 DEF InsertRow
  <2> QED
    BY <1>3, <1>4, <1>8, <2>3 DEF InsertRow
<1>9. ASSUME NEW k \in Consumers, InsertRefused(k) PROVE TwinInv'
  <2>1. work[k] # Free /\ work[k].msg \in Messages
    BY <1>9, FreeIsIdle, BusyHasCopy DEF InsertRefused
  <2>2. \A n \in Messages : Owners(n) \subseteq Owners(n)'
    BY <1>9, <2>1, MoveToErrorType DEF InsertRefused, Owners, Busy
  <2>3. \A n \in Messages : n # work[k].msg => faulted'[n] = faulted[n]
    BY <1>9, <2>1, BumpType DEF InsertRefused, MoveToError
  <2> QED
    BY <1>2, <1>3, <1>4, <1>9, <2>2, <2>3 DEF InsertRefused
<1>10. ASSUME NEW k \in Consumers, Schedule(k) PROVE TwinInv'
  <2>1. work[k] # Free
    BY <1>10, FreeIsIdle DEF Schedule
  <2>2. \A n \in Messages : Owners(n) \subseteq Owners(n)'
    BY <1>10, <2>1, MovesType DEF Schedule, Owners, Busy
  <2> QED
    BY <1>2, <1>3, <1>4, <1>10, <2>2 DEF Schedule
<1>11. ASSUME NEW k \in Consumers, Finish(k) PROVE TwinInv'
  <2>1. work[k] # Free /\ work[k].msg \in Messages
    BY <1>11, FreeIsIdle, BusyHasCopy DEF Finish
  <2>2. acked' = Bump(acked, work[k].msg)
    BY <1>11 DEF Finish
  <2>3. acked'[work[k].msg] > 0 /\ \A n \in Messages : acked'[n] >= acked[n]
    <3>1. acked \in [Messages -> Nat]
      OBVIOUS
    <3>2. /\ acked'[work[k].msg] = acked[work[k].msg] + 1
          /\ \A n \in Messages : acked'[n] >= acked[n]
      BY <2>1, <2>2, <3>1, BumpType
    <3> QED
      BY <2>1, <3>1, <3>2
  <2>4. \A n \in Messages : n # work[k].msg => Owners(n) \subseteq Owners(n)'
    BY <1>11, <2>1 DEF Finish, Owners, Busy
  <2>5. \A m \in inbox' : acked'[m] > 0 \/ Owners(m)' # {}
    BY <1>2, <1>11, <2>3, <2>4 DEF Finish
  <2> QED
    BY <1>3, <1>4, <1>11, <2>5 DEF Finish
<1>12. CASE UNCHANGED vars
  BY <1>2, <1>3, <1>4, <1>12 DEF vars, queue, Owners, Busy
<1>13. ASSUME NEW k \in Consumers, ConsumerStep(k) PROVE TwinInv'
  BY <1>6, <1>7, <1>8, <1>9, <1>10, <1>11, <1>13, Zenon DEF ConsumerStep, Consume
<1> QED
  BY <1>1, <1>5, <1>12, <1>13 DEF Next

\* While no call fails, a copy is refused only because another copy has the
\* row: it was acknowledged, or it is still going on.
THEOREM RaceHasWinner == Spec => []RefusedHasTwin
<1>1. Init => TypeOK /\ TwinInv
  BY DEF Init, TypeOK, Zero, TwinInv, RowHasOwner, RefusedMetRow
<1>2. TypeOK /\ TwinInv => RefusedHasTwin
  BY DEF TwinInv, RowHasOwner, RefusedMetRow, RefusedHasTwin
<1> QED
  BY <1>1, <1>2, TypeStep, TwinStep, PTL DEF Spec

-----------------------------------------------------------------------------
(* The refinement of OrderDelivery                                         *)

\* Nothing waits, is handled or was scheduled that was not sent.
SentFirst ==
  \A m \in Messages : waiting[m] > 0 \/ Busy(m) # {} \/ scheduled[m] > 0 => sent[m] > 0

LEMMA SentFirstStep == TypeOK /\ SentFirst /\ [Next]_vars => SentFirst'
<1> SUFFICES ASSUME TypeOK, SentFirst, [Next]_vars PROVE SentFirst'
  OBVIOUS
<1> TypeOK'
  BY TypeStep
<1>1. ASSUME NEW m \in Messages, Send(m) PROVE SentFirst'
  <2>1. /\ sent'[m] > 0
        /\ \A n \in Messages : n # m => sent'[n] = sent[n] /\ waiting'[n] = waiting[n]
    BY <1>1 DEF Send, Bump, TypeOK
  <2> QED
    BY <1>1, <2>1 DEF Send, SentFirst, Busy
<1>2. ASSUME NEW k \in Consumers, NEW m \in Messages, Receive(k, m) PROVE SentFirst'
  <2>1. \A n \in Messages : waiting'[n] <= waiting[n]
    BY <1>2 DEF Receive, TypeOK
  <2>2. \A n \in Messages : n # m => Busy(n)' = Busy(n)
    BY <1>2, FreeIsIdle DEF Receive, Busy, TypeOK
  <2> QED
    BY <1>2, <2>1, <2>2 DEF Receive, SentFirst, TypeOK
\* Steps inside Consume: no message becomes busy, and what is scheduled was busy.
<1>3. ASSUME UNCHANGED queue,
             \A n \in Messages : Busy(n)' \subseteq Busy(n),
             \A n \in Messages : scheduled'[n] # scheduled[n] => Busy(n) # {}
      PROVE  SentFirst'
  BY <1>3 DEF SentFirst, queue
<1>4. ASSUME NEW k \in Consumers, work[k] # Free,
             \/ work' = [work EXCEPT ![k] = Free]
             \/ \E step \in {"absent", "stored", "scheduled"} : Moves(k, step)
      PROVE  /\ \A n \in Messages : Busy(n)' \subseteq Busy(n)
             /\ k \in Busy(work[k].msg)
  BY <1>4, BusyHasCopy, FreeIsIdle DEF Busy, Moves, Copy, TypeOK
<1>5. ASSUME NEW k \in Consumers, Consume(k) \/ CallFails(k) PROVE SentFirst'
  <2>1. work[k] # Free /\ UNCHANGED queue
    BY <1>5, FreeIsIdle
    DEF Consume, CallFails, LookUp, InsertRow, InsertRefused, Schedule, Finish
  <2>2. \/ UNCHANGED scheduled
        \/ scheduled' = Bump(scheduled, work[k].msg)
    BY <1>5
    DEF Consume, CallFails, LookUp, InsertRow, InsertRefused, Schedule, Finish
  <2>3. \/ work' = [work EXCEPT ![k] = Free]
        \/ \E step \in {"absent", "stored", "scheduled"} : Moves(k, step)
    BY <1>5
    DEF Consume, CallFails, LookUp, InsertRow, InsertRefused, Schedule, Finish, MoveToError
  <2>4. work[k].msg \in Messages /\ scheduled \in [Messages -> Nat]
    BY <2>1, BusyHasCopy DEF TypeOK
  <2>5. \A n \in Messages : scheduled'[n] # scheduled[n] => n = work[k].msg
    BY <2>2, <2>4, BumpType
  <2> QED
    BY <1>3, <1>4, <2>1, <2>3, <2>5
<1>6. ASSUME Restart PROVE SentFirst'
  <2>1. ASSUME NEW m \in Messages, waiting'[m] > 0 PROVE sent[m] > 0
    <3>1. CASE Busy(m) = {}
      <4>1. Cardinality(Busy(m)) = 0
        BY <3>1, FS_EmptySet
      <4>2. waiting'[m] = waiting[m]
        BY <1>6, <4>1 DEF Restart, TypeOK
      <4> QED
        BY <2>1, <4>2 DEF SentFirst
    <3> QED
      BY <3>1 DEF SentFirst
  <2> QED
    BY <1>6, <2>1, FreeIsIdle DEF Restart, SentFirst, Busy
<1>7. CASE UNCHANGED vars
  BY <1>7 DEF vars, queue, SentFirst, Busy
<1> QED
  BY <1>1, <1>2, <1>5, <1>6, <1>7 DEF Next, ConsumerStep

LEMMA DeliveryStep ==
  IInv /\ SentFirst /\ [Next]_vars => [Delivery!Next]_(Delivery!vars)
<1> SUFFICES ASSUME IInv, SentFirst, [Next]_vars
             PROVE  Delivery!Next \/ UNCHANGED Delivery!vars
  OBVIOUS
<1> TypeOK
  BY DEF IInv
<1> USE DEF Accepted, Delivered, Retired
<1>1. ASSUME NEW m \in Messages, Send(m) PROVE Delivery!Accept(m) \/ UNCHANGED Delivery!vars
  <2>1. sent \in [Messages -> Nat] /\ sent' = Bump(sent, m)
    BY <1>1 DEF Send, TypeOK
  <2>2. Accepted' = Accepted \union {m}
    BY <2>1, BumpType
  <2> QED
    BY <1>1, <2>2 DEF Send, Delivery!Accept, Delivery!vars
<1>2. ASSUME NEW m \in Messages, scheduled' = Bump(scheduled, m), UNCHANGED <<sent, acked>>,
             sent[m] > 0
      PROVE  Delivery!Deliver(m) \/ UNCHANGED Delivery!vars
  <2>1. scheduled \in [Messages -> Nat]
    BY DEF TypeOK
  <2>2. Delivered' = Delivered \union {m}
    BY <1>2, <2>1, BumpType
  <2> QED
    BY <1>2, <2>2 DEF Delivery!Deliver, Delivery!vars
<1>3. ASSUME NEW k \in Consumers, work[k] # Free
      PROVE  work[k].msg \in Messages /\ sent[work[k].msg] > 0
  BY <1>3, BusyHasCopy DEF SentFirst, Busy, Copy
<1>4. ASSUME NEW k \in Consumers, Schedule(k) PROVE Delivery!Next \/ UNCHANGED Delivery!vars
  <2>1. work[k] # Free
    BY <1>4, FreeIsIdle DEF Schedule
  <2> QED
    BY <1>2, <1>3, <1>4, <2>1 DEF Schedule, queue, Delivery!Next
<1>5. ASSUME NEW k \in Consumers, Finish(k) PROVE Delivery!Next \/ UNCHANGED Delivery!vars
  <2>1. work[k] # Free /\ scheduled[work[k].msg] > 0 /\ acked \in [Messages -> Nat]
    BY <1>5, FreeIsIdle DEF Finish, IInv, CommandBeforeAck, TypeOK
  <2>2. Retired' = Retired \union {work[k].msg} /\ {work[k].msg} \in SUBSET Delivered
    BY <1>3, <1>5, <2>1, BumpType DEF Finish
  <2>3. \E batch \in SUBSET Delivered : Delivery!Retire(batch)
    <3>1. UNCHANGED <<Accepted, Delivered>>
      BY <1>5 DEF Finish, queue
    <3> HIDE DEF Accepted, Delivered, Retired
    <3> QED
      BY <2>2, <3>1 DEF Delivery!Retire
  <2> QED
    BY <2>3 DEF Delivery!Next
<1>6. ASSUME NEW k \in Consumers, CallFails(k) PROVE Delivery!Next \/ UNCHANGED Delivery!vars
  <2>1. CASE UNCHANGED scheduled
    BY <1>6, <2>1 DEF CallFails, queue, Delivery!vars
  <2>2. CASE scheduled' = Bump(scheduled, work[k].msg)
    BY <1>2, <1>3, <1>6, <2>2 DEF CallFails, queue, Delivery!Next
  <2> QED
    BY <1>6, <2>1, <2>2 DEF CallFails
<1>7. ASSUME NEW k \in Consumers, LookUp(k) \/ InsertRow(k) \/ InsertRefused(k)
      PROVE  UNCHANGED Delivery!vars
  BY <1>7 DEF LookUp, InsertRow, InsertRefused, queue, Delivery!vars
<1>8. ASSUME Restart \/ \E k \in Consumers, m \in Messages : Receive(k, m)
      PROVE  UNCHANGED Delivery!vars
  BY <1>8 DEF Restart, Receive, Delivery!vars
<1>9. CASE UNCHANGED vars
  BY <1>9 DEF vars, queue, Delivery!vars
<1>10. ASSUME NEW m \in Messages, Send(m) PROVE Delivery!Next \/ UNCHANGED Delivery!vars
  BY <1>1, <1>10 DEF Delivery!Next
<1> QED
  BY <1>4, <1>5, <1>6, <1>7, <1>8, <1>9, <1>10 DEF Next, ConsumerStep, Consume

\* The two tables and the consumers deliver like the abstract channel: a
\* message becomes a command after it was sent, and leaves after that.
THEOREM InboxImplementsDelivery == Spec => ImplementsDelivery
<1>1. Init => IInv /\ SentFirst
  BY FreeIsIdle
  DEF Init, IInv, TypeOK, Zero, RowBeforeCommand, CommandBeforeAck,
      CommandHasInboxRow, AckedWasScheduled, SentFirst, Busy
<1>2. Init => Delivery!Init
  BY DEF Init, Zero, Delivery!Init, Accepted, Delivered, Retired
<1>3. IInv => TypeOK
  BY DEF IInv
<1> QED
  BY <1>1, <1>2, <1>3, IInvStep, SentFirstStep, DeliveryStep, PTL
  DEF Spec, ImplementsDelivery, Delivery!Spec
=============================================================================
