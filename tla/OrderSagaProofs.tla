--------------------------- MODULE OrderSagaProofs ---------------------------
(***************************************************************************)
(* Safety of the order saga for any orders, instances, messages, workers   *)
(* and failures.  None of its properties is inductive: IInv ties what a    *)
(* worker holds in memory to the instance table, the inbox and the outbox, *)
(* and what was published to the message it answers.                       *)
(***************************************************************************)
EXTENDS OrderSaga, TLAPS

-----------------------------------------------------------------------------
(* Type correctness                                                        *)

\* The two kinds of messages, and what the state machine does with each.
LEMMA Kinds ==
  ASSUME NEW m \in Message
  PROVE  /\ m \in Created <=> m \notin Answer
         /\ m \in Created => Output(m) = "CheckBookStock" /\ NextState(m) = "StockCheck"
         /\ m \in Answer =>
              /\ m.of \in Instances
              /\ Output(m) \in {"CompletePayment", "OrderFailed"}
              /\ NextState(m) \in {"StockReserved", "Final"}
<1>1. CASE m \in Created
  BY <1>1 DEF Message, Created, Answer, Output, NextState
<1>2. CASE m \in Answer
  BY <1>2 DEF Message, Created, Answer, Output, NextState
<1> QED
  BY <1>1, <1>2 DEF Message

LEMMA OutputType ==
  ASSUME NEW m \in Message
  PROVE  Output(m) \in Command /\ NextState(m) \in State /\ NextState(m) # "none"
BY Kinds DEF Command, State

LEMMA NobodyCreates == Nobody \notin Message /\ Nobody \notin Created
BY DEF Nobody, Message, Created, Answer

\* What a worker holds has the type its step needs.
LEMMA WorkTyped ==
  ASSUME TypeOK, NEW w \in Workers
  PROVE  /\ work[w].at = "idle" <=> work[w] = Idle
         /\ work[w].at # "idle" => work[w].msg \in Message
         /\ work[w].at \in {"handled", "stored"} => work[w].inst \in Instances
BY DEF TypeOK, Handling, Idle

\* A worker moves to another step, the others stay where they are.
LEMMA WorkSet ==
  ASSUME TypeOK, NEW w \in Workers, NEW x \in Handling \union {Idle},
         work' = [work EXCEPT ![w] = x]
  PROVE  /\ work' \in [Workers -> Handling \union {Idle}]
         /\ work'[w] = x
         /\ \A v \in Workers : v # w => work'[v] = work[v]
BY DEF TypeOK

LEMMA BeginType ==
  ASSUME NEW m \in Message, NEW i \in Instances, NEW s \in {"handled", "stored"}
  PROVE  /\ [at |-> s, msg |-> m, inst |-> i] \in Handling \union {Idle}
         /\ [at |-> s, msg |-> m, inst |-> i].at = s
         /\ [at |-> s, msg |-> m, inst |-> i].msg = m
         /\ [at |-> s, msg |-> m, inst |-> i].inst = i
BY DEF Handling

LEMMA DeliverType ==
  ASSUME NEW m \in Message, NEW s \in {"committed", "sent", "delivered"}
  PROVE  /\ [at |-> s, msg |-> m] \in Handling \union {Idle}
         /\ [at |-> s, msg |-> m].at = s
         /\ [at |-> s, msg |-> m].msg = m
BY DEF Handling

LEMMA IdleType == Idle \in Handling \union {Idle} /\ Idle.at = "idle"
BY DEF Idle

\* An order's message is handled by a new instance, an answer by its own.
LEMMA HandlersType ==
  ASSUME NEW m \in Message, NEW i \in Handlers(m)
  PROVE  /\ i \in Instances
         /\ m \in Created => i \in Fresh /\ Correlated(m) = {}
         /\ m \in Answer => i = m.of /\ state[i] = "StockCheck"
BY Kinds DEF Handlers, Fresh

LEMMA TypeStep == TypeOK /\ [Next]_vars => TypeOK'
<1> SUFFICES ASSUME TypeOK, [Next]_vars PROVE TypeOK'
  OBVIOUS
<1>1. ASSUME NEW m \in Message, Send(m) PROVE TypeOK'
  BY <1>1 DEF Send, TypeOK, tables
<1>2. ASSUME NEW m \in Message, ForgetDelivered(m) PROVE TypeOK'
  BY <1>2 DEF ForgetDelivered, TypeOK
<1>3. ASSUME NEW w \in Workers, NEW m \in Message, Handle(w, m) PROVE TypeOK'
  <2>1. PICK i \in Handlers(m) :
          work' = [work EXCEPT ![w] = [at |-> "handled", msg |-> m, inst |-> i]]
    BY <1>3 DEF Handle
  <2>2. work' \in [Workers -> Handling \union {Idle}]
    BY <2>1, HandlersType, BeginType, WorkSet
  <2> QED
    BY <1>3, <2>2 DEF Handle, TypeOK, tables
<1>4. ASSUME NEW w \in Workers, NEW m \in Message, RejectEvent(w, m) PROVE TypeOK'
  BY <1>4 DEF RejectEvent, TypeOK, tables
<1>5. ASSUME NEW w \in Workers, NEW m \in Message, Resume(w, m) PROVE TypeOK'
  <2>1. work' \in [Workers -> Handling \union {Idle}]
    BY <1>5, DeliverType, WorkSet DEF Resume
  <2> QED
    BY <1>5, <2>1 DEF Resume, TypeOK, tables
<1>6. ASSUME NEW w \in Workers, StoreInstance(w) PROVE TypeOK'
  <2>1. work[w].msg \in Message /\ work[w].inst \in Instances
    BY <1>6, WorkTyped DEF StoreInstance
  <2>2. work' \in [Workers -> Handling \union {Idle}]
    <3>1. work' = [work EXCEPT ![w] =
                     [at |-> "stored", msg |-> work[w].msg, inst |-> work[w].inst]]
      BY <1>6 DEF StoreInstance
    <3>2. [at |-> "stored", msg |-> work[w].msg, inst |-> work[w].inst] \in Handling \union {Idle}
      BY <2>1, BeginType
    <3> QED
      BY <3>1, <3>2, WorkSet
  <2>3. state' \in [Instances -> State]
    BY <1>6, <2>1, OutputType DEF StoreInstance, TypeOK
  <2>4. creator' \in [Instances -> Created \union {Nobody}]
    BY <1>6, <2>1 DEF StoreInstance, TypeOK
  <2> QED
    BY <1>6, <2>2, <2>3, <2>4 DEF StoreInstance, TypeOK
<1>7. ASSUME NEW w \in Workers, CommitOutbox(w) PROVE TypeOK'
  <2>1. work[w].msg \in Message /\ work[w].inst \in Instances
    BY <1>7, WorkTyped DEF CommitOutbox
  <2>2. work' \in [Workers -> Handling \union {Idle}]
    BY <1>7, <2>1, DeliverType, WorkSet DEF CommitOutbox
  <2>3. [command |-> Output(work[w].msg), to |-> work[w].inst] \in Row
    BY <2>1, OutputType DEF Row
  <2>4. outbox' \in [Message -> SUBSET Row]
    BY <1>7, <2>1, <2>3 DEF CommitOutbox, TypeOK
  <2> QED
    BY <1>7, <2>1, <2>2, <2>4 DEF CommitOutbox, TypeOK
<1>8. ASSUME NEW w \in Workers, SendOutbox(w) PROVE TypeOK'
  <2>1. work[w].msg \in Message
    BY <1>8, WorkTyped DEF SendOutbox
  <2>2. work' \in [Workers -> Handling \union {Idle}]
    BY <1>8, <2>1, DeliverType, WorkSet DEF SendOutbox
  <2>3. [row : outbox[work[w].msg], by : {work[w].msg}] \subseteq [row : Row, by : Message]
    BY <2>1 DEF TypeOK
  <2> QED
    BY <1>8, <2>2, <2>3 DEF SendOutbox, TypeOK, tables
<1>9. ASSUME NEW w \in Workers, MarkDelivered(w) PROVE TypeOK'
  <2>1. work[w].msg \in Message
    BY <1>9, WorkTyped DEF MarkDelivered
  <2>2. work' \in [Workers -> Handling \union {Idle}]
    BY <1>9, <2>1, DeliverType, WorkSet DEF MarkDelivered
  <2> QED
    BY <1>9, <2>1, <2>2 DEF MarkDelivered, TypeOK
<1>10. ASSUME NEW w \in Workers, Acknowledge(w) PROVE TypeOK'
  <2>1. work[w].msg \in Message
    BY <1>10, WorkTyped DEF Acknowledge
  <2> QED
    BY <1>10, <2>1 DEF Acknowledge, TypeOK, tables
<1>11. ASSUME NEW w \in Workers, CommitFails(w) PROVE TypeOK'
  <2>1. work[w].msg \in Message
    BY <1>11, WorkTyped DEF CommitFails
  <2> QED
    BY <1>11, <2>1 DEF CommitFails, Fault, TypeOK, tables
<1>12. ASSUME Restart PROVE TypeOK'
  BY <1>12 DEF Restart, Fault, TypeOK, tables
<1>13. CASE UNCHANGED vars
  BY <1>13 DEF vars, tables, TypeOK
<1> QED
  BY <1>1, <1>2, <1>3, <1>4, <1>5, <1>6, <1>7, <1>8, <1>9, <1>10, <1>11, <1>12, <1>13
     DEF Next, WorkerStep

LEMMA InitType == Init => TypeOK
<1> SUFFICES ASSUME Init PROVE TypeOK
  OBVIOUS
<1>1. broker \in [Message -> {"unsent", "queued", "taken", "settled", "error"}]
  BY DEF Init
<1>2. state \in [Instances -> State] /\ creator \in [Instances -> Created \union {Nobody}]
  BY DEF Init, State
<1>3. inbox \in [Message -> {"new", "consumed", "delivered"}] /\ outbox \in [Message -> SUBSET Row]
  BY DEF Init
<1>4. work \in [Workers -> Handling \union {Idle}] /\ faults \in Nat
        /\ published \in SUBSET [row : Row, by : Message]
  BY DEF Init
<1> QED
  BY <1>1, <1>2, <1>3, <1>4 DEF TypeOK

\* Every message, instance, row and worker keeps its type, for any number of
\* orders, workers, answers and failures.
THEOREM TypeCorrect == Spec => []TypeOK
BY InitType, TypeStep, PTL DEF Spec

-----------------------------------------------------------------------------
(* The inductive invariant                                                 *)

\* A message that is in work is with one worker.
Busy(w) == work[w].at # "idle"

Exclusive ==
  /\ \A w \in Workers : Busy(w) => broker[work[w].msg] = "taken"
  /\ \A v, w \in Workers : Busy(v) /\ Busy(w) /\ work[v].msg = work[w].msg => v = w

\* Every stored instance was made by one message that arrived, every message
\* made at most one.
CreatorOK ==
  /\ \A i \in Instances : state[i] # "none" <=> creator[i] \in Created
  /\ \A i, j \in Instances : creator[i] \in Created /\ creator[i] = creator[j] => i = j
  /\ \A i \in Instances : creator[i] \in Created => Arrived(creator[i])

\* Between the inbox lookup and the second commit the inbox row is new, an
\* answer is with its own instance and a new identifier with one worker; after
\* the first commit the instance is in the table.
Holding(w) == work[w].at \in {"handled", "stored"}

HandledOK(w) ==
  work[w].at = "handled" =>
    IF work[w].msg \in Created
      THEN state[work[w].inst] = "none" /\ \A i \in Instances : creator[i] # work[w].msg
      ELSE state[work[w].inst] # "none"

StoredOK(w) ==
  work[w].at = "stored" =>
    /\ state[work[w].inst] # "none"
    /\ work[w].msg \in Created => creator[work[w].inst] = work[w].msg

HandlingOK ==
  /\ \A w \in Workers : HandledOK(w) /\ StoredOK(w)
  /\ \A w \in Workers : Holding(w) =>
       /\ inbox[work[w].msg] = "new"
       /\ work[w].msg \in Answer => work[w].inst = work[w].msg.of
  /\ \A v, w \in Workers :
       /\ work[v].at = "handled" /\ work[v].msg \in Created
       /\ work[w].at = "handled" /\ work[w].msg \in Created
       /\ work[v].inst = work[w].inst
       => v = w

\* An outgoing message is the output of the message it answers, for the
\* instance that message belongs to.
RowOf(m, r) ==
  /\ r.command = Output(m)
  /\ state[r.to] # "none"
  /\ m \in Answer => r.to = m.of
  /\ m \in Created => creator[r.to] = m
  /\ Arrived(m)

RowsOK ==
  /\ \A m \in Message : \A r \in outbox[m] : RowOf(m, r)
  /\ \A p \in published : RowOf(p.by, p.row)

\* The stock check of an instance is in the outbox once the message that made it
\* is consumed, and at the broker once that message is delivered.
Announced(m) == \A i \in Instances : creator[i] = m => Published("CheckBookStock", i)

DeliveryOK ==
  /\ \A m \in Created :
       /\ inbox[m] = "consumed" =>
            \A i \in Instances :
              creator[i] = m => [command |-> "CheckBookStock", to |-> i] \in outbox[m]
       /\ inbox[m] = "delivered" => Announced(m)
       /\ broker[m] = "settled" => Announced(m)
  /\ \A w \in Workers :
       /\ work[w].at \in {"committed", "sent"} => inbox[work[w].msg] = "consumed"
       /\ work[w].at = "sent" => [row : outbox[work[w].msg], by : {work[w].msg}] \subseteq published
       /\ work[w].at = "delivered" => Announced(work[w].msg)

\* An answer is decided once its instance is stored; with one message at a
\* time, instances wait in StockCheck until their only answer is decided.
Decided(m) ==
  \/ \E p \in published : p.by = m
  \/ outbox[m] # {}
  \/ \E w \in Workers : work[w].at = "stored" /\ work[w].msg = m

SerialOK ==
  /\ OneInstancePerOrder
  /\ OneWorker =>
      /\ \A w \in Workers :
           work[w].at = "handled" =>
             IF work[w].msg \in Created
               THEN Correlated(work[w].msg) = {}
               ELSE state[work[w].inst] = "StockCheck"
      /\ \A m \in Answer : Decided(m) => state[m.of] # "StockCheck"
      /\ \A m, n \in Answer : Decided(m) /\ Decided(n) /\ m.of = n.of => m = n

IInv == TypeOK /\ Exclusive /\ CreatorOK /\ HandlingOK /\ RowsOK /\ DeliveryOK /\ SerialOK

-----------------------------------------------------------------------------
(* Every step preserves it                                                 *)

LEMMA InitInv == Init => IInv
<1> SUFFICES ASSUME Init PROVE IInv
  OBVIOUS
<1>1. \A w \in Workers : work[w].at = "idle"
  BY IdleType DEF Init
<1>2. \A i \in Instances : state[i] = "none" /\ creator[i] \notin Created
  BY NobodyCreates DEF Init
<1>3. \A m \in Message : broker[m] = "unsent" /\ inbox[m] = "new" /\ outbox[m] = {}
  BY DEF Init
<1>4. published = {}
  BY DEF Init
<1>5. Exclusive
  BY <1>1 DEF Exclusive, Busy
<1>6. CreatorOK
  BY <1>2 DEF CreatorOK
<1>7. HandlingOK
  BY <1>1 DEF HandlingOK, HandledOK, StoredOK, Holding
<1>8. RowsOK
  BY <1>3, <1>4 DEF RowsOK
<1>9. DeliveryOK
  BY <1>1, <1>3 DEF DeliveryOK, Message
<1>10. SerialOK
  BY <1>1, <1>2, <1>3, <1>4 DEF SerialOK, OneInstancePerOrder, Decided, Message
<1> QED
  BY InitType, <1>5, <1>6, <1>7, <1>8, <1>9, <1>10 DEF IInv

LEMMA SendInv ==
  ASSUME IInv, TypeOK', NEW m \in Message, Send(m)
  PROVE  IInv'
<1>1. /\ \A n \in Message : broker'[n] = IF n = m THEN "queued" ELSE broker[n]
      /\ broker[m] = "unsent"
      /\ state' = state /\ creator' = creator /\ inbox' = inbox /\ outbox' = outbox
      /\ published' = published /\ work' = work
  BY DEF Send, tables, IInv, TypeOK
<1>2. \A n \in Message : Arrived(n) => Arrived(n)'
  BY <1>1 DEF Arrived
<1>3. Exclusive'
  BY <1>1, WorkTyped DEF IInv, Exclusive, Busy
<1>4. CreatorOK'
  BY <1>1, <1>2 DEF IInv, CreatorOK, Message
<1>5. HandlingOK'
  BY <1>1 DEF IInv, HandlingOK, HandledOK, StoredOK, Holding
<1>6. RowsOK'
  BY <1>1, <1>2 DEF IInv, TypeOK, RowsOK, RowOf
<1>7. DeliveryOK'
  BY <1>1 DEF IInv, DeliveryOK, Announced, Published, Message
<1>8. SerialOK'
  BY <1>1 DEF IInv, SerialOK, OneInstancePerOrder, Decided, Correlated
<1> QED
  BY <1>3, <1>4, <1>5, <1>6, <1>7, <1>8 DEF IInv

LEMMA ForgetDeliveredInv ==
  ASSUME IInv, TypeOK', NEW m \in Message, ForgetDelivered(m)
  PROVE  IInv'
<1>1. /\ \A n \in Message : inbox'[n] = IF n = m THEN "new" ELSE inbox[n]
      /\ inbox[m] = "delivered"
      /\ state' = state /\ creator' = creator /\ broker' = broker /\ outbox' = outbox
      /\ published' = published /\ work' = work
  BY DEF ForgetDelivered, IInv, TypeOK
<1>3. Exclusive'
  BY <1>1 DEF IInv, Exclusive, Busy
<1>4. CreatorOK'
  BY <1>1 DEF IInv, CreatorOK, Arrived
<1>5. HandlingOK'
  BY <1>1, WorkTyped DEF IInv, HandlingOK, HandledOK, StoredOK, Holding
<1>6. RowsOK'
  BY <1>1 DEF IInv, RowsOK, RowOf, Arrived
<1>7. DeliveryOK'
  BY <1>1, WorkTyped DEF IInv, DeliveryOK, Announced, Published, Message
<1>8. SerialOK'
  BY <1>1 DEF IInv, SerialOK, OneInstancePerOrder, Decided, Correlated
<1> QED
  BY <1>3, <1>4, <1>5, <1>6, <1>7, <1>8 DEF IInv

LEMMA HandleInv ==
  ASSUME IInv, TypeOK', NEW w \in Workers, NEW m \in Message, Handle(w, m)
  PROVE  IInv'
<1>1. PICK i \in Handlers(m) :
        work' = [work EXCEPT ![w] = [at |-> "handled", msg |-> m, inst |-> i]]
  BY DEF Handle
<1>2. /\ i \in Instances
      /\ m \in Created => i \in Fresh /\ Correlated(m) = {}
      /\ m \in Answer => i = m.of /\ state[i] = "StockCheck"
  BY HandlersType
<1>3. [at |-> "handled", msg |-> m, inst |-> i] \in Handling \union {Idle}
  BY <1>2, BeginType
<1>4. /\ work'[w].at = "handled" /\ work'[w].msg = m /\ work'[w].inst = i
      /\ \A v \in Workers : v # w => work'[v] = work[v]
      /\ work[w].at = "idle"
  BY <1>1, <1>2, <1>3, WorkSet, BeginType, IdleType DEF IInv, Handle, Take
<1>5. /\ \A n \in Message : broker'[n] = IF n = m THEN "taken" ELSE broker[n]
      /\ broker[m] = "queued" /\ inbox[m] = "new"
      /\ state' = state /\ creator' = creator /\ inbox' = inbox /\ outbox' = outbox
      /\ published' = published
  BY DEF Handle, Take, tables, IInv, TypeOK
<1>6. \A n \in Message : Arrived(n)' <=> Arrived(n)
  BY <1>5 DEF Arrived
<1>7. Exclusive'
  BY <1>4, <1>5, WorkTyped DEF IInv, Exclusive, Busy
<1>8. CreatorOK'
  BY <1>5, <1>6 DEF IInv, CreatorOK, Message
<1>9. HandlingOK'
  <2>1. m \in Created =>
          /\ state[i] = "none" /\ \A j \in Instances : creator[j] # m
          /\ \A v \in Workers : work[v].at \in {"handled", "stored"} => work[v].inst # i
    BY <1>2 DEF Fresh, Correlated, IInv, CreatorOK
  <2>2. m \in Answer => state[i] # "none"
    BY <1>2
  <2>3. \A v \in Workers : HandledOK(v)' /\ StoredOK(v)'
    BY <1>4, <1>5, <2>1, <2>2, Kinds DEF IInv, HandlingOK, HandledOK, StoredOK
  <2>4. \A v \in Workers : Holding(v)' =>
          /\ inbox[work'[v].msg] = "new"
          /\ work'[v].msg \in Answer => work'[v].inst = work'[v].msg.of
    BY <1>2, <1>4, <1>5 DEF IInv, HandlingOK, Holding
  <2> QED
    BY <1>4, <1>5, <2>1, <2>3, <2>4 DEF IInv, HandlingOK, Holding
<1>10. RowsOK'
  BY <1>5, <1>6 DEF IInv, TypeOK, RowsOK, RowOf
<1>11. DeliveryOK'
  BY <1>4, <1>5 DEF IInv, DeliveryOK, Announced, Published, Message
<1>12. SerialOK'
  BY <1>2, <1>4, <1>5, Kinds DEF IInv, SerialOK, OneInstancePerOrder, Decided, Correlated
<1> QED
  BY <1>7, <1>8, <1>9, <1>10, <1>11, <1>12 DEF IInv

LEMMA RejectEventInv ==
  ASSUME IInv, TypeOK', NEW w \in Workers, NEW m \in Message, RejectEvent(w, m)
  PROVE  IInv'
<1>1. /\ \A n \in Message : broker'[n] = IF n = m THEN "error" ELSE broker[n]
      /\ broker[m] = "queued"
      /\ state' = state /\ creator' = creator /\ inbox' = inbox /\ outbox' = outbox
      /\ published' = published /\ work' = work
  BY DEF RejectEvent, Take, tables, IInv, TypeOK
<1>2. \A n \in Message : Arrived(n)' <=> Arrived(n)
  BY <1>1 DEF Arrived
<1>3. Exclusive'
  BY <1>1, WorkTyped DEF IInv, Exclusive, Busy
<1>4. CreatorOK'
  BY <1>1, <1>2 DEF IInv, CreatorOK, Message
<1>5. HandlingOK'
  BY <1>1 DEF IInv, HandlingOK, HandledOK, StoredOK, Holding
<1>6. RowsOK'
  BY <1>1, <1>2 DEF IInv, TypeOK, RowsOK, RowOf
<1>7. DeliveryOK'
  BY <1>1 DEF IInv, DeliveryOK, Announced, Published, Message
<1>8. SerialOK'
  BY <1>1 DEF IInv, SerialOK, OneInstancePerOrder, Decided, Correlated
<1> QED
  BY <1>3, <1>4, <1>5, <1>6, <1>7, <1>8 DEF IInv

LEMMA ResumeInv ==
  ASSUME IInv, TypeOK', NEW w \in Workers, NEW m \in Message, Resume(w, m)
  PROVE  IInv'
<1> DEFINE s == IF inbox[m] = "consumed" THEN "committed" ELSE "delivered"
<1>1. s \in {"committed", "delivered"} /\ (s = "committed" <=> inbox[m] = "consumed")
  OBVIOUS
<1>2. work' = [work EXCEPT ![w] = [at |-> s, msg |-> m]]
  BY DEF Resume
<1>3. inbox[m] \in {"consumed", "delivered"}
  BY DEF Resume, IInv, TypeOK
<1> HIDE DEF s
<1>4. [at |-> s, msg |-> m] \in Handling \union {Idle}
  BY <1>1, DeliverType
<1>5. /\ work'[w].at = s /\ work'[w].msg = m
      /\ \A v \in Workers : v # w => work'[v] = work[v]
      /\ work[w].at = "idle"
  <2>1. work'[w] = [at |-> s, msg |-> m] /\ \A v \in Workers : v # w => work'[v] = work[v]
    BY <1>2, <1>4, WorkSet DEF IInv
  <2>2. work[w].at = "idle"
    BY IdleType DEF Resume, Take
  <2> QED
    BY <2>1, <2>2
<1>6. /\ \A n \in Message : broker'[n] = IF n = m THEN "taken" ELSE broker[n]
      /\ broker[m] = "queued"
      /\ state' = state /\ creator' = creator /\ inbox' = inbox /\ outbox' = outbox
      /\ published' = published
  BY DEF Resume, Take, tables, IInv, TypeOK
<1>7. \A n \in Message : Arrived(n)' <=> Arrived(n)
  BY <1>6 DEF Arrived
<1>8. Exclusive'
  BY <1>5, <1>6, WorkTyped DEF IInv, Exclusive, Busy
<1>9. CreatorOK'
  BY <1>6, <1>7 DEF IInv, CreatorOK, Message
<1>10. HandlingOK'
  BY <1>1, <1>5, <1>6 DEF IInv, HandlingOK, HandledOK, StoredOK, Holding
<1>11. RowsOK'
  BY <1>6, <1>7 DEF IInv, TypeOK, RowsOK, RowOf
<1>12. DeliveryOK'
  <2>1. inbox[m] = "delivered" => Announced(m)
    <3>1. CASE m \in Created
      BY <3>1 DEF IInv, DeliveryOK
    <3>2. CASE m \notin Created
      BY <3>2, NobodyCreates DEF IInv, TypeOK, Announced
    <3> QED
      BY <3>1, <3>2
  <2> QED
    BY <1>1, <1>3, <1>5, <1>6, <2>1 DEF IInv, DeliveryOK, Announced, Published, Message
<1>13. SerialOK'
  BY <1>1, <1>5, <1>6 DEF IInv, SerialOK, OneInstancePerOrder, Decided, Correlated
<1> QED
  BY <1>8, <1>9, <1>10, <1>11, <1>12, <1>13 DEF IInv

\* What a worker that holds an instance knows of it.
LEMMA HoldingFacts ==
  ASSUME IInv, NEW w \in Workers, work[w].at \in {"handled", "stored"}
  PROVE  /\ work[w].msg \in Message /\ work[w].inst \in Instances
         /\ broker[work[w].msg] = "taken" /\ inbox[work[w].msg] = "new"
         /\ work[w].msg \in Answer => work[w].inst = work[w].msg.of
         /\ \A v \in Workers : v # w /\ Busy(v) => work[v].msg # work[w].msg
BY WorkTyped DEF IInv, Exclusive, Busy, HandlingOK, Holding

LEMMA StoreInstanceInv ==
  ASSUME IInv, TypeOK', NEW w \in Workers, StoreInstance(w)
  PROVE  IInv'
<1> DEFINE m == work[w].msg
           i == work[w].inst
<1>1. /\ m \in Message /\ i \in Instances
      /\ broker[m] = "taken" /\ inbox[m] = "new"
      /\ m \in Answer => i = m.of
      /\ \A v \in Workers : v # w /\ Busy(v) => work[v].msg # m
  BY HoldingFacts DEF StoreInstance
<1>2. /\ m \in Created => state[i] = "none" /\ \A j \in Instances : creator[j] # m
      /\ m \in Answer => state[i] # "none"
  BY <1>1, Kinds DEF StoreInstance, IInv, HandlingOK, HandledOK
<1>3. /\ \A j \in Instances : state'[j] = IF j = i THEN NextState(m) ELSE state[j]
      /\ \A j \in Instances : creator'[j] = IF m \in Created /\ j = i THEN m ELSE creator[j]
      /\ broker' = broker /\ inbox' = inbox /\ outbox' = outbox /\ published' = published
      /\ work[w].at = "handled"
  BY <1>1 DEF StoreInstance, IInv, TypeOK
<1>4. work' = [work EXCEPT ![w] = [at |-> "stored", msg |-> m, inst |-> i]]
  BY DEF StoreInstance
<1> HIDE DEF m, i
<1>5. /\ work'[w].at = "stored" /\ work'[w].msg = m /\ work'[w].inst = i
      /\ \A v \in Workers : v # w => work'[v] = work[v]
  <2>1. [at |-> "stored", msg |-> m, inst |-> i] \in Handling \union {Idle}
    BY <1>1, BeginType
  <2>2. work'[w] = [at |-> "stored", msg |-> m, inst |-> i]
        /\ \A v \in Workers : v # w => work'[v] = work[v]
    BY <1>4, <2>1, WorkSet DEF IInv
  <2> QED
    BY <2>2
<1>6. work[w].msg = m /\ work[w].inst = i
  BY DEF m, i
<1>7. state'[i] # "none" /\ NextState(m) # "none"
  BY <1>1, <1>3, OutputType
<1>8. \A j \in Instances : state[j] # "none" => state'[j] # "none" /\ creator'[j] = creator[j]
  BY <1>2, <1>3, <1>7
<1>9. Exclusive'
  BY <1>3, <1>5, <1>6 DEF IInv, Exclusive, Busy
<1>10. CreatorOK'
  <2>1. m \in Created => creator'[i] = m
    BY <1>1, <1>3
  <2>2. \A j \in Instances : state'[j] # "none" <=> creator'[j] \in Created
    BY <1>1, <1>2, <1>3, <1>7, <2>1, Kinds DEF IInv, CreatorOK
  <2>3. \A j, k \in Instances : creator'[j] \in Created /\ creator'[j] = creator'[k] => j = k
    BY <1>1, <1>2, <1>3 DEF IInv, CreatorOK
  <2>4. \A j \in Instances : creator'[j] \in Created => Arrived(creator'[j])
    BY <1>1, <1>3 DEF IInv, CreatorOK, Arrived
  <2> QED
    BY <1>3, <2>2, <2>3, <2>4 DEF CreatorOK, Arrived
<1>11. HandlingOK'
  <2>1. \A v \in Workers : v # w => HandledOK(v)'
    <3> SUFFICES ASSUME NEW v \in Workers, v # w, work[v].at = "handled" PROVE HandledOK(v)'
      BY <1>5 DEF HandledOK
    <3>1. work[v].inst \in Instances /\ work[v].msg \in Message /\ work[v].msg # m
      BY <1>1, WorkTyped DEF Busy, IInv
    <3>2. CASE work[v].msg \in Created
      <4>1. state[work[v].inst] = "none" /\ \A j \in Instances : creator[j] # work[v].msg
        BY <3>2 DEF IInv, HandlingOK, HandledOK
      <4>2. work[v].inst # i
        <5>1. CASE m \in Created
          BY <1>3, <1>6, <3>2, <5>1 DEF IInv, HandlingOK
        <5>2. CASE m \notin Created
          BY <1>1, <1>2, <4>1, <5>2, Kinds
        <5> QED
          BY <5>1, <5>2
      <4> QED
        BY <1>3, <1>5, <3>1, <3>2, <4>1, <4>2 DEF HandledOK
    <3>3. CASE work[v].msg \notin Created
      BY <1>5, <1>8, <3>1, <3>3 DEF IInv, HandlingOK, HandledOK
    <3> QED
      BY <3>2, <3>3
  <2>2. \A v \in Workers : v # w => StoredOK(v)'
    BY <1>5, <1>8, WorkTyped DEF IInv, HandlingOK, StoredOK
  <2>3. HandledOK(w)' /\ StoredOK(w)'
    BY <1>1, <1>3, <1>5, <1>7 DEF HandledOK, StoredOK
  <2>4. \A v \in Workers : Holding(v)' =>
          /\ inbox[work'[v].msg] = "new"
          /\ work'[v].msg \in Answer => work'[v].inst = work'[v].msg.of
    BY <1>1, <1>5 DEF IInv, HandlingOK, Holding
  <2>5. \A u, v \in Workers :
          /\ work'[u].at = "handled" /\ work'[u].msg \in Created
          /\ work'[v].at = "handled" /\ work'[v].msg \in Created
          /\ work'[u].inst = work'[v].inst
          => u = v
    BY <1>5 DEF IInv, HandlingOK
  <2> QED
    BY <1>3, <2>1, <2>2, <2>3, <2>4, <2>5 DEF HandlingOK
<1>12. RowsOK'
  <2>1. \A n \in Message, r \in Row : RowOf(n, r) => RowOf(n, r)'
    BY <1>3, <1>8 DEF RowOf, Row, Arrived
  <2> QED
    BY <1>3, <2>1 DEF IInv, TypeOK, RowsOK
<1>13. DeliveryOK'
  <2>1. \A n \in Message : n # m => (Announced(n) => Announced(n)')
    BY <1>3 DEF Announced, Published
  <2>2. \A n \in Created :
          /\ inbox[n] = "consumed" => \A j \in Instances :
               creator'[j] = n => [command |-> "CheckBookStock", to |-> j] \in outbox[n]
          /\ inbox[n] = "delivered" => Announced(n)'
          /\ broker[n] = "settled" => Announced(n)'
    BY <1>1, <1>3, <2>1 DEF IInv, DeliveryOK, Message
  <2>3. \A v \in Workers :
          /\ work'[v].at \in {"committed", "sent"} => inbox[work'[v].msg] = "consumed"
          /\ work'[v].at = "sent" =>
               [row : outbox[work'[v].msg], by : {work'[v].msg}] \subseteq published
    BY <1>5 DEF IInv, DeliveryOK
  <2>4. \A v \in Workers : work'[v].at = "delivered" => Announced(work[v].msg)'
    BY <1>1, <1>5, <2>1, WorkTyped DEF IInv, DeliveryOK, Busy
  <2> QED
    BY <1>3, <1>5, <2>2, <2>3, <2>4 DEF DeliveryOK, Announced, Published
<1>14. SerialOK'
  <2> SUFFICES ASSUME OneWorker PROVE SerialOK'
    BY DEF SerialOK, OneInstancePerOrder, OneWorker
  <2>0. \A v \in Workers : v = w
    BY DEF OneWorker
  <2>1. m \in Created => Correlated(m) = {}
    BY <1>3, <1>6 DEF IInv, SerialOK
  <2>2. m \in Answer => state[i] = "StockCheck"
    BY <1>1, <1>3, <1>6, Kinds DEF IInv, SerialOK
  <2>3. \A j, k \in Instances :
          state'[j] # "none" /\ state'[k] # "none" /\ creator'[j].of = creator'[k].of => j = k
    BY <1>2, <1>3, <2>1, <1>1, Kinds DEF IInv, SerialOK, OneInstancePerOrder, Correlated
  <2>4. \A n \in Answer : Decided(n)' => Decided(n) \/ n = m
    BY <1>3, <1>5 DEF Decided
  <2>5. \A n \in Answer : Decided(n) => state[n.of] # "StockCheck" /\ state[n.of] # "none"
    <3> SUFFICES ASSUME NEW n \in Answer, Decided(n)
                 PROVE  state[n.of] # "StockCheck" /\ state[n.of] # "none"
      OBVIOUS
    <3>1. state[n.of] # "StockCheck"
      BY DEF IInv, SerialOK
    <3>2. ~\E v \in Workers : work[v].at = "stored"
      BY <1>3, <2>0
    <3>3. CASE \E p \in published : p.by = n
      BY <3>1, <3>3 DEF IInv, RowsOK, RowOf
    <3>4. CASE outbox[n] # {}
      BY <3>1, <3>4 DEF IInv, RowsOK, RowOf, Message
    <3> QED
      BY <3>1, <3>2, <3>3, <3>4 DEF Decided
  <2>6. \A n \in Answer : Decided(n)' => state'[n.of] # "StockCheck"
    <3> SUFFICES ASSUME NEW n \in Answer, Decided(n)' PROVE state'[n.of] # "StockCheck"
      OBVIOUS
    <3>1. n \in Message /\ n.of \in Instances
      BY Kinds DEF Message
    <3>2. CASE n = m
      BY <1>1, <1>3, <3>1, <3>2, Kinds
    <3>3. CASE n # m
      <4>1. state[n.of] # "StockCheck" /\ state[n.of] # "none"
        BY <2>4, <2>5, <3>3
      <4>2. CASE n.of = i
        BY <1>1, <1>2, <2>2, <4>1, <4>2, Kinds
      <4>3. CASE n.of # i
        BY <1>3, <3>1, <4>1, <4>3
      <4> QED
        BY <4>2, <4>3
    <3> QED
      BY <3>2, <3>3
  <2>7. \A n, k \in Answer : Decided(n)' /\ Decided(k)' /\ n.of = k.of => n = k
    <3>1. \A n \in Answer : Decided(n) => (m \in Answer => n.of # i)
      BY <2>2, <2>5
    <3> QED
      BY <1>1, <2>4, <3>1 DEF IInv, SerialOK
  <2> QED
    BY <1>5, <2>0, <2>3, <2>6, <2>7 DEF SerialOK, OneInstancePerOrder
<1> QED
  BY <1>9, <1>10, <1>11, <1>12, <1>13, <1>14 DEF IInv

LEMMA CommitOutboxInv ==
  ASSUME IInv, TypeOK', NEW w \in Workers, CommitOutbox(w)
  PROVE  IInv'
<1> DEFINE m == work[w].msg
           i == work[w].inst
           row == [command |-> Output(m), to |-> i]
<1>1. /\ m \in Message /\ i \in Instances
      /\ broker[m] = "taken" /\ inbox[m] = "new"
      /\ m \in Answer => i = m.of
      /\ \A v \in Workers : v # w /\ Busy(v) => work[v].msg # m
  BY HoldingFacts DEF CommitOutbox
<1>2. state[i] # "none" /\ (m \in Created => creator[i] = m)
  BY DEF CommitOutbox, IInv, HandlingOK, StoredOK
<1>3. /\ \A n \in Message : outbox'[n] = IF n = m THEN outbox[n] \union {row} ELSE outbox[n]
      /\ \A n \in Message : inbox'[n] = IF n = m THEN "consumed" ELSE inbox[n]
      /\ broker' = broker /\ state' = state /\ creator' = creator /\ published' = published
      /\ work[w].at = "stored"
  BY <1>1 DEF CommitOutbox, IInv, TypeOK
<1>4. work' = [work EXCEPT ![w] = [at |-> "committed", msg |-> m]]
  BY DEF CommitOutbox
<1>5. row.command = Output(m) /\ row.to = i
  OBVIOUS
<1>6. m \in Created => row = [command |-> "CheckBookStock", to |-> i]
  BY <1>1, Kinds
<1>7. work[w].msg = m
  BY DEF m
<1> HIDE DEF m, i, row
<1>8. /\ work'[w].at = "committed" /\ work'[w].msg = m
      /\ \A v \in Workers : v # w => work'[v] = work[v]
  <2>1. [at |-> "committed", msg |-> m] \in Handling \union {Idle}
    BY <1>1, DeliverType
  <2>2. work'[w] = [at |-> "committed", msg |-> m]
        /\ \A v \in Workers : v # w => work'[v] = work[v]
    BY <1>4, <2>1, WorkSet DEF IInv
  <2> QED
    BY <2>2
<1>9. Exclusive'
  BY <1>3, <1>7, <1>8 DEF IInv, Exclusive, Busy
<1>10. CreatorOK'
  BY <1>3 DEF IInv, CreatorOK, Arrived
<1>11. HandlingOK'
  <2>1. \A v \in Workers : HandledOK(v)' /\ StoredOK(v)'
    BY <1>3, <1>8 DEF IInv, HandlingOK, HandledOK, StoredOK
  <2>2. \A v \in Workers : Holding(v)' =>
          /\ inbox'[work'[v].msg] = "new"
          /\ work'[v].msg \in Answer => work'[v].inst = work'[v].msg.of
    BY <1>1, <1>3, <1>8, WorkTyped DEF IInv, HandlingOK, Holding, Busy
  <2> QED
    BY <1>8, <2>1, <2>2 DEF IInv, HandlingOK
<1>12. RowsOK'
  <2>1. RowOf(m, row)
    BY <1>1, <1>2, <1>5 DEF RowOf, Arrived
  <2>2. \A n \in Message : \A r \in outbox'[n] : RowOf(n, r)
    BY <1>3, <2>1 DEF IInv, RowsOK
  <2> QED
    BY <1>3, <2>2 DEF IInv, RowsOK, RowOf, Arrived
<1>13. DeliveryOK'
  <2>1. \A n \in Created :
          /\ inbox'[n] = "consumed" => \A j \in Instances :
               creator[j] = n => [command |-> "CheckBookStock", to |-> j] \in outbox'[n]
          /\ inbox'[n] = "delivered" => Announced(n)
          /\ broker[n] = "settled" => Announced(n)
    <3> SUFFICES ASSUME NEW n \in Created
                 PROVE  /\ inbox'[n] = "consumed" => \A j \in Instances :
                             creator[j] = n => [command |-> "CheckBookStock", to |-> j] \in outbox'[n]
                        /\ inbox'[n] = "delivered" => Announced(n)
                        /\ broker[n] = "settled" => Announced(n)
      OBVIOUS
    <3>1. CASE n = m
      <4>1. \A j \in Instances : creator[j] = n => j = i
        BY <1>1, <1>2, <3>1 DEF IInv, CreatorOK
      <4> QED
        BY <1>1, <1>3, <1>6, <3>1, <4>1
    <3>2. CASE n # m
      BY <1>3, <3>2 DEF IInv, DeliveryOK, Message
    <3> QED
      BY <3>1, <3>2
  <2>2. \A v \in Workers :
          /\ work'[v].at \in {"committed", "sent"} => inbox'[work'[v].msg] = "consumed"
          /\ work'[v].at = "sent" =>
               [row : outbox'[work'[v].msg], by : {work'[v].msg}] \subseteq published
          /\ work'[v].at = "delivered" => Announced(work[v].msg)
    <3> SUFFICES ASSUME NEW v \in Workers
                 PROVE  /\ work'[v].at \in {"committed", "sent"} => inbox'[work'[v].msg] = "consumed"
                        /\ work'[v].at = "sent" =>
                             [row : outbox'[work'[v].msg], by : {work'[v].msg}] \subseteq published
                        /\ work'[v].at = "delivered" => Announced(work[v].msg)
      OBVIOUS
    <3>1. CASE v = w
      BY <1>1, <1>3, <1>8, <3>1
    <3>2. CASE v # w
      <4>1. work[v].at # "idle" =>
              /\ work[v].msg # m /\ work[v].msg \in Message
              /\ outbox'[work[v].msg] = outbox[work[v].msg]
              /\ inbox'[work[v].msg] = inbox[work[v].msg]
        BY <1>1, <1>3, <3>2, WorkTyped DEF IInv, Busy
      <4>2. work'[v] = work[v]
        BY <1>8, <3>2
      <4> QED
        BY <4>1, <4>2 DEF IInv, DeliveryOK
    <3> QED
      BY <3>1, <3>2
  <2> QED
    BY <1>3, <1>8, <2>1, <2>2 DEF DeliveryOK, Announced, Published
<1>14. SerialOK'
  <2> SUFFICES ASSUME OneWorker PROVE SerialOK'
    BY DEF SerialOK, OneInstancePerOrder, OneWorker
  <2>1. \A v \in Workers : v = w
    BY DEF OneWorker
  <2>2. \A n \in Answer : Decided(n)' => Decided(n)
    BY <1>3, <1>7, <1>8 DEF Decided, Message
  <2> QED
    BY <1>3, <1>8, <2>1, <2>2 DEF IInv, SerialOK, OneInstancePerOrder
<1> QED
  BY <1>9, <1>10, <1>11, <1>12, <1>13, <1>14 DEF IInv

LEMMA SendOutboxInv ==
  ASSUME IInv, TypeOK', NEW w \in Workers, SendOutbox(w)
  PROVE  IInv'
<1> DEFINE m == work[w].msg
           new == [row : outbox[m], by : {m}]
<1>1. /\ m \in Message
      /\ \A v \in Workers : v # w /\ Busy(v) => work[v].msg # m
      /\ work[w].at = "committed" /\ inbox[m] = "consumed"
  BY WorkTyped DEF SendOutbox, IInv, Exclusive, Busy, DeliveryOK
<1>2. /\ published' = published \union new
      /\ broker' = broker /\ state' = state /\ creator' = creator /\ inbox' = inbox
      /\ outbox' = outbox
  BY DEF SendOutbox, tables
<1>3. work' = [work EXCEPT ![w] = [at |-> "sent", msg |-> m]]
  BY DEF SendOutbox
<1>4. \A p \in new : p.row \in outbox[m] /\ p.by = m
  OBVIOUS
<1>5. work[w].msg = m /\ new = [row : outbox[m], by : {m}]
  BY DEF m
<1> HIDE DEF m, new
<1>6. /\ work'[w].at = "sent" /\ work'[w].msg = m
      /\ \A v \in Workers : v # w => work'[v] = work[v]
  <2>1. [at |-> "sent", msg |-> m] \in Handling \union {Idle}
    BY <1>1, DeliverType
  <2>2. work'[w] = [at |-> "sent", msg |-> m]
        /\ \A v \in Workers : v # w => work'[v] = work[v]
    BY <1>3, <2>1, WorkSet DEF IInv
  <2> QED
    BY <2>2
<1>7. Exclusive'
  BY <1>1, <1>2, <1>5, <1>6 DEF IInv, Exclusive, Busy
<1>8. CreatorOK'
  BY <1>2 DEF IInv, CreatorOK, Arrived
<1>9. HandlingOK'
  BY <1>2, <1>6 DEF IInv, HandlingOK, HandledOK, StoredOK, Holding
<1>10. RowsOK'
  BY <1>1, <1>2, <1>4 DEF IInv, RowsOK, RowOf, Arrived
<1>11. DeliveryOK'
  <2>1. \A n : Announced(n) => Announced(n)'
    BY <1>2 DEF Announced, Published
  <2>2. \A v \in Workers :
          /\ work'[v].at \in {"committed", "sent"} => inbox[work'[v].msg] = "consumed"
          /\ work'[v].at = "sent" =>
               [row : outbox[work'[v].msg], by : {work'[v].msg}] \subseteq published'
          /\ work'[v].at = "delivered" => Announced(work[v].msg)
    BY <1>1, <1>2, <1>5, <1>6 DEF IInv, DeliveryOK
  <2> QED
    BY <1>2, <1>6, <2>1, <2>2 DEF IInv, DeliveryOK, Announced, Published
<1>12. SerialOK'
  <2>1. \A n \in Answer : Decided(n)' => Decided(n)
    BY <1>2, <1>4, <1>6 DEF Decided
  <2> QED
    BY <1>2, <1>6, <2>1 DEF IInv, SerialOK, OneInstancePerOrder, Correlated
<1> QED
  BY <1>7, <1>8, <1>9, <1>10, <1>11, <1>12 DEF IInv

LEMMA MarkDeliveredInv ==
  ASSUME IInv, TypeOK', NEW w \in Workers, MarkDelivered(w)
  PROVE  IInv'
<1> DEFINE m == work[w].msg
<1>1. /\ m \in Message
      /\ broker[m] = "taken"
      /\ \A v \in Workers : v # w /\ Busy(v) => work[v].msg # m
      /\ work[w].at = "sent" /\ inbox[m] = "consumed"
      /\ [row : outbox[m], by : {m}] \subseteq published
  BY WorkTyped DEF MarkDelivered, IInv, Exclusive, Busy, DeliveryOK
<1>2. /\ \A n \in Message : outbox'[n] = IF n = m THEN {} ELSE outbox[n]
      /\ \A n \in Message : inbox'[n] = IF n = m THEN "delivered" ELSE inbox[n]
      /\ broker' = broker /\ state' = state /\ creator' = creator /\ published' = published
  BY <1>1 DEF MarkDelivered, IInv, TypeOK
<1>3. work' = [work EXCEPT ![w] = [at |-> "delivered", msg |-> m]]
  BY DEF MarkDelivered
<1>4. Announced(m)
  <2> SUFFICES ASSUME NEW i \in Instances, creator[i] = m
               PROVE  Published("CheckBookStock", i)
    BY DEF Announced
  <2>1. m \in Created
    BY <1>1, NobodyCreates DEF IInv, TypeOK
  <2> DEFINE row == [command |-> "CheckBookStock", to |-> i]
  <2>2. row \in outbox[m]
    BY <1>1, <2>1 DEF IInv, DeliveryOK
  <2>3. [row |-> row, by |-> m] \in published
    BY <1>1, <2>2
  <2>4. [row |-> row, by |-> m].row = row
    OBVIOUS
  <2> QED
    BY <2>3, <2>4 DEF Published
<1>5. work[w].msg = m
  BY DEF m
<1> HIDE DEF m
<1>6. /\ work'[w].at = "delivered" /\ work'[w].msg = m
      /\ \A v \in Workers : v # w => work'[v] = work[v]
  <2>1. [at |-> "delivered", msg |-> m] \in Handling \union {Idle}
    BY <1>1, DeliverType
  <2>2. work'[w] = [at |-> "delivered", msg |-> m]
        /\ \A v \in Workers : v # w => work'[v] = work[v]
    BY <1>3, <2>1, WorkSet DEF IInv
  <2> QED
    BY <2>2
<1>7. Exclusive'
  BY <1>1, <1>2, <1>5, <1>6 DEF IInv, Exclusive, Busy
<1>8. CreatorOK'
  BY <1>2 DEF IInv, CreatorOK, Arrived
<1>9. HandlingOK'
  <2>1. \A v \in Workers : HandledOK(v)' /\ StoredOK(v)'
    BY <1>2, <1>6 DEF IInv, HandlingOK, HandledOK, StoredOK
  <2>2. \A v \in Workers : Holding(v)' =>
          /\ inbox'[work'[v].msg] = "new"
          /\ work'[v].msg \in Answer => work'[v].inst = work'[v].msg.of
    BY <1>1, <1>2, <1>6, WorkTyped DEF IInv, HandlingOK, Holding, Busy
  <2> QED
    BY <1>6, <2>1, <2>2 DEF IInv, HandlingOK
<1>10. RowsOK'
  BY <1>2 DEF IInv, RowsOK, RowOf, Arrived
<1>11. DeliveryOK'
  <2>1. \A n \in Created :
          /\ inbox'[n] = "consumed" => \A j \in Instances :
               creator[j] = n => [command |-> "CheckBookStock", to |-> j] \in outbox'[n]
          /\ inbox'[n] = "delivered" => Announced(n)
          /\ broker[n] = "settled" => Announced(n)
    BY <1>1, <1>2, <1>4 DEF IInv, DeliveryOK, Message
  <2>2. ASSUME NEW v \in Workers
        PROVE  /\ work'[v].at \in {"committed", "sent"} => inbox'[work'[v].msg] = "consumed"
               /\ work'[v].at = "sent" =>
                    [row : outbox'[work'[v].msg], by : {work'[v].msg}] \subseteq published
               /\ work'[v].at = "delivered" => Announced(work'[v].msg)
    <3>1. CASE v = w
      BY <1>4, <1>6, <3>1
    <3>2. CASE v # w
      <4>1. work[v].at # "idle" =>
              /\ work[v].msg # m /\ work[v].msg \in Message
              /\ outbox'[work[v].msg] = outbox[work[v].msg]
              /\ inbox'[work[v].msg] = inbox[work[v].msg]
        BY <1>1, <1>2, <3>2, WorkTyped DEF IInv, Busy
      <4>2. work'[v] = work[v]
        BY <1>6, <3>2
      <4> QED
        BY <4>1, <4>2 DEF IInv, DeliveryOK
    <3> QED
      BY <3>1, <3>2
  <2> QED
    BY <1>2, <2>1, <2>2 DEF DeliveryOK, Announced, Published
<1>12. SerialOK'
  <2>1. \A n \in Answer : Decided(n)' => Decided(n)
    BY <1>2, <1>6 DEF Decided, Message
  <2> QED
    BY <1>2, <1>6, <2>1 DEF IInv, SerialOK, OneInstancePerOrder, Correlated
<1> QED
  BY <1>7, <1>8, <1>9, <1>10, <1>11, <1>12 DEF IInv

LEMMA AcknowledgeInv ==
  ASSUME IInv, TypeOK', NEW w \in Workers, Acknowledge(w)
  PROVE  IInv'
<1> DEFINE m == work[w].msg
<1>1. /\ m \in Message /\ broker[m] = "taken" /\ Announced(m)
      /\ \A v \in Workers : v # w /\ Busy(v) => work[v].msg # m
  BY WorkTyped DEF Acknowledge, IInv, Exclusive, Busy, DeliveryOK
<1>2. /\ \A n \in Message : broker'[n] = IF n = m THEN "settled" ELSE broker[n]
      /\ state' = state /\ creator' = creator /\ inbox' = inbox /\ outbox' = outbox
      /\ published' = published
  BY <1>1 DEF Acknowledge, tables, IInv, TypeOK
<1>3. work'[w].at = "idle" /\ \A v \in Workers : v # w => work'[v] = work[v]
  <2>1. work' = [work EXCEPT ![w] = Idle]
    BY DEF Acknowledge
  <2> QED
    BY <2>1, WorkSet, IdleType DEF IInv
<1> HIDE DEF m
<1>4. \A n \in Message : Arrived(n)' <=> Arrived(n)
  BY <1>1, <1>2 DEF Arrived
<1>5. Exclusive'
  BY <1>1, <1>2, <1>3, WorkTyped DEF IInv, Exclusive, Busy
<1>6. CreatorOK'
  BY <1>2, <1>4 DEF IInv, CreatorOK, Message
<1>7. HandlingOK'
  BY <1>2, <1>3 DEF IInv, HandlingOK, HandledOK, StoredOK, Holding
<1>8. RowsOK'
  BY <1>2, <1>4 DEF IInv, TypeOK, RowsOK, RowOf
<1>9. DeliveryOK'
  BY <1>1, <1>2, <1>3 DEF IInv, DeliveryOK, Announced, Published, Message
<1>10. SerialOK'
  <2>1. \A n \in Answer : Decided(n)' => Decided(n)
    BY <1>2, <1>3 DEF Decided
  <2> QED
    BY <1>2, <1>3, <2>1 DEF IInv, SerialOK, OneInstancePerOrder, Correlated
<1> QED
  BY <1>5, <1>6, <1>7, <1>8, <1>9, <1>10 DEF IInv

LEMMA CommitFailsInv ==
  ASSUME IInv, TypeOK', NEW w \in Workers, CommitFails(w)
  PROVE  IInv'
<1> DEFINE m == work[w].msg
<1>1. /\ m \in Message /\ broker[m] = "taken"
      /\ \A v \in Workers : v # w /\ Busy(v) => work[v].msg # m
  BY WorkTyped DEF CommitFails, IInv, Exclusive, Busy
<1>2. /\ \A n \in Message : broker'[n] = IF n = m THEN "error" ELSE broker[n]
      /\ state' = state /\ creator' = creator /\ inbox' = inbox /\ outbox' = outbox
      /\ published' = published
  BY <1>1 DEF CommitFails, tables, IInv, TypeOK
<1>3. work'[w].at = "idle" /\ \A v \in Workers : v # w => work'[v] = work[v]
  <2>1. work' = [work EXCEPT ![w] = Idle]
    BY DEF CommitFails
  <2> QED
    BY <2>1, WorkSet, IdleType DEF IInv
<1> HIDE DEF m
<1>4. \A n \in Message : Arrived(n)' <=> Arrived(n)
  BY <1>1, <1>2 DEF Arrived
<1>5. Exclusive'
  BY <1>1, <1>2, <1>3, WorkTyped DEF IInv, Exclusive, Busy
<1>6. CreatorOK'
  BY <1>2, <1>4 DEF IInv, CreatorOK, Message
<1>7. HandlingOK'
  BY <1>2, <1>3 DEF IInv, HandlingOK, HandledOK, StoredOK, Holding
<1>8. RowsOK'
  BY <1>2, <1>4 DEF IInv, TypeOK, RowsOK, RowOf
<1>9. DeliveryOK'
  BY <1>2, <1>3 DEF IInv, DeliveryOK, Announced, Published, Message
<1>10. SerialOK'
  <2>1. \A n \in Answer : Decided(n)' => Decided(n)
    BY <1>2, <1>3 DEF Decided
  <2> QED
    BY <1>2, <1>3, <2>1 DEF IInv, SerialOK, OneInstancePerOrder, Correlated
<1> QED
  BY <1>5, <1>6, <1>7, <1>8, <1>9, <1>10 DEF IInv

LEMMA RestartInv ==
  ASSUME IInv, TypeOK', Restart
  PROVE  IInv'
<1>1. /\ \A n \in Message :
           broker'[n] = IF broker[n] = "taken" THEN "queued" ELSE broker[n]
      /\ state' = state /\ creator' = creator /\ inbox' = inbox /\ outbox' = outbox
      /\ published' = published
      /\ \A v \in Workers : work'[v].at = "idle"
  BY IdleType DEF Restart, tables, IInv, TypeOK
<1>2. \A n \in Message : Arrived(n)' <=> Arrived(n)
  BY <1>1 DEF Arrived
<1>3. Exclusive'
  BY <1>1 DEF Exclusive, Busy
<1>4. CreatorOK'
  BY <1>1, <1>2 DEF IInv, CreatorOK, Message
<1>5. HandlingOK'
  BY <1>1 DEF HandlingOK, HandledOK, StoredOK, Holding
<1>6. RowsOK'
  BY <1>1, <1>2 DEF IInv, TypeOK, RowsOK, RowOf
<1>7. DeliveryOK'
  BY <1>1 DEF IInv, DeliveryOK, Announced, Published, Message
<1>8. SerialOK'
  <2>1. \A n \in Answer : Decided(n)' => Decided(n)
    BY <1>1 DEF Decided
  <2> QED
    BY <1>1, <2>1 DEF IInv, SerialOK, OneInstancePerOrder, Correlated
<1> QED
  BY <1>3, <1>4, <1>5, <1>6, <1>7, <1>8 DEF IInv

LEMMA StutterInv == IInv /\ UNCHANGED vars => IInv'
<1> SUFFICES ASSUME IInv, UNCHANGED vars PROVE IInv'
  OBVIOUS
<1>1. TypeOK' /\ Exclusive'
  BY DEF IInv, TypeOK, Exclusive, Busy, vars, tables
<1>2. CreatorOK' /\ HandlingOK'
  BY DEF IInv, CreatorOK, Arrived, HandlingOK, HandledOK, StoredOK, Holding, vars, tables
<1>3. RowsOK' /\ DeliveryOK'
  BY DEF IInv, RowsOK, RowOf, Arrived, DeliveryOK, Announced, Published, vars, tables
<1>4. SerialOK'
  BY DEF IInv, SerialOK, OneInstancePerOrder, Decided, Correlated, vars, tables
<1> QED
  BY <1>1, <1>2, <1>3, <1>4 DEF IInv

LEMMA InvStep == IInv /\ [Next]_vars => IInv'
<1> SUFFICES ASSUME IInv, [Next]_vars PROVE IInv'
  OBVIOUS
<1>1. TypeOK'
  BY TypeStep DEF IInv
<1>2. CASE UNCHANGED vars
  BY <1>2, StutterInv
<1>3. CASE Next
  BY <1>1, <1>3, SendInv, ForgetDeliveredInv, HandleInv, RejectEventInv, ResumeInv,
     StoreInstanceInv, CommitOutboxInv, SendOutboxInv, MarkDeliveredInv, AcknowledgeInv,
     CommitFailsInv, RestartInv
     DEF Next, WorkerStep
<1> QED
  BY <1>2, <1>3

-----------------------------------------------------------------------------
(* What it implies                                                         *)

LEMMA CommandsInv == IInv => CommandsHaveInstance
BY DEF IInv, RowsOK, RowOf, Published, CommandsHaveInstance

LEMMA OutcomeInv == IInv => OutcomeWasAnswered
<1> SUFFICES ASSUME IInv, NEW p \in published
             PROVE  /\ p.row.command = "CompletePayment" =>
                         /\ p.by \in Answer /\ p.by.of = p.row.to
                         /\ p.by.event = "StockConfirmed" /\ Arrived(p.by)
                    /\ p.row.command = "OrderFailed" =>
                         /\ p.by \in Answer /\ p.by.of = p.row.to
                         /\ p.by.event = "StockReservationFailed" /\ Arrived(p.by)
  BY DEF OutcomeWasAnswered, Published
<1>1. p.by \in Message /\ RowOf(p.by, p.row)
  BY DEF IInv, TypeOK, RowsOK
<1>2. p.by \in Created => p.row.command = "CheckBookStock"
  BY <1>1, Kinds DEF RowOf
<1>3. CASE p.by \in Answer
  <2>1. /\ p.by.event = "StockConfirmed" => Output(p.by) = "CompletePayment"
        /\ p.by.event = "StockReservationFailed" => Output(p.by) = "OrderFailed"
    BY DEF Output
  <2>2. p.by.event \in {"StockConfirmed", "StockReservationFailed"}
    BY <1>3 DEF Answer
  <2> QED
    BY <1>1, <1>3, <2>1, <2>2 DEF RowOf
<1> QED
  BY <1>1, <1>2, <1>3, Kinds

LEMMA OneEffectInv == IInv => OneEffectPerMessage
<1> SUFFICES ASSUME IInv, NEW p \in published, NEW q \in published, p.by = q.by
             PROVE  p = q
  BY DEF OneEffectPerMessage
<1>1. /\ p \in [row : Row, by : Message] /\ q \in [row : Row, by : Message]
      /\ RowOf(p.by, p.row) /\ RowOf(q.by, q.row)
  BY DEF IInv, TypeOK, RowsOK
<1>2. p.row.command = q.row.command
  BY <1>1 DEF RowOf
<1>3. p.row.to \in Instances /\ q.row.to \in Instances
  BY <1>1 DEF Row
<1>4. p.row.to = q.row.to
  <2>1. CASE p.by \in Created
    BY <1>1, <1>3, <2>1 DEF RowOf, IInv, CreatorOK
  <2>2. CASE p.by \notin Created
    BY <1>1, <2>2, Kinds DEF RowOf
  <2> QED
    BY <2>1, <2>2
<1>5. p.row = q.row
  BY <1>1, <1>2, <1>4 DEF Row
<1> QED
  BY <1>1, <1>5

LEMMA TraceInv == IInv => LostCheckIsTraceable
<1> SUFFICES ASSUME IInv, NEW i \in Instances, state[i] # "none",
                    ~Published("CheckBookStock", i)
             PROVE  broker[creator[i]] \in {"queued", "taken", "error"}
  BY DEF LostCheckIsTraceable
<1>1. creator[i] \in Created /\ creator[i] \in Message /\ Arrived(creator[i])
  BY DEF IInv, CreatorOK, Message
<1>2. broker[creator[i]] # "settled"
  BY <1>1 DEF IInv, DeliveryOK, Announced
<1> QED
  BY <1>1, <1>2 DEF IInv, TypeOK, Arrived

LEMMA OneOutcomeInv == IInv => OneOutcome
<1> SUFFICES ASSUME IInv, OneWorker, NEW p \in published, NEW q \in published,
                    p.row.to = q.row.to,
                    "CheckBookStock" \notin {p.row.command, q.row.command}
             PROVE  p = q
  BY DEF OneOutcome
<1>1. /\ p.by \in Message /\ q.by \in Message
      /\ RowOf(p.by, p.row) /\ RowOf(q.by, q.row)
  BY DEF IInv, TypeOK, RowsOK
<1>2. p.by \in Answer /\ q.by \in Answer
  BY <1>1, Kinds DEF RowOf
<1>3. Decided(p.by) /\ Decided(q.by) /\ p.by.of = q.by.of
  BY <1>1, <1>2 DEF Decided, RowOf
<1>4. p.by = q.by
  BY <1>2, <1>3 DEF IInv, SerialOK
<1> QED
  BY <1>4, OneEffectInv DEF OneEffectPerMessage

LEMMA SpecInv == Spec => []IInv
BY InitInv, InvStep, PTL DEF Spec

\* A stock check, a payment and a failure go out only for a stored instance, for
\* any number of workers, duplicates and failures.
THEOREM CommandsFound == Spec => []CommandsHaveInstance
BY SpecInv, CommandsInv, PTL

\* Payment is asked for only after a confirmation, failure announced only after
\* a refusal, whatever was redelivered or overwritten.
THEOREM OutcomesFollow == Spec => []OutcomeWasAnswered
BY SpecInv, OutcomeInv, PTL

\* A message is never answered in two ways or for two instances, even when its
\* inbox row was removed and it was delivered again.
THEOREM OneEffect == Spec => []OneEffectPerMessage
BY SpecInv, OneEffectInv, PTL

\* The stock check of an instance is lost only with the message that made the
\* instance still in the broker or its error queue.
THEOREM LostChecksTraceable == Spec => []LostCheckIsTraceable
BY SpecInv, TraceInv, PTL

\* One message at a time, an order has one instance and an instance one outcome.
THEOREM SerialOrders == Spec => []OneInstancePerOrder
<1>1. IInv => OneInstancePerOrder
  BY DEF IInv, SerialOK
<1> QED
  BY <1>1, SpecInv, PTL

\* One message at a time, an instance never both asks for payment and announces
\* failure, and does neither twice.
THEOREM SerialOutcomes == Spec => []OneOutcome
BY SpecInv, OneOutcomeInv, PTL
=============================================================================
