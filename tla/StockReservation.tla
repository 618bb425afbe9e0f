--------------------------- MODULE StockReservation ---------------------------
(***************************************************************************)
(* The Catalogue's CheckBookStockCommandConsumer.                          *)
(*                                                                         *)
(* The saga sends one CheckBookStockCommand per saga instance.  The        *)
(* consumer walks the lines of the order; Find reads a product's row once  *)
(* per consume scope and returns the tracked entity afterwards, so that a  *)
(* second line of the same product sees what the first one took.  With     *)
(* enough stock on every line it saves the new quantities and publishes    *)
(* StockConfirmedEvent, else it publishes StockReservationFailedEvent and  *)
(* drops the tracked entities with the scope.                              *)
(*                                                                         *)
(* Save writes absolute quantities and Product has no concurrency token.   *)
(* The endpoint has neither inbox nor retry: a second copy of a command is *)
(* handled again, and an exception moves the command to the error queue.   *)
(***************************************************************************)
EXTENDS Integers, Sequences, FiniteSets, Functions

CONSTANTS
  Products,     \* rows of the Products table
  Commands,     \* CheckBookStockCommands, one for each saga instance
  Basket,       \* Basket[c]: the order lines of c
  NoProduct,    \* a product identifier the table does not have
  InitialStock, \* InitialStock[p]: the seeded Quantity of p
  Consumers,    \* messages the endpoint handles at the same time
  Development,  \* the start of the process clears and seeds the table again
  MaxCopies,    \* bound: how often the broker receives the same command
  MaxFaults     \* bound: failed calls and crashes

Line == [product : Products \union {NoProduct}, quantity : Nat \ {0}]

ASSUME NoProductAssumption == NoProduct \notin Products
ASSUME CommandsAssumption == IsFiniteSet(Commands)
ASSUME BasketAssumption == Basket \in [Commands -> Seq(Line)]
ASSUME InitialStockAssumption == InitialStock \in [Products -> Nat]
ASSUME ConsumersAssumption == IsFiniteSet(Consumers)
ASSUME DevelopmentAssumption == Development \in BOOLEAN
ASSUME BoundsAssumption == MaxCopies \in Nat /\ MaxFaults \in Nat

VARIABLES
  stock,     \* stock[p]: column Quantity
  sent,      \* sent[c]: copies of c the queue received so far
  waiting,   \* waiting[c]: copies of c in the queue
  work,      \* work[k]: what consumer k is doing
  granted,   \* granted[p]: units all saved reservations took
  saves,     \* saves[c]: how many reservations of c were saved
  confirmed, \* confirmed[c]: StockConfirmedEvents published for c
  rejected,  \* rejected[c]: StockReservationFailedEvents published for c
  faulted,   \* faulted[c]: copies of c moved to the error queue
  faults

answers == <<confirmed, rejected, faulted>>
vars == <<stock, sent, waiting, work, granted, saves, answers, faults>>

Zero(S) == [x \in S |-> 0]
Bump(f, x) == [f EXCEPT ![x] = @ + 1]

\* What one consume scope holds: the line it is at, the entities it tracks
\* with the quantity left and taken of each, whether a line came up short,
\* and whether a save already reached the database.
Scope ==
  [at : {"checking", "saved", "answered"}, cmd : Commands, line : Nat \ {0},
   tracked : SUBSET Products, left : [Products -> Int], taken : [Products -> Nat],
   short : BOOLEAN, stored : BOOLEAN]

Free == [at |-> "idle"]

NewScope(c) ==
  [at |-> "checking", cmd |-> c, line |-> 1, tracked |-> {},
   left |-> Zero(Products), taken |-> Zero(Products),
   short |-> FALSE, stored |-> FALSE]

TypeOK ==
  /\ stock \in [Products -> Int]
  /\ sent \in [Commands -> Nat] /\ waiting \in [Commands -> Nat]
  /\ work \in [Consumers -> Scope \union {Free}]
  /\ granted \in [Products -> Nat] /\ saves \in [Commands -> Nat]
  /\ confirmed \in [Commands -> Nat] /\ rejected \in [Commands -> Nat]
  /\ faulted \in [Commands -> Nat] /\ faults \in Nat

Init ==
  /\ stock = InitialStock
  /\ sent = Zero(Commands) /\ waiting = Zero(Commands)
  /\ work = [k \in Consumers |-> Free]
  /\ granted = Zero(Products) /\ saves = Zero(Commands)
  /\ confirmed = Zero(Commands) /\ rejected = Zero(Commands)
  /\ faulted = Zero(Commands) /\ faults = 0

-----------------------------------------------------------------------------
(* The queue                                                               *)

\* The saga's outbox delivers the command, at least once.
Send(c) ==
  /\ sent[c] < MaxCopies
  /\ sent' = Bump(sent, c)
  /\ waiting' = Bump(waiting, c)
  /\ UNCHANGED <<stock, work, granted, saves, answers, faults>>

\* Mutation of Receive: the copy is taken without looking.
ReceiveUnchecked(k, c) ==
  /\ work[k] = Free
  /\ waiting' = [waiting EXCEPT ![c] = @ - 1]
  /\ work' = [work EXCEPT ![k] = NewScope(c)]
  /\ UNCHANGED <<stock, sent, granted, saves, answers, faults>>

Receive(k, c) ==
  /\ work[k] = Free
  /\ waiting[c] > 0
  /\ waiting' = [waiting EXCEPT ![c] = @ - 1]
  /\ work' = [work EXCEPT ![k] = NewScope(c)]
  /\ UNCHANGED <<stock, sent, granted, saves, answers, faults>>

\* Consume returned: the copy leaves the queue.
Acknowledge(k) ==
  /\ work[k].at = "answered"
  /\ work' = [work EXCEPT ![k] = Free]
  /\ UNCHANGED <<stock, sent, waiting, granted, saves, answers, faults>>

-----------------------------------------------------------------------------
(* Consume                                                                 *)

Checking(k) == work[k].at = "checking"
AtLine(k) == Checking(k) /\ work[k].line <= Len(Basket[work[k].cmd])
AllChecked(k) == Checking(k) /\ work[k].line > Len(Basket[work[k].cmd])

\* Mutation of Quantity: a query without tracking, which reads the row again.
RowQuantity(k, p) == stock[p]

\* Find: the tracked entity when there is one, else the row.
Quantity(k, p) == IF p \in work[k].tracked THEN work[k].left[p] ELSE stock[p]

\* One turn of the loop, for a line whose product exists.
CheckLine(k) ==
  /\ AtLine(k)
  /\ LET w == work[k]
         p == Basket[w.cmd][w.line].product
         q == Basket[w.cmd][w.line].quantity
         here == Quantity(k, p)
         take == IF here >= q THEN q ELSE 0
     IN /\ p \in Products
        /\ work' = [work EXCEPT ![k] =
             [at |-> "checking", cmd |-> w.cmd, line |-> w.line + 1,
              tracked |-> w.tracked \union {p},
              left |-> [w.left EXCEPT ![p] = here - take],
              taken |-> [w.taken EXCEPT ![p] = @ + take],
              short |-> (w.short \/ here < q), stored |-> FALSE]]
  /\ UNCHANGED <<stock, sent, waiting, granted, saves, answers, faults>>

\* MassTransit moves the command to the error queue and frees the consumer.
MoveToError(k) ==
  /\ faulted' = Bump(faulted, work[k].cmd)
  /\ work' = [work EXCEPT ![k] = Free]

\* Find returned null and product.Quantity is dereferenced.
MissingProduct(k) ==
  /\ AtLine(k)
  /\ Basket[work[k].cmd][work[k].line].product \notin Products
  /\ MoveToError(k)
  /\ UNCHANGED <<stock, sent, waiting, granted, saves, confirmed, rejected, faults>>

\* Mutation of Write: the UPDATE subtracts what was taken, unchecked.
WriteRelative(k) ==
  /\ stock' = [p \in Products |-> stock[p] - work[k].taken[p]]
  /\ IF work[k].stored
       THEN UNCHANGED <<granted, saves>>
       ELSE /\ granted' = [p \in Products |-> granted[p] + work[k].taken[p]]
            /\ saves' = Bump(saves, work[k].cmd)

\* The UPDATE of every tracked entity whose quantity changed.
Write(k) ==
  /\ stock' = [p \in Products |->
                 IF work[k].taken[p] > 0 THEN work[k].left[p] ELSE stock[p]]
  /\ IF work[k].stored
       THEN UNCHANGED <<granted, saves>>
       ELSE /\ granted' = [p \in Products |-> granted[p] + work[k].taken[p]]
            /\ saves' = Bump(saves, work[k].cmd)

\* Mutation of Save: what the lines with stock took is saved in any case.
SavePartly(k) ==
  /\ AllChecked(k)
  /\ Write(k)
  /\ work' = [work EXCEPT ![k] = [work[k] EXCEPT !.at = "saved", !.stored = TRUE]]
  /\ UNCHANGED <<sent, waiting, answers, faults>>

Save(k) ==
  /\ AllChecked(k) /\ ~work[k].short
  /\ Write(k)
  /\ work' = [work EXCEPT ![k] = [work[k] EXCEPT !.at = "saved", !.stored = TRUE]]
  /\ UNCHANGED <<sent, waiting, answers, faults>>

PublishConfirmed(k) ==
  /\ work[k].at = "saved"
  /\ confirmed' = Bump(confirmed, work[k].cmd)
  /\ work' = [work EXCEPT ![k] = [work[k] EXCEPT !.at = "answered"]]
  /\ UNCHANGED <<stock, sent, waiting, granted, saves, rejected, faulted, faults>>

\* Mutation of PublishFailed: the else is missing, so the save follows.
PublishFailedGoesOn(k) ==
  /\ AllChecked(k) /\ work[k].short
  /\ rejected' = Bump(rejected, work[k].cmd)
  /\ work' = [work EXCEPT ![k] = [work[k] EXCEPT !.short = FALSE]]
  /\ UNCHANGED <<stock, sent, waiting, granted, saves, confirmed, faulted, faults>>

PublishFailed(k) ==
  /\ AllChecked(k) /\ work[k].short
  /\ rejected' = Bump(rejected, work[k].cmd)
  /\ work' = [work EXCEPT ![k] = [work[k] EXCEPT !.at = "answered"]]
  /\ UNCHANGED <<stock, sent, waiting, granted, saves, confirmed, faulted, faults>>

-----------------------------------------------------------------------------
(* Failures                                                                *)

Fault ==
  /\ faults < MaxFaults
  /\ faults' = faults + 1

\* The connection breaks after the database committed: EnableRetryOnFailure
\* runs the same UPDATEs again.
SaveIsRetried(k) ==
  /\ AllChecked(k) /\ ~work[k].short
  /\ Fault
  /\ Write(k)
  /\ work' = [work EXCEPT ![k] = [work[k] EXCEPT !.stored = TRUE]]
  /\ UNCHANGED <<sent, waiting, answers>>

\* SaveChangesAsync gives up, before or after the database committed.
SaveFails(k) ==
  /\ AllChecked(k) /\ ~work[k].short
  /\ Fault
  /\ MoveToError(k)
  /\ \/ Write(k)
     \/ UNCHANGED <<stock, granted, saves>>
  /\ UNCHANGED <<sent, waiting, confirmed, rejected>>

\* Publish throws; the broker may have taken the event.
PublishThrows(k) ==
  /\ work[k].at = "saved" \/ (AllChecked(k) /\ work[k].short)
  /\ Fault
  /\ MoveToError(k)
  /\ \/ UNCHANGED <<confirmed, rejected>>
     \/ /\ work[k].at = "saved"
        /\ confirmed' = Bump(confirmed, work[k].cmd)
        /\ UNCHANGED rejected
     \/ /\ Checking(k)
        /\ rejected' = Bump(rejected, work[k].cmd)
        /\ UNCHANGED confirmed
  /\ UNCHANGED <<stock, sent, waiting, granted, saves>>

Busy(c) == {k \in Consumers : work[k].at # "idle" /\ work[k].cmd = c}

\* Mutation of Restart: commands are acknowledged on receipt.
RestartForgets ==
  /\ Fault
  /\ work' = [k \in Consumers |-> Free]
  /\ stock' = IF Development THEN InitialStock ELSE stock
  /\ UNCHANGED <<sent, waiting, granted, saves, answers>>

\* The process dies and starts again.  What was not acknowledged is queued
\* again; in Development the table is seeded before the bus starts.
Restart ==
  /\ Fault
  /\ waiting' = [c \in Commands |-> waiting[c] + Cardinality(Busy(c))]
  /\ work' = [k \in Consumers |-> Free]
  /\ stock' = IF Development THEN InitialStock ELSE stock
  /\ UNCHANGED <<sent, granted, saves, answers>>

-----------------------------------------------------------------------------
Consume(k) ==
  \/ CheckLine(k)
  \/ MissingProduct(k)
  \/ Save(k)
  \/ PublishConfirmed(k)
  \/ PublishFailed(k)

ConsumerStep(k) ==
  \/ \E c \in Commands : Receive(k, c)
  \/ Consume(k)
  \/ Acknowledge(k)

Failure(k) == SaveIsRetried(k) \/ SaveFails(k) \/ PublishThrows(k)

Next ==
  \/ \E c \in Commands : Send(c)
  \/ \E k \in Consumers : ConsumerStep(k) \/ Failure(k)
  \/ Restart

Spec == Init /\ [][Next]_vars

\* The endpoint takes what waits and no call in Consume blocks forever.
Fairness == \A k \in Consumers : WF_vars(ConsumerStep(k))

FairSpec == Spec /\ Fairness

-----------------------------------------------------------------------------
(* Properties                                                              *)

\* No interleaving of stale reads, absolute writes, repeated lines of one
\* product, retried saves and restarts makes a quantity negative.
StockNeverNegative == \A p \in Products : stock[p] >= 0

\* A save never takes more from a row than its reservation was granted: stale
\* writes may give units back that another reservation took, but no unit
\* disappears without a reservation, even when a save runs twice.
StockCoversUngranted ==
  \A p \in Products : stock[p] >= InitialStock[p] - granted[p]

\* A command that was sent waits, is being handled, or was answered or moved
\* to the error queue, whatever dies in between.
NoCommandLost ==
  \A c \in Commands : sent[c] > 0 =>
    \/ waiting[c] > 0
    \/ Busy(c) # {}
    \/ confirmed[c] + rejected[c] + faulted[c] > 0

\* Units of p an order asks for, over all its lines.
Quantities(c) == [n \in DOMAIN Basket[c] |-> Basket[c][n].quantity]
LinesOf(c, p) == {n \in DOMAIN Basket[c] : Basket[c][n].product = p}

Demand ==
  [c \in Commands |-> [p \in Products |-> SumFunctionOnSet(Quantities(c), LinesOf(c, p))]]

\* A reservation is all or nothing: what saved reservations took is what
\* their whole baskets ask for, however the loops interleave.
GrantedIsDemand ==
  \A p \in Products :
    granted[p] = SumFunction([c \in Commands |-> saves[c] * Demand[c][p]])

\* The endpoint handles one message at a time and no restart seeds the table.
Undisturbed == ~Development /\ \A j, k \in Consumers : j = k

\* Undisturbed, stock and reservations always add up to the seeded quantity,
\* across failed and repeated saves, failed publishes and crashes.
StockConserved ==
  Undisturbed => \A p \in Products : stock[p] = InitialStock[p] - granted[p]

\* Every command is eventually answered or moved to the error queue.
EveryCommandSettles ==
  \A c \in Commands :
    sent[c] > 0 ~> confirmed[c] + rejected[c] + faulted[c] > 0

-----------------------------------------------------------------------------
(* Undisturbed, the loop is one atomic decision on the whole basket.       *)

Ledger == INSTANCE StockLedger

\* Every undisturbed behaviour is one of the ledger, which decides on a whole
\* basket in one step: line by line checks, saves that fail or run twice and
\* redelivered commands do not show.
ImplementsLedger == Ledger!Spec
=============================================================================
