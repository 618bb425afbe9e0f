-------------------------------- MODULE ReadCache --------------------------------
(***************************************************************************)
(* Cached reads of orders in the Order API.                                *)
(*                                                                         *)
(* IReadRepository is ReadRepositoryDecorator: it answers the query of a   *)
(* specification from Redis and fills Redis when the entry is missing.     *)
(* IRepository, which the commands use, is the plain repository: it writes *)
(* orders and removes no entry, so only the expiration ends an entry.      *)
(*                                                                         *)
(* What a hit returns is not what was stored.  NewtonSoftService builds an *)
(* Order with its private constructor and cannot write its properties,     *)
(* whose setters are private: the order comes back with new identifiers    *)
(* and no status, and mapping it to a DTO dereferences null.  A cached     *)
(* empty list comes back as it was.                                        *)
(*                                                                         *)
(* The queries are modelled from the moment the mediator sends them to     *)
(* their handler.                                                          *)
(***************************************************************************)
EXTENDS Integers

CONSTANTS
  Orders,
  Customers,
  Owner,       \* Owner[o]: the customer of order o
  Readers,     \* queries handled at the same time
  MaxVersion,  \* bound: changes of one order, its creation included
  ReadsFail    \* may a read of the database fail?

ASSUME OwnerAssumption == Owner \in [Orders -> Customers]
ASSUME MaxVersionAssumption == MaxVersion \in Nat
ASSUME ReadsFailAssumption == ReadsFail \in BOOLEAN

\* GetOrderDetailsQuery and ListOrdersForCustomerQuery.
Query == [by : {"id"}, of : Orders] \union [by : {"customer"}, of : Customers]

VARIABLES
  db,      \* db[o]: the version of order o; 0 when it does not exist
  cache,   \* cache[k]: what is stored under key k, one result or none
  reader,  \* reader[r]: the query r handles, how far, and its answer
  past     \* history: every state the table has had

vars == <<db, cache, reader, past>>

Table == [Orders -> 0..MaxVersion]

-----------------------------------------------------------------------------
(* Queries and their results                                               *)

Matches(q, o) == IF q.by = "id" THEN o = q.of ELSE Owner[o] = q.of

\* The orders a query finds in table d, with their versions.
Result(q, d) == [o \in {x \in Orders : Matches(q, x) /\ d[x] > 0} |-> d[o]]

Results(q) == {Result(q, d) : d \in Table}

\* Mutation of Key: EnableCache formats the name of the specification alone.
KeyByName(q) == q.by

\* EnableCache: the name of the specification and its arguments.
Key(q) == q

Keys == {Key(q) : q \in Query}

\* Mutation of Storable: nothing tells a missing order from a found one.
StorableAlways(q, found) == TRUE

\* FindAsync returns null for a missing order; FindAllAsync returns a list.
Storable(q, found) == q.by = "id" => DOMAIN found # {}

\* Stands for the version of an order whose properties were not restored.
NoStatus == 0

\* Deserialized orders have no status.
Decode(entry) == [o \in DOMAIN entry |-> NoStatus]

\* ToEither and the mapping to DTOs.
Answer(found) ==
  IF DOMAIN found = {} THEN [kind |-> "not found"]
  ELSE IF \E o \in DOMAIN found : found[o] = NoStatus THEN [kind |-> "error"]
  ELSE [kind |-> "shown", orders |-> found]

-----------------------------------------------------------------------------
(* A query                                                                 *)

Idle == [at |-> "idle"]

Init ==
  /\ db = [o \in Orders |-> 0]
  /\ cache = [k \in Keys |-> {}]
  /\ reader = [r \in Readers |-> Idle]
  /\ past = {db}

Running(r) == reader[r].at \in {"asked", "missed", "loaded"}

\* r.during collects the states of the table while the query runs.
Ask(r, q) ==
  /\ ~Running(r)
  /\ reader' = [reader EXCEPT ![r] = [at |-> "asked", query |-> q, during |-> {db}]]
  /\ UNCHANGED <<db, cache, past>>

Finish(r, answer) ==
  reader' = [reader EXCEPT ![r] =
    [at |-> "answered", query |-> @.query, during |-> @.during, answer |-> answer]]

\* GetAsync finds the entry.
Hit(r) ==
  /\ reader[r].at = "asked"
  /\ \E entry \in cache[Key(reader[r].query)] : Finish(r, Answer(Decode(entry)))
  /\ UNCHANGED <<db, cache, past>>

\* Mutation of Miss: the default of a read that failed is taken for the answer.
MissIsDefault(r) ==
  /\ reader[r].at = "asked"
  /\ Finish(r, Answer(<<>>))
  /\ UNCHANGED <<db, cache, past>>

\* GetAsync finds no entry, or fails and ExecuteSafeAsync returns the default.
Miss(r) ==
  /\ reader[r].at = "asked"
  /\ reader' = [reader EXCEPT ![r].at = "missed"]
  /\ UNCHANGED <<db, cache, past>>

\* getItemCallback reads the table; a value that is null is not stored.
Load(r) ==
  /\ reader[r].at = "missed"
  /\ LET q == reader[r].query
         found == Result(q, db)
     IN IF Storable(q, found)
          THEN reader' = [reader EXCEPT ![r] =
                 [at |-> "loaded", query |-> q, during |-> @.during, found |-> found]]
          ELSE Finish(r, Answer(found))
  /\ UNCHANGED <<db, cache, past>>

\* The database throws; ErrorHandlingBehavior makes an error of it.
LoadFails(r) ==
  /\ reader[r].at = "missed"
  /\ ReadsFail
  /\ Finish(r, [kind |-> "error"])
  /\ UNCHANGED <<db, cache, past>>

\* SetAsync stores the value, or fails and ExecuteSafeAsync ignores it.
Store(r) ==
  /\ reader[r].at = "loaded"
  /\ \/ cache' = [cache EXCEPT ![Key(reader[r].query)] = {reader[r].found}]
     \/ UNCHANGED cache
  /\ Finish(r, Answer(reader[r].found))
  /\ UNCHANGED <<db, past>>

-----------------------------------------------------------------------------
(* Writers and Redis                                                       *)

\* A command handler saves order o.
Write(o) ==
  /\ db[o] < MaxVersion
  /\ db' = [db EXCEPT ![o] = @ + 1]
  /\ past' = past \union {db'}
  /\ reader' = [r \in Readers |->
       IF Running(r) THEN [reader[r] EXCEPT !.during = @ \union {db'}] ELSE reader[r]]
  /\ UNCHANGED cache

\* The sliding expiration of an entry passes without a read of it.
Expire(k) ==
  /\ cache[k] # {}
  /\ cache' = [cache EXCEPT ![k] = {}]
  /\ UNCHANGED <<db, reader, past>>

ReaderStep(r) == Hit(r) \/ Miss(r) \/ Load(r) \/ Store(r)

Next ==
  \/ \E r \in Readers : ReaderStep(r) \/ LoadFails(r)
  \/ \E r \in Readers, q \in Query : Ask(r, q)
  \/ \E o \in Orders : Write(o)
  \/ \E k \in Keys : Expire(k)

Spec == Init /\ [][Next]_vars

-----------------------------------------------------------------------------
(* Properties                                                              *)

\* A missing order is never held for storing.
Entry(q) == {f \in Results(q) : q.by = "id" => DOMAIN f # {}}

Answers(q) ==
  [kind : {"not found", "error"}] \union [kind : {"shown"}, orders : Results(q)]

QueryState(q) ==
  [at : {"asked", "missed"}, query : {q}, during : SUBSET Table]
    \union [at : {"loaded"}, query : {q}, during : SUBSET Table, found : Entry(q)]
    \union [at : {"answered"}, query : {q}, during : SUBSET Table, answer : Answers(q)]

\* Every variable has its type; a query never ends with another query's result.
TypeOK ==
  /\ db \in Table
  /\ cache \in [Keys -> SUBSET UNION {Results(q) : q \in Query}]
  /\ DOMAIN reader = Readers
  /\ \A r \in Readers : reader[r] = Idle \/ \E q \in Query : reader[r] \in QueryState(q)
  /\ past \in SUBSET Table

\* Whether an answer is what the query finds in one of the tables in during.
\* A customer may be told that there are no orders by an old empty list.
Current(q, answer, during) ==
  /\ answer.kind = "shown" => \E d \in during : answer.orders = Result(q, d)
  /\ answer.kind = "not found" /\ q.by = "id" =>
       \E d \in during : DOMAIN Result(q, d) = {}

\* Orders are shown as they were in one state of the table while the query ran,
\* and an order is only reported missing when it was missing in one, however
\* old the entries of the cache are and whatever fails in Redis.
AnswerWasCurrent ==
  \A r \in Readers :
    LET s == reader[r]
    IN s.at = "answered" => Current(s.query, s.answer, s.during)

\* An entry is what its own query found in some state of the table, whichever
\* fills overlapped, and never stands for an order that was not found.
CachedWasStored ==
  \A q \in Query :
    \A entry \in cache[Key(q)] :
      /\ \E d \in past : entry = Result(q, d)
      /\ q.by = "id" => DOMAIN entry # {}

\* HandleAsync_ReturnsOk_WhenOrderFound: an order that exists for as long as
\* the query runs is shown, unless the database fails.
FoundOrderIsShown ==
  \A r \in Readers :
    LET s == reader[r]
    IN s.at = "answered" /\ s.query.by = "id" /\ ~ReadsFail
         /\ (\A d \in s.during : d[s.query.of] > 0)
       => s.answer.kind = "shown"
=============================================================================
