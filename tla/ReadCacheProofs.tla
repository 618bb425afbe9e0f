---------------------------- MODULE ReadCacheProofs ----------------------------
(***************************************************************************)
(* Proofs about the cached reads, for any orders, customers and number of  *)
(* overlapping queries and writes.                                         *)
(***************************************************************************)
EXTENDS ReadCache, TLAPS

-----------------------------------------------------------------------------
(* Results and answers                                                     *)

LEMMA ResultType ==
  ASSUME NEW q, NEW d \in Table
  PROVE  Result(q, d) \in Results(q)
BY DEF Results

\* What a hit returns never shows an order, and reports nothing missing unless
\* the entry is an empty list.
LEMMA HitShowsNothing ==
  ASSUME NEW entry
  PROVE  /\ Answer(Decode(entry)) \in [kind : {"not found", "error"}]
         /\ DOMAIN entry # {} => Answer(Decode(entry)).kind = "error"
<1>1. /\ \A o \in DOMAIN Decode(entry) : Decode(entry)[o] = NoStatus
      /\ DOMAIN Decode(entry) = DOMAIN entry
  BY DEF Decode
<1>2. CASE DOMAIN Decode(entry) = {}
  BY <1>1, <1>2 DEF Answer
<1>3. CASE DOMAIN Decode(entry) # {}
  <2>1. \E o \in DOMAIN Decode(entry) : Decode(entry)[o] = NoStatus
    BY <1>1, <1>3
  <2>2. Answer(Decode(entry)) = [kind |-> "error"]
    BY <2>1, <1>3 DEF Answer
  <2>3. QED
    BY <2>2
<1>4. QED
  BY <1>2, <1>3

\* What is loaded is shown as it is or not at all, and only nothing is reported
\* missing: the answer is current when what was loaded is.
LEMMA LoadedIsCurrent ==
  ASSUME NEW q, NEW found \in Results(q), NEW during,
         \E d \in during : found = Result(q, d)
  PROVE  /\ Answer(found) \in Answers(q)
         /\ Current(q, Answer(found), during)
<1>1. CASE DOMAIN found = {}
  <2>1. Answer(found) = [kind |-> "not found"]
    BY <1>1 DEF Answer
  <2>2. [kind |-> "not found"].kind = "not found"
        /\ [kind |-> "not found"] \in [kind : {"not found", "error"}]
    OBVIOUS
  <2>3. Answer(found).kind = "not found"
    BY <2>1, <2>2, Zenon
  <2>4. \E d \in during : DOMAIN Result(q, d) = {}
    BY <1>1
  <2>5. QED
    BY <2>1, <2>2, <2>3, <2>4 DEF Answers, Current
<1>2. CASE DOMAIN found # {} /\ \E o \in DOMAIN found : found[o] = NoStatus
  <2>1. Answer(found) = [kind |-> "error"]
    BY <1>2 DEF Answer
  <2>2. [kind |-> "error"].kind = "error"
        /\ [kind |-> "error"] \in [kind : {"not found", "error"}]
    OBVIOUS
  <2>3. Answer(found).kind = "error"
    BY <2>1, <2>2, Zenon
  <2>4. QED
    BY <2>1, <2>2, <2>3 DEF Answers, Current
<1>3. CASE DOMAIN found # {} /\ ~(\E o \in DOMAIN found : found[o] = NoStatus)
  <2>1. Answer(found) = [kind |-> "shown", orders |-> found]
    BY <1>3 DEF Answer
  <2>2. LET a == [kind |-> "shown", orders |-> found]
        IN a.kind = "shown" /\ a.orders = found
           /\ a \in [kind : {"shown"}, orders : Results(q)]
    OBVIOUS
  <2>3. Answer(found).kind = "shown" /\ Answer(found).orders = found
    BY <2>1, <2>2, Zenon
  <2>4. Answer(found) \in Answers(q)
    BY <2>1, <2>2 DEF Answers
  <2>5. QED
    BY <2>3, <2>4 DEF Current
<1>4. QED
  BY <1>1, <1>2, <1>3

-----------------------------------------------------------------------------
(* The inductive invariant                                                 *)

\* Queries that run have seen the table as it is, and no other than it was;
\* what they loaded is what their query found while they ran.
QueryInv(r) ==
  LET s == reader[r]
  IN /\ Running(r) => db \in s.during /\ s.during \subseteq past
     /\ s.at = "loaded" => \E d \in s.during : s.found = Result(s.query, d)

Inv ==
  /\ TypeOK
  /\ db \in past
  /\ \A r \in Readers : QueryInv(r)
  /\ AnswerWasCurrent
  /\ CachedWasStored

LEMMA InitInv == Init => Inv
<1>1. ASSUME Init PROVE Inv
  <2>1. db \in Table /\ past = {db}
    BY <1>1, MaxVersionAssumption DEF Init, Table
  <2>2. /\ \A r \in Readers : reader[r] = Idle
        /\ \A q \in Query : cache[Key(q)] = {}
    BY <1>1 DEF Init, Keys
  <2>3. TypeOK
    BY <1>1, <2>1, <2>2 DEF Init, TypeOK
  <2>4. \A r \in Readers : QueryInv(r)
    BY <2>2 DEF QueryInv, Running, Idle
  <2>5. AnswerWasCurrent
    BY <2>2 DEF AnswerWasCurrent, Idle
  <2>6. QED
    BY <2>1, <2>2, <2>3, <2>4, <2>5 DEF Inv, CachedWasStored
<1>2. QED
  BY <1>1

\* A step of one query that writes no order keeps the invariant when the new
\* state of the query and the cache are right.
LEMMA QueryMoves ==
  ASSUME Inv, NEW r \in Readers, NEW s,
         reader' = [reader EXCEPT ![r] = s],
         UNCHANGED <<db, past>>,
         \E q \in Query : s \in QueryState(q),
         s.at \in {"asked", "missed", "loaded"} => db \in s.during /\ s.during \subseteq past,
         s.at = "loaded" => \E d \in s.during : s.found = Result(s.query, d),
         s.at = "answered" => Current(s.query, s.answer, s.during),
         cache' \in [Keys -> SUBSET UNION {Results(q) : q \in Query}],
         CachedWasStored'
  PROVE  Inv'
<1>1. DOMAIN reader = Readers
  BY DEF Inv, TypeOK
<1>2. reader'[r] = s /\ \A x \in Readers \ {r} : reader'[x] = reader[x]
  BY <1>1
<1>3. TypeOK'
  <2>1. DOMAIN reader' = Readers
    BY <1>1
  <2>2. ASSUME NEW x \in Readers
        PROVE  reader'[x] = Idle \/ \E q \in Query : reader'[x] \in QueryState(q)
    BY <1>2 DEF Inv, TypeOK
  <2>3. QED
    BY <2>1, <2>2 DEF Inv, TypeOK, QueryState, Answers, Entry, Results, Result, Matches
<1>4. ASSUME NEW x \in Readers PROVE QueryInv(x)'
  BY <1>2 DEF Inv, QueryInv, Running
<1>5. AnswerWasCurrent'
  BY <1>2 DEF Inv, AnswerWasCurrent
<1>6. QED
  BY <1>3, <1>4, <1>5 DEF Inv

\* A running query has its type.
LEMMA RunningType ==
  ASSUME Inv, NEW r \in Readers, Running(r)
  PROVE  /\ reader[r].query \in Query
         /\ reader[r] \in QueryState(reader[r].query)
         /\ db \in reader[r].during
         /\ reader[r].during \subseteq past
         /\ reader[r].during \in SUBSET Table
<1>1. reader[r] # Idle
  BY DEF Running, Idle
<1>2. PICK q \in Query : reader[r] \in QueryState(q)
  BY <1>1 DEF Inv, TypeOK
<1>3. reader[r].query = q /\ reader[r].during \in SUBSET Table
  BY <1>2 DEF QueryState
<1>4. QED
  BY <1>2, <1>3 DEF Inv, QueryInv

\* A query that ends gives an answer that was current while it ran.
LEMMA Finishes ==
  ASSUME Inv, NEW r \in Readers, Running(r), NEW answer \in Answers(reader[r].query),
         Finish(r, answer), UNCHANGED <<db, past>>,
         Current(reader[r].query, answer, reader[r].during),
         cache' \in [Keys -> SUBSET UNION {Results(q) : q \in Query}],
         CachedWasStored'
  PROVE  Inv'
<1> DEFINE s == [at |-> "answered", query |-> reader[r].query,
                 during |-> reader[r].during, answer |-> answer]
<1>1. DOMAIN reader = Readers
  BY DEF Inv, TypeOK
<1>2. reader' = [reader EXCEPT ![r] = s]
  BY <1>1 DEF Finish
<1>3. s \in QueryState(reader[r].query) /\ reader[r].query \in Query
  BY RunningType DEF QueryState
<1>4. QED
  BY <1>2, <1>3, QueryMoves

-----------------------------------------------------------------------------
(* The steps                                                               *)

LEMMA AskInv ==
  ASSUME Inv, NEW r \in Readers, NEW q \in Query, Ask(r, q)
  PROVE  Inv'
<1> DEFINE s == [at |-> "asked", query |-> q, during |-> {db}]
<1>1. s \in QueryState(q)
  BY DEF Inv, TypeOK, QueryState
<1>2. db \in past
  BY DEF Inv
<1>3. cache' = cache /\ CachedWasStored'
  BY DEF Inv, CachedWasStored, Ask
<1>4. cache' \in [Keys -> SUBSET UNION {Results(x) : x \in Query}]
  BY <1>3 DEF Inv, TypeOK
<1>5. reader' = [reader EXCEPT ![r] = s] /\ UNCHANGED <<db, past>>
  BY DEF Ask
<1>6. QED
  BY <1>1, <1>2, <1>3, <1>4, <1>5, QueryMoves

LEMMA HitInv ==
  ASSUME Inv, NEW r \in Readers, Hit(r)
  PROVE  Inv'
<1>1. PICK entry \in cache[Key(reader[r].query)] : Finish(r, Answer(Decode(entry)))
  BY DEF Hit
<1>2. Running(r) /\ UNCHANGED <<db, cache, past>>
  BY DEF Hit, Running
<1>3. /\ Answer(Decode(entry)) \in Answers(reader[r].query)
      /\ Answer(Decode(entry)).kind # "shown"
  BY HitShowsNothing DEF Answers
<1>4. reader[r].query.by = "id" => Answer(Decode(entry)).kind = "error"
  <2>1. reader[r].query.by = "id" => DOMAIN entry # {}
    BY <1>2, RunningType DEF Inv, CachedWasStored
  <2>2. QED
    BY <2>1, HitShowsNothing
<1>5. Current(reader[r].query, Answer(Decode(entry)), reader[r].during)
  BY <1>3, <1>4 DEF Current
<1>6. CachedWasStored'
  BY <1>2 DEF Inv, CachedWasStored
<1>7. cache' \in [Keys -> SUBSET UNION {Results(q) : q \in Query}]
  BY <1>2 DEF Inv, TypeOK
<1>8. QED
  BY <1>1, <1>2, <1>3, <1>5, <1>6, <1>7, Finishes

LEMMA MissInv ==
  ASSUME Inv, NEW r \in Readers, Miss(r)
  PROVE  Inv'
<1> DEFINE s == [reader[r] EXCEPT !.at = "missed"]
<1>1. Running(r) /\ UNCHANGED <<db, cache, past>> /\ reader[r].at = "asked"
  BY DEF Miss, Running
<1>2. /\ reader[r].query \in Query
      /\ reader[r] \in QueryState(reader[r].query)
      /\ db \in reader[r].during /\ reader[r].during \subseteq past
  BY <1>1, RunningType
<1>3. /\ s \in QueryState(reader[r].query)
      /\ s.at = "missed" /\ s.during = reader[r].during
  BY <1>1, <1>2 DEF QueryState
<1>4. reader' = [reader EXCEPT ![r] = s]
  BY DEF Miss, Inv, TypeOK
<1>5. CachedWasStored' /\ cache' \in [Keys -> SUBSET UNION {Results(q) : q \in Query}]
  BY <1>1 DEF Inv, CachedWasStored, TypeOK
<1>6. QED
  BY <1>1, <1>2, <1>3, <1>4, <1>5, QueryMoves

LEMMA LoadInv ==
  ASSUME Inv, NEW r \in Readers, Load(r)
  PROVE  Inv'
<1> DEFINE q == reader[r].query
           found == Result(q, db)
           s == [at |-> "loaded", query |-> q, during |-> reader[r].during, found |-> found]
<1>1. Running(r) /\ UNCHANGED <<db, cache, past>>
  BY DEF Load, Running
<1>2. /\ q \in Query /\ reader[r] \in QueryState(q)
      /\ db \in reader[r].during /\ reader[r].during \subseteq past
      /\ reader[r].during \in SUBSET Table
  BY <1>1, RunningType
<1>3. found \in Results(q)
  BY ResultType DEF Inv, TypeOK
<1>4. CachedWasStored' /\ cache' \in [Keys -> SUBSET UNION {Results(x) : x \in Query}]
  BY <1>1 DEF Inv, CachedWasStored, TypeOK
<1>5. CASE Storable(q, found)
  <2>1. s \in QueryState(q)
    BY <1>2, <1>3, <1>5 DEF QueryState, Entry, Storable
  <2>2. reader' = [reader EXCEPT ![r] = s]
    BY <1>5 DEF Load, Inv, TypeOK
  <2>3. QED
    BY <1>1, <1>2, <1>4, <2>1, <2>2, QueryMoves
<1>6. CASE ~Storable(q, found)
  <2>1. Finish(r, Answer(found))
    BY <1>6 DEF Load
  <2>2. Answer(found) \in Answers(q) /\ Current(q, Answer(found), reader[r].during)
    BY <1>2, <1>3, LoadedIsCurrent
  <2>3. QED
    BY <1>1, <1>4, <2>1, <2>2, Finishes
<1>7. QED
  BY <1>5, <1>6

LEMMA LoadFailsInv ==
  ASSUME Inv, NEW r \in Readers, LoadFails(r)
  PROVE  Inv'
<1>1. Running(r) /\ UNCHANGED <<db, cache, past>> /\ Finish(r, [kind |-> "error"])
  BY DEF LoadFails, Running
<1>2. CachedWasStored' /\ cache' \in [Keys -> SUBSET UNION {Results(x) : x \in Query}]
  BY <1>1 DEF Inv, CachedWasStored, TypeOK
<1>3. LET e == [kind |-> "error"]
      IN e \in Answers(reader[r].query) /\ Current(reader[r].query, e, reader[r].during)
  BY DEF Answers, Current
<1>4. QED
  BY <1>1, <1>2, <1>3, Finishes

LEMMA StoreInv ==
  ASSUME Inv, NEW r \in Readers, Store(r)
  PROVE  Inv'
<1> DEFINE q == reader[r].query
           found == reader[r].found
<1>1. Running(r) /\ UNCHANGED <<db, past>> /\ Finish(r, Answer(found)) /\ reader[r].at = "loaded"
  BY DEF Store, Running
<1>2. q \in Query /\ reader[r] \in QueryState(q) /\ reader[r].during \subseteq past
  BY <1>1, RunningType
<1>3. found \in Results(q) /\ Storable(q, found)
  BY <1>1, <1>2 DEF QueryState, Entry, Storable
<1>4. PICK d \in reader[r].during : found = Result(q, d)
  BY <1>1 DEF Inv, QueryInv
<1>5. Answer(found) \in Answers(q) /\ Current(q, Answer(found), reader[r].during)
  BY <1>3, <1>4, LoadedIsCurrent
<1>6. CASE UNCHANGED cache
  <2>1. CachedWasStored' /\ cache' \in [Keys -> SUBSET UNION {Results(x) : x \in Query}]
    BY <1>1, <1>6 DEF Inv, CachedWasStored, TypeOK
  <2>2. QED
    BY <1>1, <1>5, <2>1, Finishes
<1>7. CASE cache' = [cache EXCEPT ![Key(q)] = {found}]
  <2>1. cache \in [Keys -> SUBSET UNION {Results(x) : x \in Query}] /\ Keys = Query
    BY DEF Inv, TypeOK, Keys, Key
  <2>2. cache' \in [Keys -> SUBSET UNION {Results(x) : x \in Query}]
    BY <1>2, <1>3, <1>7, <2>1
  <2>3. \A x \in Query : cache'[Key(x)] = IF x = q THEN {found} ELSE cache[Key(x)]
    BY <1>2, <1>7, <2>1 DEF Key
  <2>4. CachedWasStored'
    BY <1>1, <1>2, <1>3, <1>4, <2>3 DEF Inv, CachedWasStored, Storable
  <2>5. QED
    BY <1>1, <1>5, <2>2, <2>4, Finishes
<1>8. QED
  BY <1>6, <1>7 DEF Store

LEMMA WriteInv ==
  ASSUME Inv, NEW o \in Orders, Write(o)
  PROVE  Inv'
<1>1. db' \in Table /\ past' = past \union {db'} /\ cache' = cache
  BY MaxVersionAssumption DEF Write, Inv, TypeOK, Table
<1>2. ASSUME NEW r \in Readers
      PROVE  reader'[r] = IF Running(r) THEN [reader[r] EXCEPT !.during = @ \union {db'}]
                                       ELSE reader[r]
  BY DEF Write
<1>3. ASSUME NEW r \in Readers, Running(r)
      PROVE  /\ reader'[r] \in QueryState(reader[r].query)
             /\ reader[r].query \in Query
             /\ QueryInv(r)'
             /\ reader'[r].at # "answered"
  <2>1. /\ reader[r].query \in Query /\ reader[r] \in QueryState(reader[r].query)
        /\ reader[r].during \subseteq past /\ reader[r].during \in SUBSET Table
    BY <1>3, RunningType
  <2>2. reader'[r] = [reader[r] EXCEPT !.during = @ \union {db'}]
    BY <1>2, <1>3
  <2>3. /\ reader'[r].at = reader[r].at
        /\ reader'[r].query = reader[r].query
        /\ reader'[r].during = reader[r].during \union {db'}
        /\ reader[r].at = "loaded" => reader'[r].found = reader[r].found
    BY <2>1, <2>2, <1>3 DEF QueryState, Running
  <2>4. reader'[r] \in QueryState(reader[r].query)
    BY <1>1, <1>3, <2>1, <2>2 DEF QueryState, Running
  <2>5. QueryInv(r)'
    BY <1>1, <2>1, <2>3 DEF Inv, QueryInv
  <2>6. QED
    BY <1>3, <2>1, <2>3, <2>4, <2>5 DEF Running
<1>4. TypeOK'
  <2>1. DOMAIN reader' = Readers
    BY DEF Write
  <2>2. ASSUME NEW r \in Readers
        PROVE  (reader[r] = Idle \/ \E q \in Query : reader[r] \in QueryState(q))'
    BY <1>2, <1>3 DEF Inv, TypeOK, QueryState, Answers
  <2>3. cache' \in [Keys -> SUBSET UNION {Results(q) : q \in Query}] /\ past' \in SUBSET Table
    BY <1>1 DEF Inv, TypeOK
  <2>4. QED
    BY <1>1, <2>1, <2>2, <2>3 DEF TypeOK
<1>5. ASSUME NEW r \in Readers PROVE QueryInv(r)'
  BY <1>2, <1>3 DEF QueryInv, Running
<1>6. AnswerWasCurrent'
  BY <1>2, <1>3 DEF Inv, AnswerWasCurrent
<1>7. CachedWasStored'
  BY <1>1 DEF Inv, CachedWasStored
<1>8. QED
  BY <1>1, <1>4, <1>5, <1>6, <1>7 DEF Inv

LEMMA ExpireInv ==
  ASSUME Inv, NEW k \in Keys, Expire(k)
  PROVE  Inv'
<1>1. UNCHANGED <<db, reader, past>> /\ cache' = [cache EXCEPT ![k] = {}]
  BY DEF Expire
<1>2. cache' \in [Keys -> SUBSET UNION {Results(q) : q \in Query}]
  BY <1>1 DEF Inv, TypeOK
<1>3. \A q \in Query : cache'[Key(q)] \subseteq cache[Key(q)]
  BY <1>1 DEF Inv, TypeOK, Keys
<1>4. CachedWasStored'
  BY <1>1, <1>3 DEF Inv, CachedWasStored
<1>5. TypeOK'
  BY <1>1, <1>2 DEF Inv, TypeOK
<1>6. (\A r \in Readers : QueryInv(r))' /\ AnswerWasCurrent'
  BY <1>1 DEF Inv, QueryInv, Running, AnswerWasCurrent
<1>7. QED
  BY <1>1, <1>4, <1>5, <1>6 DEF Inv

LEMMA StutterInv == ASSUME Inv, UNCHANGED vars PROVE Inv'
BY DEF Inv, vars, TypeOK, QueryInv, Running, AnswerWasCurrent, CachedWasStored

LEMMA InvHolds == Spec => []Inv
<1>1. Inv /\ [Next]_vars => Inv'
  BY AskInv, HitInv, MissInv, LoadInv, LoadFailsInv, StoreInv, WriteInv, ExpireInv,
     StutterInv DEF Next, ReaderStep
<1>2. QED
  BY <1>1, InitInv, PTL DEF Spec

\* The variables have their types, and a query ends with its own result.
THEOREM TypeCorrect == Spec => []TypeOK
BY InvHolds, PTL DEF Inv

\* GetOrSetAsync never shows a version of an order from before the query, and
\* never reports an order missing that was there all along: a hit shows nothing,
\* and a missing order is neither stored nor what a failing Redis stands for.
THEOREM AnswerIsCurrent == Spec => []AnswerWasCurrent
BY InvHolds, PTL DEF Inv

\* Whatever fills overlap, an entry is a result its own query once had.
THEOREM CachedIsStored == Spec => []CachedWasStored
BY InvHolds, PTL DEF Inv
=============================================================================
