------------------------ MODULE StockReservationProofs ------------------------
(***************************************************************************)
(* Proofs about the Catalogue's reservations, for any products, baskets,   *)
(* number of concurrent consumers, duplicates and failures.  The sums over *)
(* the lines of a basket need an induction on finite sets, which is done   *)
(* once, at the start, with the well-foundedness of the subset relation.   *)
(***************************************************************************)
EXTENDS StockReservation, FiniteSetTheorems, WellFoundedInduction, TLAPS

-----------------------------------------------------------------------------
(* Sums over finite sets                                                   *)

\* The element that a fold over s takes first.
Pick(s) == CHOOSE x \in s : TRUE

\* The recursive function that SumFunctionOnSet evaluates.
IsSum(g, f, S) == g = [s \in SUBSET S |->
   IF s = {} THEN 0 ELSE f[Pick(s)] + g[s \ {Pick(s)}]]

LEMMA PickIn == ASSUME NEW s, s # {} PROVE Pick(s) \in s /\ s \ {Pick(s)} # s
<1>1. Pick(s) \in s
  BY DEF Pick
<1> QED
  BY <1>1

\* A sum is the value of that recursive function at the whole set.
LEMMA SumChoice == \A f, S :
   SumFunctionOnSet(f, S) = (CHOOSE g : IsSum(g, f, S))[S]
BY DEF SumFunctionOnSet, FoldFunctionOnSet, MapThenFoldSet, IsSum, Pick

\* Induction on finite sets: a family of subsets of a finite set has a member
\* of which no proper subset is in the family.
LEMMA MinimalSubset ==
  ASSUME NEW S, IsFiniteSet(S), NEW F \in SUBSET SUBSET S, F # {}
  PROVE  \E T \in F : \A U \in F : U \subseteq T => U = T
<1>1. IsWellFoundedOn(StrictSubsetOrdering(S), SUBSET S)
  BY FS_StrictSubsetOrderingWellFounded, FS_FiniteSubsetsOfFinite
<1>2. PICK T \in F : \A U \in F : ~(<<U, T>> \in StrictSubsetOrdering(S))
  <2> F \subseteq SUBSET S
    OBVIOUS
  <2> HIDE DEF StrictSubsetOrdering
  <2> QED BY <1>1, WFMin
<1> QED
  BY <1>2 DEF StrictSubsetOrdering

\* The two equations of the recursive function.
LEMMA IsSumAt ==
  ASSUME NEW f, NEW S, NEW g, IsSum(g, f, S)
  PROVE  /\ g[{}] = 0
         /\ \A s \in SUBSET S : s # {} => g[s] = f[Pick(s)] + g[s \ {Pick(s)}]
BY Zenon DEF IsSum

\* On two sets, one in the other, the recursive functions agree.
LEMMA SumsAgree ==
  ASSUME NEW f, NEW S, IsFiniteSet(S), NEW R, S \subseteq R,
         NEW g, IsSum(g, f, S), NEW h, IsSum(h, f, R)
  PROVE  \A s \in SUBSET S : g[s] = h[s]
<1> DEFINE F == {s \in SUBSET S : g[s] # h[s]}
<1>1. SUFFICES ASSUME F # {} PROVE FALSE
  OBVIOUS
<1>2. PICK T \in F : \A U \in F : U \subseteq T => U = T
  <2> F \in SUBSET SUBSET S
    OBVIOUS
  <2> HIDE DEF F
  <2> QED BY <1>1, MinimalSubset
<1>3. T # {} /\ T \subseteq R
  BY IsSumAt
<1>4. T \ {Pick(T)} \notin F
  BY <1>2, <1>3, PickIn
<1>5. g[T \ {Pick(T)}] = h[T \ {Pick(T)}]
  BY <1>4
<1>6. g[T] = f[Pick(T)] + g[T \ {Pick(T)}]
  BY <1>3, IsSumAt
<1>7. h[T] = f[Pick(T)] + h[T \ {Pick(T)}]
  BY <1>3, IsSumAt
<1> QED
  BY <1>5, <1>6, <1>7

\* For a finite set there is such a function, so that CHOOSE finds one.
LEMMA SumExists ==
  ASSUME NEW f, NEW S, IsFiniteSet(S)
  PROVE  \E g : IsSum(g, f, S)
<1> DEFINE F == {s \in SUBSET S : ~ \E v : IsSum(v, f, s)}
           V(s) == (CHOOSE v : IsSum(v, f, s))[s]
<1>1. SUFFICES ASSUME F # {} PROVE FALSE
  OBVIOUS
<1>2. PICK T \in F : \A U \in F : U \subseteq T => U = T
  <2> F \in SUBSET SUBSET S
    OBVIOUS
  <2> HIDE DEF F
  <2> QED BY <1>1, MinimalSubset
<1>3. \A s \in SUBSET T : s # T => \E g : IsSum(g, f, s)
  BY <1>2
<1>4. ASSUME NEW s \in SUBSET T, s # T
      PROVE  V(s) = IF s = {} THEN 0 ELSE f[Pick(s)] + V(s \ {Pick(s)})
  <2>1. PICK g : IsSum(g, f, s) /\ V(s) = g[s]
    <3>1. IsSum(CHOOSE g : IsSum(g, f, s), f, s)
      BY <1>3, <1>4
    <3> QED BY <3>1
  <2>2. CASE s = {}
    BY <2>1, <2>2, IsSumAt
  <2>3. CASE s # {}
    <3> DEFINE u == s \ {Pick(s)}
    <3>1. u \in SUBSET T /\ u # T /\ u \subseteq s
      BY <1>4
    <3>2. PICK h : IsSum(h, f, u) /\ V(u) = h[u]
      <4>1. IsSum(CHOOSE v : IsSum(v, f, u), f, u)
        BY <1>3, <3>1
      <4> QED BY <4>1
    <3>3. IsFiniteSet(u)
      <4> u \in SUBSET S
        OBVIOUS
      <4> HIDE DEF u
      <4> QED BY FS_Subset
    <3>4. h[u] = g[u]
      BY <2>1, <3>1, <3>2, <3>3, SumsAgree
    <3>5. g[s] = f[Pick(s)] + g[u]
      BY <2>1, <2>3, IsSumAt
    <3> QED
      BY <2>1, <2>3, <3>2, <3>4, <3>5
  <2> QED BY <2>2, <2>3
<1> DEFINE W(s) == IF s = {} THEN 0 ELSE f[Pick(s)] + V(s \ {Pick(s)})
           g == [s \in SUBSET T |-> W(s)]
<1>5. ASSUME NEW s \in SUBSET T
      PROVE  g[s] = IF s = {} THEN 0 ELSE f[Pick(s)] + g[s \ {Pick(s)}]
  <2>1. CASE s = {}
    BY <2>1
  <2>2. CASE s # {}
    <3>1. s \ {Pick(s)} \in SUBSET T /\ s \ {Pick(s)} # T
      BY <2>2, PickIn
    <3>2. V(s \ {Pick(s)}) = W(s \ {Pick(s)})
      BY <3>1, <1>4
    <3>3. g[s \ {Pick(s)}] = W(s \ {Pick(s)})
      BY <3>1
    <3> HIDE DEF V
    <3> QED BY <2>2, <3>2, <3>3
  <2> QED BY <2>1, <2>2
<1>6. IsSum(g, f, T)
  <2> HIDE DEF W
  <2>1. g = [s \in SUBSET T |-> g[s]]
    OBVIOUS
  <2>2. [s \in SUBSET T |-> g[s]] =
          [s \in SUBSET T |-> IF s = {} THEN 0 ELSE f[Pick(s)] + g[s \ {Pick(s)}]]
    <3> HIDE DEF g
    <3> QED BY <1>5, Zenon
  <2> HIDE DEF g
  <2> QED BY <2>1, <2>2, Zenon DEF IsSum
<1> QED
  <2> HIDE DEF g
  <2> QED BY <1>2, <1>6

\* From here on the lemmas speak of SumFunctionOnSet only.
LEMMA SumEmpty == ASSUME NEW f PROVE SumFunctionOnSet(f, {}) = 0
<1>1. \E g : IsSum(g, f, {})
  BY SumExists, FS_EmptySet
<1>2. IsSum(CHOOSE g : IsSum(g, f, {}), f, {})
  BY <1>1
<1> QED
  BY <1>2, IsSumAt, SumChoice

\* The sum of a set is the element taken first and the sum of the others.
LEMMA SumPick ==
  ASSUME NEW f, NEW S, IsFiniteSet(S), S # {}
  PROVE  SumFunctionOnSet(f, S) = f[Pick(S)] + SumFunctionOnSet(f, S \ {Pick(S)})
<1> DEFINE u == S \ {Pick(S)}
<1>1. IsFiniteSet(u)
  BY FS_Subset
<1>2. PICK g : IsSum(g, f, S) /\ SumFunctionOnSet(f, S) = g[S]
  <2>1. IsSum(CHOOSE g : IsSum(g, f, S), f, S)
    BY SumExists
  <2> QED BY <2>1, SumChoice
<1>3. PICK h : IsSum(h, f, u) /\ SumFunctionOnSet(f, u) = h[u]
  <2>1. IsSum(CHOOSE h : IsSum(h, f, u), f, u)
    BY <1>1, SumExists
  <2> QED BY <2>1, SumChoice
<1>4. h[u] = g[u]
  <2>1. u \subseteq S /\ u \in SUBSET u
    OBVIOUS
  <2> HIDE DEF u
  <2>2. IsSum(h, f, u) /\ IsSum(g, f, S)
    BY <1>2, <1>3
  <2>3. \A s \in SUBSET u : h[s] = g[s]
    BY <1>1, <2>1, <2>2, SumsAgree, SMTT(30)
  <2> QED BY <2>1, <2>3
<1>5. g[S] = f[Pick(S)] + g[u]
  BY <1>2, IsSumAt
<1> QED
  BY <1>2, <1>3, <1>4, <1>5

\* Sums of natural numbers are natural numbers.
LEMMA SumType ==
  ASSUME NEW S, IsFiniteSet(S), NEW f \in [S -> Nat]
  PROVE  \A T \in SUBSET S : SumFunctionOnSet(f, T) \in Nat
<1> DEFINE F == {T \in SUBSET S : SumFunctionOnSet(f, T) \notin Nat}
<1>1. SUFFICES ASSUME F # {} PROVE FALSE
  OBVIOUS
<1>2. PICK T \in F : \A U \in F : U \subseteq T => U = T
  <2> F \in SUBSET SUBSET S
    OBVIOUS
  <2> HIDE DEF F
  <2> QED BY <1>1, MinimalSubset
<1>3. IsFiniteSet(T) /\ T # {}
  <2>1. SumFunctionOnSet(f, {}) \in Nat
    BY SumEmpty
  <2> QED BY <2>1, FS_Subset
<1>4. Pick(T) \in S /\ T \ {Pick(T)} \notin F
  BY <1>2, <1>3, PickIn
<1>5. SumFunctionOnSet(f, T \ {Pick(T)}) \in Nat
  BY <1>4
<1> QED
  BY <1>3, <1>4, <1>5, SumPick

\* Whichever element is taken away: it and the sum of the others.
LEMMA SumRemove ==
  ASSUME NEW S, IsFiniteSet(S), NEW f \in [S -> Nat]
  PROVE  \A T \in SUBSET S : \A x \in T :
           SumFunctionOnSet(f, T) = f[x] + SumFunctionOnSet(f, T \ {x})
<1> DEFINE F == {T \in SUBSET S : ~ \A x \in T :
                   SumFunctionOnSet(f, T) = f[x] + SumFunctionOnSet(f, T \ {x})}
<1>1. SUFFICES ASSUME F # {} PROVE FALSE
  OBVIOUS
<1>2. PICK T \in F : \A U \in F : U \subseteq T => U = T
  <2> F \in SUBSET SUBSET S
    OBVIOUS
  <2> HIDE DEF F
  <2> QED BY <1>1, MinimalSubset
<1>3. PICK x \in T : SumFunctionOnSet(f, T) # f[x] + SumFunctionOnSet(f, T \ {x})
  OBVIOUS
<1> DEFINE y == Pick(T)
<1>4. IsFiniteSet(T) /\ IsFiniteSet(T \ {x}) /\ y \in T
  BY FS_Subset, PickIn
<1> HIDE DEF y
<1>5. SumFunctionOnSet(f, T) = f[y] + SumFunctionOnSet(f, T \ {y})
  BY <1>4, SumPick DEF y
<1>6. x # y /\ x \in T \ {y} /\ y \in T \ {x}
  BY <1>3, <1>4, <1>5
<1>7. T \ {x} \notin F /\ T \ {y} \notin F
  BY <1>2, <1>4, <1>3
<1>8. SumFunctionOnSet(f, T \ {x}) = f[y] + SumFunctionOnSet(f, (T \ {x}) \ {y})
  BY <1>6, <1>7
<1>9. SumFunctionOnSet(f, T \ {y}) = f[x] + SumFunctionOnSet(f, (T \ {y}) \ {x})
  BY <1>6, <1>7
<1>10. (T \ {x}) \ {y} = (T \ {y}) \ {x} /\ (T \ {x}) \ {y} \in SUBSET S
  OBVIOUS
<1>11. SumFunctionOnSet(f, (T \ {y}) \ {x}) \in Nat
  BY <1>10, SumType
<1>12. f[x] \in Nat /\ f[y] \in Nat
  BY <1>4
<1> QED
  BY <1>3, <1>5, <1>8, <1>9, <1>10, <1>11, <1>12

\* Functions that agree on a set have the same sum over it.
LEMMA SumAgrees ==
  ASSUME NEW S, IsFiniteSet(S), NEW f, NEW h
  PROVE  \A T \in SUBSET S : (\A x \in T : f[x] = h[x]) =>
           SumFunctionOnSet(f, T) = SumFunctionOnSet(h, T)
<1> DEFINE F == {T \in SUBSET S : (\A x \in T : f[x] = h[x]) /\
                   SumFunctionOnSet(f, T) # SumFunctionOnSet(h, T)}
<1>1. SUFFICES ASSUME F # {} PROVE FALSE
  OBVIOUS
<1>2. PICK T \in F : \A U \in F : U \subseteq T => U = T
  <2> F \in SUBSET SUBSET S
    OBVIOUS
  <2> HIDE DEF F
  <2> QED BY <1>1, MinimalSubset
<1>3. IsFiniteSet(T) /\ T # {}
  BY FS_Subset, SumEmpty
<1>4. Pick(T) \in T /\ T \ {Pick(T)} \notin F
  BY <1>2, <1>3, PickIn
<1>5. SumFunctionOnSet(f, T \ {Pick(T)}) = SumFunctionOnSet(h, T \ {Pick(T)})
  BY <1>4
<1>6. f[Pick(T)] = h[Pick(T)]
  BY <1>4
<1> QED
  BY <1>3, <1>5, <1>6, SumPick

\* A part of a set has no larger sum.
LEMMA SumMonotone ==
  ASSUME NEW S, IsFiniteSet(S), NEW f \in [S -> Nat]
  PROVE  \A T \in SUBSET S : \A U \in SUBSET T :
           SumFunctionOnSet(f, U) <= SumFunctionOnSet(f, T)
<1> DEFINE F == {T \in SUBSET S : ~ \A U \in SUBSET T :
                   SumFunctionOnSet(f, U) <= SumFunctionOnSet(f, T)}
<1>1. SUFFICES ASSUME F # {} PROVE FALSE
  OBVIOUS
<1>2. PICK T \in F : \A U \in F : U \subseteq T => U = T
  <2> F \in SUBSET SUBSET S
    OBVIOUS
  <2> HIDE DEF F
  <2> QED BY <1>1, MinimalSubset
<1>3. PICK U \in SUBSET T : ~(SumFunctionOnSet(f, U) <= SumFunctionOnSet(f, T))
  OBVIOUS
<1>4. U # T
  BY <1>3, SumType
<1>5. PICK x \in T : x \notin U
  BY <1>4
<1>6. SumFunctionOnSet(f, T) = f[x] + SumFunctionOnSet(f, T \ {x})
  BY SumRemove
<1>7. T \ {x} \notin F /\ U \in SUBSET (T \ {x})
  BY <1>2, <1>5
<1>8. SumFunctionOnSet(f, U) <= SumFunctionOnSet(f, T \ {x})
  BY <1>7
<1>9. f[x] \in Nat /\ SumFunctionOnSet(f, U) \in Nat /\ SumFunctionOnSet(f, T \ {x}) \in Nat
  BY <1>7, SumType
<1> QED
  BY <1>3, <1>6, <1>8, <1>9

\* Zeros add up to zero.
LEMMA SumOfZeros ==
  ASSUME NEW S, IsFiniteSet(S)
  PROVE  SumFunctionOnSet([x \in S |-> 0], S) = 0
<1> DEFINE f == [x \in S |-> 0]
           F == {T \in SUBSET S : SumFunctionOnSet(f, T) # 0}
<1>1. SUFFICES ASSUME F # {} PROVE FALSE
  OBVIOUS
<1>2. PICK T \in F : \A U \in F : U \subseteq T => U = T
  <2> F \in SUBSET SUBSET S
    OBVIOUS
  <2> HIDE DEF F
  <2> QED BY <1>1, MinimalSubset
<1>3. T # {} /\ IsFiniteSet(T)
  BY FS_Subset, SumEmpty
<1>4. Pick(T) \in S /\ T \ {Pick(T)} \notin F
  BY <1>2, <1>3, PickIn
<1>5. SumFunctionOnSet(f, T \ {Pick(T)}) = 0
  BY <1>4
<1> QED
  BY <1>3, <1>4, <1>5, SumPick

-----------------------------------------------------------------------------
(* Type correctness                                                        *)

\* A consumer that is not idle holds a scope.
LEMMA BusyHasScope ==
  ASSUME TypeOK, NEW k \in Consumers, work[k].at # "idle"
  PROVE  work[k] \in Scope
BY DEF TypeOK, Free

LEMMA BumpType ==
  ASSUME NEW S, NEW f \in [S -> Nat], NEW x \in S
  PROVE  Bump(f, x) \in [S -> Nat]
BY DEF Bump

\* The two ways a scope moves on after its last line.
LEMMA ScopeMoves ==
  ASSUME NEW w \in Scope
  PROVE  /\ [w EXCEPT !.at = "saved", !.stored = TRUE] \in Scope
         /\ [w EXCEPT !.at = "answered"] \in Scope
         /\ [w EXCEPT !.stored = TRUE] \in Scope
BY DEF Scope

LEMMA NewScopeType == ASSUME NEW c \in Commands PROVE NewScope(c) \in Scope
BY DEF NewScope, Scope, Zero

LEMMA LineType ==
  ASSUME TypeOK, NEW k \in Consumers, AtLine(k)
  PROVE  /\ work[k] \in Scope
         /\ Basket[work[k].cmd][work[k].line] \in Line
<1>1. work[k] \in Scope
  BY BusyHasScope DEF AtLine, Checking
<1>2. Basket[work[k].cmd] \in Seq(Line)
  BY <1>1, BasketAssumption DEF Scope
<1>3. work[k].line \in 1..Len(Basket[work[k].cmd])
  BY <1>1, <1>2 DEF AtLine, Scope
<1> QED
  BY <1>1, <1>2, <1>3

LEMMA QuantityType ==
  ASSUME TypeOK, NEW k \in Consumers, work[k] \in Scope, NEW p \in Products
  PROVE  Quantity(k, p) \in Int
BY DEF Quantity, TypeOK, Scope

LEMMA MoveToErrorType ==
  ASSUME TypeOK, NEW k \in Consumers, work[k] \in Scope, MoveToError(k)
  PROVE  /\ faulted' \in [Commands -> Nat]
         /\ work' \in [Consumers -> Scope \union {Free}]
BY BumpType DEF TypeOK, MoveToError, Scope

LEMMA WriteType ==
  ASSUME TypeOK, NEW k \in Consumers, work[k] \in Scope, Write(k)
  PROVE  /\ stock' \in [Products -> Int]
         /\ granted' \in [Products -> Nat]
         /\ saves' \in [Commands -> Nat]
<1>1. work[k].cmd \in Commands /\ work[k].left \in [Products -> Int]
      /\ work[k].taken \in [Products -> Nat]
  BY DEF Scope
<1>2. stock' \in [Products -> Int]
  BY <1>1 DEF Write, TypeOK
<1>3. CASE work[k].stored
  BY <1>2, <1>3 DEF Write, TypeOK
<1>4. CASE ~work[k].stored
  BY <1>1, <1>2, <1>4, BumpType DEF Write, TypeOK
<1> QED
  BY <1>3, <1>4

LEMMA TypeStep == TypeOK /\ [Next]_vars => TypeOK'
<1> SUFFICES ASSUME TypeOK, [Next]_vars PROVE TypeOK'
  OBVIOUS
<1>1. ASSUME NEW c \in Commands, Send(c) PROVE TypeOK'
  BY <1>1, BumpType DEF Send, TypeOK, answers
<1>2. ASSUME NEW k \in Consumers, NEW c \in Commands, Receive(k, c) PROVE TypeOK'
  BY <1>2, NewScopeType DEF Receive, TypeOK, answers
<1>3. ASSUME NEW k \in Consumers, CheckLine(k) PROVE TypeOK'
  <2> DEFINE p == Basket[work[k].cmd][work[k].line].product
             q == Basket[work[k].cmd][work[k].line].quantity
             here == Quantity(k, p)
             take == IF here >= q THEN q ELSE 0
  <2>1. AtLine(k) /\ p \in Products
    BY <1>3 DEF CheckLine
  <2>2. work[k] \in Scope /\ q \in Nat
    BY <2>1, LineType DEF Line
  <2>3. here \in Int /\ take \in Nat
    BY <2>1, <2>2, QuantityType
  <2>4. work'[k] \in Scope
    <3> HIDE DEF p, q, here, take
    <3>1. work'[k] = [at |-> "checking", cmd |-> work[k].cmd, line |-> work[k].line + 1,
                      tracked |-> work[k].tracked \union {p},
                      left |-> [work[k].left EXCEPT ![p] = here - take],
                      taken |-> [work[k].taken EXCEPT ![p] = @ + take],
                      short |-> (work[k].short \/ here < q), stored |-> FALSE]
      BY <1>3 DEF CheckLine, TypeOK, p, q, here, take
    <3> QED
      BY <2>1, <2>2, <2>3, <3>1 DEF Scope
  <2> QED
    BY <1>3, <2>4 DEF CheckLine, TypeOK, answers
<1>4. ASSUME NEW k \in Consumers, MissingProduct(k) PROVE TypeOK'
  BY <1>4, LineType, MoveToErrorType DEF MissingProduct, TypeOK
<1>5. ASSUME NEW k \in Consumers, Save(k) PROVE TypeOK'
  <2>1. work[k] \in Scope
    BY <1>5, BusyHasScope DEF Save, AllChecked, Checking
  <2> QED
    BY <1>5, <2>1, WriteType, ScopeMoves DEF Save, TypeOK, answers
<1>6. ASSUME NEW k \in Consumers, PublishConfirmed(k) PROVE TypeOK'
  <2>1. work[k] \in Scope /\ work[k].cmd \in Commands
    BY <1>6, BusyHasScope DEF PublishConfirmed, Scope
  <2> QED
    BY <1>6, <2>1, BumpType, ScopeMoves DEF PublishConfirmed, TypeOK
<1>7. ASSUME NEW k \in Consumers, PublishFailed(k) PROVE TypeOK'
  <2>1. work[k] \in Scope /\ work[k].cmd \in Commands
    BY <1>7, BusyHasScope DEF PublishFailed, AllChecked, Checking, Scope
  <2> QED
    BY <1>7, <2>1, BumpType, ScopeMoves DEF PublishFailed, TypeOK
<1>8. ASSUME NEW k \in Consumers, Acknowledge(k) PROVE TypeOK'
  BY <1>8 DEF Acknowledge, TypeOK, answers
<1>9. ASSUME NEW k \in Consumers, SaveIsRetried(k) PROVE TypeOK'
  <2>1. work[k] \in Scope
    BY <1>9, BusyHasScope DEF SaveIsRetried, AllChecked, Checking
  <2>2. work' \in [Consumers -> Scope \union {Free}]
    BY <1>9, <2>1, ScopeMoves DEF SaveIsRetried, TypeOK
  <2>3. faults' \in Nat
    BY <1>9 DEF SaveIsRetried, Fault, TypeOK
  <2>4. Write(k) /\ UNCHANGED <<sent, waiting, answers>>
    BY <1>9 DEF SaveIsRetried
  <2> QED
    BY <2>1, <2>2, <2>3, <2>4, WriteType DEF TypeOK, answers
<1>10. ASSUME NEW k \in Consumers, SaveFails(k) PROVE TypeOK'
  <2>1. work[k] \in Scope
    BY <1>10, BusyHasScope DEF SaveFails, AllChecked, Checking
  <2> QED
    BY <1>10, <2>1, WriteType, MoveToErrorType DEF SaveFails, Fault, TypeOK
<1>11. ASSUME NEW k \in Consumers, PublishThrows(k) PROVE TypeOK'
  <2>1. work[k] \in Scope /\ work[k].cmd \in Commands
    BY <1>11, BusyHasScope DEF PublishThrows, AllChecked, Checking, Scope
  <2>2. confirmed' \in [Commands -> Nat] /\ rejected' \in [Commands -> Nat]
    <3>1. /\ confirmed \in [Commands -> Nat] /\ rejected \in [Commands -> Nat]
          /\ Bump(confirmed, work[k].cmd) \in [Commands -> Nat]
          /\ Bump(rejected, work[k].cmd) \in [Commands -> Nat]
      BY <2>1, BumpType DEF TypeOK
    <3>2. /\ confirmed' = confirmed \/ confirmed' = Bump(confirmed, work[k].cmd)
          /\ rejected' = rejected \/ rejected' = Bump(rejected, work[k].cmd)
      BY <1>11 DEF PublishThrows
    <3> QED
      BY <3>1, <3>2
  <2>3. MoveToError(k) /\ UNCHANGED <<stock, sent, waiting, granted, saves>>
    BY <1>11 DEF PublishThrows
  <2>4. faults' \in Nat
    BY <1>11 DEF PublishThrows, Fault, TypeOK
  <2> QED
    BY <2>1, <2>2, <2>3, <2>4, MoveToErrorType DEF TypeOK
<1>12. CASE Restart
  <2>1. \A c \in Commands : Cardinality(Busy(c)) \in Nat
    BY ConsumersAssumption, FS_Subset, FS_CardinalityType DEF Busy
  <2> QED
    BY <1>12, <2>1, InitialStockAssumption DEF Restart, Fault, TypeOK, answers
<1>13. CASE UNCHANGED vars
  BY <1>13 DEF vars, answers, TypeOK
<1> QED
  BY <1>1, <1>2, <1>3, <1>4, <1>5, <1>6, <1>7, <1>8, <1>9, <1>10, <1>11, <1>12, <1>13
  DEF Next, ConsumerStep, Consume, Failure

\* Rows, copies, scopes and counters stay in their types.
THEOREM TypeCorrect == Spec => []TypeOK
<1>1. Init => TypeOK
  BY InitialStockAssumption DEF Init, TypeOK, Zero
<1> QED
  BY <1>1, TypeStep, PTL DEF Spec

-----------------------------------------------------------------------------
(* Quantities                                                              *)

\* What a scope w may write, with g units granted so far: nothing negative,
\* nothing for a row it did not read, and no less than what g leaves, its own
\* units counted once.
Covered(w, g) ==
  \A p \in Products :
    /\ w.left[p] >= 0
    /\ p \notin w.tracked => w.taken[p] = 0
    /\ p \in w.tracked =>
         w.left[p] + (IF w.stored THEN 0 ELSE w.taken[p]) >= InitialStock[p] - g[p]

\* Nothing is saved while lines are left.
Unsaved(w) == w.at = "checking" /\ w.line <= Len(Basket[w.cmd]) => ~w.stored

QInv ==
  /\ TypeOK
  /\ StockNeverNegative
  /\ StockCoversUngranted
  /\ \A k \in Consumers :
       work[k].at # "idle" => Covered(work[k], granted) /\ Unsaved(work[k])

\* Further reservations leave a scope covered.
LEMMA CoveredGrows ==
  ASSUME NEW w \in Scope, NEW g \in [Products -> Nat], NEW h \in [Products -> Nat],
         \A p \in Products : g[p] <= h[p], Covered(w, g)
  PROVE  Covered(w, h)
BY InitialStockAssumption DEF Covered, Scope

LEMMA WriteCovers ==
  ASSUME QInv, NEW k \in Consumers, work[k].at # "idle", Write(k)
  PROVE  /\ StockNeverNegative' /\ StockCoversUngranted'
         /\ \A p \in Products : granted[p] <= granted'[p]
         /\ Covered([work[k] EXCEPT !.stored = TRUE], granted')
<1>1. /\ work[k] \in Scope /\ Covered(work[k], granted)
      /\ granted' \in [Products -> Nat] /\ stock' \in [Products -> Int]
  BY BusyHasScope, WriteType DEF QInv
<1>2. \A p \in Products :
        /\ stock'[p] = IF work[k].taken[p] > 0 THEN work[k].left[p] ELSE stock[p]
        /\ granted'[p] = granted[p] + (IF work[k].stored THEN 0 ELSE work[k].taken[p])
  BY <1>1 DEF Write, QInv, TypeOK, Scope
<1>3. \A p \in Products :
        /\ stock[p] \in Int /\ granted[p] \in Nat /\ InitialStock[p] \in Nat
        /\ work[k].left[p] \in Int /\ work[k].taken[p] \in Nat
        /\ stock[p] >= 0 /\ stock[p] >= InitialStock[p] - granted[p]
  BY <1>1, InitialStockAssumption
  DEF QInv, TypeOK, Scope, StockNeverNegative, StockCoversUngranted
<1>4. \A p \in Products : stock'[p] >= 0 /\ granted[p] <= granted'[p]
  BY <1>1, <1>2, <1>3 DEF Covered
<1>5. \A p \in Products : stock'[p] >= InitialStock[p] - granted'[p]
  BY <1>1, <1>2, <1>3 DEF Covered
<1>6. Covered([work[k] EXCEPT !.stored = TRUE], granted')
  <2> DEFINE w == [work[k] EXCEPT !.stored = TRUE]
  <2>1. /\ w.left = work[k].left /\ w.taken = work[k].taken
        /\ w.tracked = work[k].tracked /\ w.stored
    BY <1>1 DEF Scope
  <2> HIDE DEF w
  <2>2. Covered(w, granted')
    BY <1>1, <1>2, <1>3, <2>1 DEF Covered
  <2> QED
    BY <2>2 DEF w
<1> QED
  BY <1>4, <1>5, <1>6 DEF StockNeverNegative, StockCoversUngranted

\* A step of k that writes nothing keeps QInv if k's next scope is covered.
LEMMA QuietStep ==
  ASSUME QInv, TypeOK', UNCHANGED <<stock, granted>>, NEW k \in Consumers,
         \A j \in Consumers : j # k => work'[j] = work[j],
         work'[k].at # "idle" => Covered(work'[k], granted) /\ Unsaved(work'[k])
  PROVE  QInv'
BY DEF QInv, StockNeverNegative, StockCoversUngranted

\* A step of k that writes keeps QInv if k keeps only what it wrote.
LEMMA WritingStep ==
  ASSUME QInv, TypeOK', NEW k \in Consumers, work[k].at # "idle", Write(k),
         \A j \in Consumers : j # k => work'[j] = work[j],
         work'[k].at # "idle" => Covered(work'[k], granted') /\ Unsaved(work'[k])
  PROVE  QInv'
<1>1. /\ StockNeverNegative' /\ StockCoversUngranted'
      /\ \A p \in Products : granted[p] <= granted'[p]
  BY WriteCovers
<1>2. ASSUME NEW j \in Consumers, work'[j].at # "idle" PROVE Covered(work'[j], granted') /\ Unsaved(work'[j])
  <2>1. CASE j = k
    BY <1>2, <2>1
  <2>2. CASE j # k
    <3>1. work'[j] = work[j] /\ work[j] \in Scope
          /\ Covered(work[j], granted) /\ Unsaved(work[j])
      BY <1>2, <2>2, BusyHasScope DEF QInv
    <3>2. granted \in [Products -> Nat] /\ granted' \in [Products -> Nat]
      BY DEF QInv, TypeOK
    <3> QED
      BY <1>1, <3>1, <3>2, CoveredGrows
  <2> QED
    BY <2>1, <2>2
<1> QED
  BY <1>1, <1>2 DEF QInv

LEMMA QuantityStep == QInv /\ [Next]_vars => QInv'
<1> SUFFICES ASSUME QInv, [Next]_vars PROVE QInv'
  OBVIOUS
<1>0. TypeOK /\ TypeOK'
  BY TypeStep DEF QInv
<1>1. ASSUME NEW c \in Commands, Send(c) PROVE QInv'
  BY <1>0, <1>1 DEF Send, QInv, StockNeverNegative, StockCoversUngranted
<1>2. ASSUME NEW k \in Consumers, NEW c \in Commands, Receive(k, c) PROVE QInv'
  <2>1. work'[k] = NewScope(c) /\ \A j \in Consumers : j # k => work'[j] = work[j]
    BY <1>0, <1>2 DEF Receive, TypeOK
  <2>2. Covered(NewScope(c), granted) /\ Unsaved(NewScope(c))
    BY DEF Covered, Unsaved, NewScope, Zero
  <2> QED
    BY <1>0, <1>2, <2>1, <2>2, QuietStep DEF Receive
<1>3. ASSUME NEW k \in Consumers, CheckLine(k) PROVE QInv'
  <2> DEFINE p == Basket[work[k].cmd][work[k].line].product
             q == Basket[work[k].cmd][work[k].line].quantity
             here == Quantity(k, p)
             take == IF here >= q THEN q ELSE 0
  <2>1. AtLine(k) /\ p \in Products /\ work[k].at # "idle"
    BY <1>3 DEF CheckLine, AtLine, Checking
  <2>2. work[k] \in Scope /\ q \in Nat /\ Covered(work[k], granted) /\ ~work[k].stored
    BY <1>0, <2>1, LineType DEF Line, QInv, Unsaved, AtLine, Checking
  <2>3. /\ here \in Int /\ here >= 0 /\ take \in Nat /\ here - take >= 0
        /\ p \notin work[k].tracked => here = stock[p] /\ work[k].taken[p] = 0
        /\ p \in work[k].tracked => here = work[k].left[p]
    <3>1. /\ p \notin work[k].tracked => here = stock[p] /\ work[k].taken[p] = 0
          /\ p \in work[k].tracked => here = work[k].left[p]
      BY <2>1, <2>2 DEF Quantity, Covered
    <3>2. here \in Int /\ here >= 0
      BY <1>0, <2>1, <2>2, <3>1, QuantityType DEF QInv, StockNeverNegative, Covered
    <3> QED
      BY <2>2, <3>1, <3>2
  <2>4. Covered(work'[k], granted) /\ Unsaved(work'[k])
    <3> HIDE DEF p, q, here, take
    <3>1. work'[k] = [at |-> "checking", cmd |-> work[k].cmd, line |-> work[k].line + 1,
                      tracked |-> work[k].tracked \union {p},
                      left |-> [work[k].left EXCEPT ![p] = here - take],
                      taken |-> [work[k].taken EXCEPT ![p] = @ + take],
                      short |-> (work[k].short \/ here < q), stored |-> FALSE]
      BY <1>0, <1>3 DEF CheckLine, TypeOK, p, q, here, take
    <3>2. ~work[k].stored /\ work[k].tracked \in SUBSET Products
      BY <2>2 DEF Scope
    <3>3. ASSUME NEW r \in Products
          PROVE  /\ work'[k].left[r] >= 0
                 /\ r \notin work'[k].tracked => work'[k].taken[r] = 0
                 /\ r \in work'[k].tracked =>
                      work'[k].left[r] + work'[k].taken[r] >= InitialStock[r] - granted[r]
      <4>1. /\ work[k].left \in [Products -> Int] /\ work[k].taken \in [Products -> Nat]
            /\ granted[r] \in Nat /\ InitialStock[r] \in Nat /\ stock[r] \in Int
            /\ stock[r] >= InitialStock[r] - granted[r]
        BY <1>0, <2>2, InitialStockAssumption DEF Scope, TypeOK, QInv, StockCoversUngranted
      <4>2. CASE r = p
        <5>1. work'[k].left[r] = here - take /\ work'[k].taken[r] = work[k].taken[p] + take
          BY <2>1, <3>1, <4>1, <4>2
        <5>2. here + work[k].taken[p] >= InitialStock[p] - granted[p]
          BY <2>1, <2>2, <2>3, <3>2, <4>1, <4>2 DEF Covered
        <5> QED
          BY <2>1, <2>3, <3>1, <4>1, <4>2, <5>1, <5>2
      <4>3. CASE r # p
        BY <2>2, <3>1, <3>2, <4>1, <4>3 DEF Covered
      <4> QED
        BY <4>2, <4>3
    <3> QED
      BY <3>1, <3>3 DEF Covered, Unsaved
  <2>5. \A j \in Consumers : j # k => work'[j] = work[j]
    BY <1>0, <1>3 DEF CheckLine, TypeOK
  <2> QED
    BY <1>0, <1>3, <2>4, <2>5, QuietStep DEF CheckLine
<1>4. ASSUME NEW k \in Consumers, MissingProduct(k) PROVE QInv'
  BY <1>0, <1>4, QuietStep DEF MissingProduct, MoveToError, Free, TypeOK
<1>5. ASSUME NEW k \in Consumers, Save(k) PROVE QInv'
  <2>1. work[k].at # "idle" /\ work[k] \in Scope /\ Write(k)
    BY <1>0, <1>5, BusyHasScope DEF Save, AllChecked, Checking
  <2>2. /\ work'[k] = [work[k] EXCEPT !.at = "saved", !.stored = TRUE]
        /\ \A j \in Consumers : j # k => work'[j] = work[j]
    BY <1>0, <1>5 DEF Save, TypeOK
  <2>3. Covered([work[k] EXCEPT !.stored = TRUE], granted')
    BY <2>1, WriteCovers
  <2>4. Covered(work'[k], granted') /\ Unsaved(work'[k])
    BY <2>1, <2>2, <2>3 DEF Covered, Unsaved, Scope
  <2> QED
    BY <1>0, <2>1, <2>2, <2>4, WritingStep
<1>6. ASSUME NEW k \in Consumers, PublishConfirmed(k) \/ PublishFailed(k) PROVE QInv'
  <2>1. work[k].at # "idle" /\ work[k] \in Scope /\ Covered(work[k], granted)
    BY <1>0, <1>6, BusyHasScope DEF PublishConfirmed, PublishFailed, AllChecked, Checking, QInv
  <2>2. /\ work'[k] = [work[k] EXCEPT !.at = "answered"]
        /\ \A j \in Consumers : j # k => work'[j] = work[j]
    BY <1>0, <1>6 DEF PublishConfirmed, PublishFailed, TypeOK
  <2>3. Covered(work'[k], granted) /\ Unsaved(work'[k])
    BY <2>1, <2>2 DEF Covered, Unsaved, Scope
  <2>4. UNCHANGED <<stock, granted>>
    BY <1>6 DEF PublishConfirmed, PublishFailed
  <2> QED
    BY <1>0, <2>2, <2>3, <2>4, QuietStep
<1>7. ASSUME NEW k \in Consumers, Acknowledge(k) PROVE QInv'
  BY <1>0, <1>7, QuietStep DEF Acknowledge, Free, TypeOK
<1>8. ASSUME NEW k \in Consumers, SaveIsRetried(k) PROVE QInv'
  <2>1. work[k].at # "idle" /\ work[k] \in Scope /\ Write(k)
    BY <1>0, <1>8, BusyHasScope DEF SaveIsRetried, AllChecked, Checking
  <2>2. /\ work'[k] = [work[k] EXCEPT !.stored = TRUE]
        /\ \A j \in Consumers : j # k => work'[j] = work[j]
    BY <1>0, <1>8 DEF SaveIsRetried, TypeOK
  <2>3. Covered([work[k] EXCEPT !.stored = TRUE], granted')
    BY <2>1, WriteCovers
  <2>4. Unsaved(work'[k])
    <3>1. work[k].line > Len(Basket[work[k].cmd]) /\ Len(Basket[work[k].cmd]) \in Nat
      BY <1>8, <2>1, BasketAssumption DEF SaveIsRetried, AllChecked, Scope
    <3> QED
      BY <2>1, <2>2, <3>1 DEF Unsaved, Scope
  <2> QED
    BY <1>0, <2>1, <2>2, <2>3, <2>4, WritingStep
<1>9. ASSUME NEW k \in Consumers, SaveFails(k) PROVE QInv'
  <2>1. /\ work'[k].at = "idle" /\ \A j \in Consumers : j # k => work'[j] = work[j]
        /\ work[k].at # "idle"
    BY <1>0, <1>9 DEF SaveFails, MoveToError, AllChecked, Checking, Free, TypeOK
  <2>2. CASE Write(k)
    BY <1>0, <2>1, <2>2, WritingStep
  <2>3. CASE UNCHANGED <<stock, granted, saves>>
    BY <1>0, <2>1, <2>3, QuietStep
  <2> QED
    BY <1>9, <2>2, <2>3 DEF SaveFails
<1>10. ASSUME NEW k \in Consumers, PublishThrows(k) PROVE QInv'
  BY <1>0, <1>10, QuietStep DEF PublishThrows, MoveToError, Free, TypeOK
<1>11. CASE Restart
  <2>1. \A k \in Consumers : work'[k].at = "idle"
    BY <1>11 DEF Restart, Free
  <2>2. \A p \in Products :
          stock'[p] >= 0 /\ stock'[p] >= InitialStock[p] - granted[p] /\ granted'[p] = granted[p]
    BY <1>0, <1>11, InitialStockAssumption
    DEF Restart, QInv, TypeOK, StockNeverNegative, StockCoversUngranted
  <2> QED
    BY <1>0, <2>1, <2>2 DEF QInv, StockNeverNegative, StockCoversUngranted
<1>12. CASE UNCHANGED vars
  BY <1>0, <1>12 DEF vars, QInv, StockNeverNegative, StockCoversUngranted
<1> QED
  BY <1>1, <1>2, <1>3, <1>4, <1>5, <1>6, <1>7, <1>8, <1>9, <1>10, <1>11, <1>12
  DEF Next, ConsumerStep, Consume, Failure

LEMMA QuantityInit == Init => QInv
<1> SUFFICES ASSUME Init PROVE QInv
  OBVIOUS
<1>1. TypeOK
  BY InitialStockAssumption DEF Init, TypeOK, Zero
<1>2. \A p \in Products : InitialStock[p] \in Nat /\ granted[p] = 0 /\ stock[p] = InitialStock[p]
  BY InitialStockAssumption DEF Init, Zero
<1> QED
  BY <1>1, <1>2 DEF Init, QInv, StockNeverNegative, StockCoversUngranted, Free

\* However many consumers overlap, whatever they read before others wrote,
\* fails, runs twice or restarts: no quantity becomes negative and none falls
\* below the seeded quantity less the units granted.
THEOREM QuantitiesSafe == Spec => [](StockNeverNegative /\ StockCoversUngranted)
<1>1. QInv => StockNeverNegative /\ StockCoversUngranted
  BY DEF QInv
<1> QED
  BY <1>1, QuantityInit, QuantityStep, PTL DEF Spec

\* No unit disappears without a reservation, whichever stale saves overlap.
THEOREM StockCovers == Spec => []StockCoversUngranted
BY QuantitiesSafe, PTL

-----------------------------------------------------------------------------
(* Conservation                                                            *)

\* What a scope w says of the table s while nobody else writes it: a row it
\* tracks holds what is left, and what was taken unless that is saved.
Matches(w, s) ==
  \A p \in Products :
    /\ p \notin w.tracked => w.taken[p] = 0
    /\ p \in w.tracked => s[p] = w.left[p] + (IF w.stored THEN 0 ELSE w.taken[p])

Conserved(s, g) == \A p \in Products : s[p] = InitialStock[p] - g[p]

ConservedInv ==
  Undisturbed =>
    /\ Conserved(stock, granted)
    /\ \A k \in Consumers : work[k].at # "idle" => Matches(work[k], stock)

LEMMA WriteConserves ==
  ASSUME TypeOK, Conserved(stock, granted), NEW k \in Consumers, work[k].at # "idle",
         Matches(work[k], stock), Write(k)
  PROVE  /\ Conserved(stock', granted')
         /\ Matches([work[k] EXCEPT !.stored = TRUE], stock')
<1>1. work[k] \in Scope
  BY BusyHasScope
<1>2. \A p \in Products :
        /\ stock'[p] = IF work[k].taken[p] > 0 THEN work[k].left[p] ELSE stock[p]
        /\ granted'[p] = granted[p] + (IF work[k].stored THEN 0 ELSE work[k].taken[p])
  BY <1>1 DEF Write, TypeOK, Scope
<1>3. \A p \in Products :
        /\ stock[p] \in Int /\ granted[p] \in Nat /\ InitialStock[p] \in Nat
        /\ work[k].left[p] \in Int /\ work[k].taken[p] \in Nat
        /\ stock[p] = InitialStock[p] - granted[p]
  BY <1>1, InitialStockAssumption DEF TypeOK, Scope, Conserved
<1>4. \A p \in Products : stock'[p] = InitialStock[p] - granted'[p]
  BY <1>2, <1>3 DEF Matches
<1>5. Matches([work[k] EXCEPT !.stored = TRUE], stock')
  <2> DEFINE w == [work[k] EXCEPT !.stored = TRUE]
  <2>1. /\ w.left = work[k].left /\ w.taken = work[k].taken
        /\ w.tracked = work[k].tracked /\ w.stored
    BY <1>1 DEF Scope
  <2> HIDE DEF w
  <2>2. Matches(w, stock')
    BY <1>2, <1>3, <2>1 DEF Matches
  <2> QED
    BY <2>2 DEF w
<1> QED
  BY <1>4, <1>5 DEF Conserved

\* Alone, a step of k keeps the conservation if it keeps it for k.
LEMMA AloneStep ==
  ASSUME NEW k \in Consumers,
         Undisturbed => /\ Conserved(stock', granted')
                        /\ work'[k].at # "idle" => Matches(work'[k], stock')
  PROVE  ConservedInv'
<1>1. Undisturbed => \A j \in Consumers : j = k
  BY DEF Undisturbed
<1>2. Undisturbed' = Undisturbed
  BY DEF Undisturbed
<1> QED
  BY <1>1, <1>2 DEF ConservedInv

LEMMA ConservedStep == QInv /\ ConservedInv /\ [Next]_vars => ConservedInv'
<1> SUFFICES ASSUME QInv, ConservedInv, [Next]_vars PROVE ConservedInv'
  OBVIOUS
<1>0. TypeOK /\ TypeOK'
  BY TypeStep DEF QInv
<1>1. ASSUME NEW c \in Commands, Send(c) PROVE ConservedInv'
  BY <1>1 DEF Send, ConservedInv, Undisturbed
<1>2. ASSUME NEW k \in Consumers, NEW c \in Commands, Receive(k, c) PROVE ConservedInv'
  <2>1. work'[k] = NewScope(c)
    BY <1>0, <1>2 DEF Receive, TypeOK
  <2>2. Matches(NewScope(c), stock)
    BY DEF Matches, NewScope, Zero
  <2> QED
    BY <1>2, <2>1, <2>2, AloneStep DEF Receive, ConservedInv
<1>3. ASSUME NEW k \in Consumers, CheckLine(k) PROVE ConservedInv'
  <2> SUFFICES ASSUME Undisturbed PROVE Matches(work'[k], stock)
    BY <1>3, AloneStep DEF CheckLine, ConservedInv
  <2> DEFINE p == Basket[work[k].cmd][work[k].line].product
             q == Basket[work[k].cmd][work[k].line].quantity
             here == Quantity(k, p)
             take == IF here >= q THEN q ELSE 0
  <2>1. AtLine(k) /\ p \in Products /\ work[k].at # "idle"
    BY <1>3 DEF CheckLine, AtLine, Checking
  <2>2. work[k] \in Scope /\ q \in Nat /\ Matches(work[k], stock) /\ ~work[k].stored
    BY <1>0, <2>1, LineType DEF Line, QInv, Unsaved, AtLine, Checking, ConservedInv
  <2>3. /\ here \in Int /\ take \in Nat
        /\ p \notin work[k].tracked => here = stock[p] /\ work[k].taken[p] = 0
        /\ p \in work[k].tracked => here = work[k].left[p]
    BY <1>0, <2>1, <2>2, QuantityType DEF Quantity, Matches
  <2>4. work'[k] = [at |-> "checking", cmd |-> work[k].cmd, line |-> work[k].line + 1,
                    tracked |-> work[k].tracked \union {p},
                    left |-> [work[k].left EXCEPT ![p] = here - take],
                    taken |-> [work[k].taken EXCEPT ![p] = @ + take],
                    short |-> (work[k].short \/ here < q), stored |-> FALSE]
    BY <1>0, <1>3 DEF CheckLine, TypeOK
  <2> HIDE DEF p, q, here, take
  <2>5. ASSUME NEW r \in Products
        PROVE  /\ r \notin work'[k].tracked => work'[k].taken[r] = 0
               /\ r \in work'[k].tracked => stock[r] = work'[k].left[r] + work'[k].taken[r]
    <3>1. /\ work[k].left \in [Products -> Int] /\ work[k].taken \in [Products -> Nat]
          /\ stock[r] \in Int
      BY <1>0, <2>2 DEF Scope, TypeOK
    <3>2. CASE r = p
      <4>1. work'[k].left[r] = here - take /\ work'[k].taken[r] = work[k].taken[p] + take
        BY <2>1, <2>4, <3>1, <3>2
      <4>2. here + work[k].taken[p] = stock[p]
        BY <2>1, <2>2, <2>3, <3>1, <3>2 DEF Matches
      <4> QED
        BY <2>1, <2>3, <2>4, <3>1, <3>2, <4>1, <4>2
    <3>3. CASE r # p
      BY <2>2, <2>4, <3>1, <3>3 DEF Matches
    <3> QED
      BY <3>2, <3>3
  <2> QED
    BY <2>4, <2>5 DEF Matches
<1>4. ASSUME NEW k \in Consumers, MissingProduct(k) PROVE ConservedInv'
  BY <1>0, <1>4, AloneStep DEF MissingProduct, MoveToError, Free, TypeOK, ConservedInv
<1>5. ASSUME NEW k \in Consumers, Save(k) PROVE ConservedInv'
  <2>1. work[k].at # "idle" /\ work[k] \in Scope /\ Write(k)
    BY <1>0, <1>5, BusyHasScope DEF Save, AllChecked, Checking
  <2>2. work'[k] = [work[k] EXCEPT !.at = "saved", !.stored = TRUE]
    BY <1>0, <1>5 DEF Save, TypeOK
  <2>3. Undisturbed => /\ Conserved(stock', granted')
                       /\ Matches([work[k] EXCEPT !.stored = TRUE], stock')
    BY <1>0, <2>1, WriteConserves DEF ConservedInv
  <2>4. Undisturbed => Matches(work'[k], stock')
    BY <2>1, <2>2, <2>3 DEF Matches, Scope
  <2> QED
    BY <2>3, <2>4, AloneStep
<1>6. ASSUME NEW k \in Consumers, PublishConfirmed(k) \/ PublishFailed(k) PROVE ConservedInv'
  <2>1. work[k].at # "idle" /\ work[k] \in Scope
    BY <1>0, <1>6, BusyHasScope DEF PublishConfirmed, PublishFailed, AllChecked, Checking
  <2>2. work'[k] = [work[k] EXCEPT !.at = "answered"] /\ UNCHANGED <<stock, granted>>
    BY <1>0, <1>6 DEF PublishConfirmed, PublishFailed, TypeOK
  <2>3. Undisturbed => Matches(work[k], stock) /\ Conserved(stock, granted)
    BY <2>1 DEF ConservedInv
  <2>4. Undisturbed => Matches(work'[k], stock)
    BY <2>1, <2>2, <2>3 DEF Matches, Scope
  <2> QED
    BY <2>2, <2>3, <2>4, AloneStep
<1>7. ASSUME NEW k \in Consumers, Acknowledge(k) PROVE ConservedInv'
  BY <1>0, <1>7, AloneStep DEF Acknowledge, Free, TypeOK, ConservedInv
<1>8. ASSUME NEW k \in Consumers, SaveIsRetried(k) PROVE ConservedInv'
  <2>1. work[k].at # "idle" /\ work[k] \in Scope /\ Write(k)
    BY <1>0, <1>8, BusyHasScope DEF SaveIsRetried, AllChecked, Checking
  <2>2. work'[k] = [work[k] EXCEPT !.stored = TRUE]
    BY <1>0, <1>8 DEF SaveIsRetried, TypeOK
  <2>3. Undisturbed => /\ Conserved(stock', granted')
                       /\ Matches([work[k] EXCEPT !.stored = TRUE], stock')
    BY <1>0, <2>1, WriteConserves DEF ConservedInv
  <2> QED
    BY <2>2, <2>3, AloneStep
<1>9. ASSUME NEW k \in Consumers, SaveFails(k) PROVE ConservedInv'
  <2>1. work'[k].at = "idle" /\ work[k].at # "idle"
    BY <1>0, <1>9 DEF SaveFails, MoveToError, AllChecked, Checking, Free, TypeOK
  <2>2. CASE Write(k)
    BY <1>0, <2>1, <2>2, WriteConserves, AloneStep DEF ConservedInv
  <2>3. CASE UNCHANGED <<stock, granted, saves>>
    BY <2>1, <2>3, AloneStep DEF ConservedInv
  <2> QED
    BY <1>9, <2>2, <2>3 DEF SaveFails
<1>10. ASSUME NEW k \in Consumers, PublishThrows(k) PROVE ConservedInv'
  BY <1>0, <1>10, AloneStep DEF PublishThrows, MoveToError, Free, TypeOK, ConservedInv
<1>11. CASE Restart
  BY <1>11 DEF Restart, Free, ConservedInv, Undisturbed
<1>12. CASE UNCHANGED vars
  BY <1>12 DEF vars, ConservedInv, Undisturbed
<1> QED
  BY <1>1, <1>2, <1>3, <1>4, <1>5, <1>6, <1>7, <1>8, <1>9, <1>10, <1>11, <1>12
  DEF Next, ConsumerStep, Consume, Failure

LEMMA ConservedInit == Init => ConservedInv
<1> SUFFICES ASSUME Init PROVE ConservedInv
  OBVIOUS
<1>1. \A p \in Products : InitialStock[p] \in Nat /\ granted[p] = 0 /\ stock[p] = InitialStock[p]
  BY InitialStockAssumption DEF Init, Zero
<1>2. \A k \in Consumers : work[k].at = "idle"
  BY DEF Init, Free
<1> QED
  BY <1>1, <1>2 DEF ConservedInv, Conserved

\* One message at a time and without a seeding restart, stock and saved
\* reservations add up to the seeded quantity, whatever fails or runs twice.
THEOREM StockIsConserved == Spec => []StockConserved
<1>1. ConservedInv => StockConserved
  BY DEF ConservedInv, Conserved, StockConserved
<1> QED
  BY <1>1, QuantityInit, QuantityStep, ConservedInit, ConservedStep, PTL DEF Spec

-----------------------------------------------------------------------------
(* No command is lost                                                      *)

Answered(c) == confirmed[c] + rejected[c] > 0

Accounted(c) == waiting[c] > 0 \/ Busy(c) # {} \/ Answered(c) \/ faulted[c] > 0

QueueInv ==
  /\ \A c \in Commands : sent[c] > 0 => Accounted(c)
  /\ \A k \in Consumers : work[k].at = "answered" => Answered(work[k].cmd)

LEMMA BumpGrows ==
  ASSUME NEW f \in [Commands -> Nat], NEW c \in Commands
  PROVE  /\ Bump(f, c)[c] = f[c] + 1
         /\ \A d \in Commands : d # c => Bump(f, c)[d] = f[d]
         /\ \A d \in Commands : Bump(f, c)[d] >= f[d]
BY DEF Bump

\* Counters never fall.
LEMMA CountersGrow ==
  ASSUME TypeOK, [Next]_vars, NEW c \in Commands
  PROVE  /\ confirmed'[c] >= confirmed[c] /\ rejected'[c] >= rejected[c]
         /\ faulted'[c] >= faulted[c]
<1>1. /\ confirmed[c] \in Nat /\ rejected[c] \in Nat /\ faulted[c] \in Nat
      /\ \A k \in Consumers : work[k].at # "idle" => work[k].cmd \in Commands
  BY BusyHasScope DEF TypeOK, Scope
<1>2. CASE UNCHANGED answers
  BY <1>1, <1>2 DEF answers
<1>3. ASSUME NEW k \in Consumers, work[k].at # "idle",
             \/ MissingProduct(k) \/ SaveFails(k) \/ PublishThrows(k)
             \/ PublishConfirmed(k) \/ PublishFailed(k)
      PROVE  /\ confirmed'[c] >= confirmed[c] /\ rejected'[c] >= rejected[c]
             /\ faulted'[c] >= faulted[c]
  BY <1>1, <1>3, BumpGrows
     DEF TypeOK, MissingProduct, SaveFails, PublishThrows, PublishConfirmed, PublishFailed, MoveToError
<1>4. ASSUME NEW k \in Consumers,
             \/ MissingProduct(k) \/ SaveFails(k) \/ PublishThrows(k)
             \/ PublishConfirmed(k) \/ PublishFailed(k)
      PROVE  work[k].at # "idle"
  BY <1>4 DEF MissingProduct, SaveFails, PublishThrows, PublishConfirmed, PublishFailed,
              AtLine, AllChecked, Checking
<1> QED
  BY <1>2, <1>3, <1>4 DEF Next, ConsumerStep, Consume, Failure, Send, Receive, Acknowledge,
     CheckLine, Save, SaveIsRetried, Restart, vars

\* A command that was sent stays accounted for if it is not sent now, no copy
\* leaves the queue, and whoever worked on it still does.
LEMMA AccountedStays ==
  ASSUME TypeOK, TypeOK', [Next]_vars, NEW c \in Commands, Accounted(c),
         waiting'[c] >= waiting[c],
         \A j \in Busy(c) : work'[j].at # "idle" /\ work'[j].cmd = c
  PROVE  Accounted(c)'
<1>1. /\ confirmed[c] \in Nat /\ rejected[c] \in Nat /\ faulted[c] \in Nat /\ waiting[c] \in Nat
      /\ confirmed'[c] \in Nat /\ rejected'[c] \in Nat /\ faulted'[c] \in Nat
      /\ waiting'[c] \in Nat
  BY DEF TypeOK
<1>2. Busy(c) # {} => Busy(c)' # {}
  BY DEF Busy
<1> QED
  BY <1>1, <1>2, CountersGrow DEF Accounted, Answered

\* What an answered scope says, with its command named.
LEMMA AnsweredCmd ==
  ASSUME TypeOK',
         \A c \in Commands : sent'[c] > 0 => Accounted(c)',
         \A j \in Consumers, c \in Commands :
           work'[j].at = "answered" /\ work'[j].cmd = c => Answered(c)'
  PROVE  QueueInv'
<1>1. \A j \in Consumers : work'[j].at # "idle" => work'[j].cmd \in Commands
  BY DEF TypeOK, Scope, Free
<1> QED
  BY <1>1 DEF QueueInv, Answered

LEMMA QueueStep == TypeOK /\ QueueInv /\ [Next]_vars => QueueInv'
<1> SUFFICES ASSUME TypeOK, QueueInv, [Next]_vars PROVE QueueInv'
  OBVIOUS
<1>0. TypeOK'
  BY TypeStep
<1>a. ASSUME NEW c \in Commands PROVE Answered(c) => Answered(c)'
  <2>1. /\ confirmed[c] \in Nat /\ rejected[c] \in Nat
        /\ confirmed'[c] \in Nat /\ rejected'[c] \in Nat
    BY <1>0 DEF TypeOK
  <2> QED
    BY <2>1, CountersGrow DEF Answered
<1>b. \A k \in Consumers : work[k].at # "idle" => work[k].cmd \in Commands
  BY BusyHasScope DEF Scope
\* A step of k inside its scope: the other consumers and the queue stay.
<1>c. ASSUME NEW k \in Consumers, NEW a \in Commands, UNCHANGED <<sent, waiting>>,
             \A j \in Consumers : j # k => work'[j] = work[j],
             work[k].at # "idle", work'[k].at # "idle", work[k].cmd = a, work'[k].cmd = a,
             work'[k].at = "answered" => Answered(a)'
      PROVE  QueueInv'
  <2>1. ASSUME NEW c \in Commands, sent'[c] > 0 PROVE Accounted(c)'
    <3>1. Accounted(c)
      BY <1>c, <2>1 DEF QueueInv
    <3>2. waiting'[c] >= waiting[c]
      BY <1>c DEF TypeOK
    <3>3. \A j \in Busy(c) : work'[j].at # "idle" /\ work'[j].cmd = c
      BY <1>c DEF Busy
    <3> QED
      BY <1>0, <3>1, <3>2, <3>3, AccountedStays
  <2>2. ASSUME NEW j \in Consumers, NEW c \in Commands, work'[j].at = "answered", work'[j].cmd = c
        PROVE  Answered(c)'
    BY <1>a, <1>c, <2>2 DEF QueueInv
  <2> QED
    BY <1>0, <2>1, <2>2, AnsweredCmd
\* A step of k that ends its scope with an answer or in the error queue.
<1>d. ASSUME NEW k \in Consumers, NEW a \in Commands, UNCHANGED <<sent, waiting>>,
             \A j \in Consumers : j # k => work'[j] = work[j],
             work[k].at # "idle", work'[k].at = "idle", work[k].cmd = a,
             Answered(a)' \/ faulted'[a] > 0
      PROVE  QueueInv'
  <2>1. ASSUME NEW c \in Commands, sent'[c] > 0 PROVE Accounted(c)'
    <3>1. Accounted(c)
      BY <1>d, <2>1 DEF QueueInv
    <3>2. CASE c = a
      BY <1>d, <3>2 DEF Accounted
    <3>3. CASE c # a
      <4>1. waiting'[c] >= waiting[c]
        BY <1>d DEF TypeOK
      <4>2. \A j \in Busy(c) : work'[j].at # "idle" /\ work'[j].cmd = c
        BY <1>d, <3>3 DEF Busy
      <4> QED
        BY <1>0, <3>1, <4>1, <4>2, AccountedStays
    <3> QED
      BY <3>2, <3>3
  <2>2. ASSUME NEW j \in Consumers, NEW c \in Commands, work'[j].at = "answered", work'[j].cmd = c
        PROVE  Answered(c)'
    BY <1>a, <1>d, <2>2 DEF QueueInv
  <2> QED
    BY <1>0, <2>1, <2>2, AnsweredCmd
<1>1. ASSUME NEW c \in Commands, Send(c) PROVE QueueInv'
  <2>1. /\ waiting'[c] > 0 /\ work' = work
        /\ \A d \in Commands : waiting'[d] >= waiting[d]
        /\ \A d \in Commands : d # c => sent'[d] = sent[d]
    <3>1. /\ waiting'[c] = waiting[c] + 1 /\ waiting[c] \in Nat /\ work' = work
          /\ \A d \in Commands : waiting'[d] >= waiting[d]
      BY <1>1, BumpGrows DEF Send, TypeOK
    <3>2. \A d \in Commands : d # c => sent'[d] = sent[d]
      BY <1>1, BumpGrows DEF Send, TypeOK
    <3> QED
      BY <3>1, <3>2
  <2>2. ASSUME NEW d \in Commands, sent'[d] > 0 PROVE Accounted(d)'
    <3>1. CASE d = c
      BY <2>1, <3>1 DEF Accounted
    <3>2. CASE d # c
      BY <1>0, <2>1, <2>2, <3>2, AccountedStays DEF QueueInv, Busy
    <3> QED
      BY <3>1, <3>2
  <2> QED
    BY <1>a, <1>b, <2>1, <2>2 DEF QueueInv, Answered
<1>2. ASSUME NEW k \in Consumers, NEW c \in Commands, Receive(k, c) PROVE QueueInv'
  <2>1. /\ work'[k].at = "checking" /\ work'[k].cmd = c /\ work[k].at = "idle"
        /\ \A j \in Consumers : j # k => work'[j] = work[j]
    BY <1>2 DEF Receive, TypeOK, Free, NewScope
  <2>2. sent' = sent /\ \A d \in Commands : d # c => waiting'[d] = waiting[d]
    BY <1>2 DEF Receive, TypeOK
  <2>3. ASSUME NEW d \in Commands, sent'[d] > 0 PROVE Accounted(d)'
    <3>1. CASE d = c
      BY <2>1, <3>1 DEF Accounted, Busy
    <3>2. CASE d # c
      <4>1. waiting'[d] >= waiting[d]
        BY <2>2, <3>2 DEF TypeOK
      <4>2. \A j \in Busy(d) : work'[j].at # "idle" /\ work'[j].cmd = d
        BY <2>1 DEF Busy
      <4> QED
        BY <1>0, <2>2, <2>3, <4>1, <4>2, AccountedStays DEF QueueInv
    <3> QED
      BY <3>1, <3>2
  <2> QED
    BY <1>a, <1>b, <2>1, <2>3 DEF QueueInv, Answered
<1>3. ASSUME NEW k \in Consumers, CheckLine(k) PROVE QueueInv'
  <2>1. /\ work[k].at # "idle" /\ work'[k].at = "checking" /\ work'[k].cmd = work[k].cmd
        /\ \A j \in Consumers : j # k => work'[j] = work[j]
    BY <1>3 DEF CheckLine, AtLine, Checking, TypeOK
  <2> QED
    BY <1>3, <1>b, <1>c, <2>1 DEF CheckLine
<1>4. ASSUME NEW k \in Consumers,
             MissingProduct(k) \/ SaveFails(k) \/ PublishThrows(k)
      PROVE QueueInv'
  <2>1. /\ work[k].at # "idle" /\ MoveToError(k) /\ UNCHANGED <<sent, waiting>>
    BY <1>4 DEF MissingProduct, SaveFails, PublishThrows, AtLine, AllChecked, Checking
  <2>2. /\ work'[k].at = "idle" /\ \A j \in Consumers : j # k => work'[j] = work[j]
        /\ faulted'[work[k].cmd] = faulted[work[k].cmd] + 1
    BY <1>b, <2>1, BumpGrows DEF MoveToError, TypeOK, Free
  <2>3. faulted'[work[k].cmd] > 0
    BY <1>b, <2>1, <2>2 DEF TypeOK
  <2> QED
    BY <1>b, <1>d, <2>1, <2>2, <2>3
<1>5. ASSUME NEW k \in Consumers, Save(k) \/ SaveIsRetried(k) PROVE QueueInv'
  <2>1. work[k].at # "idle" /\ work[k] \in Scope /\ work[k].at = "checking"
    BY <1>5, BusyHasScope DEF Save, SaveIsRetried, AllChecked, Checking
  <2>2. /\ work'[k].at \in {"checking", "saved"} /\ work'[k].cmd = work[k].cmd
        /\ \A j \in Consumers : j # k => work'[j] = work[j]
    <3>1. CASE Save(k)
      <4>1. work' = [work EXCEPT ![k] = [work[k] EXCEPT !.at = "saved", !.stored = TRUE]]
        BY <3>1 DEF Save
      <4> QED
        BY <2>1, <4>1 DEF TypeOK, Scope
    <3>2. CASE SaveIsRetried(k)
      <4>1. work' = [work EXCEPT ![k] = [work[k] EXCEPT !.stored = TRUE]]
        BY <3>2 DEF SaveIsRetried
      <4> QED
        BY <2>1, <4>1 DEF TypeOK, Scope
    <3> QED
      BY <1>5, <3>1, <3>2
  <2> QED
    BY <1>5, <1>b, <1>c, <2>1, <2>2 DEF Save, SaveIsRetried
<1>6. ASSUME NEW k \in Consumers, PublishConfirmed(k) \/ PublishFailed(k) PROVE QueueInv'
  <2>1. work[k].at # "idle" /\ work[k] \in Scope /\ work[k].cmd \in Commands
    BY <1>6, <1>b, BusyHasScope DEF PublishConfirmed, PublishFailed, AllChecked, Checking
  <2>2. /\ work'[k].at = "answered" /\ work'[k].cmd = work[k].cmd
        /\ \A j \in Consumers : j # k => work'[j] = work[j]
    BY <1>6, <2>1 DEF PublishConfirmed, PublishFailed, TypeOK, Scope
  <2>3. ASSUME NEW c \in Commands, work[k].cmd = c PROVE Answered(c)'
    <3>1. /\ confirmed[c] \in Nat /\ rejected[c] \in Nat
          /\ \/ confirmed'[c] = confirmed[c] + 1 /\ rejected' = rejected
             \/ rejected'[c] = rejected[c] + 1 /\ confirmed' = confirmed
      BY <1>6, <2>3, BumpGrows DEF PublishConfirmed, PublishFailed, TypeOK
    <3>2. confirmed'[c] + rejected'[c] > 0
      BY <3>1
    <3> QED
      BY <3>2 DEF Answered
  <2> QED
    BY <1>6, <1>c, <2>1, <2>2, <2>3 DEF PublishConfirmed, PublishFailed
<1>7. ASSUME NEW k \in Consumers, Acknowledge(k) PROVE QueueInv'
  <2>1. /\ work[k].at = "answered" /\ work'[k].at = "idle"
        /\ \A j \in Consumers : j # k => work'[j] = work[j]
    BY <1>7 DEF Acknowledge, TypeOK, Free
  <2>2. ASSUME NEW c \in Commands, work[k].cmd = c PROVE Answered(c)'
    BY <1>a, <2>1, <2>2 DEF QueueInv
  <2> QED
    BY <1>7, <1>b, <1>d, <2>1, <2>2 DEF Acknowledge
<1>8. CASE Restart
  <2>1. ASSUME NEW c \in Commands
        PROVE  waiting'[c] >= waiting[c] /\ (Busy(c) # {} => waiting'[c] > 0)
    <3>1. IsFiniteSet(Busy(c))
      BY ConsumersAssumption, FS_Subset DEF Busy
    <3>2. Cardinality(Busy(c)) \in Nat /\ (Cardinality(Busy(c)) = 0 <=> Busy(c) = {})
      BY <3>1, FS_CardinalityType, FS_EmptySet
    <3>3. waiting'[c] = waiting[c] + Cardinality(Busy(c)) /\ waiting[c] \in Nat
      BY <1>8 DEF Restart, TypeOK
    <3> QED
      BY <3>2, <3>3
  <2>2. \A k \in Consumers : work'[k].at = "idle"
    BY <1>8 DEF Restart, Free
  <2>3. ASSUME NEW c \in Commands, sent'[c] > 0 PROVE Accounted(c)'
    <3>1. Accounted(c)
      BY <1>8, <2>3 DEF Restart, QueueInv
    <3>2. CASE Busy(c) # {}
      BY <2>1, <3>2 DEF Accounted
    <3>3. CASE Busy(c) = {}
      BY <1>0, <2>1, <3>1, <3>3, AccountedStays
    <3> QED
      BY <3>2, <3>3
  <2> QED
    BY <2>2, <2>3 DEF QueueInv
<1>9. CASE UNCHANGED vars
  BY <1>9 DEF vars, answers, QueueInv, Accounted, Answered, Busy
<1> QED
  BY <1>1, <1>2, <1>3, <1>4, <1>5, <1>6, <1>7, <1>8, <1>9
  DEF Next, ConsumerStep, Consume, Failure

\* Every command that was sent waits, is in work, or was answered or moved to
\* the error queue, whichever calls fail and however often the process dies.
THEOREM CommandsAccounted == Spec => []NoCommandLost
<1>1. Init => QueueInv
  BY DEF Init, Zero, Free, QueueInv
<1>2. TypeOK /\ QueueInv => NoCommandLost
  <2> SUFFICES ASSUME TypeOK, QueueInv, NEW c \in Commands, sent[c] > 0
               PROVE  \/ waiting[c] > 0
                      \/ Busy(c) # {}
                      \/ confirmed[c] + rejected[c] + faulted[c] > 0
    BY DEF NoCommandLost
  <2>1. Accounted(c)
    BY DEF QueueInv
  <2>2. confirmed[c] \in Nat /\ rejected[c] \in Nat /\ faulted[c] \in Nat
    BY DEF TypeOK
  <2> QED
    BY <2>1, <2>2 DEF Accounted, Answered
<1> QED
  BY <1>1, <1>2, TypeCorrect, QueueStep, PTL DEF Spec

-----------------------------------------------------------------------------
(* All or nothing                                                          *)

\* The lines of p among those a scope w has passed.
Passed(w, p) == {n \in LinesOf(w.cmd, p) : n < w.line}

\* A scope that came up short on no line took what the lines it passed ask for.
Tallied(w) ==
  ~w.short => \A p \in Products :
    w.taken[p] = SumFunctionOnSet(Quantities(w.cmd), Passed(w, p))

GrantInv ==
  /\ GrantedIsDemand
  /\ \A k \in Consumers : Checking(k) => Tallied(work[k])

LEMMA QuantitiesType ==
  ASSUME NEW c \in Commands
  PROVE  /\ IsFiniteSet(DOMAIN Basket[c])
         /\ Quantities(c) \in [DOMAIN Basket[c] -> Nat]
         /\ \A p : LinesOf(c, p) \in SUBSET DOMAIN Basket[c]
<1>1. Basket[c] \in Seq(Line)
  BY BasketAssumption
<1>2. DOMAIN Basket[c] = 1..Len(Basket[c]) /\ Len(Basket[c]) \in Nat
  BY <1>1
<1>3. \A n \in DOMAIN Basket[c] : Basket[c][n] \in Line
  BY <1>1
<1>4. IsFiniteSet(DOMAIN Basket[c])
  <2>1. IsFiniteSet(1..Len(Basket[c]))
    BY <1>2, FS_Interval
  <2> QED
    BY <1>2, <2>1
<1>5. Quantities(c) \in [DOMAIN Basket[c] -> Nat]
  BY <1>3 DEF Quantities, Line
<1> QED
  BY <1>4, <1>5 DEF LinesOf

LEMMA DemandType ==
  ASSUME NEW c \in Commands, NEW p \in Products
  PROVE  /\ Demand[c][p] = SumFunctionOnSet(Quantities(c), LinesOf(c, p))
         /\ Demand[c][p] \in Nat
<1>1. Demand[c][p] = SumFunctionOnSet(Quantities(c), LinesOf(c, p))
  BY DEF Demand
<1>2. SumFunctionOnSet(Quantities(c), LinesOf(c, p)) \in Nat
  BY QuantitiesType, SumType
<1> QED
  BY <1>1, <1>2

\* One line more: its quantity is added for its product, and for no other.
LEMMA PassedGrows ==
  ASSUME NEW w \in Scope, w.line <= Len(Basket[w.cmd]),
         NEW v \in Scope, v.cmd = w.cmd, v.line = w.line + 1,
         NEW p \in Products
  PROVE  SumFunctionOnSet(Quantities(w.cmd), Passed(v, p)) =
           SumFunctionOnSet(Quantities(w.cmd), Passed(w, p))
             + (IF Basket[w.cmd][w.line].product = p THEN Basket[w.cmd][w.line].quantity ELSE 0)
<1> DEFINE c == w.cmd
           n == w.line
<1>1. c \in Commands /\ n \in Nat \ {0}
  BY DEF Scope
<1>2. Basket[c] \in Seq(Line)
  BY <1>1, BasketAssumption
<1>3. n \in DOMAIN Basket[c] /\ Quantities(c)[n] = Basket[c][n].quantity
  BY <1>1, <1>2 DEF Quantities
<1>4. Quantities(c)[n] \in Nat
  BY <1>1, <1>3, QuantitiesType
<1>5. \A m \in DOMAIN Basket[c] : m \in Nat /\ (m < v.line <=> m < n \/ m = n)
  BY <1>1, <1>2
<1>6. Passed(v, p) \in SUBSET DOMAIN Basket[c] /\ Passed(w, p) \in SUBSET DOMAIN Basket[c]
  BY <1>1, QuantitiesType DEF Passed
<1>7. SumFunctionOnSet(Quantities(c), Passed(w, p)) \in Nat
  BY <1>1, <1>6, QuantitiesType, SumType
<1>8. CASE Basket[c][n].product = p
  <2>1. n \in Passed(v, p) /\ Passed(v, p) \ {n} = Passed(w, p)
    BY <1>1, <1>3, <1>5, <1>8 DEF Passed, LinesOf
  <2>2. SumFunctionOnSet(Quantities(c), Passed(v, p)) =
          Quantities(c)[n] + SumFunctionOnSet(Quantities(c), Passed(v, p) \ {n})
    <3> HIDE DEF c, n
    <3> QED BY <1>1, <1>6, <2>1, QuantitiesType, SumRemove
  <2>3. SumFunctionOnSet(Quantities(c), Passed(v, p)) =
          Quantities(c)[n] + SumFunctionOnSet(Quantities(c), Passed(w, p))
    BY <2>1, <2>2
  <2> QED
    BY <1>3, <1>4, <1>7, <1>8, <2>3
<1>9. CASE Basket[c][n].product # p
  <2>1. Passed(v, p) = Passed(w, p)
    BY <1>5, <1>9 DEF Passed, LinesOf
  <2> QED
    BY <1>7, <1>9, <2>1
<1> QED
  BY <1>8, <1>9

\* Past the last line every line has been passed.
LEMMA PassedAll ==
  ASSUME NEW w \in Scope, w.line > Len(Basket[w.cmd]), NEW p
  PROVE  Passed(w, p) = LinesOf(w.cmd, p)
<1>1. Basket[w.cmd] \in Seq(Line) /\ w.line \in Nat
  BY BasketAssumption DEF Scope
<1> QED
  BY <1>1 DEF Passed, LinesOf

\* A reservation saved once more adds the demand of its command.
LEMMA SavesCount ==
  ASSUME NEW f \in [Commands -> Nat], NEW c \in Commands, NEW p \in Products
  PROVE  SumFunction([d \in Commands |-> Bump(f, c)[d] * Demand[d][p]]) =
           SumFunction([d \in Commands |-> f[d] * Demand[d][p]]) + Demand[c][p]
<1> DEFINE D == [d \in Commands |-> Demand[d][p]]
           g == [d \in Commands |-> f[d] * D[d]]
           h == [d \in Commands |-> Bump(f, c)[d] * D[d]]
<1>1. D \in [Commands -> Nat]
  BY DemandType
<1>2. Bump(f, c) \in [Commands -> Nat] /\ Bump(f, c)[c] = f[c] + 1
      /\ \A d \in Commands : d # c => Bump(f, c)[d] = f[d]
  BY DEF Bump
<1> HIDE DEF D
<1>3. g \in [Commands -> Nat] /\ h \in [Commands -> Nat]
  BY <1>1, <1>2
<1>4. h[c] = g[c] + D[c]
  <2>1. f[c] \in Nat /\ D[c] \in Nat /\ h[c] = (f[c] + 1) * D[c] /\ g[c] = f[c] * D[c]
    BY <1>1, <1>2
  <2>2. \A x, y \in Nat : (x + 1) * y = x * y + y
    OBVIOUS
  <2> QED BY <2>1, <2>2
<1>5. \A d \in Commands \ {c} : h[d] = g[d]
  BY <1>2
<1> HIDE DEF g, h
<1>6. /\ SumFunctionOnSet(g, Commands) = g[c] + SumFunctionOnSet(g, Commands \ {c})
      /\ SumFunctionOnSet(h, Commands) = h[c] + SumFunctionOnSet(h, Commands \ {c})
  BY <1>3, CommandsAssumption, SumRemove
<1>7. SumFunctionOnSet(h, Commands \ {c}) = SumFunctionOnSet(g, Commands \ {c})
  <2>1. Commands \ {c} \in SUBSET Commands
    OBVIOUS
  <2> QED BY <1>5, <2>1, CommandsAssumption, SumAgrees
<1>8. SumFunctionOnSet(g, Commands \ {c}) \in Nat /\ g[c] \in Nat /\ D[c] \in Nat
  <2>1. Commands \ {c} \in SUBSET Commands
    OBVIOUS
  <2> QED BY <1>1, <1>3, <2>1, CommandsAssumption, SumType
<1>9. SumFunctionOnSet(h, Commands) = SumFunctionOnSet(g, Commands) + D[c]
  BY <1>4, <1>6, <1>7, <1>8
<1>10. SumFunction(g) = SumFunctionOnSet(g, Commands) /\ SumFunction(h) = SumFunctionOnSet(h, Commands)
  BY <1>3 DEF SumFunction
<1>11. /\ g = [d \in Commands |-> f[d] * Demand[d][p]]
       /\ h = [d \in Commands |-> Bump(f, c)[d] * Demand[d][p]]
       /\ D[c] = Demand[c][p]
  BY Zenon DEF g, h, D
<1> QED
  BY <1>9, <1>10, <1>11

\* What a scope without a short line took is the demand of its command.
LEMMA TakenIsDemand ==
  ASSUME TypeOK, NEW k \in Consumers, AllChecked(k), ~work[k].short, Tallied(work[k]),
         NEW p \in Products
  PROVE  work[k].taken[p] = Demand[work[k].cmd][p]
<1>1. work[k] \in Scope /\ work[k].line > Len(Basket[work[k].cmd])
  BY BusyHasScope DEF AllChecked, Checking
<1>2. Passed(work[k], p) = LinesOf(work[k].cmd, p) /\ work[k].cmd \in Commands
  BY <1>1, PassedAll DEF Scope
<1> QED
  BY <1>2, DemandType DEF Tallied

LEMMA WriteGrants ==
  ASSUME TypeOK, GrantedIsDemand, NEW k \in Consumers, AllChecked(k), ~work[k].short,
         Tallied(work[k]), Write(k)
  PROVE  GrantedIsDemand'
<1>1. work[k] \in Scope /\ work[k].cmd \in Commands
  BY BusyHasScope DEF AllChecked, Checking, Scope
<1>2. CASE work[k].stored
  BY <1>2 DEF Write, GrantedIsDemand
<1>3. CASE ~work[k].stored
  <2> DEFINE c == work[k].cmd
             S(f, p) == SumFunction([d \in Commands |-> f[d] * Demand[d][p]])
  <2>1. saves \in [Commands -> Nat] /\ saves' = Bump(saves, c) /\ c \in Commands
    BY <1>1, <1>3 DEF Write, TypeOK
  <2>2. ASSUME NEW p \in Products PROVE granted'[p] = S(saves', p)
    <3>1. granted'[p] = granted[p] + Demand[c][p]
      BY <1>3, <2>2, TakenIsDemand DEF Write
    <3>2. S(saves', p) = S(saves, p) + Demand[c][p]
      BY <2>1, <2>2, SavesCount
    <3>3. granted[p] = S(saves, p)
      BY <2>2 DEF GrantedIsDemand
    <3> HIDE DEF S
    <3> QED
      BY <3>1, <3>2, <3>3
  <2> QED
    BY <2>2 DEF GrantedIsDemand
<1> QED
  BY <1>2, <1>3

\* A step of k that saves nothing, or a reservation that all lines allow.
LEMMA GrantingStep ==
  ASSUME TypeOK, GrantInv, NEW k \in Consumers,
         \/ UNCHANGED <<granted, saves>>
         \/ AllChecked(k) /\ ~work[k].short /\ Write(k),
         \A j \in Consumers : j # k => work'[j] = work[j],
         work'[k].at = "checking" => Tallied(work'[k])
  PROVE  GrantInv'
<1>1. GrantedIsDemand'
  <2>1. CASE UNCHANGED <<granted, saves>>
    BY <2>1 DEF GrantInv, GrantedIsDemand
  <2>2. CASE AllChecked(k) /\ ~work[k].short /\ Write(k)
    BY <2>2, WriteGrants DEF GrantInv, AllChecked
  <2> QED
    BY <2>1, <2>2
<1>2. ASSUME NEW j \in Consumers, work'[j].at = "checking" PROVE Tallied(work'[j])
  BY <1>2 DEF GrantInv, Checking
<1> QED
  BY <1>1, <1>2 DEF GrantInv, Checking

LEMMA GrantStep == TypeOK /\ GrantInv /\ [Next]_vars => GrantInv'
<1> SUFFICES ASSUME TypeOK, GrantInv, [Next]_vars PROVE GrantInv'
  OBVIOUS
<1>0. TypeOK'
  BY TypeStep
<1>1. ASSUME NEW c \in Commands, Send(c) PROVE GrantInv'
  BY <1>1 DEF Send, GrantInv, GrantedIsDemand, Checking
<1>2. ASSUME NEW k \in Consumers, NEW c \in Commands, Receive(k, c) PROVE GrantInv'
  <2>1. work'[k] = NewScope(c) /\ \A j \in Consumers : j # k => work'[j] = work[j]
    BY <1>2 DEF Receive, TypeOK
  <2>2. Tallied(NewScope(c))
    <3>1. /\ NewScope(c).cmd = c /\ NewScope(c).line = 1
          /\ NewScope(c).taken = Zero(Products)
      BY DEF NewScope
    <3>2. ASSUME NEW p \in Products PROVE Passed(NewScope(c), p) = {}
      <4>1. LinesOf(c, p) \subseteq Nat \ {0}
        BY BasketAssumption DEF LinesOf
      <4> QED
        BY <3>1, <4>1 DEF Passed
    <3> QED
      BY <3>1, <3>2, SumEmpty DEF Tallied, Zero
  <2> QED
    BY <1>2, <2>1, <2>2, GrantingStep DEF Receive
<1>3. ASSUME NEW k \in Consumers, CheckLine(k) PROVE GrantInv'
  <2> DEFINE p == Basket[work[k].cmd][work[k].line].product
             q == Basket[work[k].cmd][work[k].line].quantity
             here == Quantity(k, p)
             take == IF here >= q THEN q ELSE 0
  <2>1. AtLine(k) /\ Checking(k) /\ p \in Products /\ UNCHANGED <<granted, saves>>
    BY <1>3 DEF CheckLine, AtLine
  <2>2. /\ work[k] \in Scope /\ q \in Nat /\ Tallied(work[k])
        /\ work[k].line <= Len(Basket[work[k].cmd])
    BY <2>1, LineType DEF Line, GrantInv, AtLine
  <2>3. here \in Int
    BY <2>1, <2>2, QuantityType
  <2>4. work' = [work EXCEPT ![k] =
             [at |-> "checking", cmd |-> work[k].cmd, line |-> work[k].line + 1,
              tracked |-> work[k].tracked \union {p},
              left |-> [work[k].left EXCEPT ![p] = here - take],
              taken |-> [work[k].taken EXCEPT ![p] = @ + take],
              short |-> (work[k].short \/ here < q), stored |-> FALSE]]
    BY <1>3 DEF CheckLine
  <2>5. /\ work'[k].at = "checking" /\ work'[k].cmd = work[k].cmd
        /\ work'[k].line = work[k].line + 1
        /\ work'[k].taken = [work[k].taken EXCEPT ![p] = @ + take]
        /\ work'[k].short <=> work[k].short \/ here < q
        /\ \A j \in Consumers : j # k => work'[j] = work[j]
    <3> HIDE DEF p, q, here, take
    <3> QED
      BY <2>4 DEF TypeOK
  <2>6. work'[k] \in Scope
    BY <1>0, <2>5, BusyHasScope DEF TypeOK, Free
  <2>7. Tallied(work'[k])
    <3> SUFFICES ASSUME ~work'[k].short, NEW r \in Products
                 PROVE  work'[k].taken[r] =
                          SumFunctionOnSet(Quantities(work[k].cmd), Passed(work'[k], r))
      BY <2>5 DEF Tallied
    <3>1. ~work[k].short /\ take = q
      BY <2>2, <2>3, <2>5
    <3>2. work[k].taken[r] = SumFunctionOnSet(Quantities(work[k].cmd), Passed(work[k], r))
      BY <2>2, <3>1 DEF Tallied
    <3>3. work[k].taken \in [Products -> Nat]
      BY <2>2 DEF Scope
    <3>4. work'[k].taken[r] = work[k].taken[r] + (IF p = r THEN q ELSE 0)
      <4> HIDE DEF p, q, here, take
      <4> QED
        BY <2>1, <2>2, <2>5, <3>1, <3>3
    <3>5. SumFunctionOnSet(Quantities(work[k].cmd), Passed(work'[k], r)) =
            SumFunctionOnSet(Quantities(work[k].cmd), Passed(work[k], r))
              + (IF p = r THEN q ELSE 0)
      BY <2>2, <2>5, <2>6, PassedGrows
    <3> QED
      BY <3>2, <3>4, <3>5
  <2> QED
    BY <2>1, <2>5, <2>7, GrantingStep
<1>4. ASSUME NEW k \in Consumers, MissingProduct(k) PROVE GrantInv'
  BY <1>4, GrantingStep DEF MissingProduct, MoveToError, Free, TypeOK
<1>5. ASSUME NEW k \in Consumers, Save(k) PROVE GrantInv'
  <2>1. /\ work'[k].at = "saved" /\ \A j \in Consumers : j # k => work'[j] = work[j]
    <3>1. work[k] \in Scope
      BY <1>5, BusyHasScope DEF Save, AllChecked, Checking
    <3> QED
      BY <1>5, <3>1 DEF Save, TypeOK, Scope
  <2> QED
    BY <1>5, <2>1, GrantingStep DEF Save
<1>6. ASSUME NEW k \in Consumers, PublishConfirmed(k) \/ PublishFailed(k) PROVE GrantInv'
  <2>1. work[k] \in Scope
    BY <1>6, BusyHasScope DEF PublishConfirmed, PublishFailed, AllChecked, Checking
  <2>2. /\ work'[k].at = "answered" /\ \A j \in Consumers : j # k => work'[j] = work[j]
    BY <1>6, <2>1 DEF PublishConfirmed, PublishFailed, TypeOK, Scope
  <2> QED
    BY <1>6, <2>2, GrantingStep DEF PublishConfirmed, PublishFailed
<1>7. ASSUME NEW k \in Consumers, Acknowledge(k) PROVE GrantInv'
  BY <1>7, GrantingStep DEF Acknowledge, Free, TypeOK
<1>8. ASSUME NEW k \in Consumers, SaveIsRetried(k) PROVE GrantInv'
  <2>1. /\ AllChecked(k) /\ ~work[k].short /\ Write(k) /\ work[k] \in Scope
        /\ Tallied(work[k])
    BY <1>8, BusyHasScope DEF SaveIsRetried, AllChecked, Checking, GrantInv
  <2>2. /\ work'[k] = [work[k] EXCEPT !.stored = TRUE]
        /\ \A j \in Consumers : j # k => work'[j] = work[j]
    BY <1>8 DEF SaveIsRetried, TypeOK
  <2>3. Tallied(work'[k])
    <3>1. /\ work'[k].cmd = work[k].cmd /\ work'[k].line = work[k].line
          /\ work'[k].taken = work[k].taken /\ work'[k].short = work[k].short
      BY <2>1, <2>2 DEF Scope
    <3> QED
      BY <2>1, <3>1 DEF Tallied, Passed
  <2> QED
    BY <2>1, <2>2, <2>3, GrantingStep
<1>9. ASSUME NEW k \in Consumers, SaveFails(k) PROVE GrantInv'
  BY <1>9, GrantingStep DEF SaveFails, MoveToError, Free, TypeOK
<1>10. ASSUME NEW k \in Consumers, PublishThrows(k) PROVE GrantInv'
  BY <1>10, GrantingStep DEF PublishThrows, MoveToError, Free, TypeOK
<1>11. CASE Restart
  BY <1>11 DEF Restart, Free, GrantInv, GrantedIsDemand, Checking
<1>12. CASE UNCHANGED vars
  BY <1>12 DEF vars, GrantInv, GrantedIsDemand, Checking
<1> QED
  BY <1>1, <1>2, <1>3, <1>4, <1>5, <1>6, <1>7, <1>8, <1>9, <1>10, <1>11, <1>12
  DEF Next, ConsumerStep, Consume, Failure

LEMMA GrantInit == Init => GrantInv
<1> SUFFICES ASSUME Init PROVE GrantInv
  OBVIOUS
<1>1. ASSUME NEW p \in Products
      PROVE  SumFunction([c \in Commands |-> saves[c] * Demand[c][p]]) = 0
  <2> DEFINE g == [c \in Commands |-> saves[c] * Demand[c][p]]
             z == [c \in Commands |-> 0]
  <2>1. \A c \in Commands : g[c] = z[c]
    BY <1>1, DemandType DEF Init, Zero
  <2>2. g = z
    BY <2>1
  <2> QED BY <2>2, SumOfZeros, CommandsAssumption DEF SumFunction
<1>2. \A k \in Consumers : work[k].at = "idle"
  BY DEF Init, Free
<1> QED
  BY <1>1, <1>2 DEF Init, Zero, GrantInv, GrantedIsDemand, Checking

\* Reservations are all or nothing: however the loops of any number of
\* consumers interleave, fail or run twice, the units that saved reservations
\* took are those that whole baskets ask for.
THEOREM GrantsAreBaskets == Spec => []GrantedIsDemand
<1>1. GrantInv => GrantedIsDemand
  BY DEF GrantInv
<1> QED
  BY <1>1, TypeCorrect, GrantInit, GrantStep, PTL DEF Spec

-----------------------------------------------------------------------------
(* Undisturbed, the consumer implements the ledger                         *)

Lacks(c, s) == \E p \in Products : Demand[c][p] > s[p]

\* What a scope w knows when nobody disturbs it, in a table s with f
\* confirmations and g reservations: a line was short because the basket is
\* not in stock, and a reservation that was saved is still to be confirmed.
Knows(w, s, f, g) ==
  /\ w.at = "checking" /\ w.short => ~w.stored /\ Lacks(w.cmd, s)
  /\ w.at = "saved" => w.stored
  /\ w.at \in {"checking", "saved"} /\ w.stored => f[w.cmd] < g[w.cmd]

LedgerInv ==
  /\ \A c \in Commands : confirmed[c] <= saves[c]
  /\ \A k \in Consumers : work[k].at # "idle" => Knows(work[k], stock, confirmed, saves)

\* All that the steps of an undisturbed consumer rest on.
UndisturbedInv == QInv /\ ConservedInv /\ GrantInv /\ LedgerInv

\* The first save takes the whole basket, which is in stock; a second one
\* writes the same quantities again.
LEMMA WriteReserves ==
  ASSUME Undisturbed, UndisturbedInv, NEW k \in Consumers,
         AllChecked(k), ~work[k].short, Write(k)
  PROVE  IF work[k].stored
           THEN UNCHANGED <<stock, saves>>
           ELSE /\ \A p \in Products : Demand[work[k].cmd][p] <= stock[p]
                /\ stock' = [p \in Products |-> stock[p] - Demand[work[k].cmd][p]]
                /\ saves' = Bump(saves, work[k].cmd)
<1>1. /\ TypeOK /\ work[k].at # "idle" /\ work[k] \in Scope /\ Tallied(work[k])
      /\ Matches(work[k], stock) /\ Covered(work[k], granted)
  BY BusyHasScope DEF UndisturbedInv, QInv, ConservedInv, GrantInv, AllChecked, Checking
<1>2. /\ stock \in [Products -> Int] /\ work[k].left \in [Products -> Int]
      /\ work[k].taken \in [Products -> Nat]
  BY <1>1 DEF TypeOK, Scope
<1>3. stock' = [p \in Products |->
                  IF work[k].taken[p] > 0 THEN work[k].left[p] ELSE stock[p]]
  BY DEF Write
<1>4. CASE work[k].stored
  <2>1. \A p \in Products : stock'[p] = stock[p]
    BY <1>1, <1>2, <1>3, <1>4 DEF Matches
  <2>2. stock' = stock
    BY <1>2, <1>3, <2>1
  <2> QED
    BY <1>4, <2>2 DEF Write
<1>5. CASE ~work[k].stored
  <2>1. ASSUME NEW p \in Products
        PROVE  /\ Demand[work[k].cmd][p] <= stock[p]
               /\ stock'[p] = stock[p] - Demand[work[k].cmd][p]
    <3>1. Demand[work[k].cmd][p] = work[k].taken[p]
      BY <1>1, TakenIsDemand
    <3>2. /\ stock[p] \in Int /\ work[k].left[p] \in Int /\ work[k].taken[p] \in Nat
          /\ stock'[p] = IF work[k].taken[p] > 0 THEN work[k].left[p] ELSE stock[p]
      BY <1>2, <1>3
    <3>3. /\ work[k].left[p] >= 0 /\ stock[p] >= 0
          /\ p \notin work[k].tracked => work[k].taken[p] = 0
          /\ p \in work[k].tracked => stock[p] = work[k].left[p] + work[k].taken[p]
      BY <1>1, <1>5 DEF Matches, Covered, UndisturbedInv, QInv, StockNeverNegative
    <3> QED
      BY <3>1, <3>2, <3>3
  <2>2. stock' = [p \in Products |-> stock[p] - Demand[work[k].cmd][p]]
    BY <1>3, <2>1
  <2> QED
    BY <1>5, <2>1, <2>2 DEF Write
<1> QED
  BY <1>4, <1>5

\* The first line that comes up short shows that the basket is not in stock.
LEMMA ShortLacks ==
  ASSUME Undisturbed, UndisturbedInv, NEW k \in Consumers, AtLine(k), ~work[k].short,
         NEW p \in Products, p = Basket[work[k].cmd][work[k].line].product,
         Quantity(k, p) < Basket[work[k].cmd][work[k].line].quantity
  PROVE  Lacks(work[k].cmd, stock)
<1> DEFINE c == work[k].cmd
           q == Basket[c][work[k].line].quantity
           v == [work[k] EXCEPT !.line = @ + 1]
           sum(w) == SumFunctionOnSet(Quantities(c), Passed(w, p))
<1>1. /\ TypeOK /\ work[k].at # "idle" /\ work[k] \in Scope /\ Tallied(work[k])
      /\ Matches(work[k], stock) /\ ~work[k].stored /\ c \in Commands /\ q \in Nat
  BY LineType DEF UndisturbedInv, QInv, ConservedInv, GrantInv, AtLine, Checking, Unsaved,
                  Scope, Line
<1>2. /\ v \in Scope /\ v.cmd = c /\ v.line = work[k].line + 1
      /\ work[k].line <= Len(Basket[c])
  <2>1. work[k].line <= Len(Basket[c])
    BY DEF AtLine
  <2>2. v \in Scope /\ v.cmd = c /\ v.line = work[k].line + 1
    BY <1>1 DEF Scope
  <2> QED
    BY <2>1, <2>2
<1>3. work[k].taken[p] = sum(work[k])
  BY <1>1 DEF Tallied
<1>4. stock[p] = Quantity(k, p) + work[k].taken[p]
  <2>1. stock[p] \in Int /\ work[k].left[p] \in Int /\ work[k].taken[p] \in Nat
    BY <1>1 DEF TypeOK, Scope
  <2> QED
    BY <1>1, <2>1 DEF Matches, Quantity
<1>5. sum(v) = sum(work[k]) + q
  <2> HIDE DEF v
  <2> QED
    BY <1>1, <1>2, PassedGrows
<1>6. sum(v) <= Demand[c][p]
  <2>1. Passed(v, p) \in SUBSET LinesOf(c, p)
    BY <1>2 DEF Passed
  <2> HIDE DEF v, c
  <2>2. /\ SumFunctionOnSet(Quantities(c), Passed(v, p))
             <= SumFunctionOnSet(Quantities(c), LinesOf(c, p))
    BY <1>1, <2>1, QuantitiesType, SumMonotone
  <2> QED
    BY <1>1, <2>2, DemandType
<1>7. Quantity(k, p) \in Int /\ work[k].taken[p] \in Nat /\ stock[p] \in Int
      /\ Demand[c][p] \in Nat
  BY <1>1, QuantityType, DemandType DEF TypeOK, Scope
<1>8. Demand[c][p] > stock[p]
  <2> HIDE DEF sum, q
  <2>1. Quantity(k, p) < q
    BY DEF q
  <2> QED
    BY <1>1, <1>3, <1>4, <1>5, <1>6, <1>7, <2>1
<1> QED
  BY <1>8 DEF Lacks

\* Alone, a step of k keeps LedgerInv if it keeps it for k.
LEMMA AloneLedger ==
  ASSUME Undisturbed, NEW k \in Consumers,
         \A c \in Commands : confirmed'[c] <= saves'[c],
         work'[k].at # "idle" => Knows(work'[k], stock', confirmed', saves')
  PROVE  LedgerInv'
<1>1. \A j \in Consumers : j = k
  BY DEF Undisturbed
<1> QED
  BY <1>1 DEF LedgerInv

\* Saving leaves at least as many reservations as confirmations.
LEMMA WriteKeeps ==
  ASSUME Undisturbed, UndisturbedInv, NEW k \in Consumers,
         AllChecked(k), ~work[k].short, Write(k), UNCHANGED confirmed
  PROVE  /\ \A c \in Commands : confirmed'[c] <= saves'[c]
         /\ confirmed'[work[k].cmd] < saves'[work[k].cmd]
<1>1. /\ TypeOK /\ work[k].at # "idle" /\ work[k].at = "checking" /\ work[k].cmd \in Commands
      /\ Knows(work[k], stock, confirmed, saves)
  BY BusyHasScope DEF UndisturbedInv, QInv, LedgerInv, AllChecked, Checking, Scope
<1>2. /\ saves \in [Commands -> Nat] /\ confirmed \in [Commands -> Nat]
      /\ \A c \in Commands : confirmed[c] <= saves[c]
  BY <1>1 DEF TypeOK, UndisturbedInv, LedgerInv
<1>3. CASE work[k].stored
  BY <1>1, <1>2, <1>3, WriteReserves DEF Knows
<1>4. CASE ~work[k].stored
  <2>1. saves' = Bump(saves, work[k].cmd)
    BY <1>4, WriteReserves
  <2>2. \A c \in Commands : saves'[c] >= saves[c]
    BY <1>1, <1>2, <2>1, BumpGrows
  <2>3. saves'[work[k].cmd] = saves[work[k].cmd] + 1
    BY <1>1, <1>2, <2>1, BumpGrows
  <2>4. saves' \in [Commands -> Nat]
    BY <1>1, <1>2, <2>1, BumpType
  <2> QED
    BY <1>1, <1>2, <2>2, <2>3, <2>4
<1> QED
  BY <1>3, <1>4

LEMMA LedgerStep ==
  ASSUME Undisturbed PROVE UndisturbedInv /\ [Next]_vars => LedgerInv'
<1> SUFFICES ASSUME UndisturbedInv, [Next]_vars PROVE LedgerInv'
  OBVIOUS
<1>0. TypeOK /\ TypeOK'
  BY TypeStep DEF UndisturbedInv, QInv
<1>a. \A c \in Commands : confirmed[c] <= saves[c]
  BY DEF UndisturbedInv, LedgerInv
<1>b. \A k \in Consumers : work[k].at # "idle" => Knows(work[k], stock, confirmed, saves)
  BY DEF UndisturbedInv, LedgerInv
<1>1. ASSUME NEW c \in Commands, Send(c) PROVE LedgerInv'
  BY <1>1 DEF Send, UndisturbedInv, LedgerInv, answers
<1>2. ASSUME NEW k \in Consumers, NEW c \in Commands, Receive(k, c) PROVE LedgerInv'
  <2>1. work'[k] = NewScope(c)
    BY <1>0, <1>2 DEF Receive, TypeOK
  <2>2. Knows(NewScope(c), stock, confirmed, saves)
    BY DEF Knows, NewScope
  <2> QED
    BY <1>a, <1>2, <2>1, <2>2, AloneLedger DEF Receive, answers
<1>3. ASSUME NEW k \in Consumers, CheckLine(k) PROVE LedgerInv'
  <2> DEFINE p == Basket[work[k].cmd][work[k].line].product
             q == Basket[work[k].cmd][work[k].line].quantity
             here == Quantity(k, p)
             take == IF here >= q THEN q ELSE 0
  <2>1. AtLine(k) /\ work[k].at = "checking" /\ p \in Products
        /\ UNCHANGED <<stock, saves, confirmed>>
    BY <1>3 DEF CheckLine, AtLine, Checking, answers
  <2>2. work' = [work EXCEPT ![k] =
             [at |-> "checking", cmd |-> work[k].cmd, line |-> work[k].line + 1,
              tracked |-> work[k].tracked \union {p},
              left |-> [work[k].left EXCEPT ![p] = here - take],
              taken |-> [work[k].taken EXCEPT ![p] = @ + take],
              short |-> (work[k].short \/ here < q), stored |-> FALSE]]
    BY <1>3 DEF CheckLine
  <2>3. /\ work'[k].at = "checking" /\ work'[k].cmd = work[k].cmd /\ ~work'[k].stored
        /\ work'[k].short => work[k].short \/ here < q
    <3> HIDE DEF p, q, here, take
    <3> QED
      BY <1>0, <2>2 DEF TypeOK
  <2>4. work[k].short => Lacks(work[k].cmd, stock)
    BY <1>b, <2>1 DEF Knows
  <2>5. ~work[k].short /\ here < q => Lacks(work[k].cmd, stock)
    BY <2>1, ShortLacks
  <2>6. Knows(work'[k], stock', confirmed', saves')
    BY <2>1, <2>3, <2>4, <2>5 DEF Knows
  <2> QED
    BY <1>a, <2>1, <2>6, AloneLedger
<1>4. ASSUME NEW k \in Consumers, MissingProduct(k) PROVE LedgerInv'
  BY <1>0, <1>a, <1>4, AloneLedger DEF MissingProduct, MoveToError, Free, TypeOK
<1>5. ASSUME NEW k \in Consumers, Save(k) PROVE LedgerInv'
  <2>1. /\ AllChecked(k) /\ ~work[k].short /\ Write(k) /\ UNCHANGED confirmed
        /\ work[k] \in Scope
    BY <1>0, <1>5, BusyHasScope DEF Save, AllChecked, Checking, answers
  <2>2. work'[k].at = "saved" /\ work'[k].cmd = work[k].cmd /\ work'[k].stored
    BY <1>0, <1>5, <2>1 DEF Save, TypeOK, Scope
  <2>3. Knows(work'[k], stock', confirmed', saves')
    BY <2>1, <2>2, WriteKeeps DEF Knows
  <2> QED
    BY <2>1, <2>3, WriteKeeps, AloneLedger
<1>6. ASSUME NEW k \in Consumers, PublishConfirmed(k) PROVE LedgerInv'
  <2>1. /\ work[k] \in Scope /\ work[k].cmd \in Commands
        /\ confirmed[work[k].cmd] < saves[work[k].cmd]
    BY <1>0, <1>b, <1>6, BusyHasScope DEF PublishConfirmed, Knows, Scope
  <2>2. \A c \in Commands : confirmed'[c] <= saves'[c]
    <3>1. /\ confirmed \in [Commands -> Nat] /\ saves \in [Commands -> Nat] /\ saves' = saves
          /\ confirmed' = Bump(confirmed, work[k].cmd)
      BY <1>0, <1>6 DEF PublishConfirmed, TypeOK
    <3>2. /\ confirmed'[work[k].cmd] = confirmed[work[k].cmd] + 1
          /\ \A d \in Commands : d # work[k].cmd => confirmed'[d] = confirmed[d]
      BY <2>1, <3>1, BumpGrows
    <3>3. ASSUME NEW c \in Commands PROVE confirmed'[c] <= saves'[c]
      <4>1. confirmed[c] \in Nat /\ saves[c] \in Nat
        BY <3>1
      <4> QED
        BY <1>a, <2>1, <3>1, <3>2, <4>1
    <3> QED
      BY <3>3
  <2>3. work'[k].at = "answered"
    BY <1>0, <1>6, <2>1 DEF PublishConfirmed, TypeOK, Scope
  <2> QED
    BY <2>2, <2>3, AloneLedger DEF Knows
<1>7. ASSUME NEW k \in Consumers, PublishFailed(k) PROVE LedgerInv'
  <2>1. work[k] \in Scope
    BY <1>0, <1>7, BusyHasScope DEF PublishFailed, AllChecked, Checking
  <2>2. work'[k].at = "answered"
    BY <1>0, <1>7, <2>1 DEF PublishFailed, TypeOK, Scope
  <2> QED
    BY <1>a, <1>7, <2>2, AloneLedger DEF PublishFailed, Knows
<1>8. ASSUME NEW k \in Consumers, Acknowledge(k) PROVE LedgerInv'
  BY <1>0, <1>a, <1>8, AloneLedger DEF Acknowledge, Free, TypeOK, answers
<1>9. ASSUME NEW k \in Consumers, SaveIsRetried(k) PROVE LedgerInv'
  <2>1. /\ AllChecked(k) /\ ~work[k].short /\ Write(k) /\ UNCHANGED confirmed
        /\ work[k] \in Scope /\ work[k].at = "checking"
    BY <1>0, <1>9, BusyHasScope DEF SaveIsRetried, AllChecked, Checking, answers
  <2>2. /\ work'[k].at = "checking" /\ work'[k].cmd = work[k].cmd /\ work'[k].stored
        /\ ~work'[k].short
    <3>1. work'[k] = [work[k] EXCEPT !.stored = TRUE]
      BY <1>0, <1>9 DEF SaveIsRetried, TypeOK
    <3> QED
      BY <2>1, <3>1 DEF Scope
  <2>3. Knows(work'[k], stock', confirmed', saves')
    BY <2>1, <2>2, WriteKeeps DEF Knows
  <2> QED
    BY <2>1, <2>3, WriteKeeps, AloneLedger
<1>10. ASSUME NEW k \in Consumers, SaveFails(k) PROVE LedgerInv'
  <2>1. /\ work'[k].at = "idle" /\ AllChecked(k) /\ ~work[k].short
        /\ UNCHANGED confirmed /\ (Write(k) \/ UNCHANGED <<stock, granted, saves>>)
    BY <1>0, <1>10 DEF SaveFails, MoveToError, Free, TypeOK
  <2>2. CASE Write(k)
    BY <2>1, <2>2, WriteKeeps, AloneLedger
  <2>3. CASE UNCHANGED <<stock, granted, saves>>
    BY <1>a, <2>1, <2>3, AloneLedger
  <2> QED
    BY <2>1, <2>2, <2>3
<1>11. ASSUME NEW k \in Consumers, PublishThrows(k) PROVE LedgerInv'
  <2>1. /\ work'[k].at = "idle" /\ work[k].at # "idle" /\ work[k].cmd \in Commands
        /\ saves' = saves
    BY <1>0, <1>11, BusyHasScope
    DEF PublishThrows, MoveToError, AllChecked, Checking, Free, TypeOK, Scope
  <2>2. CASE UNCHANGED confirmed
    BY <1>a, <2>1, <2>2, AloneLedger
  <2>3. CASE work[k].at = "saved" /\ confirmed' = Bump(confirmed, work[k].cmd)
    <3>1. confirmed[work[k].cmd] < saves[work[k].cmd]
      BY <1>b, <2>1, <2>3 DEF Knows
    <3>2. confirmed \in [Commands -> Nat] /\ saves \in [Commands -> Nat]
      BY <1>0 DEF TypeOK
    <3>3. /\ confirmed'[work[k].cmd] = confirmed[work[k].cmd] + 1
          /\ \A d \in Commands : d # work[k].cmd => confirmed'[d] = confirmed[d]
      BY <2>1, <2>3, <3>2, BumpGrows
    <3>4. ASSUME NEW c \in Commands PROVE confirmed'[c] <= saves'[c]
      <4>1. confirmed[c] \in Nat /\ saves[c] \in Nat
        BY <3>2
      <4> QED
        BY <1>a, <2>1, <3>1, <3>3, <4>1
    <3> QED
      BY <2>1, <3>4, AloneLedger
  <2> QED
    BY <1>11, <2>2, <2>3 DEF PublishThrows
<1>12. CASE Restart
  <2>1. \A k \in Consumers : work'[k].at = "idle"
    BY <1>12 DEF Restart, Free
  <2> QED
    BY <1>a, <1>12, <2>1 DEF Restart, LedgerInv, answers
<1>13. CASE UNCHANGED vars
  BY <1>13 DEF vars, answers, UndisturbedInv, LedgerInv
<1> QED
  BY <1>1, <1>2, <1>3, <1>4, <1>5, <1>6, <1>7, <1>8, <1>9, <1>10, <1>11, <1>12, <1>13
  DEF Next, ConsumerStep, Consume, Failure

\* Every step is a step of the ledger, or leaves what it shows unchanged.
LEMMA LedgerSimulates ==
  ASSUME Undisturbed
  PROVE  UndisturbedInv /\ [Next]_vars => [Ledger!Next]_(Ledger!vars)
<1> SUFFICES ASSUME UndisturbedInv, [Next]_vars
             PROVE  Ledger!Next \/ UNCHANGED <<stock, saves, confirmed, rejected>>
  BY DEF Ledger!vars
<1>0. TypeOK
  BY DEF UndisturbedInv, QInv
<1>b. \A k \in Consumers : work[k].at # "idle" =>
        Knows(work[k], stock, confirmed, saves) /\ work[k].cmd \in Commands
  BY <1>0, BusyHasScope DEF UndisturbedInv, LedgerInv, Scope
\* A save of k.
<1>c. ASSUME NEW k \in Consumers, AllChecked(k), ~work[k].short, Write(k),
             UNCHANGED <<confirmed, rejected>>
      PROVE  Ledger!Next \/ UNCHANGED <<stock, saves, confirmed, rejected>>
  <2>1. work[k].cmd \in Commands
    BY <1>b, <1>c DEF AllChecked, Checking
  <2>2. CASE work[k].stored
    BY <1>c, <2>2, WriteReserves
  <2>3. CASE ~work[k].stored
    <3>1. Ledger!Reserve(work[k].cmd)
      BY <1>c, <2>3, WriteReserves DEF Ledger!Reserve, Ledger!InStock, Bump
    <3> QED
      BY <2>1, <3>1 DEF Ledger!Next
  <2> QED
    BY <2>2, <2>3
\* A confirmation of k.
<1>d. ASSUME NEW k \in Consumers, work[k].at = "saved",
             confirmed' = Bump(confirmed, work[k].cmd), UNCHANGED <<stock, saves, rejected>>
      PROVE  Ledger!Next
  <2>1. confirmed[work[k].cmd] < saves[work[k].cmd] /\ work[k].cmd \in Commands
    BY <1>b, <1>d DEF Knows
  <2>2. Ledger!Confirm(work[k].cmd)
    BY <1>d, <2>1 DEF Ledger!Confirm, Bump
  <2> QED
    BY <2>1, <2>2 DEF Ledger!Next
\* A rejection of k.
<1>e. ASSUME NEW k \in Consumers, AllChecked(k), work[k].short,
             rejected' = Bump(rejected, work[k].cmd), UNCHANGED <<stock, saves, confirmed>>
      PROVE  Ledger!Next
  <2>1. Lacks(work[k].cmd, stock) /\ work[k].cmd \in Commands
    BY <1>b, <1>e DEF Knows, AllChecked, Checking
  <2>2. ~Ledger!InStock(work[k].cmd)
    <3>1. PICK p \in Products : Demand[work[k].cmd][p] > stock[p]
      BY <2>1 DEF Lacks
    <3>2. Demand[work[k].cmd][p] \in Nat /\ stock[p] \in Int
      BY <1>0, <2>1, DemandType DEF TypeOK
    <3> QED
      BY <3>1, <3>2 DEF Ledger!InStock
  <2>3. Ledger!Reject(work[k].cmd)
    BY <1>e, <2>2 DEF Ledger!Reject, Bump
  <2> QED
    BY <2>1, <2>3 DEF Ledger!Next
<1>1. ASSUME NEW c \in Commands, Send(c)
      PROVE  UNCHANGED <<stock, saves, confirmed, rejected>>
  BY <1>1 DEF Send, answers
<1>2. ASSUME NEW k \in Consumers, NEW c \in Commands, Receive(k, c)
      PROVE  UNCHANGED <<stock, saves, confirmed, rejected>>
  BY <1>2 DEF Receive, answers
<1>3. ASSUME NEW k \in Consumers, CheckLine(k) \/ MissingProduct(k) \/ Acknowledge(k)
      PROVE  UNCHANGED <<stock, saves, confirmed, rejected>>
  BY <1>3 DEF CheckLine, MissingProduct, Acknowledge, answers
<1>4. ASSUME NEW k \in Consumers, Save(k) \/ SaveIsRetried(k)
      PROVE  Ledger!Next \/ UNCHANGED <<stock, saves, confirmed, rejected>>
  BY <1>c, <1>4 DEF Save, SaveIsRetried, answers
<1>5. ASSUME NEW k \in Consumers, SaveFails(k)
      PROVE  Ledger!Next \/ UNCHANGED <<stock, saves, confirmed, rejected>>
  BY <1>c, <1>5 DEF SaveFails
<1>6. ASSUME NEW k \in Consumers, PublishConfirmed(k) PROVE Ledger!Next
  BY <1>d, <1>6 DEF PublishConfirmed
<1>7. ASSUME NEW k \in Consumers, PublishFailed(k) PROVE Ledger!Next
  BY <1>e, <1>7 DEF PublishFailed
<1>8. ASSUME NEW k \in Consumers, PublishThrows(k)
      PROVE  Ledger!Next \/ UNCHANGED <<stock, saves, confirmed, rejected>>
  <2>1. UNCHANGED <<stock, saves>>
    BY <1>8 DEF PublishThrows
  <2>2. CASE UNCHANGED <<confirmed, rejected>>
    BY <2>1, <2>2
  <2>3. CASE /\ work[k].at = "saved"
             /\ confirmed' = Bump(confirmed, work[k].cmd)
             /\ UNCHANGED rejected
    BY <1>d, <2>1, <2>3
  <2>4. CASE /\ Checking(k)
             /\ rejected' = Bump(rejected, work[k].cmd)
             /\ UNCHANGED confirmed
    <3>1. AllChecked(k) /\ work[k].short
      BY <1>8, <2>4 DEF PublishThrows, Checking
    <3> QED
      BY <1>e, <2>1, <2>4, <3>1
  <2> QED
    BY <1>8, <2>2, <2>3, <2>4 DEF PublishThrows
<1>9. CASE Restart
  BY <1>9 DEF Restart, Undisturbed, answers
<1>10. CASE UNCHANGED vars
  BY <1>10 DEF vars, answers
<1> QED
  BY <1>1, <1>2, <1>3, <1>4, <1>5, <1>6, <1>7, <1>8, <1>9, <1>10
  DEF Next, ConsumerStep, Consume, Failure

\* With one message at a time and no seeding restart every behaviour is one of
\* the ledger, for any baskets and any stock: line by line checks, saves that
\* fail or run twice, crashes and duplicates do not show in what is decided.
THEOREM StockRefinesLedger ==
  ASSUME Undisturbed PROVE Spec => ImplementsLedger
<1>1. Init => Ledger!Init
  BY DEF Init, Zero, Ledger!Init
<1>2. Init => UndisturbedInv
  <2>1. Init => LedgerInv
    <3> SUFFICES ASSUME Init PROVE LedgerInv
      OBVIOUS
    <3>1. \A k \in Consumers : work[k].at = "idle"
      BY DEF Init, Free
    <3> QED
      BY <3>1 DEF Init, Zero, LedgerInv
  <2> QED
    BY <2>1, QuantityInit, ConservedInit, GrantInit DEF UndisturbedInv
<1>3. UndisturbedInv /\ [Next]_vars => UndisturbedInv'
  BY QuantityStep, ConservedStep, GrantStep, LedgerStep DEF UndisturbedInv, QInv
<1>4. UndisturbedInv /\ [Next]_vars => [Ledger!Next]_(Ledger!vars)
  BY LedgerSimulates
<1> QED
  BY <1>1, <1>2, <1>3, <1>4, PTL DEF Spec, ImplementsLedger, Ledger!Spec
=============================================================================
