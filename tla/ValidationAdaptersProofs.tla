------------------------ MODULE ValidationAdaptersProofs ------------------------
(***************************************************************************)
(* Proofs about parseElement, for any inputs with any adapters and any     *)
(* attributes that the annotations of the server declare, with and without *)
(* additional-methods.js.                                                  *)
(*                                                                         *)
(* No limit is lost because an adapter that sets a rule anew is one that   *)
(* overrides, as the table of the adapters shows.  A value that is         *)
(* accepted meets these limits because the order in which check runs the   *)
(* rules names each of them once, the required rule first and the remote   *)
(* rule last.                                                              *)
(***************************************************************************)
EXTENDS ValidationAdapters, SequenceTheorems, TLAPS

-----------------------------------------------------------------------------
(* Orders of names                                                         *)

\* The keys of an object, in the order they were set: no name comes twice.
Keys(T) == {s \in Seq(T) : IsInjective(s)}

\* What a sequence of keys is.
LEMMA KeysAt ==
  ASSUME NEW T, NEW s \in Keys(T)
  PROVE  /\ s \in Seq(T) /\ Len(s) \in Nat /\ DOMAIN s = 1..Len(s)
         /\ \A i, j \in 1..Len(s) : s[i] = s[j] => i = j
BY DEF Keys, IsInjective

\* A new key at the end.
LEMMA AddKey ==
  ASSUME NEW T, NEW s \in Keys(T), NEW n \in T, n \notin ToSet(s)
  PROVE  s \o <<n>> \in Keys(T) /\ ToSet(s \o <<n>>) = ToSet(s) \union {n}
<1> DEFINE t == s \o <<n>>
           L == Len(s)
<1>0. /\ s \in Seq(T) /\ L \in Nat /\ DOMAIN s = 1..L
      /\ \A i, j \in 1..L : s[i] = s[j] => i = j
  BY KeysAt
<1> HIDE DEF L
<1>1. t \in Seq(T) /\ DOMAIN t = 1..(L + 1) /\ t[L + 1] = n
  BY <1>0 DEF L
<1>2. \A i \in 1..L : t[i] = s[i] /\ s[i] # n
  BY <1>0 DEF ToSet, L
<1> HIDE DEF t
<1>3. \A i \in 1..(L + 1) : i = L + 1 \/ i \in 1..L
  BY <1>0
<1>4. ASSUME NEW i \in 1..(L + 1), NEW j \in 1..(L + 1), t[i] = t[j] PROVE i = j
  BY <1>0, <1>1, <1>2, <1>3, <1>4
<1>5. IsInjective(t)
  BY <1>1, <1>4 DEF IsInjective
<1>6. ToSet(t) = ToSet(s) \union {n}
  <2>1. \A i \in 1..L : i \in 1..(L + 1)
    BY <1>0
  <2>2. L + 1 \in 1..(L + 1)
    BY <1>0
  <2>3. ASSUME NEW i \in 1..L PROVE s[i] \in ToSet(t)
    BY <1>1, <1>2, <2>1 DEF ToSet
  <2>4. n \in ToSet(t)
    BY <1>1, <2>2 DEF ToSet
  <2>5. ASSUME NEW i \in 1..(L + 1) PROVE t[i] \in ToSet(s) \union {n}
    BY <1>0, <1>1, <1>2, <1>3 DEF ToSet
  <2>6. \A x : x \in ToSet(t) <=> \E i \in 1..(L + 1) : x = t[i]
    BY <1>1 DEF ToSet
  <2>7. \A x : x \in ToSet(s) <=> \E i \in 1..L : x = s[i]
    BY <1>0 DEF ToSet
  <2> QED
    BY <2>3, <2>4, <2>5, <2>6, <2>7
<1> QED
  BY <1>1, <1>5, <1>6 DEF Keys, t

\* A new key in front.
LEMMA FirstKey ==
  ASSUME NEW T, NEW s \in Keys(T), NEW n \in T, n \notin ToSet(s)
  PROVE  /\ <<n>> \o s \in Keys(T) /\ ToSet(<<n>> \o s) = ToSet(s) \union {n}
         /\ (<<n>> \o s)[1] = n
<1> DEFINE t == <<n>> \o s
           L == Len(s)
<1>0. /\ s \in Seq(T) /\ L \in Nat /\ DOMAIN s = 1..L
      /\ \A i, j \in 1..L : s[i] = s[j] => i = j
  BY KeysAt
<1> HIDE DEF L
<1>1. t \in Seq(T) /\ DOMAIN t = 1..(L + 1) /\ t[1] = n
  <2>1. <<n>> \in Seq(T) /\ Len(<<n>>) = 1 /\ <<n>>[1] = n
    OBVIOUS
  <2> QED
    BY <1>0, <2>1 DEF L
<1>2. \A i \in 1..L : t[i + 1] = s[i] /\ s[i] # n
  <2>1. <<n>> \in Seq(T) /\ Len(<<n>>) = 1 /\ <<n>>[1] = n
    OBVIOUS
  <2>2. \A i \in 1..L : t[i + 1] = s[i]
    BY <1>0, <2>1 DEF L
  <2>3. \A i \in 1..L : s[i] # n
    BY <1>0 DEF ToSet
  <2> QED
    BY <2>2, <2>3
<1> HIDE DEF t
<1>3. \A i \in 1..(L + 1) : i = 1 \/ \E j \in 1..L : i = j + 1
  <2>1. ASSUME NEW i \in 1..(L + 1), i # 1 PROVE i - 1 \in 1..L /\ i = (i - 1) + 1
    BY <1>0, <2>1
  <2> QED
    BY <2>1
<1>4. ASSUME NEW i \in 1..(L + 1), NEW j \in 1..(L + 1), t[i] = t[j] PROVE i = j
  <2>1. CASE i = 1
    BY <1>1, <1>2, <1>3, <1>4, <2>1
  <2>2. CASE j = 1
    BY <1>1, <1>2, <1>3, <1>4, <2>2
  <2>3. CASE i # 1 /\ j # 1
    <3>1. PICK k, m \in 1..L : i = k + 1 /\ j = m + 1
      BY <1>3, <2>3
    <3> QED
      BY <1>0, <1>2, <1>4, <3>1
  <2> QED
    BY <2>1, <2>2, <2>3
<1>5. IsInjective(t)
  BY <1>1, <1>4 DEF IsInjective
<1>6. ToSet(t) = ToSet(s) \union {n}
  <2>1. \A i \in 1..L : i + 1 \in 1..(L + 1)
    BY <1>0
  <2>2. 1 \in 1..(L + 1)
    BY <1>0
  <2>3. \A x : x \in ToSet(s) => x \in ToSet(t)
    BY <1>0, <1>1, <1>2, <2>1 DEF ToSet
  <2>4. n \in ToSet(t)
    BY <1>1, <2>2 DEF ToSet
  <2>5. ASSUME NEW i \in 1..(L + 1) PROVE t[i] \in ToSet(s) \union {n}
    <3>1. CASE i = 1
      BY <1>1, <3>1
    <3>2. CASE i # 1
      <4>1. PICK j \in 1..L : i = j + 1
        BY <1>3, <3>2
      <4>2. t[i] = s[j] /\ s[j] \in ToSet(s)
        BY <1>0, <1>2, <4>1 DEF ToSet
      <4> QED
        BY <4>2
    <3> QED
      BY <3>1, <3>2
  <2>6. \A x : x \in ToSet(t) <=> \E i \in 1..(L + 1) : x = t[i]
    BY <1>1 DEF ToSet
  <2> QED
    BY <2>3, <2>4, <2>5, <2>6
<1> QED
  BY <1>1, <1>5, <1>6 DEF Keys, t

\* delete: the other keys stay, and the first one stays in front.
LEMMA DeleteKey ==
  ASSUME NEW T, NEW s \in Keys(T), NEW n \in ToSet(s)
  PROVE  /\ Without(s, n) \in Keys(T) /\ ToSet(Without(s, n)) = ToSet(s) \ {n}
         /\ s[1] # n => Without(s, n)[1] = s[1]
<1> DEFINE k == CHOOSE i \in DOMAIN s : s[i] = n
           L == Len(s)
           u == SubSeq(s, 1, k - 1)
           v == SubSeq(s, k + 1, L)
           t == u \o v
<1>0. /\ s \in Seq(T) /\ L \in Nat /\ DOMAIN s = 1..L
      /\ \A i, j \in 1..L : s[i] = s[j] => i = j
  BY KeysAt
<1>1. k \in 1..L /\ s[k] = n
  BY <1>0 DEF ToSet
<1>2. Without(s, n) = t
  BY DEF Without, RemoveAt
<1> HIDE DEF k
<1>3. u \in Seq(T) /\ Len(u) = k - 1 /\ \A i \in 1..(k - 1) : u[i] = s[i]
  BY <1>0, <1>1
<1>4. v \in Seq(T) /\ Len(v) = L - k /\ \A i \in 1..(L - k) : v[i] = s[k + i]
  <2>1. k + 1 \in 1..(L + 1) /\ L \in 0..L /\ L - (k + 1) + 1 = L - k
    BY <1>0, <1>1
  <2>2. /\ v \in Seq(T) /\ Len(v) = IF k + 1 <= L THEN L - (k + 1) + 1 ELSE 0
        /\ \A i \in 1..(L - (k + 1) + 1) : v[i] = s[(k + 1) + i - 1]
    BY <1>0, <2>1, SubSeqProperties
  <2>3. Len(v) = L - k
    <3> HIDE DEF L, v
    <3>1. CASE k + 1 <= L
      BY <1>0, <1>1, <2>2, <3>1
    <3>2. CASE ~(k + 1 <= L)
      <4>1. L - k = 0
        BY <1>0, <1>1, <3>2
      <4> QED
        BY <2>2, <3>2, <4>1
    <3> QED
      BY <3>1, <3>2
  <2>4. \A i \in 1..(L - k) : v[i] = s[k + i]
    BY <1>0, <1>1, <2>1, <2>2
  <2> QED
    BY <2>2, <2>3, <2>4
<1> HIDE DEF L, u, v
<1>5. t \in Seq(T) /\ DOMAIN t = 1..(L - 1)
  BY <1>0, <1>1, <1>3, <1>4
<1>6. /\ \A i \in 1..(L - 1) : i < k => t[i] = s[i] /\ i \in 1..L
      /\ \A i \in 1..(L - 1) : ~(i < k) => t[i] = s[i + 1] /\ i + 1 \in 1..L
  <2>1. ASSUME NEW i \in 1..(L - 1), i < k PROVE t[i] = s[i] /\ i \in 1..L
    <3>1. i \in 1..(k - 1) /\ i \in 1..L
      BY <1>0, <1>1, <2>1
    <3> QED
      BY <1>1, <1>3, <1>4, <3>1
  <2>2. ASSUME NEW i \in 1..(L - 1), ~(i < k) PROVE t[i] = s[i + 1] /\ i + 1 \in 1..L
    <3>1. i - (k - 1) \in 1..(L - k) /\ k + (i - (k - 1)) = i + 1 /\ i + 1 \in 1..L
      BY <1>0, <1>1, <2>2
    <3>2. t[i] = v[i - (k - 1)]
      BY <1>0, <1>1, <1>3, <1>4, <2>2
    <3> QED
      BY <1>4, <3>1, <3>2
  <2> QED
    BY <2>1, <2>2
<1> HIDE DEF t
<1>7. \A i \in 1..(L - 1) : \E j \in 1..L :
        j # k /\ t[i] = s[j] /\ ((j = i /\ i < k) \/ (j = i + 1 /\ i + 1 > k))
  <2>1. ASSUME NEW i \in 1..(L - 1), i < k
        PROVE  i \in 1..L /\ i # k /\ t[i] = s[i]
    BY <1>0, <1>1, <1>6, <2>1
  <2>2. ASSUME NEW i \in 1..(L - 1), ~(i < k)
        PROVE  i + 1 \in 1..L /\ i + 1 # k /\ t[i] = s[i + 1] /\ i + 1 > k
    BY <1>0, <1>1, <1>6, <2>2
  <2> QED
    BY <2>1, <2>2
<1>8. IsInjective(t)
  <2>1. ASSUME NEW i \in 1..(L - 1), NEW j \in 1..(L - 1), t[i] = t[j] PROVE i = j
    <3>1. PICK x \in 1..L : t[i] = s[x] /\ ((x = i /\ i < k) \/ (x = i + 1 /\ i + 1 > k))
      BY <1>7
    <3>2. PICK y \in 1..L : t[j] = s[y] /\ ((y = j /\ j < k) \/ (y = j + 1 /\ j + 1 > k))
      BY <1>7
    <3>3. x = y
      BY <1>0, <2>1, <3>1, <3>2
    <3> QED
      BY <1>0, <1>1, <3>1, <3>2, <3>3
  <2> QED
    BY <1>5, <2>1 DEF IsInjective
<1>9. \A x : x \in ToSet(t) => x \in ToSet(s) \ {n}
  <2>1. ASSUME NEW i \in 1..(L - 1) PROVE t[i] \in ToSet(s) \ {n}
    BY <1>0, <1>1, <1>7 DEF ToSet
  <2> QED
    BY <1>5, <2>1 DEF ToSet
<1>10. \A x : x \in ToSet(s) \ {n} => x \in ToSet(t)
  <2>1. ASSUME NEW j \in 1..L, s[j] # n PROVE s[j] \in ToSet(t)
    <3>1. j # k
      BY <1>1, <2>1
    <3>2. CASE j < k
      <4>1. j \in 1..(L - 1)
        BY <1>0, <1>1, <3>2
      <4> QED
        BY <1>5, <1>6, <3>2, <4>1 DEF ToSet
    <3>3. CASE j > k
      <4>1. j - 1 \in 1..(L - 1) /\ ~(j - 1 < k) /\ (j - 1) + 1 = j
        BY <1>0, <1>1, <3>3
      <4>2. t[j - 1] = s[j]
        BY <1>6, <4>1
      <4> QED
        BY <1>5, <4>1, <4>2 DEF ToSet
    <3> QED
      BY <1>0, <1>1, <3>1, <3>2, <3>3
  <2> QED
    BY <1>0, <2>1 DEF ToSet
<1>11. ToSet(t) = ToSet(s) \ {n}
  BY <1>9, <1>10
<1>12. s[1] # n => t[1] = s[1]
  <2>1. ASSUME s[1] # n PROVE 1 \in 1..(L - 1) /\ 1 < k
    BY <1>0, <1>1, <2>1
  <2> QED
    BY <1>6, <2>1
<1> QED
  BY <1>2, <1>5, <1>8, <1>11, <1>12 DEF Keys

\* rules() gives every rule once, the required rule first, the remote rule last.
LEMMA RulesRunOnce ==
  ASSUME NEW T, NEW s \in Keys(T)
  PROVE  /\ RunOrder(s) \in Keys(T) /\ ToSet(RunOrder(s)) = ToSet(s)
         /\ "required" \in ToSet(s) => RunOrder(s)[1] = "required"
         /\ "remote" \in ToSet(s) => RunOrder(s)[Len(RunOrder(s))] = "remote"
<1> DEFINE front == IF "required" \in ToSet(s)
                      THEN <<"required">> \o Without(s, "required") ELSE s
           t == Without(front, "remote")
<1>a. ToSet(s) \subseteq T
  BY KeysAt DEF ToSet
<1>1. /\ front \in Keys(T) /\ ToSet(front) = ToSet(s)
      /\ "required" \in ToSet(s) => front[1] = "required"
  <2>1. CASE "required" \in ToSet(s)
    <3>1. /\ Without(s, "required") \in Keys(T)
          /\ ToSet(Without(s, "required")) = ToSet(s) \ {"required"}
      BY <2>1, DeleteKey
    <3>2. "required" \in T /\ "required" \notin ToSet(Without(s, "required"))
      BY <1>a, <2>1, <3>1
    <3>3. /\ <<"required">> \o Without(s, "required") \in Keys(T)
          /\ ToSet(<<"required">> \o Without(s, "required")) = ToSet(s)
          /\ (<<"required">> \o Without(s, "required"))[1] = "required"
      BY <2>1, <3>1, <3>2, FirstKey
    <3> QED
      BY <2>1, <3>3
  <2>2. CASE "required" \notin ToSet(s)
    BY <2>2
  <2> QED
    BY <2>1, <2>2
<1>2. RunOrder(s) = IF "remote" \in ToSet(s) THEN Append(t, "remote") ELSE front
  BY DEF RunOrder
<1> HIDE DEF front
<1>3. CASE "remote" \notin ToSet(s)
  BY <1>1, <1>2, <1>3
<1>4. CASE "remote" \in ToSet(s)
  <2>1. /\ t \in Keys(T) /\ ToSet(t) = ToSet(s) \ {"remote"}
        /\ front[1] = "required" => t[1] = "required"
    BY <1>1, <1>4, DeleteKey
  <2> HIDE DEF t
  <2>2. "remote" \in T /\ "remote" \notin ToSet(t) /\ t \in Seq(T) /\ Len(t) \in Nat
    BY <1>a, <1>4, <2>1, KeysAt
  <2>3. Append(t, "remote") = t \o <<"remote">>
    BY <2>2, AppendIsConcat
  <2>4. /\ Append(t, "remote") \in Keys(T)
        /\ ToSet(Append(t, "remote")) = ToSet(s)
    <3>1. /\ t \o <<"remote">> \in Keys(T)
          /\ ToSet(t \o <<"remote">>) = ToSet(t) \union {"remote"}
      BY <2>1, <2>2, AddKey
    <3> QED
      BY <1>4, <2>1, <2>3, <3>1
  <2>5. /\ Len(Append(t, "remote")) = Len(t) + 1
        /\ Append(t, "remote")[Len(t) + 1] = "remote"
        /\ \A i \in 1..Len(t) : Append(t, "remote")[i] = t[i]
    BY <2>2
  <2>6. ASSUME "required" \in ToSet(s) PROVE Append(t, "remote")[1] = "required"
    <3>1. "required" \in ToSet(t)
      BY <2>1, <2>6
    <3>2. 1 \in 1..Len(t)
      BY <2>1, <2>2, <3>1, KeysAt DEF ToSet
    <3> QED
      BY <1>1, <2>1, <2>5, <2>6, <3>2
  <2> QED
    BY <1>2, <1>4, <2>4, <2>5, <2>6
<1> QED
  BY <1>3, <1>4

-----------------------------------------------------------------------------
(* Short sequences                                                         *)

LEMMA Single ==
  ASSUME NEW r
  PROVE  <<r>>[1] = r /\ DOMAIN <<r>> = {1}
<1>1. <<r>>[1] = r /\ DOMAIN <<r>> = 1..1
  OBVIOUS
<1> QED
  BY <1>1

LEMMA Pair ==
  ASSUME NEW x, NEW y
  PROVE  <<x>> \o <<y>> = <<x, y>>
<1> DEFINE S == {x, y}
           p == <<x>>
           q == <<y>>
           u == <<x, y>>
<1>1. p \in Seq(S) /\ q \in Seq(S) /\ Len(p) = 1 /\ Len(q) = 1 /\ p[1] = x /\ q[1] = y
  OBVIOUS
<1> HIDE DEF p, q, u, S
<1>2. p \o q \in Seq(S) /\ Len(p \o q) = 2 /\ (p \o q)[1] = x /\ (p \o q)[2] = y
  BY <1>1, ConcatProperties
<1>3. u \in Seq(S) /\ Len(u) = 2 /\ u[1] = x /\ u[2] = y
  BY DEF u, S
<1>4. \A i \in 1..2 : (p \o q)[i] = u[i]
  BY <1>2, <1>3
<1>5. p \o q = u
  BY <1>2, <1>3, <1>4, SeqEqual
<1> QED
  BY <1>5 DEF p, q, u

LEMMA Triple ==
  ASSUME NEW x, NEW y, NEW z
  PROVE  <<x, y>> \o <<z>> = <<x, y, z>>
<1> DEFINE S == {x, y, z}
           p == <<x, y>>
           q == <<z>>
           u == <<x, y, z>>
<1>1. p \in Seq(S) /\ q \in Seq(S) /\ Len(p) = 2 /\ Len(q) = 1 /\ p[1] = x /\ p[2] = y /\ q[1] = z
  OBVIOUS
<1> HIDE DEF p, q, u, S
<1>2. /\ p \o q \in Seq(S) /\ Len(p \o q) = 3
      /\ (p \o q)[1] = x /\ (p \o q)[2] = y /\ (p \o q)[3] = z
  BY <1>1, ConcatProperties
<1>3. u \in Seq(S) /\ Len(u) = 3 /\ u[1] = x /\ u[2] = y /\ u[3] = z
  BY DEF u, S
<1>4. \A i \in 1..3 : (p \o q)[i] = u[i]
  BY <1>2, <1>3
<1>5. p \o q = u
  BY <1>2, <1>3, <1>4, SeqEqual
<1> QED
  BY <1>5 DEF p, q, u

LEMMA Two ==
  ASSUME NEW x, NEW y
  PROVE  DOMAIN <<x, y>> = {1, 2} /\ <<x, y>>[1] = x /\ <<x, y>>[2] = y
<1>1. DOMAIN <<x, y>> = 1..2 /\ <<x, y>>[1] = x /\ <<x, y>>[2] = y
  OBVIOUS
<1> QED
  BY <1>1

LEMMA Three ==
  ASSUME NEW x, NEW y, NEW z
  PROVE  /\ DOMAIN <<x, y, z>> = {1, 2, 3}
         /\ <<x, y, z>>[1] = x /\ <<x, y, z>>[2] = y /\ <<x, y, z>>[3] = z
<1>1. /\ DOMAIN <<x, y, z>> = 1..3
      /\ <<x, y, z>>[1] = x /\ <<x, y, z>>[2] = y /\ <<x, y, z>>[3] = z
  OBVIOUS
<1> QED
  BY <1>1

-----------------------------------------------------------------------------
(* The table of the adapters                                               *)

\* The rules that adapter a may set.
RulesOf(a) == {a.ruleNames[n] : n \in DOMAIN a.ruleNames}

\* Every rule there is.
RuleNames ==
  {"accept", "extension", "regex", "creditcard", "date", "dateISO", "digits", "email", "number",
   "url", "minlength", "maxlength", "rangelength", "min", "max", "range", Undefined, "equalTo",
   "required", "remote", "nonalphamin", "__dummy__"}

\* Which adapter may set which rule, and when its turn comes: the adapters for
\* file types have the places -1 and 0, the others the places 1 to 16.
TypeSetters ==
  IF extension THEN {<<-1, "accept", "accept">>, <<0, "extension", "extension">>}
               ELSE {<<0, "extension", "accept">>}

OtherSetters ==
  {<<1, "regex", "regex">>, <<2, "creditcard", "creditcard">>, <<3, "date", "date">>,
   <<4, "digits", "digits">>, <<5, "email", "email">>, <<6, "number", "number">>,
   <<7, "url", "url">>,
   <<8, "length", "minlength">>, <<8, "length", "maxlength">>, <<8, "length", "rangelength">>,
   <<9, "range", "min">>, <<9, "range", "max">>, <<9, "range", "range">>,
   <<10, "minlength", "minlength">>, <<10, "minlength", Undefined>>,
   <<11, "maxlength", "minlength">>, <<11, "maxlength", "maxlength">>,
   <<11, "maxlength", Undefined>>,
   <<12, "equalto", "equalTo">>, <<13, "required", "required">>, <<14, "remote", "remote">>,
   <<15, "password", "minlength">>, <<15, "password", "nonalphamin">>,
   <<15, "password", "regex">>, <<16, "fileextensions", "extension">>}

Setters == TypeSetters \union OtherSetters

Place(i) == i - Len(TypeAdapters)

\* An adapter has a name for every rule that its kind sets.
Shaped(a) ==
  \/ a.kind \in {"bool", "single", "required", "remote"} /\ 1 \in DOMAIN a.ruleNames
  \/ a.kind = "minMax" /\ 1..3 \subseteq DOMAIN a.ruleNames
  \/ /\ a.kind = "each" /\ 1..3 \subseteq DOMAIN a.ruleNames
     /\ \A m, n \in 1..3 : a.ruleNames[m] = a.ruleNames[n] => m = n

\* What the three constructors of the library make.
LEMMA Shapes ==
  /\ \A n : /\ Bool(n).name = n /\ RulesOf(Bool(n)) = {n} /\ Shaped(Bool(n))
  /\ \A n, p, r : /\ SingleVal(n, p, r).name = n /\ RulesOf(SingleVal(n, p, r)) = {Or(r, n)}
                  /\ Shaped(SingleVal(n, p, r))
  /\ \A n, x, y, z : /\ MinMax(n, x, y, z, Undefined, Undefined).name = n
                     /\ RulesOf(MinMax(n, x, y, z, Undefined, Undefined)) = {x, y, z}
                     /\ Shaped(MinMax(n, x, y, z, Undefined, Undefined))
BY DEF Bool, SingleVal, MinMax, Adapter, RulesOf, Shaped

\* Adapters made by hand with one rule.
LEMMA OneRule ==
  ASSUME NEW a, NEW names, NEW r, a.ruleNames = names, names = <<r>>,
         a.kind \in {"single", "required", "remote"}
  PROVE  RulesOf(a) = {r} /\ Shaped(a)
<1>1. names[1] = r /\ DOMAIN names = {1}
  BY Single
<1>2. RulesOf(a) = {r}
  <2>1. RulesOf(a) = {names[n] : n \in DOMAIN names}
    BY DEF RulesOf
  <2> QED
    BY <1>1, <2>1
<1>3. Shaped(a)
  BY <1>1 DEF Shaped
<1> QED
  BY <1>2, <1>3

\* Adapter a has its place in the table.
Tabled(k, a) == Shaped(a) /\ \A r \in RulesOf(a) : <<k, a.name, r>> \in Setters

\* The adapters of either version have their place in the table.
LEMMA OtherTabled == \A k \in 1..16 : Tabled(k, OtherAdapters[k])
<1>1. Tabled(1, OtherAdapters[1])
  <2>1. OtherAdapters[1] = SingleVal("regex", "pattern", Undefined)
    BY DEF OtherAdapters
  <2> QED
    BY <2>1, Shapes DEF Tabled, Setters, OtherSetters, Or, Undefined
<1>2. Tabled(2, OtherAdapters[2])
  <2>1. OtherAdapters[2] = Bool("creditcard")
    BY DEF OtherAdapters
  <2> QED
    BY <2>1, Shapes DEF Tabled, Setters, OtherSetters, Or, Undefined
<1>3. Tabled(3, OtherAdapters[3])
  <2>1. OtherAdapters[3] = Bool("date")
    BY DEF OtherAdapters
  <2> QED
    BY <2>1, Shapes DEF Tabled, Setters, OtherSetters, Or, Undefined
<1>4. Tabled(4, OtherAdapters[4])
  <2>1. OtherAdapters[4] = Bool("digits")
    BY DEF OtherAdapters
  <2> QED
    BY <2>1, Shapes DEF Tabled, Setters, OtherSetters, Or, Undefined
<1>5. Tabled(5, OtherAdapters[5])
  <2>1. OtherAdapters[5] = Bool("email")
    BY DEF OtherAdapters
  <2> QED
    BY <2>1, Shapes DEF Tabled, Setters, OtherSetters, Or, Undefined
<1>6. Tabled(6, OtherAdapters[6])
  <2>1. OtherAdapters[6] = Bool("number")
    BY DEF OtherAdapters
  <2> QED
    BY <2>1, Shapes DEF Tabled, Setters, OtherSetters, Or, Undefined
<1>7. Tabled(7, OtherAdapters[7])
  <2>1. OtherAdapters[7] = Bool("url")
    BY DEF OtherAdapters
  <2> QED
    BY <2>1, Shapes DEF Tabled, Setters, OtherSetters, Or, Undefined
<1>8. Tabled(8, OtherAdapters[8])
  <2>1. OtherAdapters[8] =
          MinMax("length", "minlength", "maxlength", "rangelength", Undefined, Undefined)
    BY DEF OtherAdapters
  <2> QED
    BY <2>1, Shapes DEF Tabled, Setters, OtherSetters, Or, Undefined
<1>9. Tabled(9, OtherAdapters[9])
  <2>1. OtherAdapters[9] = MinMax("range", "min", "max", "range", Undefined, Undefined)
    BY DEF OtherAdapters
  <2> QED
    BY <2>1, Shapes DEF Tabled, Setters, OtherSetters, Or, Undefined
<1>10. Tabled(10, OtherAdapters[10])
  <2>1. OtherAdapters[10] =
          MinMax("minlength", "minlength", Undefined, Undefined, Undefined, Undefined)
    BY DEF OtherAdapters
  <2> QED
    BY <2>1, Shapes DEF Tabled, Setters, OtherSetters, Or, Undefined
<1>11. Tabled(11, OtherAdapters[11])
  <2>1. OtherAdapters[11] =
          MinMax("maxlength", "minlength", "maxlength", Undefined, Undefined, Undefined)
    BY DEF OtherAdapters
  <2> QED
    BY <2>1, Shapes DEF Tabled, Setters, OtherSetters, Or, Undefined
<1>12. Tabled(12, OtherAdapters[12])
  <2>1. PICK a :
          /\ a = OtherAdapters[12]
          /\ a = Adapter("equalto", "single", {"other"}, <<"other">>, <<"equalTo">>)
    BY DEF OtherAdapters
  <2>2. a.name = "equalto" /\ a.kind = "single" /\ a.ruleNames = <<"equalTo">>
    BY <2>1 DEF Adapter
  <2>3. RulesOf(a) = {"equalTo"} /\ Shaped(a)
    BY <2>2, OneRule
  <2>4. Tabled(12, a)
    BY <2>2, <2>3 DEF Tabled, Setters, OtherSetters
  <2> QED
    BY <2>1, <2>4
<1>13. Tabled(13, OtherAdapters[13])
  <2>1. PICK a :
          /\ a = OtherAdapters[13]
          /\ a = Adapter("required", "required", {}, <<>>, <<"required">>)
    BY DEF OtherAdapters
  <2>2. a.name = "required" /\ a.kind = "required" /\ a.ruleNames = <<"required">>
    BY <2>1 DEF Adapter
  <2>3. RulesOf(a) = {"required"} /\ Shaped(a)
    BY <2>2, OneRule
  <2>4. Tabled(13, a)
    BY <2>2, <2>3 DEF Tabled, Setters, OtherSetters
  <2> QED
    BY <2>1, <2>4
<1>14. Tabled(14, OtherAdapters[14])
  <2>1. PICK a :
          /\ a = OtherAdapters[14]
          /\ a = Adapter("remote", "remote", {"url", "type", "additionalfields"},
                         <<"url", "type", "additionalfields">>, <<"remote">>)
    BY DEF OtherAdapters
  <2>2. a.name = "remote" /\ a.kind = "remote" /\ a.ruleNames = <<"remote">>
    BY <2>1 DEF Adapter
  <2>3. RulesOf(a) = {"remote"} /\ Shaped(a)
    BY <2>2, OneRule
  <2>4. Tabled(14, a)
    BY <2>2, <2>3 DEF Tabled, Setters, OtherSetters
  <2> QED
    BY <2>1, <2>4
<1>15. Tabled(15, OtherAdapters[15])
  <2>1. OtherAdapters[15] = Adapter("password", "each", {"min", "nonalphamin", "regex"},
               <<"min", "nonalphamin", "regex">>, <<"minlength", "nonalphamin", "regex">>)
    BY DEF OtherAdapters
  <2> QED
    BY <2>1 DEF Tabled, Setters, OtherSetters, Adapter, Shaped, RulesOf
<1>16. Tabled(16, OtherAdapters[16])
  <2>1. PICK a :
          /\ a = OtherAdapters[16]
          /\ a = Adapter("fileextensions", "single", {"extensions"}, <<"extensions">>,
                         <<"extension">>)
    BY DEF OtherAdapters
  <2>2. a.name = "fileextensions" /\ a.kind = "single" /\ a.ruleNames = <<"extension">>
    BY <2>1 DEF Adapter
  <2>3. RulesOf(a) = {"extension"} /\ Shaped(a)
    BY <2>2, OneRule
  <2>4. Tabled(16, a)
    BY <2>2, <2>3 DEF Tabled, Setters, OtherSetters
  <2> QED
    BY <2>1, <2>4
<1> QED
  BY <1>1, <1>2, <1>3, <1>4, <1>5, <1>6, <1>7, <1>8, <1>9, <1>10, <1>11, <1>12, <1>13, <1>14,
     <1>15, <1>16

\* So have the adapters for file types.
LEMMA TypeTabled ==
  /\ Len(TypeAdapters) \in 1..2 /\ DOMAIN TypeAdapters = 1..Len(TypeAdapters)
  /\ \A i \in 1..Len(TypeAdapters) : Tabled(Place(i), TypeAdapters[i])
<1>1. CASE extension
  <2>1. /\ Len(TypeAdapters) = 2
        /\ TypeAdapters[1] = SingleVal("accept", "mimtype", Undefined)
        /\ TypeAdapters[2] = SingleVal("extension", "extension", Undefined)
    BY <1>1 DEF TypeAdapters
  <2>2. Tabled(-1, TypeAdapters[1]) /\ Tabled(0, TypeAdapters[2])
    BY <1>1, <2>1, Shapes DEF Tabled, Setters, TypeSetters, Or, Undefined
  <2>3. Place(1) = -1 /\ Place(2) = 0
    BY <2>1 DEF Place
  <2> QED
    BY <1>1, <2>1, <2>2, <2>3 DEF TypeAdapters
<1>2. CASE ~extension
  <2>1. /\ Len(TypeAdapters) = 1
        /\ TypeAdapters[1] = SingleVal("extension", "extension", "accept")
    BY <1>2 DEF TypeAdapters
  <2>2. Tabled(0, TypeAdapters[1])
    BY <1>2, <2>1, Shapes DEF Tabled, Setters, TypeSetters, Or, Undefined
  <2>3. Place(1) = 0
    BY <2>1 DEF Place
  <2> QED
    BY <1>2, <2>1, <2>2, <2>3 DEF TypeAdapters
<1> QED
  BY <1>1, <1>2

\* The adapters for file types come first.
LEMMA AdaptersAt ==
  /\ Len(Adapters) = Len(TypeAdapters) + 16 /\ Len(TypeAdapters) \in 1..2
  /\ DOMAIN Adapters = 1..Len(Adapters)
  /\ \A i \in 1..Len(TypeAdapters) : Adapters[i] = TypeAdapters[i]
  /\ \A k \in 1..16 : Adapters[Len(TypeAdapters) + k] = OtherAdapters[k]
<1>1. Len(OtherAdapters) = 16
  BY DEF OtherAdapters
<1>2. Len(TypeAdapters) \in 1..2
  BY TypeTabled
<1>3. OtherAdapters = [k \in 1..16 |-> OtherAdapters[k]]
  BY DEF OtherAdapters
<1>4. TypeAdapters = [k \in 1..Len(TypeAdapters) |-> TypeAdapters[k]]
  BY DEF TypeAdapters
<1> DEFINE O == OtherAdapters
           T == TypeAdapters
<1>5. \E D : O \in Seq(D) /\ T \in Seq(D)
  <2> DEFINE D == {O[k] : k \in 1..16} \union {T[k] : k \in 1..Len(T)}
  <2>1. O \in Seq(D)
    <3>1. \A k \in 1..16 : O[k] \in D
      OBVIOUS
    <3> HIDE DEF O, D
    <3> QED
      BY <1>3, <3>1 DEF O
  <2>2. T \in Seq(D)
    <3>1. \A k \in 1..Len(T) : T[k] \in D
      OBVIOUS
    <3> HIDE DEF T, D
    <3> QED
      BY <1>2, <1>4, <3>1 DEF T
  <2> QED
    BY <2>1, <2>2
<1> HIDE DEF O, T
<1>6. Len(O) = 16 /\ Len(T) \in 1..2 /\ Adapters = T \o O
  BY <1>1, <1>2 DEF O, T, Adapters
<1>7. /\ Len(Adapters) = Len(T) + 16 /\ DOMAIN Adapters = 1..Len(Adapters)
      /\ \A i \in 1..Len(T) : Adapters[i] = T[i]
      /\ \A k \in 1..16 : Adapters[Len(T) + k] = O[k]
  <2>1. PICK D : O \in Seq(D) /\ T \in Seq(D)
    BY <1>5
  <2>2. Len(T \o O) = Len(T) + Len(O) /\ DOMAIN (T \o O) = 1..Len(T \o O)
    BY <2>1, ConcatProperties
  <2>3. \A i \in 1..Len(T) : (T \o O)[i] = T[i]
    BY <1>6, <2>1
  <2>4. \A k \in 1..16 : (T \o O)[Len(T) + k] = O[k]
    <3>1. ASSUME NEW k \in 1..16 PROVE (T \o O)[Len(T) + k] = O[k]
      <4>1. /\ Len(T) + k \in 1..(Len(T) + Len(O)) /\ ~(Len(T) + k <= Len(T))
            /\ (Len(T) + k) - Len(T) = k
        BY <1>6
      <4> QED
        BY <2>1, <4>1, ConcatProperties
    <3> QED
      BY <3>1
  <2> QED
    BY <1>6, <2>2, <2>3, <2>4
<1> QED
  BY <1>2, <1>7 DEF O, T

\* Every adapter is where the table says.
LEMMA AllTabled ==
  \A i \in 1..Len(Adapters) : Tabled(Place(i), Adapters[i])
<1>0. Len(TypeAdapters) \in 1..2 /\ Len(Adapters) = Len(TypeAdapters) + 16
  BY AdaptersAt
<1>1. ASSUME NEW i \in 1..Len(Adapters) PROVE Tabled(Place(i), Adapters[i])
  <2>1. CASE i \in 1..Len(TypeAdapters)
    BY <2>1, AdaptersAt, TypeTabled
  <2>2. CASE i \notin 1..Len(TypeAdapters)
    <3>1. Place(i) \in 1..16 /\ i = Len(TypeAdapters) + Place(i)
      BY <1>0, <2>2 DEF Place
    <3> QED
      BY <3>1, AdaptersAt, OtherTabled
  <2> QED
    BY <2>1, <2>2
<1> QED
  BY <1>1

\* What one adapter sets is in RuleNames, and an adapter that comes later and
\* may set it too overrides it.
LEMMA RulesAreNamed ==
  ASSUME NEW i \in 1..Len(Adapters), NEW r \in RulesOf(Adapters[i])
  PROVE  r \in RuleNames \ {"__dummy__"}
<1>1. <<Place(i), Adapters[i].name, r>> \in Setters
  BY AllTabled DEF Tabled
<1>2. \A s \in Setters : s[3] \in RuleNames \ {"__dummy__"}
  BY DEF Setters, TypeSetters, OtherSetters, RuleNames, Undefined
<1> QED
  BY <1>1, <1>2

LEMMA LaterOverrides ==
  ASSUME NEW i \in 1..Len(Adapters), NEW j \in 1..Len(Adapters), i < j,
         NEW r, r \in RulesOf(Adapters[i]), r \in RulesOf(Adapters[j])
  PROVE  <<Adapters[j].name, Adapters[i].name>> \in Overrides
<1>1. /\ <<Place(i), Adapters[i].name, r>> \in Setters
      /\ <<Place(j), Adapters[j].name, r>> \in Setters
  BY AllTabled DEF Tabled
<1>2. Place(i) < Place(j)
  <2>1. Len(TypeAdapters) \in 1..2 /\ Len(Adapters) = Len(TypeAdapters) + 16
    BY AdaptersAt
  <2> QED
    BY <2>1 DEF Place
<1>3. \A s, t \in Setters : s[1] < t[1] /\ s[3] = t[3] => <<t[2], s[2]>> \in Overrides
  <2>1. ASSUME NEW s \in TypeSetters, NEW t \in TypeSetters, s[1] < t[1], s[3] = t[3]
        PROVE  FALSE
    BY <2>1 DEF TypeSetters
  <2>2. ASSUME NEW s \in TypeSetters, NEW t \in OtherSetters, s[3] = t[3]
        PROVE  <<t[2], s[2]>> \in Overrides
    BY <2>2 DEF TypeSetters, OtherSetters, Overrides, Undefined
  <2>3. ASSUME NEW s \in OtherSetters, NEW t \in TypeSetters, s[1] < t[1]
        PROVE  FALSE
    <3>1. s[1] \in 1..16
      BY DEF OtherSetters
    <3>2. t[1] \in {-1, 0}
      BY DEF TypeSetters
    <3> QED
      BY <2>3, <3>1, <3>2
  <2>4. ASSUME NEW s \in OtherSetters, NEW t \in OtherSetters, s[1] < t[1], s[3] = t[3]
        PROVE  <<t[2], s[2]>> \in Overrides
    BY <2>4 DEF OtherSetters, Overrides, Undefined
  <2> QED
    BY <2>1, <2>2, <2>3, <2>4 DEF Setters
<1> QED
  BY <1>1, <1>2, <1>3

-----------------------------------------------------------------------------
(* What one adapter sets                                                   *)

\* An attribute is in the value of one of the settings.
Hears(settings, attribute) ==
  \E k \in DOMAIN settings : attribute \in settings[k].value

\* There are at most three settings, each of another rule of R.
Proper(settings, R) ==
  /\ DOMAIN settings \subseteq 1..3
  /\ \A k \in DOMAIN settings : settings[k].rule \in R
  /\ \A k, m \in DOMAIN settings : settings[k].rule = settings[m].rule => k = m

\* Three settings in a row, of different rules: no value is lost.
LEMMA EachSets ==
  ASSUME NEW a, NEW u, NEW v, NEW w, 1..3 \subseteq DOMAIN a.ruleNames,
         \A m, n \in 1..3 : a.ruleNames[m] = a.ruleNames[n] => m = n
  PROVE  LET S == Setting(a, 1, u) \o Setting(a, 2, v) \o Setting(a, 3, w)
         IN /\ Proper(S, RulesOf(a))
            /\ \A attribute : attribute \in u \union v \union w => Hears(S, attribute)
<1> DEFINE x == [rule |-> a.ruleNames[1], value |-> u]
           y == [rule |-> a.ruleNames[2], value |-> v]
           z == [rule |-> a.ruleNames[3], value |-> w]
           p == Setting(a, 1, u)
           q == Setting(a, 2, v)
           r == Setting(a, 3, w)
           S == p \o q \o r
<1>1. /\ x.rule \in RulesOf(a) /\ y.rule \in RulesOf(a) /\ z.rule \in RulesOf(a)
      /\ x.rule # y.rule /\ x.rule # z.rule /\ y.rule # z.rule
      /\ x.value = u /\ y.value = v /\ z.value = w
  BY DEF RulesOf
<1>2. /\ p \in {<<>>, <<x>>} /\ q \in {<<>>, <<y>>} /\ r \in {<<>>, <<z>>}
      /\ u # {} => p = <<x>>
      /\ v # {} => q = <<y>>
      /\ w # {} => r = <<z>>
  BY DEF Setting
<1> HIDE DEF x, y, z, p, q, r
<1>3. /\ Proper(S, RulesOf(a))
      /\ p = <<x>> => \E k \in DOMAIN S : S[k] = x
      /\ q = <<y>> => \E k \in DOMAIN S : S[k] = y
      /\ r = <<z>> => \E k \in DOMAIN S : S[k] = z
  <2> DEFINE Good(s) == /\ Proper(s, RulesOf(a))
                        /\ p = <<x>> => \E k \in DOMAIN s : s[k] = x
                        /\ q = <<y>> => \E k \in DOMAIN s : s[k] = y
                        /\ r = <<z>> => \E k \in DOMAIN s : s[k] = z
  <2>0. <<x>> # <<>> /\ <<y>> # <<>> /\ <<z>> # <<>>
    OBVIOUS
  <2>1. CASE p = <<>> /\ q = <<>>
    <3>1. p \o q \o r = r
      BY <2>1
    <3>2. CASE r = <<>>
      <4>1. Good(r)
        BY <1>1, <2>0, <2>1, <3>2 DEF Proper
      <4> QED
        BY <3>1, <4>1
    <3>3. CASE r = <<z>>
      <4>1. DOMAIN r = {1} /\ r[1] = z
        BY <3>3, Single
      <4>2. Good(r)
        BY <1>1, <2>0, <2>1, <4>1 DEF Proper
      <4> QED
        BY <3>1, <4>2
    <3> QED
      BY <1>2, <3>2, <3>3
  <2>2. CASE p = <<x>> /\ q = <<>>
    <3>1. CASE r = <<>>
      <4>1. p \o q \o r = p
        BY <2>2, <3>1
      <4>2. DOMAIN p = {1} /\ p[1] = x
        BY <2>2, Single
      <4>3. Good(p)
        BY <1>1, <2>0, <2>2, <3>1, <4>2 DEF Proper
      <4> QED
        BY <4>1, <4>3
    <3>2. CASE r = <<z>>
      <4>1. PICK s : s = S /\ s = <<x, z>>
        <5>1. p \o q = <<x>>
          BY <2>2
        <5> QED
          BY <3>2, <5>1, Pair
      <4>2. DOMAIN s = {1, 2} /\ s[1] = x /\ s[2] = z
        BY <4>1, Two
      <4>3. Good(s)
        BY <1>1, <2>0, <2>2, <4>2 DEF Proper
      <4>4. s = S
        BY <4>1
      <4> HIDE DEF S
      <4> QED
        BY <4>3, <4>4
    <3> QED
      BY <1>2, <3>1, <3>2
  <2>3. CASE p = <<>> /\ q = <<y>>
    <3>1. CASE r = <<>>
      <4>1. p \o q \o r = q
        BY <2>3, <3>1
      <4>2. DOMAIN q = {1} /\ q[1] = y
        BY <2>3, Single
      <4>3. Good(q)
        BY <1>1, <2>0, <2>3, <3>1, <4>2 DEF Proper
      <4> QED
        BY <4>1, <4>3
    <3>2. CASE r = <<z>>
      <4>1. PICK s : s = S /\ s = <<y, z>>
        <5>1. p \o q = <<y>>
          BY <2>3
        <5> QED
          BY <3>2, <5>1, Pair
      <4>2. DOMAIN s = {1, 2} /\ s[1] = y /\ s[2] = z
        BY <4>1, Two
      <4>3. Good(s)
        BY <1>1, <2>0, <2>3, <4>2 DEF Proper
      <4>4. s = S
        BY <4>1
      <4> HIDE DEF S
      <4> QED
        BY <4>3, <4>4
    <3> QED
      BY <1>2, <3>1, <3>2
  <2>4. CASE p = <<x>> /\ q = <<y>>
    <3>1. p \o q = <<x, y>>
      BY <2>4, Pair
    <3>2. CASE r = <<>>
      <4>1. PICK s : s = S /\ s = <<x, y>>
        <5>1. <<x, y>> \o <<>> = <<x, y>>
          OBVIOUS
        <5> QED
          BY <3>1, <3>2, <5>1
      <4>2. DOMAIN s = {1, 2} /\ s[1] = x /\ s[2] = y
        BY <4>1, Two
      <4>3. Good(s)
        BY <1>1, <2>0, <3>2, <4>2 DEF Proper
      <4>4. s = S
        BY <4>1
      <4> HIDE DEF S
      <4> QED
        BY <4>3, <4>4
    <3>3. CASE r = <<z>>
      <4>1. PICK s : s = S /\ s = <<x, y, z>>
        BY <3>1, <3>3, Triple
      <4>2. DOMAIN s = {1, 2, 3} /\ s[1] = x /\ s[2] = y /\ s[3] = z
        BY <4>1, Three
      <4>3. Good(s)
        BY <1>1, <4>2 DEF Proper
      <4>4. s = S
        BY <4>1
      <4> HIDE DEF S
      <4> QED
        BY <4>3, <4>4
    <3> QED
      BY <1>2, <3>2, <3>3
  <2> QED
    BY <1>2, <2>1, <2>2, <2>3, <2>4
<1> HIDE DEF S
<1>4. \A attribute : attribute \in u \union v \union w => Hears(S, attribute)
  BY <1>1, <1>2, <1>3 DEF Hears
<1> QED
  BY <1>3, <1>4 DEF S, p, q, r

\* A single setting is proper, and its value is not lost.
LEMMA OneSets ==
  ASSUME NEW a, NEW n \in DOMAIN a.ruleNames, NEW v
  PROVE  LET S == <<[rule |-> a.ruleNames[n], value |-> v]>>
         IN /\ Proper(S, RulesOf(a))
            /\ \A attribute : attribute \in v => Hears(S, attribute)
<1> DEFINE x == [rule |-> a.ruleNames[n], value |-> v]
           S == <<x>>
<1>1. x.rule \in RulesOf(a) /\ x.value = v
  BY DEF RulesOf
<1> HIDE DEF x
<1>2. DOMAIN S = {1} /\ S[1] = x
  BY Single
<1> HIDE DEF S
<1>3. Proper(S, RulesOf(a)) /\ \A attribute : attribute \in v => Hears(S, attribute)
  BY <1>1, <1>2 DEF Proper, Hears
<1> QED
  BY <1>3 DEF S, x

\* No settings are proper.
LEMMA NoneSets ==
  ASSUME NEW R
  PROVE  Proper(<<>>, R)
BY DEF Proper

\* addMinMax sets one rule at most, with every limit that was given.
LEMMA MinMaxSetsOne ==
  ASSUME NEW a, NEW u, NEW v, 1..3 \subseteq DOMAIN a.ruleNames
  PROVE  /\ Proper(MinMaxSets(a, u, v), RulesOf(a))
         /\ \A attribute : attribute \in u \union v => Hears(MinMaxSets(a, u, v), attribute)
<1> DEFINE S == MinMaxSets(a, u, v)
           One(n, w) == <<[rule |-> a.ruleNames[n], value |-> w]>>
           Fine(s) == /\ Proper(s, RulesOf(a))
                      /\ \A attribute : attribute \in u \union v => Hears(s, attribute)
<1>0. 1 \in DOMAIN a.ruleNames /\ 2 \in DOMAIN a.ruleNames /\ 3 \in DOMAIN a.ruleNames
  OBVIOUS
<1>1. CASE u # {} /\ v # {}
  <2>1. S = One(3, u \union v)
    BY <1>1 DEF MinMaxSets, Setting
  <2>2. Fine(One(3, u \union v))
    BY <1>0, OneSets
  <2> QED
    BY <2>1, <2>2
<1>2. CASE u # {} /\ v = {}
  <2>1. S = One(1, u)
    BY <1>2 DEF MinMaxSets, Setting
  <2>2. Fine(One(1, u))
    BY <1>0, <1>2, OneSets
  <2> QED
    BY <2>1, <2>2
<1>3. CASE u = {} /\ v # {}
  <2>1. S = One(2, v)
    BY <1>3 DEF MinMaxSets, Setting
  <2>2. Fine(One(2, v))
    BY <1>0, <1>3, OneSets
  <2> QED
    BY <2>1, <2>2
<1>4. CASE u = {} /\ v = {}
  <2>1. S = <<>>
    BY <1>4 DEF MinMaxSets, Setting
  <2> QED
    BY <1>4, <2>1, NoneSets
<1> QED
  BY <1>1, <1>2, <1>3, <1>4

\* Whatever its kind, an adapter sets each of its rules once at most.
LEMMA AdaptIsProper ==
  ASSUME NEW a, NEW e, Shaped(a)
  PROVE  Proper(Adapt(a, e), RulesOf(a))
<1> DEFINE Read(i) == Given(a, e, {a.reads[i]})
           One(v) == <<[rule |-> a.ruleNames[1], value |-> v]>>
           P(s) == Proper(s, RulesOf(a))
<1>1. CASE /\ a.kind \in {"bool", "single", "required", "remote"}
           /\ 1 \in DOMAIN a.ruleNames
  <2>1. \A v : P(One(v))
    BY <1>1, OneSets
  <2>2. P(<<>>)
    BY NoneSets
  <2>3. Adapt(a, e) = <<>> \/ \E v : Adapt(a, e) = One(v)
    <3>1. CASE a.kind = "bool"
      BY <3>1 DEF Adapt
    <3>2. CASE a.kind = "single"
      BY <3>2 DEF Adapt
    <3>3. CASE a.kind = "required"
      BY <3>3 DEF Adapt
    <3>4. CASE a.kind = "remote"
      BY <3>4 DEF Adapt
    <3> QED
      BY <1>1, <3>1, <3>2, <3>3, <3>4
  <2> HIDE DEF One, P
  <2>4. P(Adapt(a, e))
    BY <2>1, <2>2, <2>3
  <2> QED
    BY <2>4 DEF P
<1>2. CASE a.kind = "minMax" /\ 1..3 \subseteq DOMAIN a.ruleNames
  <2>1. Adapt(a, e) = MinMaxSets(a, Read(1), Read(2))
    BY <1>2 DEF Adapt
  <2>2. P(MinMaxSets(a, Read(1), Read(2)))
    BY <1>2, MinMaxSetsOne
  <2> QED
    BY <2>1, <2>2
<1>3. CASE /\ a.kind = "each" /\ 1..3 \subseteq DOMAIN a.ruleNames
           /\ \A m, n \in 1..3 : a.ruleNames[m] = a.ruleNames[n] => m = n
  <2>1. Adapt(a, e) = Setting(a, 1, Read(1)) \o Setting(a, 2, Read(2)) \o Setting(a, 3, Read(3))
    BY <1>3 DEF Adapt
  <2>2. P(Setting(a, 1, Read(1)) \o Setting(a, 2, Read(2)) \o Setting(a, 3, Read(3)))
    BY <1>3, EachSets
  <2> QED
    BY <2>1, <2>2
<1> QED
  BY <1>1, <1>2, <1>3 DEF Shaped

-----------------------------------------------------------------------------
(* Who reads an attribute                                                  *)

\* Adapter a reads its parameter p, and extracts what it reads.
Readable(a, p) ==
  \E n \in 1..3 :
    /\ a.reads[n] = p /\ p \in a.params
    /\ \/ a.kind = "single" /\ n = 1 /\ 1 \in DOMAIN a.ruleNames
       \/ a.kind = "minMax" /\ n \in 1..2
       \/ a.kind = "each"

\* A limit that is given and read is in the value of a setting.
LEMMA ReadableIsHeard ==
  ASSUME NEW a, NEW e, NEW p, Shaped(a), Readable(a, p), <<a.name, p>> \in e.given
  PROVE  Hears(Adapt(a, e), <<a.name, p>>)
<1> DEFINE Read(i) == Given(a, e, {a.reads[i]})
           One(v) == <<[rule |-> a.ruleNames[1], value |-> v]>>
           attribute == <<a.name, p>>
<1>1. PICK n \in 1..3 :
        /\ a.reads[n] = p /\ p \in a.params
        /\ \/ a.kind = "single" /\ n = 1 /\ 1 \in DOMAIN a.ruleNames
           \/ a.kind = "minMax" /\ n \in 1..2
           \/ a.kind = "each"
  BY DEF Readable
<1>2. attribute \in Read(n)
  <2>1. p \in {a.reads[n]} \intersect a.params
    BY <1>1
  <2> QED
    BY <2>1 DEF Given
<1>3. CASE a.kind = "single" /\ n = 1 /\ 1 \in DOMAIN a.ruleNames
  <2>1. Adapt(a, e) = One(Read(1))
    BY <1>3 DEF Adapt
  <2> HIDE DEF Read, attribute
  <2>2. Hears(One(Read(1)), attribute)
    BY <1>2, <1>3, OneSets
  <2> QED
    BY <2>1, <2>2 DEF attribute
<1>4. CASE a.kind = "minMax" /\ n \in 1..2
  <2>1. Adapt(a, e) = MinMaxSets(a, Read(1), Read(2))
    BY <1>4 DEF Adapt
  <2>2. 1..3 \subseteq DOMAIN a.ruleNames
    BY <1>4 DEF Shaped
  <2> HIDE DEF Read, attribute
  <2>3. attribute \in Read(1) \union Read(2)
    <3>1. n = 1 \/ n = 2
      BY <1>4
    <3> QED
      BY <1>2, <3>1
  <2>4. Hears(MinMaxSets(a, Read(1), Read(2)), attribute)
    BY <2>2, <2>3, MinMaxSetsOne
  <2> QED
    BY <2>1, <2>4 DEF attribute
<1>5. CASE a.kind = "each"
  <2>1. Adapt(a, e) = Setting(a, 1, Read(1)) \o Setting(a, 2, Read(2)) \o Setting(a, 3, Read(3))
    BY <1>5 DEF Adapt
  <2>2. /\ 1..3 \subseteq DOMAIN a.ruleNames
        /\ \A i, j \in 1..3 : a.ruleNames[i] = a.ruleNames[j] => i = j
    BY <1>5 DEF Shaped
  <2> HIDE DEF Read, attribute
  <2>3. attribute \in Read(1) \union Read(2) \union Read(3)
    BY <1>2
  <2>4. Hears(Setting(a, 1, Read(1)) \o Setting(a, 2, Read(2)) \o Setting(a, 3, Read(3)),
              attribute)
    BY <2>2, <2>3, EachSets
  <2> QED
    BY <2>1, <2>4 DEF attribute
<1> QED
  BY <1>1, <1>3, <1>4, <1>5

\* The constructors read what they extract.
LEMMA SingleReads ==
  ASSUME NEW n, NEW p, NEW r, p # Undefined
  PROVE  Readable(SingleVal(n, p, r), p)
<1> DEFINE a == SingleVal(n, p, r)
<1>1. a.kind = "single" /\ a.params = {p} /\ a.reads = <<p>> /\ a.ruleNames = <<Or(r, n)>>
  BY DEF SingleVal, Adapter, Or
<1> HIDE DEF a
<1>2. a.reads[1] = p /\ p \in a.params /\ 1 \in DOMAIN a.ruleNames
  BY <1>1, Single
<1>3. Readable(a, p)
  BY <1>1, <1>2 DEF Readable
<1> QED
  BY <1>3 DEF a

LEMMA MinMaxReads ==
  ASSUME NEW n, NEW x, NEW y, NEW z
  PROVE  LET a == MinMax(n, x, y, z, Undefined, Undefined)
         IN Readable(a, "min") /\ Readable(a, "max")
<1> DEFINE a == MinMax(n, x, y, z, Undefined, Undefined)
<1>1. a.kind = "minMax" /\ a.params = {"min", "max"} /\ a.reads = <<"min", "max">>
  BY DEF MinMax, Adapter, Or
<1> HIDE DEF a
<1>2. a.reads[1] = "min" /\ a.reads[2] = "max"
  BY <1>1, Two
<1>3. Readable(a, "min") /\ Readable(a, "max")
  BY <1>1, <1>2 DEF Readable
<1> QED
  BY <1>3 DEF a

\* Every limit that an annotation can give has an adapter that reads it.
Reader(name, p) ==
  \E i \in 1..Len(Adapters) : Adapters[i].name = name /\ Readable(Adapters[i], p)

\* An adapter of either table is one of the adapters.
LEMMA OtherReads ==
  ASSUME NEW k \in 1..16, NEW a, a = OtherAdapters[k], NEW n, a.name = n, NEW p, Readable(a, p)
  PROVE  Reader(n, p)
<1>1. Len(TypeAdapters) \in 1..2 /\ Len(Adapters) = Len(TypeAdapters) + 16
  BY AdaptersAt
<1>2. Len(TypeAdapters) + k \in 1..Len(Adapters)
  BY <1>1
<1>3. Adapters[Len(TypeAdapters) + k] = OtherAdapters[k]
  BY AdaptersAt
<1> QED
  BY <1>2, <1>3 DEF Reader

LEMMA TypeReads ==
  ASSUME NEW k \in 1..Len(TypeAdapters), NEW p, Readable(TypeAdapters[k], p)
  PROVE  Reader(TypeAdapters[k].name, p)
<1>1. Len(TypeAdapters) \in 1..2 /\ Len(Adapters) = Len(TypeAdapters) + 16
  BY AdaptersAt
<1>2. k \in 1..Len(Adapters)
  BY <1>1
<1>3. Adapters[k] = TypeAdapters[k]
  BY AdaptersAt
<1> QED
  BY <1>2, <1>3 DEF Reader

\* Every limit that an annotation can give is read, unless it is none.
LEMMA EveryLimitIsRead ==
  ASSUME NEW attribute \in Declarable, attribute[1] # "remote",
         attribute[1] = "accept" => extension
  PROVE  Reader(attribute[1], attribute[2])
<1>1. Reader("regex", "pattern")
  <2>1. PICK k, a :
          /\ k \in 1..16 /\ k = 1 /\ a = OtherAdapters[k]
          /\ a = SingleVal("regex", "pattern", Undefined)
    BY DEF OtherAdapters
  <2>2. a.name = "regex" /\ Readable(a, "pattern")
    BY <2>1, Shapes, SingleReads DEF Undefined
  <2> QED
    BY <2>1, <2>2, OtherReads
<1>2. Reader("length", "min") /\ Reader("length", "max")
  <2>1. PICK k, a :
          /\ k \in 1..16 /\ k = 8 /\ a = OtherAdapters[k]
          /\ a = MinMax("length", "minlength", "maxlength", "rangelength", Undefined, Undefined)
    BY DEF OtherAdapters
  <2>2. a.name = "length" /\ Readable(a, "min") /\ Readable(a, "max")
    BY <2>1, Shapes, MinMaxReads
  <2> QED
    BY <2>1, <2>2, OtherReads
<1>3. Reader("range", "min") /\ Reader("range", "max")
  <2>1. PICK k, a :
          /\ k \in 1..16 /\ k = 9 /\ a = OtherAdapters[k]
          /\ a = MinMax("range", "min", "max", "range", Undefined, Undefined)
    BY DEF OtherAdapters
  <2>2. a.name = "range" /\ Readable(a, "min") /\ Readable(a, "max")
    BY <2>1, Shapes, MinMaxReads
  <2> QED
    BY <2>1, <2>2, OtherReads
<1>4. Reader("minlength", "min")
  <2>1. PICK k, a :
          /\ k \in 1..16 /\ k = 10 /\ a = OtherAdapters[k]
          /\ a = MinMax("minlength", "minlength", Undefined, Undefined, Undefined, Undefined)
    BY DEF OtherAdapters
  <2>2. a.name = "minlength" /\ Readable(a, "min")
    BY <2>1, Shapes, MinMaxReads
  <2> QED
    BY <2>1, <2>2, OtherReads
<1>5. Reader("maxlength", "max")
  <2>1. PICK k, a :
          /\ k \in 1..16 /\ k = 11 /\ a = OtherAdapters[k]
          /\ a = MinMax("maxlength", "minlength", "maxlength", Undefined, Undefined, Undefined)
    BY DEF OtherAdapters
  <2>2. a.name = "maxlength" /\ Readable(a, "max")
    BY <2>1, Shapes, MinMaxReads
  <2> QED
    BY <2>1, <2>2, OtherReads
<1>6. Reader("password", "min") /\ Reader("password", "nonalphamin") /\ Reader("password", "regex")
  <2>1. PICK k, a :
          /\ k \in 1..16 /\ k = 15 /\ a = OtherAdapters[k]
          /\ a = Adapter("password", "each", {"min", "nonalphamin", "regex"},
                         <<"min", "nonalphamin", "regex">>,
                         <<"minlength", "nonalphamin", "regex">>)
    BY DEF OtherAdapters
  <2>2. /\ a.name = "password" /\ a.kind = "each" /\ a.params = {"min", "nonalphamin", "regex"}
        /\ a.reads[1] = "min" /\ a.reads[2] = "nonalphamin" /\ a.reads[3] = "regex"
    BY <2>1 DEF Adapter
  <2>3. Readable(a, "min") /\ Readable(a, "nonalphamin") /\ Readable(a, "regex")
    BY <2>2 DEF Readable
  <2> QED
    BY <2>1, <2>2, <2>3, OtherReads
<1>7. Reader("fileextensions", "extensions")
  <2>1. PICK k, a :
          /\ k \in 1..16 /\ k = 16 /\ a = OtherAdapters[k]
          /\ a = Adapter("fileextensions", "single", {"extensions"}, <<"extensions">>,
                         <<"extension">>)
    BY DEF OtherAdapters
  <2>2. /\ a.name = "fileextensions" /\ a.kind = "single" /\ a.params = {"extensions"}
        /\ a.reads[1] = "extensions" /\ 1 \in DOMAIN a.ruleNames
    BY <2>1 DEF Adapter
  <2>3. Readable(a, "extensions")
    BY <2>2 DEF Readable
  <2> QED
    BY <2>1, <2>2, <2>3, OtherReads
<1>8. Reader("extension", "extension")
  <2>1. PICK k, r :
          k \in 1..Len(TypeAdapters) /\ TypeAdapters[k] = SingleVal("extension", "extension", r)
    BY DEF TypeAdapters
  <2>2. TypeAdapters[k].name = "extension" /\ Readable(TypeAdapters[k], "extension")
    BY <2>1, Shapes, SingleReads DEF Undefined
  <2> QED
    BY <2>1, <2>2, TypeReads
<1>9. Reader("equalto", "other")
  <2>1. PICK k, a :
          /\ k \in 1..16 /\ k = 12 /\ a = OtherAdapters[k]
          /\ a = Adapter("equalto", "single", {"other"}, <<"other">>, <<"equalTo">>)
    BY DEF OtherAdapters
  <2>2. /\ a.name = "equalto" /\ a.kind = "single" /\ a.params = {"other"}
        /\ a.reads[1] = "other" /\ 1 \in DOMAIN a.ruleNames
    BY <2>1 DEF Adapter
  <2>3. Readable(a, "other")
    BY <2>2 DEF Readable
  <2> QED
    BY <2>1, <2>2, <2>3, OtherReads
<1>10. CASE extension
  <2>1. Reader("accept", "mimtype")
    <3>1. 1 \in 1..Len(TypeAdapters) /\ TypeAdapters[1] = SingleVal("accept", "mimtype", Undefined)
      BY <1>10 DEF TypeAdapters
    <3>2. TypeAdapters[1].name = "accept" /\ Readable(TypeAdapters[1], "mimtype")
      BY <3>1, Shapes, SingleReads DEF Undefined
    <3> QED
      BY <3>1, <3>2, TypeReads
  <2> QED
    BY <1>1, <1>2, <1>3, <1>4, <1>5, <1>6, <1>7, <1>8, <1>9, <2>1 DEF Declarable
<1>11. CASE ~extension
  BY <1>1, <1>2, <1>3, <1>4, <1>5, <1>6, <1>7, <1>8, <1>9, <1>11 DEF Declarable
<1> QED
  BY <1>10, <1>11

\* Some adapter of that name sets every limit that is declared.
LEMMA EveryLimitIsHeard ==
  ASSUME element \in Elements, NEW attribute \in element.given, Limit(attribute)
  PROVE  \E i \in 1..Len(Adapters) : /\ Adapters[i].name = attribute[1]
                                     /\ Hears(Adapt(Adapters[i], element), attribute)
<1>1. /\ attribute \in Declarable /\ attribute[1] # "remote"
      /\ attribute[1] = "accept" => extension
  BY ElementsAssumption DEF Limit
<1>2. PICK i \in 1..Len(Adapters) :
        Adapters[i].name = attribute[1] /\ Readable(Adapters[i], attribute[2])
  BY <1>1, EveryLimitIsRead DEF Reader
<1>3. attribute = <<attribute[1], attribute[2]>>
  BY <1>1 DEF Declarable
<1>4. Shaped(Adapters[i])
  BY AllTabled DEF Tabled
<1>5. Hears(Adapt(Adapters[i], element), <<Adapters[i].name, attribute[2]>>)
  BY <1>2, <1>3, <1>4, ReadableIsHeard
<1> QED
  BY <1>2, <1>3, <1>5

-----------------------------------------------------------------------------
(* setValidationValues                                                     *)

\* setValidationValues keeps one name for every rule.
LEMMA SettingKeepsKeys ==
  ASSUME order \in Keys(RuleNames), ToSet(order) = DOMAIN rules,
         NEW a, NEW settings, Proper(settings, RuleNames), SetValidationValues(a, settings)
  PROVE  /\ order' \in Keys(RuleNames) /\ ToSet(order') = DOMAIN rules'
         /\ DOMAIN rules' = DOMAIN rules \union {settings[k].rule : k \in DOMAIN settings}
<1> DEFINE New(k) == IF k \in DOMAIN settings /\ settings[k].rule \notin DOMAIN rules
                       THEN <<settings[k].rule>> ELSE <<>>
           Names(n) == {settings[k].rule : k \in DOMAIN settings \intersect 1..n}
           Kept(s, n) == s \in Keys(RuleNames) /\ ToSet(s) = DOMAIN rules \union Names(n)
<1>1. order' = order \o New(1) \o New(2) \o New(3)
  BY DEF SetValidationValues
<1>2. DOMAIN rules' = DOMAIN rules \union {settings[k].rule : k \in DOMAIN settings}
  BY DEF SetValidationValues
<1>3. ASSUME NEW n \in 1..3, NEW s, Kept(s, n - 1) PROVE Kept(s \o New(n), n)
  <2>1. CASE n \in DOMAIN settings
    <3> DEFINE r == settings[n].rule
    <3>1. Names(n) = Names(n - 1) \union {r}
      BY <2>1
    <3>2. r \in RuleNames
      BY <2>1 DEF Proper
    <3>3. r \notin Names(n - 1)
      BY <2>1 DEF Proper
    <3> HIDE DEF r, Names
    <3>4. CASE r \notin DOMAIN rules
      <4>1. New(n) = <<r>>
        BY <2>1, <3>4 DEF r
      <4>2. s \in Keys(RuleNames) /\ r \notin ToSet(s)
        BY <1>3, <3>3, <3>4
      <4>3. s \o <<r>> \in Keys(RuleNames) /\ ToSet(s \o <<r>>) = ToSet(s) \union {r}
        BY <3>2, <4>2, AddKey
      <4> QED
        BY <1>3, <3>1, <4>1, <4>3
    <3>5. CASE r \in DOMAIN rules
      <4>1. New(n) = <<>>
        BY <3>5 DEF r
      <4>2. s \o <<>> = s
        BY <1>3, KeysAt, ConcatEmptySeq
      <4> QED
        BY <1>3, <3>1, <3>5, <4>1, <4>2
    <3> QED
      BY <3>4, <3>5
  <2>2. CASE n \notin DOMAIN settings
    <3>1. Names(n) = Names(n - 1)
      BY <2>2
    <3>2. New(n) = <<>>
      BY <2>2
    <3>3. s \o <<>> = s
      BY <1>3, KeysAt, ConcatEmptySeq
    <3> QED
      BY <1>3, <3>1, <3>2, <3>3
  <2> QED
    BY <2>1, <2>2
<1>4. Kept(order, 0)
  OBVIOUS
<1>5. Names(3) = {settings[k].rule : k \in DOMAIN settings}
  BY DEF Proper
<1> HIDE DEF New, Names, Kept
<1>6. Kept(order \o New(1), 1)
  BY <1>3, <1>4
<1>7. Kept(order \o New(1) \o New(2), 2)
  BY <1>3, <1>6
<1>8. Kept(order \o New(1) \o New(2) \o New(3), 3)
  BY <1>3, <1>7
<1> QED
  BY <1>1, <1>2, <1>5, <1>8 DEF Kept

\* setValidationValues gives every rule of its settings their value and, if
\* there is one, the adapter's message; it leaves the other rules alone.
LEMMA SettingSets ==
  ASSUME NEW R, NEW a, NEW settings, Proper(settings, R), SetValidationValues(a, settings)
  PROVE  /\ \A k \in DOMAIN settings :
              /\ settings[k].rule \in DOMAIN rules'
              /\ rules'[settings[k].rule] = settings[k].value
              /\ ~element.message[a.name] =>
                   /\ settings[k].rule \in DOMAIN messages'
                   /\ messages'[settings[k].rule] = a.name
         /\ \A r \in DOMAIN rules : (\A k \in DOMAIN settings : settings[k].rule # r) =>
              /\ r \in DOMAIN rules' /\ rules'[r] = rules[r]
              /\ r \in DOMAIN messages =>
                   r \in DOMAIN messages' /\ messages'[r] = messages[r]
<1> DEFINE names == {settings[k].rule : k \in DOMAIN settings}
           ValueOf(r) == (CHOOSE s \in ToSet(settings) : s.rule = r).value
<1>1. rules' = [r \in DOMAIN rules \union names |->
                  IF r \in names THEN ValueOf(r) ELSE rules[r]]
  BY DEF SetValidationValues
<1>2. messages' = IF element.message[a.name] THEN messages
                  ELSE [r \in DOMAIN messages \union names |->
                          IF r \in names THEN a.name ELSE messages[r]]
  BY DEF SetValidationValues
<1>3. ASSUME NEW k \in DOMAIN settings
      PROVE  ValueOf(settings[k].rule) = settings[k].value /\ settings[k].rule \in names
  <2> DEFINE s == CHOOSE x \in ToSet(settings) : x.rule = settings[k].rule
  <2>1. settings[k] \in ToSet(settings)
    BY DEF ToSet
  <2>2. s \in ToSet(settings) /\ s.rule = settings[k].rule
    BY <2>1
  <2> HIDE DEF s
  <2>3. PICK m \in DOMAIN settings : s = settings[m]
    BY <2>2 DEF ToSet
  <2>4. m = k
    BY <2>2, <2>3 DEF Proper
  <2> QED
    BY <2>3, <2>4 DEF s
<1> HIDE DEF ValueOf
<1>4. ASSUME NEW k \in DOMAIN settings
      PROVE  /\ settings[k].rule \in DOMAIN rules'
             /\ rules'[settings[k].rule] = settings[k].value
             /\ ~element.message[a.name] =>
                  /\ settings[k].rule \in DOMAIN messages'
                  /\ messages'[settings[k].rule] = a.name
  <2> HIDE DEF names
  <2> QED
    BY <1>1, <1>2, <1>3
<1>5. ASSUME NEW r \in DOMAIN rules, \A k \in DOMAIN settings : settings[k].rule # r
      PROVE  /\ r \in DOMAIN rules' /\ rules'[r] = rules[r]
             /\ r \in DOMAIN messages =>
                  r \in DOMAIN messages' /\ messages'[r] = messages[r]
  <2>1. r \notin names
    BY <1>5
  <2> HIDE DEF names
  <2> QED
    BY <1>1, <1>2, <2>1
<1> QED
  BY <1>4, <1>5

\* What parses is an input whose adapters are those of the table.
LEMMA SameAdapters ==
  ASSUME UNCHANGED extension
  PROVE  Adapters' = Adapters
BY DEF Adapters, TypeAdapters

\* Each adapter in the list sets its own rules, never __dummy__.
LEMMA AdapterAt ==
  ASSUME NEW i \in 1..Len(Adapters), NEW e
  PROVE  /\ Proper(Adapt(Adapters[i], e), RulesOf(Adapters[i]))
         /\ Proper(Adapt(Adapters[i], e), RuleNames)
         /\ \A k \in DOMAIN Adapt(Adapters[i], e) : Adapt(Adapters[i], e)[k].rule # "__dummy__"
<1> DEFINE S == Adapt(Adapters[i], e)
<1>1. Proper(S, RulesOf(Adapters[i]))
  BY AllTabled, AdaptIsProper DEF Tabled
<1> HIDE DEF S
<1>2. \A k \in DOMAIN S : S[k].rule \in RuleNames \ {"__dummy__"}
  BY <1>1, RulesAreNamed DEF Proper
<1>3. Proper(S, RuleNames) /\ \A k \in DOMAIN S : S[k].rule # "__dummy__"
  BY <1>1, <1>2 DEF Proper
<1> QED
  BY <1>1, <1>3 DEF S

-----------------------------------------------------------------------------
(* The inductive invariant                                                 *)

\* The order has the name of every rule once; __dummy__ comes with the end.
OrderInv ==
  /\ element \in Elements
  /\ next \in 1..(Len(Adapters) + 2)
  /\ order \in Keys(RuleNames)
  /\ ToSet(order) = DOMAIN rules
  /\ next < Len(Adapters) + 2 => "__dummy__" \notin DOMAIN rules

\* The attribute is in the value of the rule that adapter a made of it.
StillHeard(a, attribute) ==
  \E r \in DOMAIN rules \intersect RulesOf(a) :
    /\ attribute \in rules[r]
    /\ \E s \in ToSet(Adapt(a, element)) : attribute \in s.value /\ s.rule = r
    /\ ~element.message[a.name] => r \in DOMAIN messages /\ messages[r] = a.name

\* The adapters that came already are still heard, unless one of the table sets
\* their rule anew.
LimitInv ==
  \A i \in 1..Len(Adapters) : i < next /\ Finds(Adapters[i]) =>
    \A attribute \in element.given : Hears(Adapt(Adapters[i], element), attribute) =>
      SetAnew(attribute) \/ StillHeard(Adapters[i], attribute)

\* How far a check is, and how it ended; an empty value gets no further than
\* the required rule.
CheckInv ==
  /\ value = "none" => outcome = "none" /\ run = 0
  /\ value # "none" => Parsed
  /\ run \in 0..Len(RunOrder(order))
  /\ outcome = "accepted" => run = Len(RunOrder(order))
  /\ outcome = "asked" => run < Len(RunOrder(order)) /\ Turn = "remote"
  /\ value = "empty" /\ "required" \in DOMAIN rules =>
       run = 0 /\ Turn = "required" /\ outcome \in {"none", "refused"}

IInv == OrderInv /\ LimitInv /\ CheckInv

\* A step of the check leaves alone what was parsed.
CheckStep == BeginCheck \/ RuleAccepts \/ RuleRefuses \/ RemoteAsks \/ MethodIsMissing \/ EndCheck

LEMMA NextSplits == Next <=> AdapterSets \/ AdapterSkips \/ AddDummy \/ CheckStep
BY DEF Next, CheckStep

LEMMA CheckKeepsParsed ==
  ASSUME CheckStep
  PROVE  /\ extension' = extension /\ element' = element /\ next' = next
         /\ order' = order /\ rules' = rules /\ messages' = messages
BY DEF CheckStep, BeginCheck, RuleAccepts, RuleRefuses, RemoteAsks, MethodIsMissing, EndCheck,
       End, parsing

\* The order of the rules, at the start and through every step.
LEMMA OrderStart == Init => OrderInv
<1> SUFFICES ASSUME Init PROVE OrderInv
  OBVIOUS
<1>1. Len(Adapters) \in Nat
  BY AdaptersAt
<1>2. element \in Elements /\ order = element.tag /\ DOMAIN rules = ToSet(element.tag)
  BY DEF Init
<1>3. order \in Seq(TagRules) /\ IsInjective(order)
  BY <1>2, ElementsAssumption
<1>4. TagRules \subseteq RuleNames \ {"__dummy__"}
  BY DEF TagRules, RuleNames
<1>5. order \in Seq(RuleNames) /\ ToSet(order) \subseteq TagRules
  BY <1>3, <1>4 DEF ToSet
<1>6. order \in Keys(RuleNames) /\ "__dummy__" \notin ToSet(order)
  BY <1>3, <1>4, <1>5 DEF Keys
<1> QED
  BY <1>1, <1>2, <1>6 DEF Init, OrderInv

LEMMA OrderStep == OrderInv /\ [Next]_vars => OrderInv'
<1> SUFFICES ASSUME OrderInv, [Next]_vars PROVE OrderInv'
  OBVIOUS
<1>0. Len(Adapters) \in Nat
  BY AdaptersAt
<1>1. CASE AdapterSets
  <2>1. next \in 1..Len(Adapters)
    BY <1>0, <1>1 DEF OrderInv, AdapterSets
  <2> DEFINE a == Adapters[next]
             settings == Adapt(a, element)
  <2>2. SetValidationValues(a, settings)
    BY <1>1 DEF AdapterSets
  <2>3. /\ Proper(settings, RuleNames)
        /\ \A k \in DOMAIN settings : settings[k].rule # "__dummy__"
    BY <2>1, AdapterAt
  <2>4. /\ order' \in Keys(RuleNames) /\ ToSet(order') = DOMAIN rules'
        /\ DOMAIN rules' = DOMAIN rules \union {settings[k].rule : k \in DOMAIN settings}
    <3>1. order \in Keys(RuleNames) /\ ToSet(order) = DOMAIN rules
      BY DEF OrderInv
    <3> HIDE DEF a, settings
    <3> QED
      BY <2>2, <2>3, <3>1, SettingKeepsKeys
  <2>5. "__dummy__" \notin DOMAIN rules'
    BY <1>0, <2>1, <2>3, <2>4 DEF OrderInv
  <2>6. Adapters' = Adapters /\ element' = element /\ next' = next + 1
    BY <1>1, SameAdapters DEF AdapterSets
  <2> QED
    BY <1>0, <2>1, <2>4, <2>5, <2>6 DEF OrderInv
<1>2. CASE AdapterSkips
  <2>1. Adapters' = Adapters
    BY <1>2, SameAdapters DEF AdapterSkips
  <2> QED
    BY <1>0, <1>2, <2>1 DEF AdapterSkips, OrderInv
<1>3. CASE AddDummy
  <2>1. Adapters' = Adapters
    BY <1>3, SameAdapters DEF AddDummy
  <2>2. "__dummy__" \notin ToSet(order) /\ "__dummy__" \in RuleNames /\ order \in Keys(RuleNames)
    BY <1>0, <1>3 DEF OrderInv, AddDummy, RuleNames
  <2>3. /\ order \o <<"__dummy__">> \in Keys(RuleNames)
        /\ ToSet(order \o <<"__dummy__">>) = ToSet(order) \union {"__dummy__"}
    BY <2>2, AddKey
  <2>4. order' = order \o <<"__dummy__">>
    BY <1>3, <2>2, KeysAt, AppendIsConcat DEF AddDummy
  <2>5. DOMAIN rules' = DOMAIN rules \union {"__dummy__"}
    BY <1>3 DEF AddDummy
  <2>6. order' \in Keys(RuleNames) /\ ToSet(order') = DOMAIN rules'
    BY <2>3, <2>4, <2>5 DEF OrderInv
  <2>7. element' = element /\ next' = Len(Adapters) + 2
    BY <1>0, <1>3 DEF AddDummy
  <2> QED
    BY <1>0, <2>1, <2>6, <2>7 DEF OrderInv
<1>4. CASE CheckStep
  BY <1>4, CheckKeepsParsed, SameAdapters DEF OrderInv
<1>5. CASE UNCHANGED vars
  <2>1. Adapters' = Adapters
    BY <1>5, SameAdapters DEF vars, parsing
  <2> QED
    BY <1>5, <2>1 DEF vars, parsing, OrderInv
<1> QED
  BY <1>1, <1>2, <1>3, <1>4, <1>5, NextSplits

\* The limits, at the start and through every step.
LEMMA LimitStart == Init => LimitInv
BY AdaptersAt DEF Init, LimitInv

LEMMA LimitStep == OrderInv /\ LimitInv /\ [Next]_vars => LimitInv'
<1> SUFFICES ASSUME OrderInv, LimitInv, [Next]_vars PROVE LimitInv'
  OBVIOUS
<1>0. Len(Adapters) \in Nat /\ next \in Nat
  BY AdaptersAt DEF OrderInv
<1>1. CASE AdapterSets
  <2> DEFINE a == Adapters[next]
             settings == Adapt(a, element)
             Still(x, attribute) ==
               \E r \in DOMAIN rules' \intersect RulesOf(x) :
                 /\ attribute \in rules'[r]
                 /\ \E s \in ToSet(Adapt(x, element)) : attribute \in s.value /\ s.rule = r
                 /\ ~element.message[x.name] => r \in DOMAIN messages' /\ messages'[r] = x.name
  <2>1. next \in 1..Len(Adapters)
    BY <1>0, <1>1 DEF OrderInv, AdapterSets
  <2>2. SetValidationValues(a, settings) /\ Finds(a)
    BY <1>1 DEF AdapterSets
  <2>3. Proper(settings, RulesOf(a))
    BY <2>1, AdapterAt
  <2>s. settings = Adapt(Adapters[next], element)
    OBVIOUS
  <2> HIDE DEF settings
  <2>4. /\ \A k \in DOMAIN settings :
             /\ settings[k].rule \in DOMAIN rules'
             /\ rules'[settings[k].rule] = settings[k].value
             /\ ~element.message[a.name] =>
                  /\ settings[k].rule \in DOMAIN messages'
                  /\ messages'[settings[k].rule] = a.name
        /\ \A r \in DOMAIN rules : (\A k \in DOMAIN settings : settings[k].rule # r) =>
             /\ r \in DOMAIN rules' /\ rules'[r] = rules[r]
             /\ r \in DOMAIN messages =>
                  r \in DOMAIN messages' /\ messages'[r] = messages[r]
    BY <2>2, <2>3, SettingSets
  <2>5. ASSUME NEW i \in 1..Len(Adapters), i < next + 1, Finds(Adapters[i]),
               NEW attribute \in element.given, Hears(Adapt(Adapters[i], element), attribute)
        PROVE  SetAnew(attribute) \/ Still(Adapters[i], attribute)
    <3>1. CASE i = next
      <4>1. PICK k \in DOMAIN settings : attribute \in settings[k].value
        BY <2>5, <3>1 DEF Hears, settings
      <4>2. settings[k].rule \in RulesOf(a)
        BY <2>3 DEF Proper
      <4>3. settings[k] \in ToSet(Adapt(a, element))
        BY <2>s DEF ToSet
      <4>4. Still(a, attribute)
        BY <2>4, <4>1, <4>2, <4>3
      <4> QED
        BY <3>1, <4>4
    <3>2. CASE i < next
      <4>1. CASE SetAnew(attribute)
        BY <4>1
      <4>2. CASE StillHeard(Adapters[i], attribute)
        <5>1. PICK r \in DOMAIN rules \intersect RulesOf(Adapters[i]) :
                /\ attribute \in rules[r]
                /\ \E s \in ToSet(Adapt(Adapters[i], element)) :
                     attribute \in s.value /\ s.rule = r
                /\ ~element.message[Adapters[i].name] =>
                     r \in DOMAIN messages /\ messages[r] = Adapters[i].name
          BY <4>2 DEF StillHeard
        <5>2. CASE \E k \in DOMAIN settings : settings[k].rule = r
          <6>1. r \in RulesOf(a)
            BY <2>3, <5>2 DEF Proper
          <6>2. <<a.name, Adapters[i].name>> \in Overrides
            BY <2>1, <3>2, <5>1, <6>1, LaterOverrides
          <6>3. i \in Finding /\ next \in Finding
            BY <2>1, <2>2, <2>5, AdaptersAt DEF Finding
          <6>4. \E t \in ToSet(Adapt(a, element)) : t.rule = r
            BY <2>s, <5>2 DEF ToSet
          <6>5. SetAnew(attribute)
            BY <5>1, <6>2, <6>3, <6>4 DEF SetAnew
          <6> QED
            BY <6>5
        <5>3. CASE \A k \in DOMAIN settings : settings[k].rule # r
          <6>1. /\ r \in DOMAIN rules' /\ rules'[r] = rules[r]
                /\ r \in DOMAIN messages => r \in DOMAIN messages' /\ messages'[r] = messages[r]
            BY <2>4, <5>1, <5>3
          <6>2. Still(Adapters[i], attribute)
            BY <5>1, <6>1
          <6> QED
            BY <6>2
        <5> QED
          BY <5>2, <5>3
      <4> QED
        BY <2>5, <3>2, <4>1, <4>2 DEF LimitInv
    <3> QED
      BY <1>0, <2>5, <3>1, <3>2
  <2>6. Adapters' = Adapters /\ element' = element /\ next' = next + 1
    BY <1>1, SameAdapters DEF AdapterSets
  <2> QED
    BY <2>5, <2>6 DEF LimitInv, SetAnew, Finding, StillHeard, Finds
<1>2. CASE AdapterSkips
  <2>1. Adapters' = Adapters /\ next \in 1..Len(Adapters) /\ ~Finds(Adapters[next])
    BY <1>0, <1>2, SameAdapters DEF AdapterSkips, OrderInv
  <2>2. \A i \in 1..Len(Adapters) : i < next' /\ Finds(Adapters[i]) => i < next
    BY <1>0, <1>2, <2>1 DEF AdapterSkips
  <2> QED
    BY <1>2, <2>1, <2>2 DEF AdapterSkips, LimitInv, SetAnew, Finding, StillHeard, Finds
<1>3. CASE AddDummy
  <2>1. Adapters' = Adapters /\ next = Len(Adapters) + 1
    BY <1>3, SameAdapters DEF AddDummy
  <2>2. \A i \in 1..Len(Adapters) : i < next
    BY <1>0, <2>1
  <2>3. ASSUME NEW i \in 1..Len(Adapters), NEW r \in DOMAIN rules \intersect RulesOf(Adapters[i])
        PROVE  r \in DOMAIN rules' /\ rules'[r] = rules[r]
    <3>1. r # "__dummy__"
      BY RulesAreNamed
    <3> QED
      BY <1>3, <3>1 DEF AddDummy
  <2> QED
    BY <1>3, <2>1, <2>2, <2>3 DEF AddDummy, LimitInv, SetAnew, Finding, StillHeard, Finds
<1>4. CASE CheckStep
  <2>1. Adapters' = Adapters
    BY <1>4, CheckKeepsParsed, SameAdapters
  <2> QED
    BY <1>4, <2>1, CheckKeepsParsed DEF LimitInv, SetAnew, Finding, StillHeard, Finds
<1>5. CASE UNCHANGED vars
  <2>1. Adapters' = Adapters
    BY <1>5, SameAdapters DEF vars, parsing
  <2> QED
    BY <1>5, <2>1 DEF vars, parsing, LimitInv, SetAnew, Finding, StillHeard, Finds
<1> QED
  BY <1>1, <1>2, <1>3, <1>4, <1>5, NextSplits

\* The check, at the start and through every step.
LEMMA CheckStart == Init => CheckInv
<1> SUFFICES ASSUME Init PROVE CheckInv
  OBVIOUS
<1>1. order \in Keys(RuleNames)
  BY OrderStart DEF OrderInv
<1>2. Len(RunOrder(order)) \in Nat
  BY <1>1, RulesRunOnce, KeysAt
<1> QED
  BY <1>2 DEF Init, CheckInv

\* The rules have a first one, which is required if that is among them.
LEMMA RequiredRunsFirst ==
  ASSUME OrderInv
  PROVE  /\ Len(RunOrder(order)) \in Nat
         /\ "required" \in DOMAIN rules =>
              Len(RunOrder(order)) > 0 /\ RunOrder(order)[1] = "required"
<1> DEFINE s == RunOrder(order)
<1>1. /\ s \in Keys(RuleNames) /\ ToSet(s) = DOMAIN rules
      /\ "required" \in DOMAIN rules => s[1] = "required"
  BY RulesRunOnce DEF OrderInv
<1> HIDE DEF s
<1>2. Len(s) \in Nat /\ DOMAIN s = 1..Len(s)
  BY <1>1, KeysAt
<1>3. ASSUME "required" \in DOMAIN rules PROVE Len(s) > 0
  BY <1>1, <1>2, <1>3 DEF ToSet
<1> QED
  BY <1>1, <1>2, <1>3 DEF s

LEMMA CheckKeeps == OrderInv /\ CheckInv /\ [Next]_vars => CheckInv'
<1> SUFFICES ASSUME OrderInv, CheckInv, [Next]_vars PROVE CheckInv'
  OBVIOUS
<1> DEFINE s == RunOrder(order)
<1>0. /\ Len(s) \in Nat /\ run \in Nat
      /\ "required" \in DOMAIN rules => Len(s) > 0 /\ s[1] = "required"
  BY RequiredRunsFirst DEF CheckInv
<1> HIDE DEF s
<1>1. CASE AdapterSets \/ AdapterSkips \/ AddDummy
  <2>1. value' = value /\ run' = run /\ outcome' = outcome
    BY <1>1 DEF AdapterSets, AdapterSkips, AddDummy, checking
  <2>2. ~Parsed
    <3>1. Len(Adapters) \in Nat
      BY AdaptersAt
    <3> QED
      BY <1>1, <3>1 DEF AdapterSets, AdapterSkips, AddDummy, Parsed
  <2>3. value = "none" /\ outcome = "none" /\ run = 0
    BY <2>2 DEF CheckInv
  <2>4. OrderInv'
    BY OrderStep
  <2>5. Len(RunOrder(order)') \in Nat
    <3>1. order' \in Keys(RuleNames)
      BY <2>4 DEF OrderInv
    <3> QED
      BY <3>1, RulesRunOnce, KeysAt
  <2> QED
    BY <2>1, <2>3, <2>5 DEF CheckInv
<1>2. CASE CheckStep
  <2>1. /\ order' = order /\ rules' = rules /\ Parsed' = Parsed /\ s' = s
    BY <1>2, CheckKeepsParsed, SameAdapters DEF Parsed, s
  <2>2. CASE BeginCheck
    <3>1. Turn' = s[1] /\ value' # "none" /\ run' = 0 /\ outcome' = "none" /\ Parsed
      BY <2>1, <2>2 DEF BeginCheck, Turn, s
    <3> QED
      BY <1>0, <2>1, <3>1 DEF CheckInv, s
  <2>3. CASE RuleAccepts
    <3>1. PICK r \in Methods : Runs(r) /\ MayAccept(r)
      BY <2>3 DEF RuleAccepts
    <3>2. run' = run + 1 /\ value' = value /\ outcome' = "none" /\ value # "none" /\ run < Len(s)
      BY <2>3, <3>1 DEF RuleAccepts, Runs, Checking, s
    <3>3. ~(value = "empty" /\ "required" \in DOMAIN rules)
      BY <3>1 DEF CheckInv, Runs, MayAccept
    <3> QED
      BY <1>0, <2>1, <3>2, <3>3 DEF CheckInv, s
  <2>4. CASE RuleRefuses \/ RemoteAsks \/ MethodIsMissing \/ EndCheck
    <3>1. /\ run' = run /\ value' = value /\ Turn' = Turn
          /\ value # "none" /\ outcome' # "none"
      BY <2>1, <2>4 DEF RuleRefuses, RemoteAsks, MethodIsMissing, EndCheck, End, Turn, s, Runs,
                        Checking
    <3>2. outcome' = "accepted" => run = Len(s)
      BY <2>4 DEF RuleRefuses, RemoteAsks, MethodIsMissing, EndCheck, End, s
    <3>3. outcome' = "asked" => run < Len(s) /\ Turn = "remote"
      BY <2>4 DEF RuleRefuses, RemoteAsks, MethodIsMissing, EndCheck, End, Runs, s
    <3>4. ASSUME value = "empty", "required" \in DOMAIN rules PROVE outcome' = "refused"
      <4>1. run = 0 /\ Turn = "required" /\ Len(s) > 0
        BY <1>0, <3>4 DEF CheckInv
      <4>2. ~MethodIsMissing
        BY <4>1 DEF MethodIsMissing, Methods
      <4>3. ~EndCheck
        BY <1>0, <4>1 DEF EndCheck, s
      <4>4. ~RemoteAsks
        BY <3>4 DEF RemoteAsks
      <4> QED
        BY <2>4, <4>2, <4>3, <4>4 DEF RuleRefuses, End
    <3> QED
      BY <1>0, <2>1, <3>1, <3>2, <3>3, <3>4 DEF CheckInv, s
  <2> QED
    BY <1>2, <2>2, <2>3, <2>4 DEF CheckStep
<1>3. CASE UNCHANGED vars
  <2>1. Adapters' = Adapters
    BY <1>3, SameAdapters DEF vars, parsing
  <2> QED
    BY <1>3, <2>1 DEF vars, parsing, checking, CheckInv, Turn, Parsed
<1> QED
  BY <1>1, <1>2, <1>3, NextSplits

\* The three parts together are inductive.
LEMMA Inductive == Spec => []IInv
BY OrderStart, LimitStart, CheckStart, OrderStep, LimitStep, CheckKeeps, PTL DEF Spec, IInv

-----------------------------------------------------------------------------
(* The theorems                                                            *)

\* A limit that no adapter sets anew is in the value of a rule of its adapter.
LEMMA LimitIsHeard ==
  ASSUME OrderInv, LimitInv, Parsed,
         NEW attribute \in element.given, Limit(attribute), ~SetAnew(attribute)
  PROVE  \E i \in 1..Len(Adapters) :
           Adapters[i].name = attribute[1] /\ StillHeard(Adapters[i], attribute)
<1>1. PICK i \in 1..Len(Adapters) : /\ Adapters[i].name = attribute[1]
                                    /\ Hears(Adapt(Adapters[i], element), attribute)
  BY EveryLimitIsHeard DEF OrderInv
<1>2. i < next /\ Finds(Adapters[i])
  BY <1>1, AdaptersAt DEF Parsed, Finds, Limit
<1>3. StillHeard(Adapters[i], attribute)
  BY <1>1, <1>2 DEF LimitInv
<1> QED
  BY <1>1, <1>3

\* No limit that the page declares is lost on the way to jQuery Validate, nor
\* refused with another message, but to an adapter that sets its rule anew.
THEOREM LimitsHold == Spec => []LimitsEnforced
<1>1. IInv => LimitsEnforced
  <2> SUFFICES ASSUME IInv, Parsed, NEW attribute \in element.given,
                      Limit(attribute), ~SetAnew(attribute)
               PROVE  \E r \in DOMAIN rules :
                        /\ attribute \in rules[r]
                        /\ ~element.message[attribute[1]] =>
                             r \in DOMAIN messages /\ messages[r] = attribute[1]
    BY DEF LimitsEnforced
  <2>1. PICK i \in 1..Len(Adapters) :
          Adapters[i].name = attribute[1] /\ StillHeard(Adapters[i], attribute)
    BY LimitIsHeard DEF IInv
  <2> QED
    BY <2>1 DEF StillHeard
<1> QED
  BY <1>1, Inductive, PTL

\* The turns of a check that accepted or asked were all there are, but remote.
LEMMA RunsToTheEnd ==
  ASSUME OrderInv, CheckInv, outcome \in {"accepted", "asked"}
  PROVE  \A r \in DOMAIN rules : Accepted(r) \/ (outcome = "asked" /\ r = "remote")
<1> DEFINE s == RunOrder(order)
           L == Len(s)
<1>1. /\ s \in Keys(RuleNames) /\ ToSet(s) = DOMAIN rules
      /\ "remote" \in DOMAIN rules => s[L] = "remote"
  BY RulesRunOnce DEF OrderInv
<1>2. run \in Nat /\ Turn = s[run + 1] /\ run \in 0..L
  BY DEF CheckInv, Turn
<1>3. \A r : Accepted(r) <=> \E i \in 1..run : \A j \in 1..run : s[j] = r <=> j = i
  BY DEF Accepted
<1>4. (outcome = "accepted" => run = L) /\ (outcome = "asked" => run < L /\ Turn = "remote")
  BY DEF CheckInv
<1> HIDE DEF s
<1>5. L \in Nat /\ DOMAIN s = 1..L /\ \A i, j \in 1..L : s[i] = s[j] => i = j
  BY <1>1, KeysAt
<1> HIDE DEF L
<1>6. ASSUME NEW r \in DOMAIN rules, ~(outcome = "asked" /\ r = "remote") PROVE Accepted(r)
  <2>1. PICK i \in 1..L : s[i] = r
    BY <1>1, <1>5 DEF ToSet
  <2>2. i \in 1..run
    <3>1. CASE outcome = "accepted"
      BY <1>4, <2>1, <3>1
    <3>2. CASE outcome = "asked"
      <4>1. run + 1 \in 1..L /\ s[run + 1] = "remote"
        BY <1>2, <1>4, <1>5, <3>2
      <4>2. "remote" \in DOMAIN rules
        BY <1>1, <1>5, <4>1 DEF ToSet
      <4>3. run + 1 = L
        BY <1>1, <1>2, <1>5, <4>1, <4>2
      <4>4. i # L
        BY <1>1, <1>6, <2>1, <3>2, <4>2
      <4> QED
        BY <1>2, <1>5, <2>1, <4>3, <4>4
    <3> QED
      BY <3>1, <3>2
  <2>3. \A j \in 1..run : j \in 1..L
    BY <1>2, <1>5
  <2> QED
    BY <1>3, <1>5, <2>1, <2>2, <2>3
<1> QED
  BY <1>6

\* The rule of a limit is not remote.
LEMMA OnlyRemoteAsks ==
  ASSUME NEW i \in 1..Len(Adapters), "remote" \in RulesOf(Adapters[i])
  PROVE  Adapters[i].name = "remote"
<1>1. <<Place(i), Adapters[i].name, "remote">> \in Setters
  BY AllTabled DEF Tabled
<1>2. \A t \in Setters : t[3] = "remote" => t[2] = "remote"
  BY DEF Setters, TypeSetters, OtherSetters, Undefined
<1> QED
  BY <1>1, <1>2

\* What check accepts, or sends to the server to decide, has met every rule of
\* the input and every limit that the page declares.
THEOREM AcceptedMet == Spec => []AcceptedMeetsLimits
<1>1. IInv => AcceptedMeetsLimits
  <2> SUFFICES ASSUME IInv, outcome \in {"accepted", "asked"}
               PROVE  /\ \A r \in DOMAIN rules : Accepted(r) \/ (outcome = "asked" /\ r = "remote")
                      /\ \A attribute \in element.given : Limit(attribute) =>
                           \/ SetAnew(attribute)
                           \/ \E r \in DOMAIN rules : attribute \in rules[r] /\ Accepted(r)
    BY DEF AcceptedMeetsLimits
  <2>1. \A r \in DOMAIN rules : Accepted(r) \/ (outcome = "asked" /\ r = "remote")
    BY RunsToTheEnd DEF IInv
  <2>2. ASSUME NEW attribute \in element.given, Limit(attribute), ~SetAnew(attribute)
        PROVE  \E r \in DOMAIN rules : attribute \in rules[r] /\ Accepted(r)
    <3>1. Parsed
      BY DEF IInv, CheckInv
    <3>2. PICK i \in 1..Len(Adapters) :
            Adapters[i].name = attribute[1] /\ StillHeard(Adapters[i], attribute)
      BY <2>2, <3>1, LimitIsHeard DEF IInv
    <3>3. PICK r \in DOMAIN rules \intersect RulesOf(Adapters[i]) : attribute \in rules[r]
      BY <3>2 DEF StillHeard
    <3>4. r # "remote"
      BY <2>2, <3>2, <3>3, OnlyRemoteAsks DEF Limit
    <3> QED
      BY <2>1, <3>3, <3>4
  <2> QED
    BY <2>1, <2>2
<1> QED
  BY <1>1, Inductive, PTL

\* An empty value of a required input gets the message of the required rule,
\* whatever other rules the input has.
THEOREM EmptyRefused == Spec => []EmptyIsMissing
<1>1. IInv => EmptyIsMissing
  BY DEF IInv, CheckInv, EmptyIsMissing
<1> QED
  BY <1>1, Inductive, PTL
=================================================================================
