---------------------------- MODULE ClientFormProofs ----------------------------
(***************************************************************************)
(* Proofs about the validation of a form, for any fields, values and rules *)
(* and any number of edits, resets, answers and failed requests.           *)
(*                                                                         *)
(* The handlers are operators on the state of the validator; each keeps    *)
(* Good, and what a submit sends follows from Good.                        *)
(***************************************************************************)
EXTENDS ClientForm, FiniteSetTheorems, TLAPS

Datas == UNION {DataOf(f) : f \in Remote}

\* The verdict kept for f is the server's on the data it is kept for, unless
\* f waits for that verdict; a request in flight asks for the same data, or
\* its previousValue was removed by a reset.
VerdictOk(u, f) ==
  \/ u.previous[f] = Fresh /\ (u.request[f] = {} \/ \E d : u.request[f] = {d})
  \/ \E d :
       /\ u.previous[f].old = {d}
       /\ u.request[f] \in {{}, {d}}
       /\ f \notin u.pending /\ u.previous[f].valid => d \in Accepted[f]

\* n: the requests that have failed.
Counted(u, n) ==
  /\ u.pendingRequest = Cardinality(u.pending)
  /\ \A f \in Remote :
       /\ u.request[f] # {} => f \in u.pending
       /\ n = 0 /\ f \in u.pending => u.request[f] # {}

Good(u, n) == u \in FormState /\ Counted(u, n) /\ \A f \in Remote : VerdictOk(u, f)

-----------------------------------------------------------------------------
(* Small facts                                                             *)

LEMMA RemoteFinite == IsFiniteSet(Remote) /\ Remote \subseteq Fields
BY FieldsAssumption, FS_Subset DEF Enforced

LEMMA PendingFinite ==
  ASSUME NEW S \in SUBSET Remote
  PROVE  IsFiniteSet(S) /\ Cardinality(S) \in Nat
BY RemoteFinite, FS_Subset, FS_CardinalityType

LEMMA DataType ==
  ASSUME NEW val \in [Fields -> Values], NEW f \in Remote
  PROVE  Data(f, val) \in Datas
<1>1. Sent[f] \subseteq Fields
  BY FieldsAssumption
<1>2. Data(f, val) \in DataOf(f)
  BY <1>1 DEF Data, DataOf
<1>3. QED
  BY <1>2 DEF Datas

\* Newly pending fields are new: the count grows by their number.
LEMMA CountGrows ==
  ASSUME NEW S \in SUBSET Remote, NEW T \in SUBSET Remote
  PROVE  Cardinality(S \union T) = Cardinality(S) + Cardinality(T \ S)
<1>1. S \union T = S \union (T \ S) /\ S \intersect (T \ S) = {}
  OBVIOUS
<1>2. IsFiniteSet(S) /\ IsFiniteSet(T \ S) /\ T \ S \in SUBSET Remote
  BY PendingFinite
<1>3. Cardinality(S) \in Nat /\ Cardinality(T \ S) \in Nat
  BY <1>2, PendingFinite
<1>4. Cardinality(S \union (T \ S))
        = Cardinality(S) + Cardinality(T \ S) - Cardinality(S \intersect (T \ S))
  BY <1>2, FS_Union
<1>5. Cardinality(S \intersect (T \ S)) = 0
  BY <1>1, FS_EmptySet
<1>6. Cardinality(S \union T) = Cardinality(S \union (T \ S))
  BY <1>1, Zenon
<1>7. QED
  BY <1>3, <1>4, <1>5, <1>6

-----------------------------------------------------------------------------
(* The handlers                                                            *)

\* What check leaves of a state, field by field.
LEMMA CheckFields ==
  ASSUME NEW u \in FormState, NEW val \in [Fields -> Values], NEW S \in SUBSET Fields
  PROVE  LET c == Check(u, val, S)
             asked == Having(u, val, S, "pending")
         IN /\ c \in FormState
            /\ asked \in SUBSET Remote
            /\ c.errorMap = Having(u, val, S, "invalid")
            /\ \A f \in asked : /\ c.previous[f].old = {Data(f, val)}
                                /\ c.request[f] = {Data(f, val)}
            /\ \A f \in Remote \ asked : /\ c.previous[f] = u.previous[f]
                                         /\ c.request[f] = u.request[f]
            /\ c.pending = u.pending \union asked
            /\ c.pendingRequest = u.pendingRequest + Cardinality(asked \ u.pending)
            /\ c.formSubmitted = u.formSubmitted
<1> DEFINE failed == Having(u, val, S, "invalid")
           asked == Having(u, val, S, "pending")
           passed == Having(u, val, S, "valid")
           previous == [f \in Remote |->
             IF f \in asked THEN [old |-> {Data(f, val)}, valid |-> u.previous[f].valid]
                            ELSE u.previous[f]]
           request == [f \in Remote |-> IF f \in asked THEN {Data(f, val)} ELSE u.request[f]]
           pending == u.pending \union asked
           count == u.pendingRequest + Cardinality(asked \ u.pending)
           messages == (u.messages \ passed) \union failed
           c == Check(u, val, S)
<1>1. asked \in SUBSET Remote
  BY DEF Having, Verdict
<1>2. failed \in SUBSET Fields /\ messages \in SUBSET Fields
  BY DEF Having, FormState
<1>3. previous \in [Remote -> [old : SUBSET Datas, valid : BOOLEAN]]
  BY DataType DEF FormState, Datas
<1>4. request \in [Remote -> SUBSET Datas]
  BY DataType DEF FormState, Datas
<1>5. pending \in SUBSET Remote
  BY <1>1 DEF FormState
<1>6. count \in Nat
  <2>1. asked \ u.pending \in SUBSET Remote
    BY <1>1
  <2>2. Cardinality(asked \ u.pending) \in Nat
    BY <2>1, PendingFinite
  <2>3. QED
    BY <2>2 DEF FormState
<1> HIDE DEF failed, asked, passed, previous, request, pending, count, messages
<1>7. c = [u EXCEPT !.errorMap = failed, !.previous = previous, !.request = request,
                    !.pending = pending, !.pendingRequest = count, !.messages = messages]
  BY DEF Check, NewlyPending, failed, asked, passed, previous, request, pending, count, messages
<1>8. /\ c \in FormState
      /\ c.errorMap = failed /\ c.previous = previous /\ c.request = request
      /\ c.pending = pending /\ c.pendingRequest = count
      /\ c.formSubmitted = u.formSubmitted
  BY <1>2, <1>3, <1>4, <1>5, <1>6, <1>7 DEF FormState, Datas
<1>9. /\ \A f \in asked : previous[f].old = {Data(f, val)} /\ request[f] = {Data(f, val)}
      /\ \A f \in Remote \ asked : previous[f] = u.previous[f] /\ request[f] = u.request[f]
  BY <1>1 DEF previous, request
<1>10. QED
  BY <1>1, <1>8, <1>9 DEF failed, asked, pending, count

LEMMA CheckKeeps ==
  ASSUME NEW n, NEW u, Good(u, n), NEW val \in [Fields -> Values], NEW S \in SUBSET Fields
  PROVE  Good(Check(u, val, S), n)
<1> DEFINE c == Check(u, val, S)
           asked == Having(u, val, S, "pending")
<1>1. /\ c \in FormState
      /\ asked \in SUBSET Remote
      /\ \A f \in asked : c.previous[f].old = {Data(f, val)} /\ c.request[f] = {Data(f, val)}
      /\ \A f \in Remote \ asked : c.previous[f] = u.previous[f] /\ c.request[f] = u.request[f]
      /\ c.pending = u.pending \union asked
      /\ c.pendingRequest = u.pendingRequest + Cardinality(asked \ u.pending)
  BY CheckFields DEF Good
<1> HIDE DEF c, asked
<1>2. c.pendingRequest = Cardinality(c.pending)
  <2>1. u.pending \in SUBSET Remote /\ u.pendingRequest = Cardinality(u.pending)
    BY DEF Good, Counted, FormState
  <2>2. QED
    BY <1>1, <2>1, CountGrows
<1>3. \A f \in Remote : /\ c.request[f] # {} => f \in c.pending
                        /\ n = 0 /\ f \in c.pending => c.request[f] # {}
  BY <1>1 DEF Good, Counted
<1>4. ASSUME NEW f \in Remote PROVE VerdictOk(c, f)
  <2>1. CASE f \in asked
    BY <1>1, <2>1 DEF VerdictOk
  <2>2. CASE f \notin asked
    BY <1>1, <2>2 DEF VerdictOk, Good
  <2>3. QED
    BY <2>1, <2>2
<1>5. QED
  BY <1>1, <1>2, <1>3, <1>4 DEF Good, Counted, c

\* Changes of the other fields of the state do not matter.
LEMMA OthersKeep ==
  ASSUME NEW n, NEW u, Good(u, n), NEW w \in FormState,
         w.previous = u.previous, w.request = u.request, w.pending = u.pending,
         w.pendingRequest = u.pendingRequest
  PROVE  Good(w, n)
BY DEF Good, Counted, VerdictOk

LEMMA InvalidFormKeeps ==
  ASSUME NEW n, NEW u, Good(u, n)
  PROVE  /\ Good(InvalidForm(u), n)
         /\ InvalidForm(u).errorMap = u.errorMap
         /\ InvalidForm(u).pending = u.pending
         /\ InvalidForm(u).pendingRequest = u.pendingRequest
<1> DEFINE w == InvalidForm(u)
<1>1. u \in FormState
  BY DEF Good
<1>2. /\ w \in FormState /\ w.errorMap = u.errorMap
      /\ w.previous = u.previous /\ w.request = u.request /\ w.pending = u.pending
      /\ w.pendingRequest = u.pendingRequest
  BY <1>1 DEF InvalidForm, FormState
<1>3. QED
  BY <1>2, OthersKeep

LEMMA FormKeeps ==
  ASSUME NEW n, NEW u, Good(u, n), NEW val \in [Fields -> Values]
  PROVE  /\ Good(Form(u, val), n)
         /\ Form(u, val).errorMap = Having(u, val, Enforced, "invalid")
         /\ Form(u, val).pending = u.pending \union Having(u, val, Enforced, "pending")
<1> DEFINE c == Check(u, val, Enforced)
           w == [c EXCEPT !.submitted = @ \union c.errorMap, !.invalid = c.errorMap]
<1>1. Enforced \in SUBSET Fields /\ u \in FormState
  BY DEF Enforced, Good
<1>2. Good(c, n)
  BY <1>1, CheckKeeps
<1>3. /\ c \in FormState
      /\ c.errorMap = Having(u, val, Enforced, "invalid")
      /\ c.pending = u.pending \union Having(u, val, Enforced, "pending")
  BY <1>1, CheckFields
<1> HIDE DEF c
<1>4. /\ w \in FormState /\ w.errorMap = c.errorMap
      /\ w.previous = c.previous /\ w.request = c.request /\ w.pending = c.pending
      /\ w.pendingRequest = c.pendingRequest
  BY <1>3 DEF FormState
<1>5. Good(w, n)
  BY <1>2, <1>4, OthersKeep
<1>6. Form(u, val) = InvalidForm(w)
  BY DEF Form, c
<1> HIDE DEF w
<1>7. QED
  BY <1>3, <1>4, <1>5, <1>6, InvalidFormKeeps

LEMMA ElementKeeps ==
  ASSUME NEW n, NEW u, Good(u, n), NEW val \in [Fields -> Values], NEW f \in Fields
  PROVE  Good(Element(u, val, f), n)
<1> DEFINE c == Check(u, val, {f})
           w == [c EXCEPT !.invalid = @ \union {f}]
<1>1. Good(c, n)
  BY CheckKeeps
<1> HIDE DEF c
<1>2. /\ w \in FormState
      /\ w.previous = c.previous /\ w.request = c.request /\ w.pending = c.pending
      /\ w.pendingRequest = c.pendingRequest
  BY <1>1 DEF Good, FormState
<1>3. Good(w, n)
  BY <1>1, <1>2, OthersKeep
<1>4. QED
  BY <1>3 DEF Element, c

LEMMA FlagKeeps ==
  ASSUME NEW n, NEW u, Good(u, n), NEW b \in BOOLEAN
  PROVE  /\ Good([u EXCEPT !.formSubmitted = b], n)
         /\ [u EXCEPT !.formSubmitted = b].errorMap = u.errorMap
         /\ [u EXCEPT !.formSubmitted = b].pendingRequest = u.pendingRequest
<1> DEFINE w == [u EXCEPT !.formSubmitted = b]
<1>1. u \in FormState
  BY DEF Good
<1>2. /\ w \in FormState /\ w.errorMap = u.errorMap
      /\ w.previous = u.previous /\ w.request = u.request /\ w.pending = u.pending
      /\ w.pendingRequest = u.pendingRequest
  BY <1>1 DEF FormState
<1>3. QED
  BY <1>2, OthersKeep

\* The submit handler keeps Good, and sends only what every rule accepts.
LEMMA SubmittedKeeps ==
  ASSUME NEW n, NEW u, Good(u, n), NEW val \in [Fields -> Values]
  PROVE  /\ Good(Submitted(u, val), n)
         /\ MaySend(Submitted(u, val)) => \A f \in Enforced : Acceptable(f, val)
<1> DEFINE c == Form(u, val)
<1>1. /\ Good(c, n)
      /\ c.errorMap = Having(u, val, Enforced, "invalid")
      /\ c.pending = u.pending \union Having(u, val, Enforced, "pending")
  BY FormKeeps
<1>2. Submitted(u, val) = IF c.errorMap = {} /\ c.pendingRequest > 0
                            THEN [c EXCEPT !.formSubmitted = TRUE] ELSE c
  BY DEF Submitted
<1> HIDE DEF c
<1>3. /\ Good(Submitted(u, val), n)
      /\ Submitted(u, val).errorMap = c.errorMap
      /\ Submitted(u, val).pendingRequest = c.pendingRequest
  BY <1>1, <1>2, FlagKeeps
<1>4. ASSUME MaySend(Submitted(u, val)), NEW f \in Enforced PROVE Acceptable(f, val)
  <2>1. c.errorMap = {} /\ c.pendingRequest = 0
    BY <1>3, <1>4 DEF MaySend
  <2>2. c.pending \in SUBSET Remote /\ Cardinality(c.pending) = 0
    BY <1>1, <2>1 DEF Good, Counted, FormState
  <2>3. c.pending = {}
    BY <2>2, PendingFinite, FS_EmptySet
  <2>4. Verdict(u, val, f) # "invalid" /\ Verdict(u, val, f) # "pending" /\ f \notin u.pending
    BY <1>1, <2>1, <2>3 DEF Having
  <2>5. f \notin Late
    BY DEF Enforced
  <2>6. val[f] \in LocalOk[f]
    BY <2>4, <2>5 DEF Verdict
  <2>7. ASSUME f \in Remote, val[f] # Blank PROVE Data(f, val) \in Accepted[f]
    <3>1. u.previous[f].old = {Data(f, val)} /\ u.previous[f].valid
      BY <2>4, <2>5, <2>6, <2>7 DEF Verdict
    <3>2. u.previous[f] # Fresh
      BY <3>1 DEF Fresh
    <3>3. VerdictOk(u, f)
      BY <2>7 DEF Good
    <3>4. QED
      BY <2>4, <3>1, <3>2, <3>3 DEF VerdictOk
  <2>8. QED
    BY <2>6, <2>7 DEF Acceptable
<1>5. QED
  BY <1>3, <1>4

\* An answer that is taken: its field waits no more and has the verdict.
LEMMA AnswerKeeps ==
  ASSUME NEW n, NEW u, Good(u, n), NEW f \in Remote, NEW d \in u.request[f]
  PROVE  Good(Stopped(Received(u, f, d \in Accepted[f]), f), n)
<1> DEFINE valid == d \in Accepted[f]
           r == Received(u, f, valid)
           w == Stopped(r, f)
           old == u.previous[f]
           new == IF old = Fresh THEN old ELSE [old EXCEPT !.valid = valid]
<1>1. /\ u \in FormState /\ f \in u.pending
      /\ u.pendingRequest = Cardinality(u.pending) /\ VerdictOk(u, f)
  BY DEF Good, Counted
<1>2. valid \in BOOLEAN
  OBVIOUS
<1>3. u.request[f] = {d}
  BY <1>1 DEF VerdictOk
<1> HIDE DEF valid
<1>4. old \in [old : SUBSET Datas, valid : BOOLEAN]
  BY <1>1 DEF FormState, Datas
<1>5. new \in [old : SUBSET Datas, valid : BOOLEAN] /\ new.old = old.old
      /\ (old = Fresh => new = Fresh) /\ (old # Fresh => new.valid = valid)
  BY <1>2, <1>4
<1> HIDE DEF new
<1>6. /\ r.request = [u.request EXCEPT ![f] = {}]
      /\ r.previous = [u.previous EXCEPT ![f] = new]
      /\ r.pending = u.pending /\ r.pendingRequest = u.pendingRequest
      /\ r \in FormState
  <2> DEFINE request == [u.request EXCEPT ![f] = {}]
             previous == [u.previous EXCEPT ![f] = new]
             errorMap == IF valid THEN {} ELSE u.errorMap \union {f}
             invalid == u.invalid \union {f}
             messages == IF valid THEN u.messages \ {f} ELSE u.messages \union u.errorMap \union {f}
  <2>1. request \in [Remote -> SUBSET Datas]
    BY <1>1 DEF FormState, Datas
  <2>2. previous \in [Remote -> [old : SUBSET Datas, valid : BOOLEAN]]
    BY <1>1, <1>5 DEF FormState, Datas
  <2>3. errorMap \in SUBSET Fields /\ invalid \in SUBSET Fields /\ messages \in SUBSET Fields
    <3>1. f \in Fields
      BY RemoteFinite
    <3>2. QED
      BY <1>1, <3>1 DEF FormState
  <2>4. r = [u EXCEPT !.request = request, !.previous = previous, !.errorMap = errorMap,
                      !.invalid = invalid, !.messages = messages]
    BY <1>1, <1>4 DEF Received, FormState, new
  <2> HIDE DEF request, previous, errorMap, invalid, messages, r
  <2>5. /\ r.request = request /\ r.previous = previous
        /\ r.pending = u.pending /\ r.pendingRequest = u.pendingRequest
        /\ r \in FormState
    BY <1>1, <2>1, <2>2, <2>3, <2>4 DEF FormState, Datas
  <2>6. QED
    BY <2>5 DEF request, previous
<1> HIDE DEF r
<1>7. Cardinality(u.pending) # 0 /\ Cardinality(u.pending \ {f}) = Cardinality(u.pending) - 1
  <2>1. u.pending \in SUBSET Remote
    BY <1>1 DEF FormState
  <2>2. QED
    BY <1>1, <2>1, PendingFinite, FS_EmptySet, FS_RemoveElement
<1>8. /\ w \in FormState
      /\ w.pending = u.pending \ {f} /\ w.pendingRequest = Cardinality(u.pending \ {f})
      /\ w.request = r.request /\ w.previous = r.previous
  <2>1. u.pendingRequest > 0 /\ u.pendingRequest \in Nat
    BY <1>1, <1>7 DEF FormState
  <2>2. w = [r EXCEPT !.pendingRequest = u.pendingRequest - 1, !.pending = u.pending \ {f}]
    BY <1>6, <2>1 DEF Stopped, FormState
  <2>3. /\ u.pending \ {f} \in SUBSET Remote /\ u.pendingRequest - 1 \in Nat
        /\ u.pendingRequest - 1 = Cardinality(u.pending \ {f})
    BY <1>1, <1>7, <2>1 DEF FormState
  <2> HIDE DEF w
  <2>4. QED
    BY <1>6, <2>2, <2>3 DEF FormState
<1>9. ASSUME NEW g \in Remote PROVE VerdictOk(w, g)
  <2>1. CASE g = f
    <3>1. w.request[f] = {} /\ w.previous[f] = new
      BY <1>1, <1>6, <1>8 DEF FormState
    <3>2. CASE old = Fresh
      BY <1>5, <2>1, <3>1, <3>2 DEF VerdictOk
    <3>3. CASE old # Fresh
      <4>1. old.old = {d}
        BY <1>1, <1>3, <3>3 DEF VerdictOk
      <4>2. new.old = {d} /\ (new.valid => d \in Accepted[f])
        BY <1>5, <3>3, <4>1 DEF valid
      <4>3. QED
        BY <2>1, <3>1, <4>2 DEF VerdictOk
    <3>4. QED
      BY <3>2, <3>3
  <2>2. CASE g # f
    <3>1. /\ w.request[g] = u.request[g] /\ w.previous[g] = u.previous[g]
          /\ (g \in w.pending <=> g \in u.pending)
      BY <1>1, <1>6, <1>8, <2>2 DEF FormState
    <3>2. QED
      BY <3>1 DEF Good, VerdictOk
  <2>3. QED
    BY <2>1, <2>2
<1>10. ASSUME NEW g \in Remote
       PROVE  /\ w.request[g] # {} => g \in w.pending
              /\ n = 0 /\ g \in w.pending => w.request[g] # {}
  <2>1. w.request[g] = IF g = f THEN {} ELSE u.request[g]
    BY <1>1, <1>6, <1>8 DEF FormState
  <2>2. QED
    BY <1>8, <2>1 DEF Good, Counted
<1>11. QED
  BY <1>8, <1>9, <1>10 DEF Good, Counted, valid, r

-----------------------------------------------------------------------------
(* The inductive invariant                                                 *)

Inv ==
  /\ value \in [Fields -> Values]
  /\ parsed \in SUBSET Fields
  /\ sent \in SUBSET [Fields -> Values]
  /\ clicked \in BOOLEAN
  /\ edits \in 0..MaxEdits
  /\ faults \in 0..MaxFaults
  /\ Good(form, faults)
  /\ SentWereAccepted

LEMMA InitInv == Init => Inv
<1>1. ASSUME Init PROVE Inv
  <2>1. /\ value \in [Fields -> Values] /\ parsed \in SUBSET Fields
        /\ sent = {} /\ clicked \in BOOLEAN /\ edits \in 0..MaxEdits /\ faults \in 0..MaxFaults
    <3>1. value \in [Fields -> Values] /\ sent = {} /\ clicked \in BOOLEAN
      BY <1>1, FieldsAssumption DEF Init
    <3>2. parsed \in SUBSET Fields
      BY <1>1 DEF Init, Enforced
    <3>3. edits \in 0..MaxEdits /\ faults \in 0..MaxFaults
      BY <1>1, BoundsAssumption DEF Init
    <3>4. QED
      BY <3>1, <3>2, <3>3
  <2>2. [f \in Remote |-> Fresh] \in [Remote -> [old : SUBSET Datas, valid : BOOLEAN]]
    BY DEF Fresh
  <2>3. /\ form \in FormState /\ form.pending = {} /\ form.pendingRequest = 0
        /\ \A f \in Remote : form.previous[f] = Fresh /\ form.request[f] = {}
    BY <1>1, <2>2 DEF Init, FormState, Datas
  <2>4. Good(form, faults)
    BY <2>3, FS_EmptySet DEF Good, Counted, VerdictOk
  <2>5. QED
    BY <2>1, <2>4 DEF Inv, SentWereAccepted
<1>2. QED
  BY <1>1

\* A step that sends nothing keeps the invariant when the new state is good.
LEMMA StepInv ==
  ASSUME Inv, value' \in [Fields -> Values], parsed' \in SUBSET Fields, sent' = sent,
         clicked' \in BOOLEAN, edits' \in 0..MaxEdits, faults' \in 0..MaxFaults,
         Good(form', faults')
  PROVE  Inv'
BY DEF Inv, SentWereAccepted, Good, Counted, VerdictOk, FormState, DataOf

\* A step that submits keeps it when what it sends is acceptable.
LEMMA SendInv ==
  ASSUME Inv, UNCHANGED <<value, parsed, edits, faults>>, clicked' \in BOOLEAN,
         Good(form', faults),
         \/ sent' = sent
         \/ /\ sent' = {value}
            /\ \A f \in Enforced : Acceptable(f, value)
  PROVE  Inv'
<1>1. CASE sent' = sent
  BY <1>1, StepInv DEF Inv
<1>2. CASE /\ sent' = {value}
           /\ \A f \in Enforced : Acceptable(f, value)
  <2>1. sent' \in SUBSET [Fields -> Values]
    BY <1>2 DEF Inv
  <2>2. SentWereAccepted'
    BY <1>2 DEF SentWereAccepted, Acceptable, Data
  <2>3. Good(form, faults)'
    BY DEF Good, Counted, VerdictOk, FormState, DataOf
  <2>4. QED
    BY <2>1, <2>2, <2>3 DEF Inv
<1>3. QED
  BY <1>1, <1>2

-----------------------------------------------------------------------------
(* The steps                                                               *)

LEMMA TypeInv ==
  ASSUME Inv, NEW f \in Fields, NEW v \in Values, Type(f, v)
  PROVE  Inv'
<1>1. value' \in [Fields -> Values] /\ edits' \in 0..MaxEdits
  BY BoundsAssumption DEF Type, Inv
<1>2. QED
  BY <1>1, StepInv DEF Type, Inv

LEMMA RevalidateInv ==
  ASSUME Inv, NEW f \in Fields, Revalidate(f)
  PROVE  Inv'
<1>1. Good(form', faults)
  BY ElementKeeps DEF Revalidate, Inv
<1>2. clicked' \in BOOLEAN
  BY DEF Revalidate
<1>3. UNCHANGED <<value, parsed, edits, faults, sent>>
  BY DEF Revalidate
<1>4. QED
  BY <1>1, <1>2, <1>3, SendInv

LEMMA SubmitInv ==
  ASSUME Inv, Submit
  PROVE  Inv'
<1>1. /\ Good(Submitted(form, value), faults)
      /\ MaySend(Submitted(form, value)) => \A f \in Enforced : Acceptable(f, value)
  BY SubmittedKeeps DEF Inv
<1>2. /\ form' = Submitted(form, value) /\ clicked' \in BOOLEAN
      /\ UNCHANGED <<value, parsed, edits, faults>>
      /\ sent' = IF MaySend(Submitted(form, value))
                   THEN {value} ELSE sent
  BY DEF Submit
<1>3. QED
  BY <1>1, <1>2, SendInv

LEMMA ParseElementInv ==
  ASSUME Inv, NEW f \in Fields, ParseElement(f)
  PROVE  Inv'
<1>1. parsed' \in SUBSET Fields
  BY DEF ParseElement, Inv
<1>2. QED
  BY <1>1, StepInv DEF ParseElement, Inv

LEMMA AnswerInv ==
  ASSUME Inv, NEW f \in Remote, Answer(f)
  PROVE  Inv'
<1>1. PICK data \in form.request[f] :
        LET valid == data \in Accepted[f]
        IN \E w \in {Stopped(Received(form, f, valid), f)} :
             AnswerOnly(w) \/ AnswerRefuses(w, valid) \/ AnswerSubmits(w, valid)
  BY DEF Answer
<1> DEFINE valid == data \in Accepted[f]
           w == Stopped(Received(form, f, valid), f)
<1>2. AnswerOnly(w) \/ AnswerRefuses(w, valid) \/ AnswerSubmits(w, valid)
  BY <1>1
<1>3. Good(w, faults)
  BY AnswerKeeps DEF Inv
<1>4. value \in [Fields -> Values] /\ UNCHANGED <<value, parsed, edits, faults>>
  BY DEF Inv, Answer
<1> HIDE DEF w, valid
<1>5. CASE AnswerOnly(w)
  BY <1>3, <1>4, <1>5, SendInv DEF AnswerOnly
<1>6. CASE AnswerRefuses(w, valid)
  <2>1. Good(InvalidForm([w EXCEPT !.formSubmitted = FALSE]), faults)
    BY <1>3, FlagKeeps, InvalidFormKeeps
  <2>2. /\ form' = InvalidForm([w EXCEPT !.formSubmitted = FALSE])
        /\ sent' = sent /\ clicked' \in BOOLEAN
    BY <1>6 DEF AnswerRefuses
  <2>3. QED
    BY <1>4, <2>1, <2>2, SendInv
<1>7. CASE AnswerSubmits(w, valid)
  <2> DEFINE c == Form(w, value)
             d == Submitted(c, value)
  <2>1. Good(c, faults)
    BY <1>3, <1>4, FormKeeps
  <2>2. Good(d, faults) /\ (MaySend(d) => \A x \in Enforced : Acceptable(x, value))
    BY <1>4, <2>1, SubmittedKeeps
  <2>3. \/ form' = c /\ clicked' \in BOOLEAN /\ sent' = sent
        \/ /\ form' = [d EXCEPT !.formSubmitted = FALSE] /\ clicked' \in BOOLEAN
           /\ sent' = IF MaySend(d) THEN {value} ELSE sent
    BY <1>7 DEF AnswerSubmits
  <2> HIDE DEF c, d
  <2>4. Good([d EXCEPT !.formSubmitted = FALSE], faults)
    BY <2>2, FlagKeeps
  <2>5. QED
    BY <1>4, <2>1, <2>2, <2>3, <2>4, SendInv
<1>8. QED
  BY <1>2, <1>5, <1>6, <1>7

LEMMA RequestFailsInv ==
  ASSUME Inv, NEW f \in Remote, RequestFails(f)
  PROVE  Inv'
<1>1. faults' \in 0..MaxFaults /\ faults' # 0
  BY BoundsAssumption DEF RequestFails, Inv
<1>2. Good(form, faults) /\ form \in FormState
  BY DEF Inv, Good
<1>3. /\ form' \in FormState
      /\ form'.previous = form.previous /\ form'.pending = form.pending
      /\ form'.pendingRequest = form.pendingRequest
      /\ form'.request = [form.request EXCEPT ![f] = {}]
  BY <1>2 DEF RequestFails, FormState
<1>4. \A g \in Remote : form'.request[g] = IF g = f THEN {} ELSE form.request[g]
  BY <1>2, <1>3 DEF FormState
<1>5. ASSUME NEW g \in Remote PROVE VerdictOk(form', g)
  BY <1>2, <1>3, <1>4 DEF Good, VerdictOk
<1>6. Good(form', faults')
  BY <1>1, <1>2, <1>3, <1>4, <1>5 DEF Good, Counted
<1>7. QED
  BY <1>1, <1>6, StepInv DEF RequestFails, Inv

LEMMA ResetInv ==
  ASSUME Inv, Reset
  PROVE  Inv'
<1>1. value' \in [Fields -> Values] /\ edits' \in 0..MaxEdits
  BY FieldsAssumption, BoundsAssumption DEF Reset, Inv
<1>2. Good(form, faults) /\ form \in FormState
  BY DEF Inv, Good
<1>3. [f \in Remote |-> Fresh] \in [Remote -> [old : SUBSET Datas, valid : BOOLEAN]]
  BY DEF Fresh
<1>4. /\ form' \in FormState
      /\ form'.previous = [f \in Remote |-> Fresh] /\ form'.pending = form.pending
      /\ form'.pendingRequest = form.pendingRequest /\ form'.request = form.request
  BY <1>2, <1>3 DEF Reset, FormState, Datas
<1>5. ASSUME NEW f \in Remote PROVE VerdictOk(form', f)
  BY <1>2, <1>4 DEF Good, VerdictOk
<1>6. Good(form', faults)
  BY <1>2, <1>4, <1>5 DEF Good, Counted
<1>7. QED
  BY <1>1, <1>6, StepInv DEF Reset, Inv

LEMMA InvHolds == Spec => []Inv
<1>1. ASSUME Inv, UNCHANGED vars PROVE Inv'
  BY <1>1, StepInv DEF vars, Inv
<1>2. Inv /\ [Next]_vars => Inv'
  BY <1>1, TypeInv, RevalidateInv, SubmitInv, ParseElementInv, AnswerInv, RequestFailsInv,
     ResetInv DEF Next
<1>3. QED
  BY <1>2, InitInv, PTL DEF Spec

\* The state of the validator has its type, with one request per field.
THEOREM TypeCorrect == Spec => []TypeOK
<1>1. ASSUME Inv PROVE TypeOK
  <2>1. form \in FormState /\ \A f \in Remote : VerdictOk(form, f)
    BY <1>1 DEF Inv, Good
  <2>2. ASSUME NEW f \in Remote PROVE Cardinality(form.request[f]) <= 1
    <3>1. form.request[f] = {} \/ \E d : form.request[f] = {d}
      BY <2>1 DEF VerdictOk
    <3>2. Cardinality(form.request[f]) \in {0, 1}
      BY <3>1, FS_EmptySet, FS_Singleton, Zenon
    <3>3. QED
      BY <3>2
  <2>3. QED
    BY <1>1, <2>1, <2>2 DEF Inv, TypeOK
<1>2. QED
  BY <1>1, InvHolds, PTL

\* The submit handler and stopRequest send only values that every rule of the
\* validator accepts, the remote ones by an answer for exactly these values.
THEOREM SentAccepted == Spec => []SentWereAccepted
BY InvHolds, PTL DEF Inv

\* startRequest and stopRequest keep pendingRequest equal to the number of
\* pending fields, through aborts, resets and failures.
THEOREM CountCorrect == Spec => []PendingIsCounted
<1>1. Inv => PendingIsCounted
  BY DEF Inv, Good, Counted, PendingIsCounted
<1>2. QED
  BY <1>1, InvHolds, PTL
=============================================================================
