------------------------------- MODULE ClientForm -------------------------------
(***************************************************************************)
(* The validation of one HTML form in the browser: the events of the form  *)
(* as jquery.validate.unobtrusive.js wires them to jQuery Validate.        *)
(*                                                                         *)
(* The page has been parsed once: the form has its validator, which took a *)
(* copy of the rules found then.  Every event handler runs to its end.     *)
(* A remote rule asks a server and leaves its field pending; edits, other  *)
(* checks, submits and resets come before the answer.                      *)
(*                                                                         *)
(* What a field's rules say of a value, and what the server says, is given *)
(* by constants.  Left out: wording, focus, the classes of the inputs, and *)
(* buttons that submit without validation.                                 *)
(***************************************************************************)
EXTENDS Integers, FiniteSets

CONSTANTS
  Fields,     \* names of the inputs of the form
  Late,       \* the fields inserted in the form after its validator was made
  Remote,     \* the fields with a remote rule
  Values,
  Blank,      \* the value of an empty input
  Initial,    \* the values the page came with
  LocalOk,    \* LocalOk[f]: the values all rules of f but the remote one accept
  Sent,       \* Sent[f]: the fields whose values the remote rule of f sends
  Accepted,   \* Accepted[f]: the data for which the server answers true
  MaxEdits,   \* bound: changes of values and resets
  MaxFaults   \* bound: requests that end without an answer

Enforced == Fields \ Late

ASSUME FieldsAssumption ==
  /\ IsFiniteSet(Fields)
  /\ Late \subseteq Fields
  /\ Remote \subseteq Enforced
  /\ Initial \in [Fields -> Values]
  /\ Blank \in Values
  /\ \A f \in Remote : f \in Sent[f] /\ Sent[f] \subseteq Fields
ASSUME BoundsAssumption == MaxEdits \in Nat /\ MaxFaults \in Nat

VARIABLES
  value,    \* value[f]: what input f holds
  parsed,   \* the fields whose rules parse has put in the form's options
  form,     \* the validator and the messages of the form, see Form
  sent,     \* the values of the last form sent, none at first
  clicked,  \* history: the user submitted these values and saw no outcome yet
  edits, faults

vars == <<value, parsed, form, sent, clicked, edits, faults>>

\* Mutation of Data: the value alone, without the fields sent along.
DataValue(f, val) == val[f]

\* optionDataString: what the remote rule of f sends for the values val.
Data(f, val) == [g \in Sent[f] |-> val[g]]

\* previousValue of an element that has none: nothing asked, and valid.
Fresh == [old |-> {}, valid |-> TRUE]

-----------------------------------------------------------------------------
(* Checking                                                                *)

\* check: the other rules run before the remote one, which is not asked for
\* an empty optional input and repeats its last verdict for the same data.
Verdict(u, val, f) ==
  IF f \in Late THEN "no rules"
  ELSE IF val[f] \notin LocalOk[f] THEN "invalid"
  ELSE IF f \notin Remote \/ val[f] = Blank THEN "valid"
  ELSE IF u.previous[f].old # {Data(f, val)} THEN "pending"
  ELSE IF u.previous[f].valid THEN "valid" ELSE "invalid"

Having(u, val, S, verdict) == {f \in S : Verdict(u, val, f) = verdict}

\* Mutation of NewlyPending: startRequest counts without looking at pending.
AllAsked(u, asked) == asked

\* startRequest counts a field once, however many requests replace another.
NewlyPending(u, asked) == asked \ u.pending

\* check of each field of S, then showErrors.  A new request of a field
\* aborts its last one.  A pending field keeps the message it has.
Check(u, val, S) ==
  LET failed == Having(u, val, S, "invalid")
      asked == Having(u, val, S, "pending")
  IN [u EXCEPT
       !.errorMap = failed,
       !.previous = [f \in Remote |->
         IF f \in asked THEN [old |-> {Data(f, val)}, valid |-> u.previous[f].valid]
                        ELSE u.previous[f]],
       !.request = [f \in Remote |-> IF f \in asked THEN {Data(f, val)} ELSE u.request[f]],
       !.pending = u.pending \union asked,
       !.pendingRequest = u.pendingRequest + Cardinality(NewlyPending(u, asked)),
       !.messages = (u.messages \ Having(u, val, S, "valid")) \union failed]

\* The invalid-form event: onErrors fills the summary.
InvalidForm(u) == [u EXCEPT !.summary = IF u.errorMap = {} THEN @ ELSE u.errorMap]

\* Validator.form.
Form(u, val) ==
  LET c == Check(u, val, Enforced)
  IN InvalidForm([c EXCEPT !.submitted = @ \union c.errorMap, !.invalid = c.errorMap])

\* Validator.element.
Element(u, val, f) ==
  LET c == Check(u, val, {f})
  IN [c EXCEPT !.invalid = @ \union {f}]

\* Mutation of MaySend: the submit handler does not wait for answers.
SendsAtOnce(c) == c.errorMap = {}

\* What the submit handler asks of a form it has just checked.
MaySend(c) == c.errorMap = {} /\ c.pendingRequest = 0

\* The submit handler: a form with requests pending is to be submitted later.
Submitted(u, val) ==
  LET c == Form(u, val)
  IN IF c.errorMap = {} /\ c.pendingRequest > 0
       THEN [c EXCEPT !.formSubmitted = TRUE] ELSE c

-----------------------------------------------------------------------------
(* The form                                                                *)

Init ==
  /\ value = Initial
  /\ parsed = Enforced
  /\ form = [previous |-> [f \in Remote |-> Fresh],
             request |-> [f \in Remote |-> {}],  \* what is asked and not answered
             pending |-> {}, pendingRequest |-> 0, formSubmitted |-> FALSE,
             errorMap |-> {},                     \* the errors of the last check
             submitted |-> {}, invalid |-> {},    \* the names in these two maps
             messages |-> {},                     \* the fields that show an error
             summary |-> {}]                      \* the errors in the summary
  /\ sent = {}
  /\ clicked = FALSE
  /\ edits = 0
  /\ faults = 0

\* The user changes the value of an input.
Type(f, v) ==
  /\ edits < MaxEdits
  /\ v # value[f]
  /\ value' = [value EXCEPT ![f] = v]
  /\ edits' = edits + 1
  /\ clicked' = FALSE
  /\ UNCHANGED <<parsed, form, sent, faults>>

\* onfocusout checks an input that is filled or was refused by a submit;
\* onkeyup one that was refused or checked before.
Revalidate(f) ==
  /\ value[f] # Blank \/ f \in form.submitted \union form.invalid
  /\ form' = Element(form, value, f)
  /\ clicked' = (clicked /\ form'.errorMap = {})
  /\ UNCHANGED <<value, parsed, sent, edits, faults>>

\* The user clicks the submit button.
Submit ==
  LET c == Submitted(form, value)
  IN /\ form' = c
     /\ sent' = IF MaySend(c) THEN {value} ELSE sent
     /\ clicked' = (c.errorMap = {} /\ ~MaySend(c))
     /\ UNCHANGED <<value, parsed, edits, faults>>

\* parseElement of a field and attachValidation: the form has its validator,
\* which validate returns as it is; off and on leave one reset handler.
ParseElement(f) ==
  /\ f \in Late
  /\ parsed' = parsed \union {f}
  /\ UNCHANGED <<value, form, sent, clicked, edits, faults>>

-----------------------------------------------------------------------------
(* Answers of the server                                                   *)

\* Mutation of Received: the lists are reset and formSubmitted with them.
ReceivedAlone(u, f, valid) ==
  [u EXCEPT
    !.request[f] = {},
    !.previous[f].valid = IF u.previous[f] = Fresh THEN @ ELSE valid,
    !.errorMap = IF valid THEN {} ELSE @ \union {f},
    !.invalid = @ \union {f},
    !.messages = IF valid THEN @ \ {f} ELSE @ \union u.errorMap \union {f},
    !.formSubmitted = FALSE]

\* The success function of a request: true shows the field as valid, anything
\* else adds its error to those of the last check.  After a reset the verdict
\* is written to a previousValue that the element no longer has.
Received(u, f, valid) ==
  [u EXCEPT
    !.request[f] = {},
    !.previous[f].valid = IF u.previous[f] = Fresh THEN @ ELSE valid,
    !.errorMap = IF valid THEN {} ELSE @ \union {f},
    !.invalid = @ \union {f},
    !.messages = IF valid THEN @ \ {f} ELSE @ \union u.errorMap \union {f}]

\* stopRequest, before it looks at formSubmitted.
Stopped(u, f) ==
  [u EXCEPT !.pendingRequest = IF @ > 0 THEN @ - 1 ELSE 0, !.pending = @ \ {f}]

\* The answer leaves others to wait for, or no submit waits.
AnswerOnly(w) ==
  /\ w.pendingRequest > 0 \/ ~w.formSubmitted
  /\ form' = w
  /\ clicked' = (clicked /\ w.errorMap = {})
  /\ UNCHANGED sent

\* The last answer refuses the form that waits.
AnswerRefuses(w, valid) ==
  /\ w.pendingRequest = 0 /\ w.formSubmitted /\ ~valid
  /\ form' = InvalidForm([w EXCEPT !.formSubmitted = FALSE])
  /\ clicked' = FALSE
  /\ UNCHANGED sent

\* The last answer is true: the form is checked again and, when no error is
\* found, submitted through the submit handler, which checks it once more.
AnswerSubmits(w, valid) ==
  /\ w.pendingRequest = 0 /\ w.formSubmitted /\ valid
  /\ \E c \in {Form(w, value)} :
       \/ /\ c.errorMap # {}
          /\ form' = c
          /\ clicked' = FALSE
          /\ UNCHANGED sent
       \/ /\ c.errorMap = {}
          /\ \E d \in {Submitted(c, value)} :
               /\ form' = [d EXCEPT !.formSubmitted = FALSE]
               /\ sent' = IF MaySend(d) THEN {value} ELSE sent
               /\ clicked' = (clicked /\ d.errorMap = {} /\ ~MaySend(d))

Answer(f) ==
  /\ \E data \in form.request[f] :
       LET valid == data \in Accepted[f]
       IN \E w \in {Stopped(Received(form, f, valid), f)} :
            AnswerOnly(w) \/ AnswerRefuses(w, valid) \/ AnswerSubmits(w, valid)
  /\ UNCHANGED <<value, parsed, edits, faults>>

\* A request ends with an error of the network or the server: nothing is
\* called, and the field stays pending.
RequestFails(f) ==
  /\ faults < MaxFaults
  /\ form.request[f] # {}
  /\ form' = [form EXCEPT !.request[f] = {}]
  /\ faults' = faults + 1
  /\ UNCHANGED <<value, parsed, sent, clicked, edits>>

\* onReset, then the browser restores the values.  Requests are not aborted.
Reset ==
  /\ edits < MaxEdits
  /\ form' = [form EXCEPT
       !.previous = [f \in Remote |-> Fresh],
       !.errorMap = {}, !.submitted = {}, !.invalid = {},
       !.messages = {}, !.summary = {}]
  /\ value' = Initial
  /\ edits' = edits + 1
  /\ clicked' = FALSE
  /\ UNCHANGED <<parsed, sent, faults>>

Next ==
  \/ Submit \/ Reset
  \/ \E f \in Fields : Revalidate(f) \/ ParseElement(f) \/ \E v \in Values : Type(f, v)
  \/ \E f \in Remote : Answer(f) \/ RequestFails(f)

Spec == Init /\ [][Next]_vars

\* The server answers the requests that do not fail.
FairSpec == Spec /\ \A f \in Remote : WF_vars(Answer(f))

-----------------------------------------------------------------------------
(* Properties                                                              *)

DataOf(f) == [Sent[f] -> Values]

FormState ==
  [previous : [Remote -> [old : SUBSET UNION {DataOf(f) : f \in Remote}, valid : BOOLEAN]],
   request : [Remote -> SUBSET UNION {DataOf(f) : f \in Remote}],
   pending : SUBSET Remote, pendingRequest : Nat, formSubmitted : BOOLEAN,
   errorMap : SUBSET Fields, submitted : SUBSET Fields, invalid : SUBSET Fields,
   messages : SUBSET Fields, summary : SUBSET Fields]

\* Every variable has its type; one request per field, one verdict kept.
TypeOK ==
  /\ value \in [Fields -> Values]
  /\ parsed \in SUBSET Fields
  /\ form \in FormState
  /\ \A f \in Remote : Cardinality(form.request[f]) <= 1
  /\ sent \in SUBSET [Fields -> Values]
  /\ clicked \in BOOLEAN
  /\ edits \in 0..MaxEdits
  /\ faults \in 0..MaxFaults

\* What the rules of f, the remote one too, say of the values val.
Acceptable(f, val) ==
  /\ val[f] \in LocalOk[f]
  /\ f \in Remote /\ val[f] # Blank => Data(f, val) \in Accepted[f]

\* The form is only sent with values that every rule of the validator accepts,
\* for exactly what was sent, whatever was edited, answered or reset between.
SentWereAccepted == \A val \in sent : \A f \in Enforced : Acceptable(f, val)

\* "Sometimes synchronization fails": pendingRequest is the number of pending
\* fields, so the guard against a negative count never acts, and as long as no
\* request failed each pending field still has the request it waits for.
PendingIsCounted ==
  /\ form.pendingRequest = Cardinality(form.pending)
  /\ \A f \in Remote :
       /\ form.request[f] # {} => f \in form.pending
       /\ faults = 0 /\ f \in form.pending => form.request[f] # {}

\* A submit is not forgotten: when nothing is edited after it and no request
\* fails, the form is sent or an error is shown.
SubmitIsAnswered == clicked /\ edits = MaxEdits ~> ~clicked \/ faults > 0
=============================================================================
