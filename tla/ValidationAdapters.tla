--------------------------- MODULE ValidationAdapters ---------------------------
(***************************************************************************)
(* One input of a form: parseElement of jquery.validate.unobtrusive.js     *)
(* makes rules and messages of its data-val-* attributes, and check of     *)
(* jQuery Validate runs these rules on a value.                            *)
(*                                                                         *)
(* Each adapter that finds its message on the input sets rules; two        *)
(* adapters may set the same rule, and the last one is heard.  rules() of  *)
(* jQuery Validate merges what they set over the rules of the tag itself   *)
(* (its classes and HTML attributes), whose names come first, and check    *)
(* runs the rules one after the other until one does not accept the value. *)
(*                                                                         *)
(* An attribute is a pair <<adapter, parameter>>.  The value of a rule is  *)
(* the set of the attributes it is made of; an attribute that is missing   *)
(* or empty is in no value.                                                *)
(***************************************************************************)
EXTENDS Integers, Sequences, SequencesExt

CONSTANT Elements   \* the inputs to parse

\* An input: message[a], for each adapter a whose message it has, tells if that
\* is empty; given are the adapters' parameters; checkbox tells if it is one;
\* tag are the rules of its classes and HTML attributes, in the order they have.

\* The parameters that the annotations of the server give with an adapter.
Declarable ==
  {<<"accept", "mimtype">>, <<"extension", "extension">>, <<"regex", "pattern">>,
   <<"length", "min">>, <<"length", "max">>, <<"range", "min">>, <<"range", "max">>,
   <<"minlength", "min">>, <<"maxlength", "max">>, <<"equalto", "other">>,
   <<"remote", "url">>, <<"remote", "type">>, <<"remote", "additionalfields">>,
   <<"password", "min">>, <<"password", "nonalphamin">>, <<"password", "regex">>,
   <<"fileextensions", "extensions">>}

\* Those they always give: a rule never has the value undefined, which the
\* merge in rules() would drop, and equalto always names its other input.
AlwaysGiven ==
  {<<"accept", "mimtype">>, <<"extension", "extension">>, <<"regex", "pattern">>,
   <<"equalto", "other">>, <<"remote", "url">>, <<"fileextensions", "extensions">>}

\* The rules that classes and HTML attributes may give; left out is step, whose
\* method throws for some types of input.
TagRules ==
  {"required", "email", "url", "date", "dateISO", "number", "digits", "creditcard",
   "minlength", "maxlength", "min", "max"}

ASSUME ElementsAssumption ==
  \A e \in Elements :
    /\ e.given \subseteq Declarable
    /\ \A attribute \in AlwaysGiven :
         attribute[1] \in DOMAIN e.message => attribute \in e.given
    /\ e.tag \in Seq(TagRules) /\ IsInjective(e.tag)

VARIABLES
  extension, \* does the method extension exist, that is, is additional-methods.js loaded?
  element,   \* the input
  next,      \* the adapter whose turn it is
  order,     \* the names of the rules: those of the tag, then as first set
  rules,     \* rules[r]: the value of rule r
  messages,  \* messages[r]: the adapter whose message rule r has
  value,     \* the value that is checked: none yet, empty or filled
  run,       \* how many rules have accepted it
  outcome    \* how the check ended

parsing == <<extension, element, next, order, rules, messages>>
checking == <<value, run, outcome>>
vars == <<parsing, checking>>

\* What JavaScript makes of an argument that is not given, used as a name.
Undefined == "undefined"

-----------------------------------------------------------------------------
(* Adapters                                                                *)

\* adapters.add: params are the attributes that parseElement extracts.
Adapter(name, kind, params, reads, ruleNames) ==
  [name |-> name, kind |-> kind, params |-> params, reads |-> reads, ruleNames |-> ruleNames]

Or(x, default) == IF x = Undefined THEN default ELSE x

\* adapters.addBool.
Bool(name) == Adapter(name, "bool", {}, <<>>, <<name>>)

\* adapters.addMinMax: extracts the attributes it was given, reads min and max.
MinMax(name, minRule, maxRule, minMaxRule, minAttribute, maxAttribute) ==
  Adapter(name, "minMax", {Or(minAttribute, "min"), Or(maxAttribute, "max")},
          <<"min", "max">>, <<minRule, maxRule, minMaxRule>>)

\* adapters.addSingleVal: extracts "val" by default, reads what it was given.
SingleVal(name, attribute, ruleName) ==
  Adapter(name, "single", {Or(attribute, "val")}, <<attribute>>, <<Or(ruleName, name)>>)

\* Which adapters check file types depends on the version of jQuery Validate.
TypeAdapters ==
  IF extension
    THEN << SingleVal("accept", "mimtype", Undefined),
            SingleVal("extension", "extension", Undefined) >>
    ELSE << SingleVal("extension", "extension", "accept") >>

OtherAdapters ==
  << SingleVal("regex", "pattern", Undefined),
     Bool("creditcard"), Bool("date"), Bool("digits"), Bool("email"), Bool("number"),
     Bool("url"),
     MinMax("length", "minlength", "maxlength", "rangelength", Undefined, Undefined),
     MinMax("range", "min", "max", "range", Undefined, Undefined),
     MinMax("minlength", "minlength", Undefined, Undefined, Undefined, Undefined),
     MinMax("maxlength", "minlength", "maxlength", Undefined, Undefined, Undefined),
     Adapter("equalto", "single", {"other"}, <<"other">>, <<"equalTo">>),
     Adapter("required", "required", {}, <<>>, <<"required">>),
     Adapter("remote", "remote", {"url", "type", "additionalfields"},
             <<"url", "type", "additionalfields">>, <<"remote">>),
     Adapter("password", "each", {"min", "nonalphamin", "regex"},
             <<"min", "nonalphamin", "regex">>, <<"minlength", "nonalphamin", "regex">>),
     Adapter("fileextensions", "single", {"extensions"}, <<"extensions">>, <<"extension">>) >>

\* The adapters of the library, in the order they are added.
Adapters == TypeAdapters \o OtherAdapters

\* The attributes among those named that adapter a was given on input e.
Given(a, e, names) ==
  {<<a.name, p>> : p \in {x \in names \intersect a.params : <<a.name, x>> \in e.given}}

\* The setting of the n-th rule of adapter a, if it has a value.
Setting(a, n, v) ==
  IF v = {} THEN <<>> ELSE <<[rule |-> a.ruleNames[n], value |-> v]>>

\* Mutation of MinMaxSets: with both limits only the first is passed on.
MinMaxSetsFirst(a, min, max) ==
  IF min # {} /\ max # {} THEN Setting(a, 3, min)
  ELSE Setting(a, 1, min) \o Setting(a, 2, max)

MinMaxSets(a, min, max) ==
  IF min # {} /\ max # {} THEN Setting(a, 3, min \union max)
  ELSE Setting(a, 1, min) \o Setting(a, 2, max)

\* adapt: the rules that adapter a sets for input e, in this order.
Adapt(a, e) ==
  LET Read(i) == Given(a, e, {a.reads[i]})
      One(v) == <<[rule |-> a.ruleNames[1], value |-> v]>>
  IN CASE a.kind = "bool" -> One({})
       [] a.kind = "single" -> One(Read(1))
       [] a.kind = "minMax" -> MinMaxSets(a, Read(1), Read(2))
       [] a.kind = "required" -> IF e.checkbox THEN <<>> ELSE One({})
       [] a.kind = "remote" -> One(Read(1) \union Read(2) \union Read(3))
       [] a.kind = "each" ->
            Setting(a, 1, Read(1)) \o Setting(a, 2, Read(2)) \o Setting(a, 3, Read(3))

-----------------------------------------------------------------------------
(* Parsing one input                                                       *)

Init ==
  /\ extension \in BOOLEAN
  /\ element \in Elements
  /\ next = 1
  /\ order = element.tag
  /\ rules = [r \in ToSet(element.tag) |-> {}]
  /\ messages = <<>>
  /\ value = "none" /\ run = 0 /\ outcome = "none"

\* setValidationValues for each of the settings, of which no adapter has more
\* than three; a message that is empty leaves the message that is there.
SetValidationValues(a, settings) ==
  LET names == {settings[i].rule : i \in DOMAIN settings}
      ValueOf(r) == (CHOOSE s \in ToSet(settings) : s.rule = r).value
      New(i) == IF i \in DOMAIN settings /\ settings[i].rule \notin DOMAIN rules
                  THEN <<settings[i].rule>> ELSE <<>>
  IN /\ order' = order \o New(1) \o New(2) \o New(3)
     /\ rules' = [r \in DOMAIN rules \union names |->
                    IF r \in names THEN ValueOf(r) ELSE rules[r]]
     /\ messages' =
          IF element.message[a.name]
            THEN messages
            ELSE [r \in DOMAIN messages \union names |->
                    IF r \in names THEN a.name ELSE messages[r]]

Finds(a) == a.name \in DOMAIN element.message

\* The adapter's message is there, an empty one too.
AdapterSets ==
  /\ next <= Len(Adapters)
  /\ Finds(Adapters[next])
  /\ SetValidationValues(Adapters[next], Adapt(Adapters[next], element))
  /\ next' = next + 1
  /\ UNCHANGED <<extension, element, checking>>

\* The adapter's message is undefined.
AdapterSkips ==
  /\ next <= Len(Adapters)
  /\ ~Finds(Adapters[next])
  /\ next' = next + 1
  /\ UNCHANGED <<extension, element, order, rules, messages, checking>>

\* Every parsed input has the rule __dummy__, which accepts everything.
AddDummy ==
  /\ next = Len(Adapters) + 1
  /\ order' = Append(order, "__dummy__")
  /\ rules' = [r \in DOMAIN rules \union {"__dummy__"} |->
                 IF r = "__dummy__" THEN {} ELSE rules[r]]
  /\ next' = next + 1
  /\ UNCHANGED <<extension, element, messages, checking>>

Parsed == next = Len(Adapters) + 2

-----------------------------------------------------------------------------
(* The order of the rules                                                  *)

\* delete: a name is in the order once.
Without(s, name) == RemoveAt(s, CHOOSE i \in DOMAIN s : s[i] = name)

\* Mutations of RunOrder: the remote rule, or the required rule, runs when its
\* turn comes.
RequiredFirst(s) ==
  IF "required" \in ToSet(s) THEN <<"required">> \o Without(s, "required") ELSE s

RemoteLast(s) ==
  IF "remote" \in ToSet(s) THEN Append(Without(s, "remote"), "remote") ELSE s

\* rules(): required is put in front and remote at the back.
RunOrder(s) ==
  LET front == IF "required" \in ToSet(s)
                 THEN <<"required">> \o Without(s, "required") ELSE s
  IN IF "remote" \in ToSet(s) THEN Append(Without(front, "remote"), "remote") ELSE front

-----------------------------------------------------------------------------
(* Checking a value                                                        *)

\* The methods of jQuery Validate and of the adapters' library; the others come
\* with additional-methods.js.
Methods ==
  {"required", "email", "url", "date", "dateISO", "number", "digits", "minlength",
   "maxlength", "rangelength", "min", "max", "range", "equalTo", "remote", "regex",
   "nonalphamin", "__dummy__"}
    \union IF extension THEN {"accept", "extension", "creditcard"} ELSE {}

\* required and nonalphamin refuse every empty value, equalTo one that differs
\* from the other input's; the other methods ask optional() and accept it.
MayAccept(r) == value = "empty" => r \notin {"required", "nonalphamin"}

MayRefuse(r) ==
  IF value = "empty" THEN r \in {"required", "nonalphamin", "equalTo"}
                     ELSE r \notin {"required", "__dummy__"}

\* The rule whose turn it is, while a check runs.
Turn == RunOrder(order)[run + 1]

Checking == value # "none" /\ outcome = "none"

Runs(r) == Checking /\ run < Len(RunOrder(order)) /\ r = Turn

\* A check of what the input holds now.
BeginCheck ==
  /\ Parsed
  /\ ~Checking
  /\ value' \in {"empty", "filled"}
  /\ run' = 0 /\ outcome' = "none"
  /\ UNCHANGED parsing

\* The method returns true, or a mismatch.  That a mismatch of an input's only
\* rule is no success never matters: every parsed input has __dummy__.
RuleAccepts ==
  /\ \E r \in Methods : Runs(r) /\ MayAccept(r)
  /\ run' = run + 1
  /\ UNCHANGED <<parsing, value, outcome>>

End(how) == outcome' = how /\ UNCHANGED <<parsing, value, run>>

\* The error of the rule is shown and the loop is left.
RuleRefuses == (\E r \in Methods : Runs(r) /\ MayRefuse(r)) /\ End("refused")

\* The remote method sends a request; the answer decides.  Without it the
\* method has accepted or refused by what it was answered for this value.
RemoteAsks == Runs("remote") /\ value = "filled" /\ End("asked")

\* There is no such method: the exception leaves check.
MethodIsMissing == Checking /\ run < Len(RunOrder(order)) /\ Turn \notin Methods /\ End("thrown")

EndCheck == Checking /\ run = Len(RunOrder(order)) /\ End("accepted")

-----------------------------------------------------------------------------
Next ==
  \/ AdapterSets \/ AdapterSkips \/ AddDummy
  \/ BeginCheck \/ RuleAccepts \/ RuleRefuses \/ RemoteAsks \/ MethodIsMissing \/ EndCheck

Spec == Init /\ [][Next]_vars

-----------------------------------------------------------------------------
(* Properties                                                              *)

\* Which adapters may drop a limit that another has set: both set one rule.
Overrides ==
  {<<"minlength", "length">>, <<"maxlength", "length">>, <<"maxlength", "minlength">>,
   <<"password", "length">>, <<"password", "minlength">>, <<"password", "maxlength">>,
   <<"password", "regex">>, <<"fileextensions", "extension">>}

Finding == {i \in DOMAIN Adapters : Finds(Adapters[i])}

\* One adapter makes of the attribute a rule that an adapter of the table sets
\* anew on this input.
SetAnew(attribute) ==
  \E i, j \in Finding :
    /\ <<Adapters[j].name, Adapters[i].name>> \in Overrides
    /\ \E s \in ToSet(Adapt(Adapters[i], element)), t \in ToSet(Adapt(Adapters[j], element)) :
         attribute \in s.value /\ s.rule = t.rule

\* The limits that the page declares: what remote sends is none, and without
\* additional-methods.js mime types are ignored.
Limit(attribute) ==
  /\ attribute \in element.given
  /\ attribute[1] \in DOMAIN element.message
  /\ attribute[1] \notin {"remote"} \union IF extension THEN {} ELSE {"accept"}

\* Every limit that the page declares is in the value of a rule, and refused
\* with the message declared with it when that is not empty, unless an
\* adapter that comes later sets this rule anew.
LimitsEnforced ==
  Parsed => \A attribute \in element.given : Limit(attribute) =>
    \/ SetAnew(attribute)
    \/ \E r \in DOMAIN rules :
         /\ attribute \in rules[r]
         /\ ~element.message[attribute[1]] =>
              r \in DOMAIN messages /\ messages[r] = attribute[1]

\* Rule r has accepted the value, in one turn of the check.
Accepted(r) ==
  \E i \in 1..run : \A j \in 1..run : RunOrder(order)[j] = r <=> j = i

\* A value is accepted, or sent to the server to decide, only after every
\* other rule has accepted it once, and with them every limit that the page
\* declares and no adapter sets anew: whatever adapters and tag made the rules,
\* in whichever order, and although the check stops at the first rule that
\* refuses the value, asks the server or has no method.
AcceptedMeetsLimits ==
  outcome \in {"accepted", "asked"} =>
    /\ \A r \in DOMAIN rules : Accepted(r) \/ (outcome = "asked" /\ r = "remote")
    /\ \A attribute \in element.given : Limit(attribute) =>
         \/ SetAnew(attribute)
         \/ \E r \in DOMAIN rules : attribute \in rules[r] /\ Accepted(r)

\* An empty value of a required input is refused as missing: not by another
\* rule that refuses empty values too, not by the server, and also where a
\* later rule has no method.
EmptyIsMissing ==
  value = "empty" /\ outcome # "none" /\ "required" \in DOMAIN rules =>
    outcome = "refused" /\ Turn = "required"
=============================================================================
