-------------------------- MODULE MCValidationAdapters --------------------------
(* The instance of ValidationAdapters for TLC.                                *)
EXTENDS ValidationAdapters, TLC

\* The parameters that the annotations of the server give with each adapter.
Emitted ==
  [a \in {"accept", "extension", "regex", "creditcard", "date", "digits", "email", "number",
          "url", "length", "range", "minlength", "maxlength", "equalto", "required", "remote",
          "password", "fileextensions"} |->
     CASE a = "accept" -> {{"mimtype"}}
       [] a = "extension" -> {{"extension"}}
       [] a = "regex" -> {{"pattern"}}
       [] a = "length" -> {{"max"}, {"min", "max"}}
       [] a = "range" -> {{"min", "max"}}
       [] a = "minlength" -> {{"min"}}
       [] a = "maxlength" -> {{"max"}}
       [] a = "equalto" -> {{"other"}}
       [] a = "remote" -> {{"url", "additionalfields"}, {"url", "type", "additionalfields"}}
       [] a = "password" -> SUBSET {"min", "nonalphamin", "regex"}
       [] a = "fileextensions" -> {{"extensions"}}
       [] OTHER -> {{}}]

Kinds == DOMAIN Emitted

\* The adapters that limit a value, of which two may set the same rule.
Limits == {"regex", "length", "range", "minlength", "maxlength", "password", "extension",
           "fileextensions"}

\* The inputs with adapters a, b and c whose tag has these rules.
InputsWith(a, b, c, tags) ==
  {[checkbox |-> box, tag |-> tag, message |-> message,
    given |-> ({a} \X p) \union ({b} \X q) \union ({c} \X r)] :
     box \in IF "required" \in {a, b, c} THEN BOOLEAN ELSE {FALSE},
     tag \in tags,
     message \in [{a, b, c} -> BOOLEAN],
     p \in Emitted[a], q \in IF b = a THEN {{}} ELSE Emitted[b],
     r \in IF c \in {a, b} THEN {{}} ELSE Emitted[c]}

\* Every input with up to two adapters, and no rule of the tag or two of them;
\* or with up to three adapters that are limits.
UpToThree ==
  UNION {InputsWith(a, b, b, {<<>>, <<"required", "maxlength">>}) : a, b \in Kinds}
    \union UNION {InputsWith(a, b, c, {<<>>}) : a, b, c \in Limits}
=============================================================================
