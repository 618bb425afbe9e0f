------------------------------ MODULE MCClientForm ------------------------------
(* The instance of ClientForm for TLC.                                        *)
EXTENDS ClientForm, TLC

CONSTANTS user, mail, extra, good, taken, bad, empty

\* Every input is empty when the page loads.
AllBlank == [f \in Fields |-> empty]

\* No rule but the remote one refuses a value that is not bad.
AllButBad == [f \in Fields |-> Values \ {bad}]

\* The check of the user name sends the mail address along.
UserWithMail == [f \in {user, mail} |-> IF f = user THEN {user, mail} ELSE {mail}]

\* The server refuses what holds a value that is taken.
NothingTaken ==
  [f \in {user, mail} |-> {d \in [UserWithMail[f] -> Values] : \A g \in DOMAIN d : d[g] # taken}]
=============================================================================
