---------------------------- MODULE MCQBSettings ----------------------------
(***************************************************************************)
(* QBSettings for TLC: one field of each kind, and forms that say the same *)
(* thing differently, something else, nothing, and what cannot be read.    *)
(***************************************************************************)
EXTENDS QBSettings, TLC

CONSTANTS A, B

MCFields  == {"company_file", "idle_timeout", "auto_launch"}
MCPage    == <<"idle_timeout", "auto_launch">>
MCKind    == [company_file |-> "text", idle_timeout |-> "int", auto_launch |-> "bool"]
MCSeed    == [company_file |-> "", idle_timeout |-> "600", auto_launch |-> "true"]
MCDefault == [company_file |-> "", idle_timeout |-> "120", auto_launch |-> "false"]
MCTexts   == {"", "600", "45", "soon", "true", "off", "books"}

MCForms ==
  {[idle_timeout |-> "45", auto_launch |-> "off"], [idle_timeout |-> "soon", auto_launch |-> ""]}

Nothing == [f \in Fields |-> NotGiven]
Interchangeable == Permutations(People) \cup Permutations(Saves) \cup Permutations(Passwords)
                   \cup Permutations(Secrets)

MCEnvironments == {Nothing, [Nothing EXCEPT !["idle_timeout"] = "45"]}
===============================================================================
