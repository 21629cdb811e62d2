------------------------------- MODULE MCQBKeys -------------------------------
(***************************************************************************)
(* QBKeys for TLC: the presets of the command line, and calls that present *)
(* the key they are named after.  What a column grants is what QBAccess    *)
(* makes of it; QBAccess is compared here with what its source's docs and  *)
(* tests say.                                                              *)
(***************************************************************************)
EXTENDS QBKeys, QBAccess

CONSTANTS k1, k2, list, create

(* {"*": [...]} *)
Preset(ops) == Stored([e \in {"*"} |-> ops])

MCAdmin  == Preset({"admin"})
MCRead   == Preset({"read"})
MCPerms  == {MCAdmin, MCRead, Preset({"read", "write"})}
MCOps    == {<<"Customer", "list">>, <<"Customer", "create">>}
MCGrants == [p \in Perms |-> IF p = MCRead THEN {<<"Customer", "list">>} ELSE Ops]

ASSUME GrantsByPermissions == \A p \in Perms : Grants[p] = Allows(p, Ops)

MCKeyOf  == [c \in Calls |-> k1]
MCOp     == [c \in Calls |-> <<"Customer", IF c = list THEN "list" ELSE "create">>]

-----------------------------------------------------------------------------
(* The examples at the top of permissions.py, over every operation of two  *)
(* entities and of reports.                                                *)
Needs == {"Customer", "Invoice", "Report"} \X Operations

Reading == {"list", "get"}

ASSUME PermissionsAsDocumented ==
  /\ Allows(MCAdmin, Needs) = Needs
  /\ Allows(MCRead, Needs) = {"Customer", "Invoice", "Report"} \X Reading
  /\ Allows(Stored([e \in {"*", "Customer"} |->
                      IF e = "*" THEN {"read"} ELSE {"read", "write"}]), Needs)
       = Allows(MCRead, Needs) \cup {"Customer"} \X Operations
  /\ Allows(Stored([Invoice |-> {"read", "insert"}, Report |-> {"read"}]), Needs)
       = {"Invoice"} \X (Reading \cup {"create"}) \cup {"Report"} \X Reading
  /\ Allows(Unset, Needs) = Allows(MCRead, Needs)
  /\ Allows(Corrupt, Needs) = {}

(* An entity's own row takes the place of "*", for better or worse, and    *)
(* says nothing of the other entities.                                     *)
ASSUME RowsAreTheirOwn ==
  \A all, own \in SUBSET (DOMAIN SHORTHANDS \cup {"update"}) :
    LET both == Stored([e \in {"*", "Customer"} |-> IF e = "*" THEN all ELSE own])
    IN  Allows(both, Needs) =
          {n \in Needs : n[2] \in ExpandOperations(IF n[1] = "Customer" THEN own ELSE all)}

(* RFC 1918 and loopback, at and around every boundary, and their IPv4-    *)
(* mapped forms.                                                           *)
ASSUME PrivateAsDocumented ==
  /\ \A a \in {0, 9, 10, 11, 126, 127, 128, 171, 172, 173, 191, 192, 193, 255},
        b \in {0, 1, 15, 16, 17, 31, 32, 167, 168, 169, 255} :
       LET private == \/ a \in {10, 127}
                      \/ a = 172 /\ b \in 16..31
                      \/ a = 192 /\ b = 168
       IN  /\ IsPrivateIP(<<a, b, 1, 1>>) = private
           /\ IsPrivateIP(Mapped(<<a, b, 1, 1>>)) = private
  /\ IsPrivateIP(Zeros(15) \o <<1>>) /\ ~IsPrivateIP(Zeros(16))
  /\ \A a \in {251, 252, 253, 254} : IsPrivateIP(<<a>> \o Zeros(15)) = (a \in {252, 253})
  /\ ~IsPrivateIP(NoAddress)
===============================================================================
