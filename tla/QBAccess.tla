------------------------------- MODULE QBAccess -------------------------------
(***************************************************************************)
(* Who may do what: the permissions of an API key (auth/permissions.py),   *)
(* what each route asks for (api/deps.py), and the addresses the bridge    *)
(* answers (auth/ip_filter.py).                                            *)
(***************************************************************************)
EXTENDS Naturals, Sequences

-----------------------------------------------------------------------------
(* Permissions: a function from some entities, "*" among them or not, to   *)
(* the operations it lists for them.                                       *)

Operations == {"list", "get", "create", "update", "delete"}

SHORTHANDS == [admin  |-> Operations,
               read   |-> {"list", "get"},
               write  |-> {"create", "update", "delete"},
               insert |-> {"create"}]

DEFAULT_PERMISSIONS == [e \in {"*"} |-> {"read"}]

ExpandOperations(ops) ==
  UNION {IF op \in DOMAIN SHORTHANDS THEN SHORTHANDS[op] ELSE {op} : op \in ops}

(* The row of an entity is looked at instead of "*", not besides it. *)
CheckPermission(perms, entity, operation) ==
  LET row == IF entity \in DOMAIN perms THEN entity ELSE "*"
  IN  row \in DOMAIN perms /\ operation \in ExpandOperations(perms[row])

(* The column of a key: nothing, text that is no JSON object, or one.      *)
(* Corrupt permissions deny everything.                                    *)
Unset   == [holds |-> "nothing"]
Corrupt == [holds |-> "garbage"]
Stored(perms) == [holds |-> "object", perms |-> perms]

ParsePermissions(column) ==
  CASE column.holds = "nothing" -> DEFAULT_PERMISSIONS
    [] column.holds = "garbage" -> [e \in {} |-> {}]
    [] column.holds = "object"  -> column.perms

(* What a column lets its key do, of the <<entity, operation>> routes ask  *)
(* require_permission for.                                                 *)
Allows(column, needs) ==
  {need \in needs : CheckPermission(ParsePermissions(column), need[1], need[2])}

-----------------------------------------------------------------------------
(* Addresses, as their bytes: four of IPv4, sixteen of IPv6. *)

Network(bytes, bits) == [bytes |-> bytes, bits |-> bits]

Zeros(n) == [i \in 1..n |-> 0]

PRIVATE_NETWORKS ==
  {Network(<<10, 0, 0, 0>>, 8), Network(<<172, 16, 0, 0>>, 12), Network(<<192, 168, 0, 0>>, 16),
   Network(<<127, 0, 0, 0>>, 8),
   Network(Zeros(15) \o <<1>>, 128),             \* ::1
   Network(<<252>> \o Zeros(15), 7)}             \* fc00::/7

(* Membership compares the whole bytes of the prefix, and then the leading *)
(* bits of the byte it ends in.                                            *)
InNetwork(addr, net) ==
  LET whole == net.bits \div 8
      rest  == 2 ^ (8 - (net.bits % 8))
  IN  /\ Len(addr) = Len(net.bytes)
      /\ \A i \in 1..whole : addr[i] = net.bytes[i]
      /\ (net.bits % 8) # 0 => addr[whole + 1] \div rest = net.bytes[whole + 1] \div rest

(* ::ffff:a.b.c.d, as dual-stack sockets present a.b.c.d *)
Mapped(v4) == Zeros(10) \o <<255, 255>> \o v4

Unwrap(addr) ==
  IF Len(addr) = 16 /\ SubSeq(addr, 1, 12) = Zeros(10) \o <<255, 255>>
    THEN SubSeq(addr, 13, 16)
    ELSE addr

(* Text that is no address is not private. *)
NoAddress == <<>>
IsPrivateIP(addr) == \E net \in PRIVATE_NETWORKS : InNetwork(Unwrap(addr), net)
===============================================================================
