------------------------------ MODULE QBListing ------------------------------
(***************************************************************************)
(* What a client that lists an entity page by page is promised: one walk   *)
(* through the records of the company file, whatever fails meanwhile.      *)
(* QBPages implements this module: of sessions, cursors, attempts and      *)
(* queries that were made again it knows nothing.                          *)
(***************************************************************************)
EXTENDS Naturals, Sequences

CONSTANTS Clients,
          Size          \* how many records the company file holds

VARIABLES
  got,        \* client: the records of the pages since it said Start
  remaining   \* client: meta.remaining of the last of them

vars == <<got, remaining>>

Init ==
  /\ got = [c \in Clients |-> <<>>]
  /\ remaining = [c \in Clients |-> 0]

(* c has the first n records then, and is told how many are left. *)
Has(c, n) ==
  /\ got' = [got EXCEPT ![c] = [i \in 1..n |-> i]]
  /\ remaining' = [remaining EXCEPT ![c] = Size - n]

(* A page is not empty unless there is nothing to list. *)
FirstPage(c) == \E n \in 0..Size : (n = 0 => Size = 0) /\ Has(c, n)

NextPage(c) ==
  /\ got[c] # <<>> /\ remaining[c] > 0
  /\ \E n \in (Len(got[c]) + 1)..Size : Has(c, n)

Next == \E c \in Clients : FirstPage(c) \/ NextPage(c)

Spec == Init /\ [][Next]_vars
===============================================================================
