----------------------------- MODULE MCQBRecords -----------------------------
(***************************************************************************)
(* QBRecords for TLC: one client makes a record, one revises a record and  *)
(* one removes one, beside the people at the desk.  The revision gives a   *)
(* list with a number in it and a number alone, says null, and leaves out  *)
(* a tag of which the record has several elements.                         *)
(***************************************************************************)
EXTENDS QBRecords, TLC

CONSTANTS add, revise, remove, seven

MCKind == (add :> "create") @@ (revise :> "update") @@ (remove :> "delete")

MCStr == seven :> "7"

MCWants ==
  (add :> [line |-> List(<<"a", "a">>), group |-> Absent, memo |-> One("a"), rate |-> Absent])
  @@ (revise :> [line |-> Absent, group |-> List(<<"b", seven, "b">>), memo |-> Null,
                 rate |-> One(seven)])
  @@ (remove :> [line |-> Absent, group |-> Absent, memo |-> Absent, rate |-> Absent])

MCContents ==
  {[elems |-> [line |-> <<"a", "b">>, group |-> <<"a">>, memo |-> <<"b">>, rate |-> <<"">>],
    mixed |-> TRUE]}
=============================================================================
