------------------------------- MODULE QBQuery -------------------------------
(***************************************************************************)
(* From the parameters of a list or report request to the elements of the  *)
(* qbXML query (api/strict.py, api/routes/crud.py, api/routes/reports.py,  *)
(* qb/xml_builder.py).                                                     *)
(*                                                                         *)
(* A request names what it asks for, the parameters it gives a value to,   *)
(* and those whose value says nothing: the empty string, but for `active`  *)
(* its default, of which alone the route says that it is none (an empty    *)
(* `active` becomes an empty ActiveStatus).  Its iterator is "none",       *)
(* "Start", or "Held", the id of an earlier answer.                        *)
(***************************************************************************)
EXTENDS Sequences, FiniteSets

CONSTANTS Txns,              \* transactions: entities with a TxnID
          Lists,             \* the other entities
          Reports,
          WithRefNumber,     \* transactions whose query has RefNumberFilter
          WithIterator,      \* entities whose query has the iterator attribute
          WithEntityFilter   \* transactions that filter by EntityFilter

Entities == Txns \cup Lists

ASSUME QueryAssumption ==
  /\ Txns \cap Lists = {} /\ Entities \cap Reports = {}
  /\ WithRefNumber \subseteq Txns /\ WithEntityFilter \subseteq Txns
  /\ WithIterator \subseteq Entities

ListParams == {"name", "entity_name", "active", "modified_after", "from_date", "to_date",
               "max_returned", "iterator_id"}
ReportParams == {"from_date", "to_date", "date_macro", "entity", "basis", "summarize_by",
                 "format"}

Declared(r) == IF r.of \in Reports THEN ReportParams ELSE ListParams
Sent(r)     == r.given \cup r.blank

-----------------------------------------------------------------------------
(* Rejected with a 400 *)

Unknown(r) == Sent(r) \ Declared(r) # {}

TxnOnly == {"from_date", "to_date", "entity_name"}

NotApplicable(r) ==
  \/ r.of \in Txns \ WithRefNumber /\ "name" \in Sent(r)
  \/ r.of \in Txns /\ "active" \in Sent(r)
  \/ r.of \in Lists /\ TxnOnly \cap Sent(r) # {}

IteratorNotSupported(r) == r.iterator # "none" /\ r.of \notin WithIterator

Rejected(r) == Unknown(r) \/ NotApplicable(r) \/ IteratorNotSupported(r)

-----------------------------------------------------------------------------
(* The elements of a query, by the parameter that asks for them.  The two   *)
(* ends of TxnDateRangeFilter and of ReportPeriod are elements of their own.*)
ListElement(e, p) ==
  CASE p = "name"           -> IF e \in Txns THEN "RefNumberFilter" ELSE "NameFilter"
    [] p = "active"         -> "ActiveStatus"
    [] p = "modified_after" -> IF e \in Txns THEN "ModifiedDateRangeFilter"
                               ELSE "FromModifiedDate"
    [] p = "entity_name"    -> IF e \in WithEntityFilter THEN "EntityFilter"
                               ELSE "TimeTrackingEntityFilter"
    [] p = "from_date"      -> "FromTxnDate"
    [] p = "to_date"        -> "ToTxnDate"

Filtering == ListParams \ {"max_returned", "iterator_id"}

BugFilters(r) ==   \* mutant: a range has a beginning
  LET given == IF "from_date" \in r.given THEN r.given ELSE r.given \ {"to_date"}
  IN IF r.iterator = "Held" THEN {} ELSE {ListElement(r.of, p) : p \in given \cap Filtering}

(* A query that continues another has no filters but those of the first.   *)
Filters(r) ==
  IF r.iterator = "Held" THEN {} ELSE {ListElement(r.of, p) : p \in r.given \cap Filtering}

(* The loop that puts the elements of a body in qbXML's order takes those   *)
(* that the body has.                                                      *)
Kept(body, e) == IF e \in body THEN <<e>> ELSE <<>>

FiltersKept(body) ==
  Kept(body, "ActiveStatus") \o Kept(body, "FromModifiedDate") \o Kept(body, "NameFilter")
  \o Kept(body, "ModifiedDateRangeFilter")
  \o Kept(body, "FromTxnDate") \o Kept(body, "ToTxnDate")
  \o Kept(body, "EntityFilter") \o Kept(body, "TimeTrackingEntityFilter")
  \o Kept(body, "RefNumberFilter")

BugOrdered(body) ==   \* mutant: in the order of the dictionary
  FiltersKept(body) \o Kept(body, "MaxReturned")

Ordered(body) == Kept(body, "MaxReturned") \o FiltersKept(body)

ReportElement ==
  [date_macro |-> "ReportDateMacro", from_date |-> "FromReportDate", to_date |-> "ToReportDate",
   entity |-> "ReportEntityFilter", summarize_by |-> "SummarizeColumnsBy",
   basis |-> "ReportBasis"]

(* A macro beats a period, and a period has a beginning. *)
Period(given) ==
  IF "date_macro" \in given THEN {"date_macro"}
  ELSE IF "from_date" \in given THEN {"from_date", "to_date"} \cap given
  ELSE {}

ReportElements(r) ==
  {ReportElement[p] : p \in Period(r.given)
                             \cup (r.given \cap {"entity", "summarize_by", "basis"})}

ReportBody(r) ==
  LET body == ReportElements(r)
  IN  <<"ReportType">> \o Kept(body, "ReportDateMacro")
      \o Kept(body, "FromReportDate") \o Kept(body, "ToReportDate")
      \o Kept(body, "ReportEntityFilter") \o Kept(body, "SummarizeColumnsBy")
      \o Kept(body, "ReportBasis")

Query(r) ==
  IF r.of \in Reports
    THEN [body |-> ReportBody(r), iterator |-> "none"]
    ELSE [body |-> Ordered({"MaxReturned"} \cup Filters(r)),
          iterator |-> IF r.iterator = "Held" THEN "Continue" ELSE r.iterator]
===============================================================================
