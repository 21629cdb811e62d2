------------------------------- MODULE QBPages -------------------------------
(***************************************************************************)
(* Clients that list entities page by page, over the retries of the        *)
(* session manager and the iterators of QuickBooks (api/routes/crud.py,    *)
(* qb/session.py, qb/worker.py, qb/xml_parser.py).                         *)
(*                                                                         *)
(* An iterator lives in the COM session that opened it and moves on with   *)
(* every query that continues it.  The routes call such a query idempotent *)
(* all the same, and execute repeats it when an attempt fails.  An attempt *)
(* is one action, for it holds the manager's lock (OneExchange of          *)
(* QBSession); other clients come between attempts.                        *)
(***************************************************************************)
EXTENDS QBQuery, Naturals

CONSTANTS Clients,
          Requests,     \* by client: the requests it may send
          MaxAttempts,  \* max_attempts
          Size          \* how many records of each entity the company file holds

AllRequests == [of : Entities \cup Reports, given : SUBSET STRING, blank : SUBSET STRING,
                iterator : {"none", "Start", "Held"}, page : Nat \ {0}]

ASSUME PagesAssumption ==
  /\ MaxAttempts \in Nat \ {0} /\ Size \in Nat
  /\ \A c \in Clients : Requests[c] \subseteq AllRequests

VARIABLES
  open,       \* the worker has a COM session
  cursor,     \* QuickBooks: where the iterator is whose id a client holds
  pc,         \* where each client's request is
  req,        \* what it asks for
  attempt,    \* how often the query made of it has been sent
  got,        \* client: the records of the pages since it said Start
  remaining   \* client: meta.remaining of the last of them

vars == <<open, cursor, pc, req, attempt, got, remaining>>

NoCursor == [of |-> "none", at |-> 0]
Idle     == {"new", "rejected", "ok", "error", "unavailable"}

NoRequest == [of |-> "none", given |-> {}, blank |-> {}, iterator |-> "none", page |-> 1]

TypeOK ==
  /\ open \in BOOLEAN
  /\ cursor \in [Clients -> [of : WithIterator, at : 0..Size] \cup {NoCursor}]
  /\ pc \in [Clients -> Idle \cup {"trying"}]
  /\ attempt \in [Clients -> 0..MaxAttempts]
  /\ got \in [Clients -> Seq(1..Size)]
  /\ remaining \in [Clients -> 0..Size]
  /\ req \in [Clients -> AllRequests \cup {NoRequest}]
  /\ \A c \in Clients : pc[c] = "trying" => req[c] \in AllRequests /\ ~Rejected(req[c])

Init ==
  /\ open = FALSE
  /\ cursor = [c \in Clients |-> NoCursor]
  /\ pc = [c \in Clients |-> "new"]
  /\ req = [c \in Clients |-> NoRequest]
  /\ attempt = [c \in Clients |-> 0]
  /\ got = [c \in Clients |-> <<>>]
  /\ remaining = [c \in Clients |-> 0]

-----------------------------------------------------------------------------
(* The route, up to execute *)

Asks(c, r) ==
  /\ pc[c] \in Idle
  /\ r.iterator = "Held" => got[c] # <<>>    \* an id it was given
  /\ IF Rejected(r)
       THEN /\ pc' = [pc EXCEPT ![c] = "rejected"]
            /\ UNCHANGED <<req, attempt>>
       ELSE /\ pc' = [pc EXCEPT ![c] = "trying"]
            /\ req' = [req EXCEPT ![c] = r]
            /\ attempt' = [attempt EXCEPT ![c] = 1]
  /\ UNCHANGED <<open, cursor, got, remaining>>

(* The request is over; what was asked does not matter any more. *)
Ends(c, how) ==
  /\ pc' = [pc EXCEPT ![c] = how]
  /\ req' = [req EXCEPT ![c] = NoRequest]
  /\ attempt' = [attempt EXCEPT ![c] = 0]

BugRetries(c, transient) ==   \* mutant: one attempt too many
  IF transient /\ attempt[c] <= MaxAttempts
    THEN attempt' = [attempt EXCEPT ![c] = @ + 1] /\ UNCHANGED <<pc, req>>
    ELSE Ends(c, IF transient THEN "unavailable" ELSE "error")

(* A transient fault of a query is retried while there are attempts left.  *)
Retries(c, transient) ==
  IF transient /\ attempt[c] < MaxAttempts
    THEN attempt' = [attempt EXCEPT ![c] = @ + 1] /\ UNCHANGED <<pc, req>>
    ELSE Ends(c, IF transient THEN "unavailable" ELSE "error")

-----------------------------------------------------------------------------
(* QuickBooks *)

Continues(c) == Query(req[c]).iterator = "Continue"
Pages(c)     == Query(req[c]).iterator # "none"
Known(c)     == cursor[c] # NoCursor /\ cursor[c].of = req[c].of

From(c) == IF Continues(c) THEN cursor[c].at ELSE 0
Upto(c) == IF From(c) + req[c].page < Size THEN From(c) + req[c].page ELSE Size
Page(c) == [i \in 1..(Upto(c) - From(c)) |-> From(c) + i]

(* The iterators after c's query; one that has nothing left is closed. *)
Moved(c) ==
  IF ~Pages(c) THEN cursor
  ELSE [cursor EXCEPT ![c] = IF Upto(c) = Size THEN NoCursor
                             ELSE [of |-> req[c].of, at |-> Upto(c)]]

Understood(c) == Continues(c) => Known(c)

-----------------------------------------------------------------------------
(* An attempt *)

ConnectFails(c, transient) ==
  /\ pc[c] = "trying" /\ ~open
  /\ Retries(c, transient)
  /\ UNCHANGED <<open, cursor, got, remaining>>

(* The route's answer: the page, or the error that its status says.  A      *)
(* client that starts anew forgets the pages it had.                       *)
Answers(c) ==
  /\ pc[c] = "trying"
  /\ open' = TRUE
  /\ Understood(c)
  /\ cursor' = Moved(c)
  /\ Ends(c, "ok")
  /\ IF Pages(c)
       THEN /\ got' = [got EXCEPT ![c] = IF Continues(c) THEN @ \o Page(c) ELSE Page(c)]
            /\ remaining' = [remaining EXCEPT ![c] = Size - Upto(c)]
       ELSE UNCHANGED <<got, remaining>>

Refuses(c) ==
  /\ pc[c] = "trying"
  /\ open' = TRUE
  /\ ~Understood(c)
  /\ Ends(c, "error")
  /\ UNCHANGED <<cursor, got, remaining>>

(* The worker closes its session after a failure, and is killed after a    *)
(* timeout or dead otherwise, whatever QuickBooks has made of the query.    *)
BugCloses(cursors) == open' = TRUE /\ cursor' = cursors   \* mutant: the session stays

Closes(cursors) == open' = FALSE /\ cursor' = [c \in Clients |-> NoCursor]

RequestFails(c, transient) ==
  /\ pc[c] = "trying"
  /\ \E seen \in BOOLEAN :
       Closes(IF seen /\ Understood(c) THEN Moved(c) ELSE cursor)
  /\ Retries(c, transient)
  /\ UNCHANGED <<got, remaining>>

(* The idle monitor, or a request that is not modelled. *)
SessionEnds ==
  /\ open
  /\ Closes(cursor)
  /\ UNCHANGED <<pc, req, attempt, got, remaining>>

-----------------------------------------------------------------------------
Next ==
  \/ SessionEnds
  \/ \E c \in Clients :
       \/ \E r \in Requests[c] : Asks(c, r)
       \/ Answers(c) \/ Refuses(c)
       \/ \E transient \in BOOLEAN : ConnectFails(c, transient) \/ RequestFails(c, transient)

Spec == Init /\ [][Next]_vars

-----------------------------------------------------------------------------
(* The pages a client gets are those of one walk through the records, none  *)
(* twice and none left out, through failures and repeated queries; what is *)
(* said to remain does, and a later page is never empty.                   *)
Listing == INSTANCE QBListing

ImplementsListing == Listing!Spec

(* In each state then: a client has the records from the first on, and none *)
(* remaining means that it has them all.                                   *)
PagesInOrder ==
  \A c \in Clients :
    /\ \A i \in DOMAIN got[c] : got[c][i] = i
    /\ got[c] # <<>> => remaining[c] = Size - Len(got[c])

(* An iterator that QuickBooks goes on with is where its client's pages end, *)
(* and has something left.                                                 *)
CursorInv ==
  \A c \in Clients :
    cursor[c] # NoCursor => cursor[c].at = Len(got[c]) /\ cursor[c].at \in 1..(Size - 1)

Body(c)     == Query(req[c]).body
Elements(c) == {Body(c)[i] : i \in DOMAIN Body(c)}
Sends(c, e) == e \in Elements(c)

(* A first page is filtered by just what was asked: of the parameters that *)
(* were not rejected none is dropped, whatever else is asked for, and      *)
(* nothing else gets in.  (`active` on a transaction is rejected, as       *)
(* src/README.md:62 says, and not "ignored", as src/README.md:54 and the   *)
(* description in crud.py:64 do.)                                          *)
FirstPageFiltered ==
  \A c \in Clients :
    pc[c] = "trying" /\ req[c].of \in Entities /\ ~Continues(c) =>
      Elements(c) = {"MaxReturned"}
                    \cup {ListElement(req[c].of, p) : p \in req[c].given \cap Filtering}

(* What the README says of parameters (src/README.md:62): none that was      *)
(* accepted is ignored, neither on a later page nor in a report.           *)
NoParameterIgnored ==
  \A c \in Clients :
    pc[c] = "trying" =>
      IF req[c].of \in Reports
        THEN \A p \in req[c].given \cap DOMAIN ReportElement : Sends(c, ReportElement[p])
        ELSE \A p \in req[c].given \cap Filtering : Sends(c, ListElement(req[c].of, p))

(* What qbXML's schema says of a query: the size of the page comes first,  *)
(* then the filters of the entity's kind, each at most once and in order,  *)
(* and of the two filters by date a transaction has one (QuickBooks' OSR;  *)
(* crud.py and xml_builder.py name parts of it).                           *)
Schema(e) ==
  IF e \in Lists THEN <<"MaxReturned", "ActiveStatus", "FromModifiedDate", "NameFilter">>
  ELSE <<"MaxReturned", "ModifiedDateRangeFilter", "FromTxnDate", "ToTxnDate",
         IF e \in WithEntityFilter THEN "EntityFilter" ELSE "TimeTrackingEntityFilter">>
       \o (IF e \in WithRefNumber THEN <<"RefNumberFilter">> ELSE <<>>)

InSchemaOrder(c) ==
  LET schema == Schema(req[c].of)
      Place(e) == CHOOSE i \in DOMAIN schema : schema[i] = e
      body == Body(c)
  IN /\ \A i \in DOMAIN body : \E j \in DOMAIN schema : schema[j] = body[i]
     /\ \A i, j \in DOMAIN body : i < j => Place(body[i]) < Place(body[j])

HasOneDateFilter(c) ==
  ~ (Sends(c, "ModifiedDateRangeFilter") /\ (Sends(c, "FromTxnDate") \/ Sends(c, "ToTxnDate")))

FitsSchema(c) == InSchemaOrder(c) /\ HasOneDateFilter(c)

(* "Re-order to satisfy the qbXML DTD" (xml_builder.py): it does, and the  *)
(* query fits, but where a first page asks for records of a time of change *)
(* and of a date at once: crud.py:183-206 sends both filters.              *)
AsksForBothDates(r) == /\ r.of \in Txns /\ r.iterator # "Held"
                       /\ "modified_after" \in r.given
                       /\ {"from_date", "to_date"} \cap r.given # {}

FitsUnlessBothDates ==
  \A c \in Clients :
    pc[c] = "trying" /\ req[c].of \in Entities =>
      InSchemaOrder(c) /\ (FitsSchema(c) <=> ~AsksForBothDates(req[c]))
===============================================================================
