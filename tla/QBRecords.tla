------------------------------ MODULE QBRecords ------------------------------
(***************************************************************************)
(* The records of the company file as clients change them: the get, create,*)
(* update and delete routes (api/routes/crud.py), what they make of a body *)
(* and of an answer (qb/xml_builder.py, qb/xml_parser.py), and QuickBooks, *)
(* which gives each version of a record an EditSequence and refuses a Mod  *)
(* that was made from another.                                             *)
(*                                                                         *)
(* An intent is a change some client wants made once.  Of its calls of     *)
(* execute only what QBService promises is used, which QBSession           *)
(* implements: an answer comes after the request was applied or refused, an*)
(* "unavailable" request never is, one that ended in an error may still be.*)
(***************************************************************************)
EXTENDS Naturals, Sequences, FiniteSets

CONSTANTS Intents,
          Kind,       \* create, update or delete
          Wants,      \* the fields an intent gives values, as a JSON object
          Ids, Old,   \* records there can be, and there are at first
          Tags, Texts,
          EmptyText,  \* the text of an element that has none
          Scalars,    \* JSON values that are no strings and no objects
          Str,        \* str() of each
          Contents,   \* what people at the desk make of a record
          MaxTries,   \* how often a client sends one request
          MaxSeq,     \* bound on the edits at the desk
          NoId

-----------------------------------------------------------------------------
(* A record is, for each tag, the elements with that tag in their order,   *)
(* and whether elements of different tags alternate (an element with       *)
(* children counts as one text).  A JSON object has for each tag one value,*)
(* a list of values, null, or is without it, and no order among its tags.  *)
Content == [elems : [Tags -> Seq(Texts)], mixed : BOOLEAN]

JsonValue == [shape : {"one", "list", "null", "absent"}, items : Seq(Texts \cup Scalars)]
Json == [Tags -> JsonValue]

One(v)  == [shape |-> "one", items |-> <<v>>]
List(s) == [shape |-> "list", items |-> s]
Null    == [shape |-> "null", items |-> <<>>]
Absent  == [shape |-> "absent", items |-> <<>>]

Gives(value) == value.shape \in {"one", "list"} /\ value.items # <<>>

BugElemToDictKeepsLast(c) ==
  [t \in Tags |-> IF c.elems[t] = <<>> THEN Absent ELSE One(c.elems[t][Len(c.elems[t])])]

(* _elem_to_dict: tags that are repeated become lists; where one of their  *)
(* elements stood among those of other tags is lost.                       *)
ElemToDict(c) ==
  [t \in Tags |-> IF c.elems[t] = <<>> THEN Absent
                  ELSE IF Len(c.elems[t]) = 1 THEN One(Head(c.elems[t]))
                  ELSE List(c.elems[t])]

(* _dict_to_xml: an element for each item of a list, tag by tag, none for  *)
(* null.  A single value is written by str(); an item that is no string    *)
(* (nor an object) leaves its element empty.                               *)
Written(value) ==
  [k \in 1..Len(value.items) |->
     IF value.items[k] \in Texts THEN value.items[k]
     ELSE IF value.shape = "one" THEN Str[value.items[k]]
     ELSE EmptyText]
DictToXml(dict) ==
  [elems |-> [t \in Tags |-> IF Gives(dict[t]) THEN Written(dict[t]) ELSE <<>>],
   mixed |-> FALSE]

Nothing == [elems |-> [t \in Tags |-> <<>>], mixed |-> FALSE]

-----------------------------------------------------------------------------
ASSUME RecordsAssumption ==
  /\ Kind \in [Intents -> {"create", "update", "delete"}]
  /\ Wants \in [Intents -> Json]
  /\ EmptyText \in Texts /\ Str \in [Scalars -> Texts]
  /\ Contents \subseteq Content
  /\ MaxTries \in Nat \ {0} /\ MaxSeq \in Nat
  /\ Old \subseteq Ids /\ IsFiniteSet(Ids) /\ NoId \notin Ids

VARIABLES
  store,    \* QuickBooks: each record, or whether it is not yet or no more
  clock,    \* the EditSequence of the next change
  pc,       \* how far each intent is, and how it ended
  base,     \* the version of a record its client has
  req,      \* the request it sends
  tries,    \* how often it has
  reply,    \* what QuickBooks answered, or the last record it got
  late,     \* requests that ended in an error and may still be applied
  effects   \* how often QuickBooks has made the change

vars == <<store, clock, pc, base, req, tries, reply, late, effects>>

Live(seq, c) == [is |-> "live", seq |-> seq, content |-> c]
Never   == [is |-> "never"]
Deleted == [is |-> "deleted"]

Exists(id) == store[id].is = "live"

NoVersion == [id |-> NoId]
Version(id, rec) == [id |-> id, seq |-> rec.seq, fields |-> ElemToDict(rec.content)]

NoRequest == [id |-> NoId]
Refusal   == [statusSeverity |-> "Error"]

Final == {"ok", "refused", "bad", "missing"}
Steps == {"new", "read", "pending", "answered", "error", "unavailable"} \cup Final

Versions == [id : Ids, seq : Nat, fields : Json]

TypeOK ==
  /\ store \in [Ids -> [is : {"live"}, seq : Nat, content : Content] \cup {Never, Deleted}]
  /\ clock \in Nat
  /\ pc \in [Intents -> Steps]
  /\ base \in [Intents -> Versions \cup {NoVersion}]
  /\ req \in [Intents -> [id : Ids \cup {NoId}, seq : Nat, body : Content] \cup {NoRequest}]
  /\ tries \in [Intents -> 0..MaxTries]
  /\ reply \in [Intents -> Versions \cup {NoVersion, Refusal}]
  /\ late \in [Intents -> Nat]
  /\ effects \in [Intents -> Nat]

(* Each record was last changed at a time of its own. *)
Init ==
  /\ \E c \in [Old -> Contents], at \in [Old -> 1..Cardinality(Old)] :
       /\ \A x, y \in Old : x # y => at[x] # at[y]
       /\ store = [x \in Ids |-> IF x \in Old THEN Live(at[x], c[x]) ELSE Never]
  /\ clock = Cardinality(Old) + 1
  /\ pc = [i \in Intents |-> "new"]
  /\ base = [i \in Intents |-> NoVersion]
  /\ req = [i \in Intents |-> NoRequest]
  /\ tries = [i \in Intents |-> 0]
  /\ reply = [i \in Intents |-> NoVersion]
  /\ late = [i \in Intents |-> 0]
  /\ effects = [i \in Intents |-> 0]

Goes(i, from, to) == pc[i] \in from /\ pc' = [pc EXCEPT ![i] = to]

Sends(i, r) == /\ req' = [req EXCEPT ![i] = r]
               /\ tries' = [tries EXCEPT ![i] = 1]

-----------------------------------------------------------------------------
(* Clients and routes *)

(* GET by id, which execute repeats until it has an answer: a record, or   *)
(* no element, for which the route answers 404.                            *)
Gets(i, id) ==
  /\ Kind[i] = "update"
  /\ IF Exists(id)
       THEN /\ Goes(i, {"new"}, "read")
            /\ base' = [base EXCEPT ![i] = Version(id, store[id])]
       ELSE Goes(i, {"new"}, "missing") /\ UNCHANGED base
  /\ UNCHANGED <<store, clock, req, tries, reply, late, effects>>

(* A client goes on from the record an earlier change of its returned. *)
GoesOn(i, j) ==
  /\ Kind[i] = "update" /\ Kind[j] # "delete"
  /\ pc[j] = "ok"
  /\ Goes(i, {"new"}, "read")
  /\ base' = [base EXCEPT ![i] = reply[j]]
  /\ UNCHANGED <<store, clock, req, tries, reply, late, effects>>

(* POST.  QuickBooks will choose the id. *)
Posts(i) ==
  /\ Kind[i] = "create"
  /\ Goes(i, {"new"}, "pending")
  /\ Sends(i, [id |-> NoId, seq |-> 0, body |-> DictToXml(Wants[i])])
  /\ UNCHANGED <<store, clock, base, reply, late, effects>>

(* The body of a PUT: only the fields to change, or the record as it was   *)
(* read with those fields changed, its id among them; with or without the  *)
(* EditSequence of what was read.                                          *)
Patch(i) == [id |-> NoId, fields |-> Wants[i]]
Whole(i) == [id |-> base[i].id,
             fields |-> [t \in Tags |-> IF Wants[i][t].shape # "absent" THEN Wants[i][t]
                                         ELSE base[i].fields[t]]]

BugModDataRefreshed(i, path, body) ==
  [id |-> path, seq |-> IF Exists(path) THEN store[path].seq ELSE base[i].seq,
   body |-> DictToXml(body.fields)]

(* mod_data.update(body): an id in the body replaces that of the path. *)
ModData(i, path, body) ==
  [id |-> IF body.id = NoId THEN path ELSE body.id, seq |-> base[i].seq,
   body |-> DictToXml(body.fields)]

BugPutsAnything(i, path) ==
  /\ Kind[i] = "update"
  /\ Goes(i, {"read"}, "pending")
  /\ \E versioned \in BOOLEAN, body \in {Patch(i), Whole(i)} :
       Sends(i, IF versioned THEN ModData(i, path, body)
                ELSE [ModData(i, path, body) EXCEPT !.seq = NoId])
  /\ UNCHANGED <<store, clock, base, reply, late, effects>>

Puts(i, path) ==
  /\ Kind[i] = "update"
  /\ \/ /\ Goes(i, {"read"}, "bad")          \* MISSING_EDIT_SEQUENCE
        /\ UNCHANGED <<req, tries>>
     \/ /\ Goes(i, {"read"}, "pending")
        /\ \E body \in {Patch(i), Whole(i)} : Sends(i, ModData(i, path, body))
  /\ UNCHANGED <<store, clock, base, reply, late, effects>>

(* DELETE names no version. *)
Deletes(i, id) ==
  /\ Kind[i] = "delete"
  /\ Goes(i, {"new"}, "pending")
  /\ Sends(i, [id |-> id, seq |-> 0, body |-> Nothing])
  /\ UNCHANGED <<store, clock, base, reply, late, effects>>

(* A client may send a request again: a create only after an answer that   *)
(* says that it was not seen, the others after an error too.               *)
Repeats(i) ==
  /\ Goes(i, IF Kind[i] = "create" THEN {"unavailable"} ELSE {"unavailable", "error"}, "pending")
  /\ tries[i] < MaxTries
  /\ tries' = [tries EXCEPT ![i] = @ + 1]
  /\ UNCHANGED <<store, clock, base, req, reply, late, effects>>

-----------------------------------------------------------------------------
(* QuickBooks *)

(* Whether it can make the change to a record: it refuses a Mod made from  *)
(* another version, and a Mod or Del of a record there is not.             *)
Accepts(i, id) ==
  CASE Kind[i] = "create" -> store[id] = Never
    [] Kind[i] = "update" -> id = req[i].id /\ Exists(id) /\ store[id].seq = req[i].seq
    [] Kind[i] = "delete" -> id = req[i].id /\ Exists(id)

(* A Mod replaces the elements of the tags it has; they stand as it has    *)
(* them.                                                                   *)
Modified(old, new) ==
  [elems |-> [t \in Tags |-> IF new.elems[t] = <<>> THEN old.elems[t] ELSE new.elems[t]],
   mixed |-> IF \E t \in Tags : Len(new.elems[t]) > 1 THEN new.mixed ELSE old.mixed]

Result(i, id) ==
  CASE Kind[i] = "create" -> Live(clock, req[i].body)
    [] Kind[i] = "update" -> Live(clock, Modified(store[id].content, req[i].body))
    [] Kind[i] = "delete" -> Deleted

Takes(i, id) ==
  /\ Accepts(i, id)
  /\ store' = [store EXCEPT ![id] = Result(i, id)]
  /\ clock' = clock + 1
  /\ effects' = [effects EXCEPT ![i] = @ + 1]

Applies(i, id) ==
  /\ Goes(i, {"pending"}, "answered")
  /\ Takes(i, id)
  /\ reply' = [reply EXCEPT ![i] = IF Kind[i] = "delete" THEN NoVersion
                                   ELSE Version(id, Result(i, id))]
  /\ UNCHANGED <<base, req, tries, late>>

(* ... because it must, or because it does not like a value. *)
Refuses(i) ==
  /\ Goes(i, {"pending"}, "answered")
  /\ reply' = [reply EXCEPT ![i] = Refusal]
  /\ UNCHANGED <<store, clock, base, req, tries, late, effects>>

LateApplies(i, id) ==
  /\ late[i] > 0
  /\ Takes(i, id)
  /\ late' = [late EXCEPT ![i] = @ - 1]
  /\ UNCHANGED <<pc, base, req, tries, reply>>

LateDrops(i) ==
  /\ late[i] > 0
  /\ late' = [late EXCEPT ![i] = @ - 1]
  /\ UNCHANGED <<store, clock, pc, base, req, tries, reply, effects>>

PersonEdits(id) ==
  /\ Exists(id)
  /\ clock < MaxSeq
  /\ \E c \in Contents : store' = [store EXCEPT ![id] = Live(clock, c)]
  /\ clock' = clock + 1
  /\ UNCHANGED <<pc, base, req, tries, reply, late, effects>>

-----------------------------------------------------------------------------
(* How a call ends *)

BugErrorsPass(r) == FALSE

(* _raise_on_error_status *)
IsError(r) == r = Refusal

Answers(i) ==
  /\ Goes(i, {"answered"}, IF IsError(reply[i]) THEN "refused" ELSE "ok")
  /\ UNCHANGED <<store, clock, base, req, tries, reply, late, effects>>

(* An error that is not the answer: QuickBooks may be at it still, if it   *)
(* was not done.                                                           *)
Fails(i) ==
  /\ Goes(i, {"pending", "answered"}, "error")
  /\ late' = IF pc[i] = "pending" THEN [late EXCEPT ![i] = @ + 1] ELSE late
  /\ UNCHANGED <<store, clock, base, req, tries, reply, effects>>

GivesUp(i) ==
  /\ Goes(i, {"pending"}, "unavailable")
  /\ UNCHANGED <<store, clock, base, req, tries, reply, late, effects>>

-----------------------------------------------------------------------------
(* Nothing is under way, and nobody has to want more. *)
Ended ==
  /\ \A i \in Intents : late[i] = 0 /\ pc[i] \notin {"pending", "answered"}
  /\ UNCHANGED vars

Next ==
  \/ \E i \in Intents :
       \/ Posts(i) \/ Repeats(i) \/ Answers(i) \/ Fails(i) \/ GivesUp(i)
       \/ Refuses(i) \/ LateDrops(i)
       \/ \E j \in Intents : GoesOn(i, j)
       \/ \E id \in Ids : \/ Gets(i, id) \/ Puts(i, id) \/ Deletes(i, id)
                           \/ Applies(i, id) \/ LateApplies(i, id)
  \/ \E id \in Ids : PersonEdits(id)
  \/ Ended

Spec == Init /\ [][Next]_vars
-----------------------------------------------------------------------------
(* What must hold *)

(* What a client is told is true, over repeats and late answers: a change  *)
(* is made at most once, one that returned has been made, and one that was *)
(* refused, or not accepted, at the first try has not (crud.py with        *)
(* check_status and parse_response of xml_parser.py).                      *)
OutcomeTrue ==
  \A i \in Intents :
    /\ effects[i] <= 1
    /\ pc[i] = "ok" => effects[i] = 1
    /\ pc[i] \in {"refused", "bad", "missing", "unavailable"} /\ tries[i] <= 1 => effects[i] = 0

(* An update changes the record its client has read, and only as long as   *)
(* nobody else has changed it, whatever id path and body name: the         *)
(* EditSequence that update_entity demands and passes on.                  *)
NoLostUpdate ==
  [][\A i \in Intents :
       Kind[i] = "update" /\ effects'[i] # effects[i] =>
         /\ Exists(base[i].id) /\ store[base[i].id].seq = base[i].seq
         /\ \A id \in Ids \ {base[i].id} : store'[id] = store[id]]_vars

(* An update gives the fields it has values for these values and leaves    *)
(* every other field as it was, be it sent back or left out: what          *)
(* _elem_to_dict makes of repeated elements _dict_to_xml makes good.  But  *)
(* of a list it gives only the strings and objects: any other item comes   *)
(* out empty (xml_builder.py:78-82, 89-90).                                *)
AppliedAsAsked ==
  [][\A i \in Intents :
       Kind[i] = "update" /\ effects'[i] # effects[i] =>
         \A t \in Tags :
           LET field == store'[base[i].id].content.elems[t]
               want  == Wants[i][t]
           IN  IF Gives(want)
                 THEN /\ Len(field) = Len(want.items)
                      /\ \A k \in 1..Len(field) :
                           field[k] = CASE want.items[k] \in Texts -> want.items[k]
                                        [] want.items[k] \notin Texts /\ want.shape = "one" ->
                                             Str[want.items[k]]
                                        [] want.items[k] \notin Texts /\ want.shape = "list" ->
                                             EmptyText
                 ELSE field = store[base[i].id].content.elems[t]]_vars

(* What one might expect beside that, and the code does not do: that a     *)
(* number in a list arrives like a number alone, and that an update which  *)
(* sends the record back as it was read leaves the order of its elements.  *)
ItemsArrive ==
  [][\A i \in Intents :
       Kind[i] = "update" /\ effects'[i] # effects[i] =>
         \A t \in Tags : \A k \in 1..Len(Wants[i][t].items) :
           Wants[i][t].items[k] \in Scalars =>
             store'[base[i].id].content.elems[t][k] = Str[Wants[i][t].items[k]]]_vars

OrderIsKept ==
  [][\A i \in Intents :
       Kind[i] = "update" /\ effects'[i] # effects[i] =>
         store'[base[i].id].content.mixed = store[base[i].id].content.mixed]_vars
=============================================================================
