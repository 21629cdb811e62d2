--------------------------- MODULE QBRecordsProofs ---------------------------
(***************************************************************************)
(* Proofs about QBRecords, for any number of intents, records and tries.   *)
(***************************************************************************)
EXTENDS QBRecords, FiniteSetTheorems, TLAPS

-----------------------------------------------------------------------------
(* The inductive invariant *)

(* An EditSequence is of one record, and older than the next change. *)
SeqsDiffer ==
  /\ \A x \in Ids : Exists(x) => store[x].seq < clock
  /\ \A x, y \in Ids : Exists(x) /\ Exists(y) /\ store[x].seq = store[y].seq => x = y

(* As long as some record has the EditSequence of a version, it is the     *)
(* record of which that is a version, and as it was.                       *)
Current(v, x) == Exists(x) /\ store[x].seq = v.seq
FitsStore(v) ==
  /\ v.seq < clock
  /\ \A x \in Ids : Current(v, x) => x = v.id /\ v.fields = ElemToDict(store[x].content)

VersionsFit ==
  \A i \in Intents : /\ base[i] \in Versions => FitsStore(base[i])
                     /\ reply[i] \in Versions => FitsStore(reply[i])

(* What was sent was made from what was read. *)
Unsent == {"new", "read", "bad", "missing"}
RequestFits(i) ==
  /\ Kind[i] = "update" /\ pc[i] \notin {"new", "missing"} => base[i] \in Versions
  /\ Kind[i] = "update" /\ pc[i] \notin Unsent =>
       /\ req[i].seq = base[i].seq
       /\ req[i].body \in {DictToXml(Patch(i).fields), DictToXml(Whole(i).fields)}
  /\ Kind[i] # "delete" /\ pc[i] \in {"answered", "ok"} /\ reply[i] # Refusal =>
       reply[i] \in Versions
  /\ pc[i] = "ok" => reply[i] # Refusal

(* Nothing is made of what was not sent, was refused, or was not accepted. *)
Untouched(i) == effects[i] = 0 /\ late[i] = 0
Refused(i) == pc[i] = "refused" \/ (pc[i] = "answered" /\ reply[i] = Refusal)

Counts(i) ==
  /\ pc[i] \in Unsent => tries[i] = 0 /\ Untouched(i)
  /\ pc[i] \notin Unsent => req[i] # NoRequest /\ tries[i] >= 1
  /\ effects[i] \in {0, 1}
  /\ pc[i] = "ok" \/ (pc[i] = "answered" /\ ~Refused(i)) => effects[i] = 1
  /\ tries[i] = 1 /\ (Refused(i) \/ pc[i] \in {"pending", "unavailable"}) => Untouched(i)
  /\ Kind[i] = "create" =>
       /\ late[i] = 0 \/ (pc[i] = "error" /\ late[i] = 1 /\ effects[i] = 0)
       /\ pc[i] \in {"pending", "unavailable"} => effects[i] = 0

(* What has been made of an update or a delete cannot be made again. *)
Spent(i) ==
  effects[i] # 0 =>
    /\ Kind[i] = "update" => \A x \in Ids : ~Current(base[i], x)
    /\ Kind[i] = "delete" => req[i].id \in Ids /\ store[req[i].id] = Deleted

IInv ==
  /\ TypeOK
  /\ SeqsDiffer
  /\ VersionsFit
  /\ \A i \in Intents : RequestFits(i) /\ Counts(i) /\ Spent(i)

-----------------------------------------------------------------------------
(* What is made of bodies and answers *)

LEMMA ElemToDictAt ==
  ASSUME NEW c \in Content, NEW t \in Tags
  PROVE  \/ c.elems[t] = <<>> /\ ElemToDict(c)[t] = Absent
         \/ /\ <<Head(c.elems[t])>> = c.elems[t] /\ c.elems[t] \in Seq(Texts)
            /\ ElemToDict(c)[t] = One(Head(c.elems[t]))
         \/ c.elems[t] \in Seq(Texts) /\ c.elems[t] # <<>> /\ ElemToDict(c)[t] = List(c.elems[t])
<1>1. c.elems[t] \in Seq(Texts)
  BY DEF Content
<1>2. c.elems[t] # <<>> /\ Len(c.elems[t]) = 1 => <<Head(c.elems[t])>> = c.elems[t]
  BY <1>1
<1> QED BY <1>1, <1>2 DEF ElemToDict

LEMMA ElemToDictType ==
  ASSUME NEW c \in Content PROVE ElemToDict(c) \in Json
<1> SUFFICES ASSUME NEW t \in Tags PROVE ElemToDict(c)[t] \in JsonValue
  BY DEF Json, ElemToDict
<1>1. <<>> \in Seq(Texts \cup Scalars)
  OBVIOUS
<1>2. \A q \in Seq(Texts) : q \in Seq(Texts \cup Scalars)
  OBVIOUS
<1>3. CASE c.elems[t] = <<>> /\ ElemToDict(c)[t] = Absent
  BY <1>1, <1>3 DEF Absent, JsonValue
<1>4. CASE /\ <<Head(c.elems[t])>> = c.elems[t] /\ c.elems[t] \in Seq(Texts)
           /\ ElemToDict(c)[t] = One(Head(c.elems[t]))
  BY <1>2, <1>4 DEF One, JsonValue
<1>5. CASE c.elems[t] \in Seq(Texts) /\ ElemToDict(c)[t] = List(c.elems[t])
  BY <1>2, <1>5 DEF List, JsonValue
<1> QED BY <1>3, <1>4, <1>5, ElemToDictAt

LEMMA WrittenType ==
  ASSUME NEW v \in JsonValue
  PROVE  Written(v) \in Seq(Texts) /\ Len(Written(v)) = Len(v.items)
<1> USE RecordsAssumption DEF RecordsAssumption, JsonValue
<1>1. v.items \in Seq(Texts \cup Scalars) /\ Len(v.items) \in Nat
  OBVIOUS
<1>2. ASSUME NEW k \in 1..Len(v.items) PROVE Written(v)[k] \in Texts
  BY <1>1, <1>2 DEF Written
<1>3. DOMAIN Written(v) = 1..Len(v.items)
  BY DEF Written
<1>4. Written(v) = [k \in 1..Len(v.items) |-> Written(v)[k]]
  BY DEF Written
<1> HIDE DEF Written
<1> QED BY <1>1, <1>2, <1>3, <1>4

LEMMA DictToXmlType ==
  ASSUME NEW d \in Json PROVE DictToXml(d) \in Content
<1>1. \A t \in Tags : Written(d[t]) \in Seq(Texts)
  BY WrittenType DEF Json
<1> QED BY <1>1 DEF Content, DictToXml

(* Texts are written as they are. *)
LEMMA TextsWritten ==
  ASSUME NEW v \in JsonValue, v.items \in Seq(Texts) PROVE Written(v) = v.items
<1>1. \A k \in 1..Len(v.items) : v.items[k] \in Texts
  OBVIOUS
<1> QED BY <1>1 DEF Written

(* What is read of a record and sent back has, tag by tag, the elements of *)
(* the record: single ones, repeated ones in their order, and none.  How   *)
(* they alternate is lost (_elem_to_dict of xml_parser.py with             *)
(* _dict_to_xml of xml_builder.py).                                        *)
LEMMA RoundTrip ==
  ASSUME NEW c \in Content PROVE DictToXml(ElemToDict(c)) = [elems |-> c.elems, mixed |-> FALSE]
<1>1. ASSUME NEW t \in Tags PROVE DictToXml(ElemToDict(c)).elems[t] = c.elems[t]
  <2>1. ElemToDict(c)[t] \in JsonValue
    BY ElemToDictType DEF Json
  <2>2. CASE c.elems[t] = <<>> /\ ElemToDict(c)[t] = Absent
    BY <2>2 DEF DictToXml, Gives, Absent
  <2>3. CASE /\ <<Head(c.elems[t])>> = c.elems[t] /\ c.elems[t] \in Seq(Texts)
             /\ ElemToDict(c)[t] = One(Head(c.elems[t]))
    <3>1. ElemToDict(c)[t].items = c.elems[t] /\ ElemToDict(c)[t].shape = "one" /\ c.elems[t] # <<>>
      BY <2>3 DEF One
    <3> QED BY <2>1, <2>3, <3>1, TextsWritten DEF DictToXml, Gives
  <2>4. CASE c.elems[t] \in Seq(Texts) /\ c.elems[t] # <<>> /\ ElemToDict(c)[t] = List(c.elems[t])
    <3>1. ElemToDict(c)[t].items = c.elems[t] /\ ElemToDict(c)[t].shape = "list"
      BY <2>4 DEF List
    <3> QED BY <2>1, <2>4, <3>1, TextsWritten DEF DictToXml, Gives
  <2> QED BY <2>2, <2>3, <2>4, ElemToDictAt
<1>2. c = [elems |-> c.elems, mixed |-> c.mixed] /\ c.elems \in [Tags -> Seq(Texts)]
  BY DEF Content
<1>3. /\ DictToXml(ElemToDict(c)).mixed = FALSE
      /\ DictToXml(ElemToDict(c)) = [elems |-> DictToXml(ElemToDict(c)).elems, mixed |-> FALSE]
      /\ DictToXml(ElemToDict(c)).elems = [t \in Tags |-> DictToXml(ElemToDict(c)).elems[t]]
  BY DEF DictToXml
<1>4. DictToXml(ElemToDict(c)).elems = c.elems
  BY <1>1, <1>2, <1>3
<1> QED BY <1>3, <1>4

LEMMA BodyType ==
  ASSUME TypeOK, NEW i \in Intents, base[i] \in Versions
  PROVE  Patch(i).fields \in Json /\ Whole(i).fields \in Json
BY RecordsAssumption DEF RecordsAssumption, Patch, Whole, Versions, Json

LEMMA VersionType ==
  ASSUME NEW x \in Ids, NEW n \in Nat, NEW c \in Content
  PROVE  Version(x, Live(n, c)) \in Versions
BY ElemToDictType DEF Version, Live, Versions

LEMMA ModifiedType ==
  ASSUME NEW c \in Content, NEW e \in Content PROVE Modified(c, e) \in Content
BY DEF Content, Modified

-----------------------------------------------------------------------------
(* Types *)

LEMMA StoredType ==
  ASSUME TypeOK, NEW x \in Ids, Exists(x)
  PROVE  /\ store[x].seq \in Nat /\ store[x].content \in Content
         /\ store[x] = Live(store[x].seq, store[x].content)
BY DEF TypeOK, Exists, Never, Deleted, Live

(* What QuickBooks makes of a request that it accepts. *)
LEMMA ResultType ==
  ASSUME TypeOK, NEW i \in Intents, NEW x \in Ids, req[i] # NoRequest, Accepts(i, x)
  PROVE  /\ Kind[i] = "delete" => Result(i, x) = Deleted
         /\ Kind[i] # "delete" => \E c \in Content : Result(i, x) = Live(clock, c)
<1> USE RecordsAssumption DEF RecordsAssumption
<1>1. req[i].body \in Content
  BY DEF TypeOK
<1>2. CASE Kind[i] = "create"
  BY <1>1, <1>2 DEF Result
<1>3. CASE Kind[i] = "update"
  <2>1. Exists(x)
    BY <1>3 DEF Accepts
  <2>2. Modified(store[x].content, req[i].body) \in Content
    BY <1>1, <2>1, StoredType, ModifiedType
  <2> QED BY <1>3, <2>2 DEF Result
<1>4. CASE Kind[i] = "delete"
  BY <1>4 DEF Result
<1> QED BY <1>2, <1>3, <1>4

LEMMA TakesType ==
  ASSUME TypeOK, NEW i \in Intents, NEW x \in Ids, req[i] # NoRequest, Takes(i, x)
  PROVE  /\ store' \in [Ids -> [is : {"live"}, seq : Nat, content : Content] \cup {Never, Deleted}]
         /\ clock' \in Nat
         /\ effects' \in [Intents -> Nat]
<1>1. Result(i, x) \in [is : {"live"}, seq : Nat, content : Content] \cup {Never, Deleted}
  BY ResultType DEF Takes, Live, TypeOK
<1> QED BY <1>1 DEF Takes, TypeOK

LEMMA InitType == Init => TypeOK
<1> SUFFICES ASSUME Init PROVE TypeOK
  OBVIOUS
<1> USE RecordsAssumption DEF RecordsAssumption
<1>1. Cardinality(Old) \in Nat
  BY FS_Subset, FS_CardinalityType
<1>2. PICK c \in [Old -> Contents], at \in [Old -> 1..Cardinality(Old)] :
        store = [x \in Ids |-> IF x \in Old THEN Live(at[x], c[x]) ELSE Never]
  BY DEF Init
<1>3. store \in [Ids -> [is : {"live"}, seq : Nat, content : Content] \cup {Never, Deleted}]
  BY <1>1, <1>2 DEF Live
<1>4. 0 \in 0..MaxTries
  OBVIOUS
<1> QED BY <1>1, <1>3, <1>4 DEF Init, TypeOK, Steps

LEMMA TypeStep == IInv /\ [Next]_vars => TypeOK'
<1> SUFFICES ASSUME IInv, [Next]_vars PROVE TypeOK'
  OBVIOUS
<1> USE RecordsAssumption DEF RecordsAssumption, Goes
<1>0. /\ TypeOK
      /\ \A i \in Intents : RequestFits(i) /\ Counts(i)
  BY DEF IInv
<1>1. ASSUME NEW i \in Intents, NEW x \in Ids, Gets(i, x) PROVE TypeOK'
  <2>1. Exists(x) => Version(x, store[x]) \in Versions
    BY <1>0, StoredType, VersionType
  <2>2. base' \in [Intents -> Versions \cup {NoVersion}]
    BY <1>0, <1>1, <2>1 DEF Gets, TypeOK
  <2>3. pc' \in [Intents -> Steps]
    BY <1>0, <1>1 DEF Gets, TypeOK, Steps, Final
  <2> QED BY <1>0, <1>1, <2>2, <2>3 DEF Gets, TypeOK
<1>2. ASSUME NEW i \in Intents, NEW j \in Intents, GoesOn(i, j) PROVE TypeOK'
  <2>1. reply[j] \in Versions
    BY <1>0, <1>2 DEF GoesOn, RequestFits
  <2> QED BY <1>0, <1>2, <2>1 DEF GoesOn, TypeOK, Steps
<1>3. ASSUME NEW i \in Intents, Posts(i) PROVE TypeOK'
  <2>1. DictToXml(Wants[i]) \in Content
    BY DictToXmlType
  <2>2. req' \in [Intents -> [id : Ids \cup {NoId}, seq : Nat, body : Content] \cup {NoRequest}]
    BY <1>0, <1>3, <2>1 DEF Posts, Sends, TypeOK
  <2> QED BY <1>0, <1>3, <2>2 DEF Posts, Sends, TypeOK, Steps
<1>4. ASSUME NEW i \in Intents, NEW x \in Ids, Puts(i, x) PROVE TypeOK'
  <2>1. base[i] \in Versions
    BY <1>0, <1>4 DEF Puts, RequestFits
  <2>2. ASSUME NEW body \in {Patch(i), Whole(i)}
        PROVE  ModData(i, x, body) \in [id : Ids \cup {NoId}, seq : Nat, body : Content]
    <3>1. DictToXml(body.fields) \in Content
      BY <1>0, <2>1, BodyType, DictToXmlType
    <3>2. body.id \in Ids \cup {NoId}
      BY <2>1 DEF Patch, Whole, Versions
    <3> QED BY <2>1, <3>1, <3>2 DEF ModData, Versions
  <2>3. /\ req' \in [Intents -> [id : Ids \cup {NoId}, seq : Nat, body : Content] \cup {NoRequest}]
        /\ tries' \in [Intents -> 0..MaxTries]
    BY <1>0, <1>4, <2>2 DEF Puts, Sends, TypeOK
  <2> QED BY <1>0, <1>4, <2>3 DEF Puts, TypeOK, Steps, Final
<1>5. ASSUME NEW i \in Intents, NEW x \in Ids, Deletes(i, x) PROVE TypeOK'
  <2>1. Nothing \in Content
    BY DEF Content, Nothing
  <2>2. req' \in [Intents -> [id : Ids \cup {NoId}, seq : Nat, body : Content] \cup {NoRequest}]
    BY <1>0, <1>5, <2>1 DEF Deletes, Sends, TypeOK
  <2> QED BY <1>0, <1>5, <2>2 DEF Deletes, Sends, TypeOK, Steps
<1>6. ASSUME NEW i \in Intents, Repeats(i) PROVE TypeOK'
  BY <1>0, <1>6 DEF Repeats, TypeOK, Steps
<1>7. ASSUME NEW i \in Intents, NEW x \in Ids, Applies(i, x) PROVE TypeOK'
  <2>1. req[i] # NoRequest
    BY <1>0, <1>7 DEF Applies, Counts, Unsent
  <2>2. Kind[i] # "delete" => Version(x, Result(i, x)) \in Versions
    BY <1>0, <1>7, <2>1, ResultType, VersionType DEF Applies, Takes, TypeOK
  <2>3. reply' \in [Intents -> Versions \cup {NoVersion, Refusal}]
    BY <1>0, <1>7, <2>2 DEF Applies, TypeOK
  <2>4. pc' \in [Intents -> Steps]
    BY <1>0, <1>7 DEF Applies, TypeOK, Steps
  <2>5. Takes(i, x)
    BY <1>7 DEF Applies
  <2> QED BY <1>0, <1>7, <2>1, <2>3, <2>4, <2>5, TakesType DEF Applies, TypeOK
<1>8. ASSUME NEW i \in Intents, NEW x \in Ids, LateApplies(i, x) PROVE TypeOK'
  <2>1. req[i] # NoRequest
    BY <1>0, <1>8 DEF LateApplies, Counts, Untouched
  <2>2. Takes(i, x)
    BY <1>8 DEF LateApplies
  <2>3. late' \in [Intents -> Nat]
    BY <1>0, <1>8 DEF LateApplies, TypeOK
  <2> QED BY <1>0, <1>8, <2>1, <2>2, <2>3, TakesType DEF LateApplies, TypeOK
<1>9. ASSUME NEW i \in Intents, Refuses(i) \/ LateDrops(i) \/ Answers(i) \/ Fails(i) \/ GivesUp(i)
      PROVE  TypeOK'
  <2>1. CASE Refuses(i)
    BY <1>0, <2>1 DEF Refuses, TypeOK, Steps
  <2>2. CASE LateDrops(i)
    BY <1>0, <2>2 DEF LateDrops, TypeOK
  <2>3. CASE Answers(i)
    BY <1>0, <2>3 DEF Answers, TypeOK, Steps, Final
  <2>4. CASE Fails(i)
    BY <1>0, <2>4 DEF Fails, TypeOK, Steps
  <2>5. CASE GivesUp(i)
    BY <1>0, <2>5 DEF GivesUp, TypeOK, Steps
  <2> QED BY <1>9, <2>1, <2>2, <2>3, <2>4, <2>5
<1>10. ASSUME NEW x \in Ids, PersonEdits(x) PROVE TypeOK'
  <2>1. \A c \in Contents : Live(clock, c) \in [is : {"live"}, seq : Nat, content : Content]
    BY <1>0 DEF Live, TypeOK
  <2>2. store' \in [Ids -> [is : {"live"}, seq : Nat, content : Content] \cup {Never, Deleted}]
    BY <1>0, <1>10, <2>1 DEF PersonEdits, TypeOK
  <2> QED BY <1>0, <1>10, <2>2 DEF PersonEdits, TypeOK
<1>11. CASE UNCHANGED vars
  BY <1>0, <1>11 DEF vars, TypeOK
<1> QED BY <1>1, <1>2, <1>3, <1>4, <1>5, <1>6, <1>7, <1>8, <1>9, <1>10, <1>11 DEF Next, Ended

-----------------------------------------------------------------------------
(* Versions *)

LEMMA VersionFits ==
  ASSUME TypeOK, SeqsDiffer, NEW x \in Ids, Exists(x)
  PROVE  FitsStore(Version(x, store[x]))
BY DEF SeqsDiffer, FitsStore, Current, Version

(* A change of a record makes a version there was not. *)
LEMMA ChangeFits ==
  ASSUME TypeOK, SeqsDiffer, NEW x \in Ids, NEW r,
         r = Deleted \/ \E c \in Content : r = Live(clock, c),
         store' = [store EXCEPT ![x] = r], clock' = clock + 1
  PROVE  /\ SeqsDiffer'
         /\ \A v \in Versions : FitsStore(v) => FitsStore(v)'
         /\ r # Deleted => FitsStore(Version(x, r))'
<1>1. clock \in Nat /\ store'[x] = r
  BY DEF TypeOK
<1>2. \A y \in Ids : Exists(y) => store[y].seq \in Nat
  BY StoredType
<1>3. \A y \in Ids \ {x} : store'[y] = store[y]
  BY DEF TypeOK
<1>4. Exists(x)' => r = store'[x] /\ r.seq = clock
  BY <1>1 DEF Exists, Deleted, Live
<1>5. SeqsDiffer'
  BY <1>1, <1>2, <1>3, <1>4 DEF SeqsDiffer, Exists
<1>6. ASSUME NEW v \in Versions, FitsStore(v) PROVE FitsStore(v)'
  <2>1. v.seq \in Nat /\ v.seq < clock
    BY <1>6 DEF FitsStore, Versions
  <2>2. ~Current(v, x)'
    BY <1>1, <1>4, <2>1 DEF Current
  <2> QED BY <1>1, <1>3, <1>6, <2>1, <2>2 DEF FitsStore, Current, Exists
<1>7. ASSUME r # Deleted PROVE FitsStore(Version(x, r))'
  <2>1. Exists(x)' /\ r.seq = clock
    BY <1>1, <1>7 DEF Exists, Live
  <2>2. TypeOK /\ \A y \in Ids : Exists(y)' /\ store'[y].seq = clock => y = x
    BY <1>1, <1>2, <1>3 DEF SeqsDiffer, Exists
  <2> QED BY <1>1, <2>1, <2>2 DEF FitsStore, Current, Version
<1> QED BY <1>5, <1>6, <1>7

LEMMA TakesFits ==
  ASSUME TypeOK, SeqsDiffer, NEW i \in Intents, NEW x \in Ids, req[i] # NoRequest, Takes(i, x)
  PROVE  /\ SeqsDiffer'
         /\ \A v \in Versions : FitsStore(v) => FitsStore(v)'
         /\ \A r : r = Result(i, x) /\ Kind[i] # "delete" => FitsStore(Version(x, r))'
<1>1. PICK r : r = Result(i, x)
  OBVIOUS
<1>2. Accepts(i, x) /\ store' = [store EXCEPT ![x] = r] /\ clock' = clock + 1
  BY <1>1 DEF Takes
<1>3. r = Deleted \/ \E c \in Content : r = Live(clock, c)
  BY <1>1, <1>2, ResultType
<1>4. Kind[i] # "delete" => r # Deleted
  BY <1>1, <1>2, ResultType DEF Live, Deleted
<1>5. /\ SeqsDiffer'
      /\ \A v \in Versions : FitsStore(v) => FitsStore(v)'
      /\ r # Deleted => FitsStore(Version(x, r))'
  BY <1>2, <1>3, ChangeFits
<1> QED BY <1>1, <1>4, <1>5

LEMMA PersonFits ==
  ASSUME TypeOK, SeqsDiffer, NEW x \in Ids, PersonEdits(x)
  PROVE  SeqsDiffer' /\ \A v \in Versions : FitsStore(v) => FitsStore(v)'
<1>1. PICK c \in Contents : store' = [store EXCEPT ![x] = Live(clock, c)]
  BY DEF PersonEdits
<1>2. PICK r : r = Live(clock, c)
  OBVIOUS
<1>3. /\ store' = [store EXCEPT ![x] = r] /\ clock' = clock + 1
      /\ r = Deleted \/ \E d \in Content : r = Live(clock, d)
  BY <1>1, <1>2, RecordsAssumption DEF PersonEdits, RecordsAssumption
<1> QED BY <1>3, ChangeFits

LEMMA VersionsStep == IInv /\ [Next]_vars => SeqsDiffer' /\ VersionsFit'
<1> SUFFICES ASSUME IInv, [Next]_vars PROVE SeqsDiffer' /\ VersionsFit'
  OBVIOUS
<1>0. /\ TypeOK /\ SeqsDiffer /\ VersionsFit
      /\ \A i \in Intents : RequestFits(i) /\ Counts(i)
  BY DEF IInv
<1>1. NoVersion \notin Versions /\ Refusal \notin Versions
  BY RecordsAssumption DEF RecordsAssumption, NoVersion, Refusal, Versions
<1>2. ASSUME UNCHANGED <<store, clock>>
      PROVE  SeqsDiffer' /\ \A v : FitsStore(v) => FitsStore(v)'
  BY <1>0, <1>2 DEF SeqsDiffer, FitsStore, Current, Exists
<1>3. ASSUME UNCHANGED <<store, clock, base, reply>> PROVE SeqsDiffer' /\ VersionsFit'
  BY <1>0, <1>2, <1>3 DEF VersionsFit
<1>4. ASSUME NEW i \in Intents, NEW x \in Ids, Gets(i, x) PROVE SeqsDiffer' /\ VersionsFit'
  <2>1. \A v : FitsStore(v) => FitsStore(v)'
    BY <1>2, <1>4 DEF Gets
  <2>2. PICK v : v = Version(x, store[x])
    OBVIOUS
  <2>3. Exists(x) => FitsStore(v)'
    BY <1>0, <2>1, <2>2, VersionFits
  <2>4. /\ reply' = reply
        /\ base' = base \/ (Exists(x) /\ base' = [base EXCEPT ![i] = v])
    BY <1>4, <2>2 DEF Gets
  <2> QED BY <1>0, <1>2, <1>4, <2>1, <2>3, <2>4 DEF Gets, VersionsFit, TypeOK
<1>5. ASSUME NEW i \in Intents, NEW j \in Intents, GoesOn(i, j) PROVE SeqsDiffer' /\ VersionsFit'
  <2>1. \A v : FitsStore(v) => FitsStore(v)'
    BY <1>2, <1>5 DEF GoesOn
  <2>2. PICK v : v = reply[j]
    OBVIOUS
  <2>3. v \in Versions /\ FitsStore(v)'
    BY <1>0, <1>5, <2>1, <2>2 DEF GoesOn, RequestFits, VersionsFit
  <2>4. reply' = reply /\ base' = [base EXCEPT ![i] = v]
    BY <1>5, <2>2 DEF GoesOn
  <2> QED BY <1>0, <1>2, <1>5, <2>1, <2>3, <2>4 DEF GoesOn, VersionsFit, TypeOK
<1>6. ASSUME NEW i \in Intents, NEW x \in Ids, Applies(i, x) PROVE SeqsDiffer' /\ VersionsFit'
  <2>1. req[i] # NoRequest /\ Takes(i, x)
    BY <1>0, <1>6 DEF Applies, Goes, Counts, Unsent
  <2>2. PICK r : r = Result(i, x)
    OBVIOUS
  <2>3. PICK v : v = IF Kind[i] = "delete" THEN NoVersion ELSE Version(x, r)
    OBVIOUS
  <2>4. /\ SeqsDiffer'
        /\ \A w \in Versions : FitsStore(w) => FitsStore(w)'
        /\ v \in Versions => FitsStore(v)'
    BY <1>0, <1>1, <2>1, <2>2, <2>3, TakesFits
  <2>5. base' = base /\ reply' = [reply EXCEPT ![i] = v]
    BY <1>6, <2>2, <2>3 DEF Applies
  <2> QED BY <1>0, <2>4, <2>5 DEF VersionsFit, TypeOK
<1>7. ASSUME NEW i \in Intents, NEW x \in Ids, LateApplies(i, x) PROVE SeqsDiffer' /\ VersionsFit'
  <2>1. req[i] # NoRequest /\ Takes(i, x)
    BY <1>0, <1>7 DEF LateApplies, Counts, Untouched
  <2>2. SeqsDiffer' /\ \A w \in Versions : FitsStore(w) => FitsStore(w)'
    BY <1>0, <2>1, TakesFits
  <2> QED BY <1>0, <1>7, <2>2 DEF LateApplies, VersionsFit
<1>8. ASSUME NEW i \in Intents, Refuses(i) PROVE SeqsDiffer' /\ VersionsFit'
  BY <1>0, <1>1, <1>2, <1>8 DEF Refuses, VersionsFit, TypeOK
<1>9. ASSUME NEW x \in Ids, PersonEdits(x) PROVE SeqsDiffer' /\ VersionsFit'
  BY <1>0, <1>9, PersonFits DEF PersonEdits, VersionsFit
<1> QED BY <1>3, <1>4, <1>5, <1>6, <1>7, <1>8, <1>9 DEF Next, Ended, vars, Posts, Puts, Deletes,
        Repeats, Answers, Fails, GivesUp, LateDrops

-----------------------------------------------------------------------------
(* Requests *)

LEMMA RequestsStep == IInv /\ [Next]_vars => \A k \in Intents : RequestFits(k)'
<1> SUFFICES ASSUME IInv, [Next]_vars, NEW k \in Intents PROVE RequestFits(k)'
  OBVIOUS
<1> USE DEF Goes, Unsent
<1>0. TypeOK /\ \A i \in Intents : RequestFits(i) /\ Counts(i)
  BY DEF IInv
<1>1. ASSUME UNCHANGED <<pc, base, req, reply>> PROVE RequestFits(k)'
  BY <1>0, <1>1 DEF RequestFits, Patch, Whole
<1>2. ASSUME NEW i \in Intents, i # k, base'[k] = base[k], pc'[k] = pc[k], req'[k] = req[k],
             reply'[k] = reply[k]
      PROVE  RequestFits(k)'
  BY <1>0, <1>2 DEF RequestFits, Patch, Whole
<1>3. ASSUME NEW i \in Intents, NEW x \in Ids, Gets(i, x) PROVE RequestFits(k)'
  <2>1. Exists(x) => Version(x, store[x]) \in Versions
    BY <1>0, StoredType, VersionType
  <2>2. CASE i = k
    BY <1>0, <1>3, <2>1, <2>2 DEF Gets, RequestFits, TypeOK
  <2> QED BY <1>0, <1>2, <1>3, <2>2 DEF Gets, TypeOK
<1>4. ASSUME NEW i \in Intents, NEW j \in Intents, GoesOn(i, j) PROVE RequestFits(k)'
  <2>1. reply[j] \in Versions
    BY <1>0, <1>4 DEF GoesOn, RequestFits
  <2>2. CASE i = k
    BY <1>0, <1>4, <2>1, <2>2 DEF GoesOn, RequestFits, TypeOK
  <2> QED BY <1>0, <1>2, <1>4, <2>2 DEF GoesOn, TypeOK
<1>5. ASSUME NEW i \in Intents, Posts(i) PROVE RequestFits(k)'
  <2>1. CASE i = k
    BY <1>0, <1>5, <2>1 DEF Posts, RequestFits, TypeOK
  <2> QED BY <1>0, <1>2, <1>5, <2>1 DEF Posts, Sends, TypeOK
<1>6. ASSUME NEW i \in Intents, NEW x \in Ids, Puts(i, x) PROVE RequestFits(k)'
  <2>1. CASE i = k
    <3>1. base' = base /\ base[k] \in Versions
      BY <1>0, <1>6, <2>1 DEF Puts, RequestFits
    <3>2. CASE pc' = [pc EXCEPT ![i] = "bad"]
      BY <1>0, <2>1, <3>1, <3>2 DEF RequestFits, TypeOK
    <3>3. ASSUME NEW body \in {Patch(k), Whole(k)}, Sends(k, ModData(k, x, body)),
                 pc' = [pc EXCEPT ![k] = "pending"]
          PROVE  RequestFits(k)'
      <4>1. /\ req'[k].seq = base[k].seq
            /\ req'[k].body \in {DictToXml(Patch(k).fields), DictToXml(Whole(k).fields)}
        BY <1>0, <3>3 DEF Sends, ModData, TypeOK
      <4>2. Patch(k)' = Patch(k) /\ Whole(k)' = Whole(k)
        BY <3>1 DEF Patch, Whole
      <4>3. /\ DictToXml(Patch(k).fields)' = DictToXml(Patch(k).fields)
            /\ DictToXml(Whole(k).fields)' = DictToXml(Whole(k).fields)
        BY <4>2 DEF DictToXml, Written, Gives
      <4> QED BY <1>0, <3>1, <3>3, <4>1, <4>3 DEF RequestFits, TypeOK
    <3> QED BY <1>6, <2>1, <3>2, <3>3 DEF Puts
  <2> QED BY <1>0, <1>2, <1>6, <2>1 DEF Puts, Sends, TypeOK
<1>7. ASSUME NEW i \in Intents, NEW x \in Ids, Deletes(i, x) PROVE RequestFits(k)'
  <2>1. CASE i = k
    BY <1>0, <1>7, <2>1 DEF Deletes, RequestFits, TypeOK
  <2> QED BY <1>0, <1>2, <1>7, <2>1 DEF Deletes, Sends, TypeOK
<1>8. ASSUME NEW i \in Intents, NEW x \in Ids, Applies(i, x) PROVE RequestFits(k)'
  <2>1. req[i] # NoRequest
    BY <1>0, <1>8 DEF Applies, Counts
  <2>2. Kind[i] # "delete" => Version(x, Result(i, x)) \in Versions
    BY <1>0, <1>8, <2>1, ResultType, VersionType DEF Applies, Takes, TypeOK
  <2>3. CASE i = k
    <3>1. /\ pc'[k] = "answered" /\ pc[k] = "pending" /\ base' = base /\ req' = req
          /\ Kind[k] # "delete" => reply'[k] \in Versions
      BY <1>0, <1>8, <2>2, <2>3 DEF Applies, TypeOK
    <3> QED BY <1>0, <3>1 DEF RequestFits, Patch, Whole
  <2> QED BY <1>0, <1>2, <1>8, <2>3 DEF Applies, TypeOK
<1>9. ASSUME NEW i \in Intents, Repeats(i) \/ Refuses(i) \/ Answers(i) \/ Fails(i) \/ GivesUp(i)
      PROVE  RequestFits(k)'
  <2>1. CASE i = k
    <3>1. /\ base' = base /\ req' = req
          /\ pc[k] \notin Unsent /\ pc'[k] \notin Unsent
          /\ reply'[k] = Refusal \/ reply'[k] = reply[k]
          /\ pc'[k] \in {"answered", "ok"} => reply'[k] = Refusal \/ pc[k] = "answered"
          /\ pc'[k] = "ok" => reply'[k] # Refusal
      BY <1>0, <1>9, <2>1 DEF Repeats, Refuses, Answers, Fails, GivesUp, IsError, TypeOK
    <3> QED BY <1>0, <3>1 DEF RequestFits, Patch, Whole
  <2> QED BY <1>0, <1>2, <1>9, <2>1 DEF Repeats, Refuses, Answers, Fails, GivesUp, TypeOK
<1> QED BY <1>1, <1>3, <1>4, <1>5, <1>6, <1>7, <1>8, <1>9 DEF Next, Ended, vars, LateApplies,
        LateDrops, PersonEdits

-----------------------------------------------------------------------------
(* Counts *)

(* A request that may still be made of the record has not been. *)
LEMMA TakesOnce ==
  ASSUME IInv, NEW i \in Intents, NEW x \in Ids, Takes(i, x),
         pc[i] = "pending" \/ late[i] > 0
  PROVE  effects[i] = 0 /\ effects'[i] = 1
<1>0. TypeOK /\ RequestFits(i) /\ Counts(i) /\ Spent(i)
  BY DEF IInv
<1>1. Accepts(i, x) /\ effects' = [effects EXCEPT ![i] = @ + 1]
  BY DEF Takes
<1>2. pc[i] \notin Unsent
  BY <1>0 DEF Unsent, Counts, Untouched
<1>3. CASE Kind[i] = "create"
  BY <1>0, <1>1, <1>3 DEF Counts, TypeOK
<1>4. CASE Kind[i] = "update"
  <2>1. Current(base[i], x)
    BY <1>0, <1>1, <1>2, <1>4 DEF RequestFits, Accepts, Current
  <2> QED BY <1>0, <1>1, <1>4, <2>1 DEF Spent, TypeOK
<1>5. CASE Kind[i] = "delete"
  BY <1>0, <1>1, <1>5 DEF Accepts, Exists, Spent, Deleted, TypeOK
<1> QED BY <1>3, <1>4, <1>5, RecordsAssumption DEF RecordsAssumption

LEMMA CountsStep == IInv /\ [Next]_vars => \A k \in Intents : Counts(k)'
<1> SUFFICES ASSUME IInv, [Next]_vars, NEW k \in Intents PROVE Counts(k)'
  OBVIOUS
<1> USE DEF Goes, Unsent, Untouched, Refused
<1>0. TypeOK /\ \A i \in Intents : RequestFits(i) /\ Counts(i)
  BY DEF IInv
<1>1. ASSUME pc'[k] = pc[k], tries'[k] = tries[k], effects'[k] = effects[k], late'[k] = late[k],
             req'[k] = req[k], reply'[k] = reply[k]
      PROVE  Counts(k)'
  BY <1>0, <1>1 DEF Counts
<1>2. ASSUME NEW i \in Intents,
             Posts(i) \/ \E x \in Ids : Gets(i, x) \/ Puts(i, x) \/ Deletes(i, x)
      PROVE  Counts(k)'
  <2>1. CASE i = k
    <3> DEFINE Begins ==
          /\ tries[k] = 0 /\ effects[k] = 0 /\ late[k] = 0 /\ effects' = effects /\ late' = late
          /\ \/ tries' = tries /\ pc'[k] \in Unsent
             \/ tries'[k] = 1 /\ pc'[k] = "pending" /\ req'[k] # NoRequest
    <3>1. Begins
      <4>1. ASSUME NEW x \in Ids, Gets(i, x) PROVE Begins
        BY <1>0, <2>1, <4>1 DEF Gets, Counts, TypeOK
      <4>2. ASSUME NEW x \in Ids, Puts(i, x) PROVE Begins
        <5>1. \A body : ModData(k, x, body) # NoRequest
          BY DEF ModData, NoRequest
        <5>2. /\ pc[k] = "read" /\ effects' = effects /\ late' = late
              /\ \/ tries' = tries /\ pc'[k] = "bad"
                 \/ /\ tries'[k] = 1 /\ pc'[k] = "pending"
                    /\ \E body : req'[k] = ModData(k, x, body)
          BY <1>0, <2>1, <4>2 DEF Puts, Sends, TypeOK
        <5> QED BY <1>0, <5>1, <5>2 DEF Counts
      <4>3. ASSUME NEW x \in Ids, Deletes(i, x) PROVE Begins
        BY <1>0, <2>1, <4>3 DEF Deletes, Sends, NoRequest, Counts, TypeOK
      <4>4. CASE Posts(i)
        BY <1>0, <2>1, <4>4 DEF Posts, Sends, NoRequest, Counts, TypeOK
      <4> QED BY <1>2, <4>1, <4>2, <4>3, <4>4
    <3> QED BY <1>0, <3>1 DEF Counts
  <2> QED BY <1>0, <1>1, <1>2, <2>1 DEF Gets, Puts, Deletes, Posts, Sends, TypeOK
<1>3. ASSUME NEW i \in Intents, NEW j \in Intents, GoesOn(i, j) PROVE Counts(k)'
  BY <1>0, <1>1, <1>3 DEF GoesOn, Counts, TypeOK
<1>4. ASSUME NEW i \in Intents, Repeats(i) PROVE Counts(k)'
  BY <1>0, <1>1, <1>4 DEF Repeats, Counts, TypeOK
<1>5. ASSUME NEW i \in Intents, NEW x \in Ids, Applies(i, x) PROVE Counts(k)'
  <2>1. CASE i = k
    <3>1. effects'[k] = 1 /\ pc[k] = "pending" /\ pc'[k] = "answered"
      BY <1>0, <1>5, <2>1, TakesOnce DEF Applies, TypeOK
    <3>2. reply'[k] # Refusal
      BY <1>0, <1>5, <2>1 DEF Applies, Version, NoVersion, Refusal, TypeOK
    <3> QED BY <1>0, <1>5, <2>1, <3>1, <3>2 DEF Applies, Counts
  <2> QED BY <1>0, <1>1, <1>5, <2>1 DEF Applies, Takes, TypeOK
<1>6. ASSUME NEW i \in Intents, NEW x \in Ids, LateApplies(i, x) PROVE Counts(k)'
  <2>1. CASE i = k
    <3>1. effects'[k] = 1 /\ late[k] > 0 /\ late'[k] = late[k] - 1
      BY <1>0, <1>6, <2>1, TakesOnce DEF LateApplies, TypeOK
    <3>2. late[k] \in Nat
      BY <1>0 DEF TypeOK
    <3> QED BY <1>0, <1>6, <2>1, <3>1, <3>2 DEF LateApplies, Counts
  <2> QED BY <1>0, <1>1, <1>6, <2>1 DEF LateApplies, Takes, TypeOK
<1>7. ASSUME NEW i \in Intents, Refuses(i) PROVE Counts(k)'
  BY <1>0, <1>1, <1>7 DEF Refuses, Counts, TypeOK
<1>8. ASSUME NEW i \in Intents, LateDrops(i) PROVE Counts(k)'
  BY <1>0, <1>1, <1>8 DEF LateDrops, Counts, TypeOK
<1>9. ASSUME NEW i \in Intents, Answers(i) PROVE Counts(k)'
  BY <1>0, <1>1, <1>9 DEF Answers, IsError, Counts, TypeOK
<1>10. ASSUME NEW i \in Intents, Fails(i) PROVE Counts(k)'
  BY <1>0, <1>1, <1>10 DEF Fails, Counts, TypeOK
<1>11. ASSUME NEW i \in Intents, GivesUp(i) PROVE Counts(k)'
  BY <1>0, <1>1, <1>11 DEF GivesUp, Counts, TypeOK
<1> QED BY <1>1, <1>2, <1>3, <1>4, <1>5, <1>6, <1>7, <1>8, <1>9, <1>10, <1>11
        DEF Next, Ended, vars, PersonEdits

-----------------------------------------------------------------------------
(* Nothing is made twice *)

LEMMA SpentStep == IInv /\ [Next]_vars => \A k \in Intents : Spent(k)'
<1> SUFFICES ASSUME IInv, [Next]_vars, NEW k \in Intents, effects'[k] # 0 PROVE Spent(k)'
  BY DEF Spent
<1> USE DEF Goes
<1>0. /\ TypeOK /\ SeqsDiffer /\ VersionsFit
      /\ \A i \in Intents : RequestFits(i) /\ Counts(i) /\ Spent(i)
  BY DEF IInv
<1>1. ASSUME effects'[k] = effects[k], store' = store, base'[k] = base[k], req'[k] = req[k]
      PROVE  Spent(k)'
  BY <1>0, <1>1 DEF Spent, Current, Exists
<1>2. ASSUME NEW x \in Ids, NEW r, store' = [store EXCEPT ![x] = r],
             r = Deleted \/ (r # Never /\ r.seq = clock),
             base' = base, req' = req, Kind[k] = "update" => base[k] \in Versions,
             \/ effects'[k] = effects[k] /\ store[x] # Deleted
             \/ Kind[k] = "update" /\ Current(base[k], x)
             \/ Kind[k] = "delete" /\ x = req[k].id /\ r = Deleted
             \/ Kind[k] = "create"
      PROVE  Spent(k)'
  <2>1. CASE Kind[k] = "update"
    <3>1. FitsStore(base[k]) /\ base[k].seq \in Nat /\ clock \in Nat
      BY <1>0, <1>2, <2>1 DEF VersionsFit, Versions, TypeOK
    <3>2. \A y \in Ids \ {x} : ~Current(base[k], y)
      BY <1>0, <1>2, <2>1, <3>1 DEF Spent, FitsStore
    <3>3. ~Current(base[k], x)'
      BY <1>0, <1>2, <3>1 DEF FitsStore, Current, Exists, Deleted, TypeOK
    <3> QED BY <1>0, <1>2, <2>1, <3>2, <3>3 DEF Spent, Current, Exists, TypeOK
  <2>2. CASE Kind[k] = "delete"
    BY <1>0, <1>2, <2>2 DEF Spent, TypeOK
  <2>3. CASE Kind[k] = "create"
    BY <2>3 DEF Spent
  <2> QED BY <2>1, <2>2, <2>3, RecordsAssumption DEF RecordsAssumption
<1>3. ASSUME NEW i \in Intents, NEW x \in Ids, Takes(i, x), pc[i] = "pending" \/ late[i] > 0,
             base' = base, req' = req
      PROVE  Spent(k)'
  <2>1. PICK r : r = Result(i, x)
    OBVIOUS
  <2>2. req[i] # NoRequest /\ pc[i] \notin Unsent /\ pc[i] \notin {"new", "missing"}
    BY <1>0, <1>3 DEF Counts, Unsent, Untouched
  <2>3. /\ Kind[i] = "delete" => r = Deleted
        /\ Kind[i] # "delete" => r # Never /\ r.seq = clock
    BY <1>0, <1>3, <2>1, <2>2, ResultType DEF Takes, Live, Never
  <2>4. store[x] # Deleted
    <3>1. Never # Deleted /\ (Exists(x) => store[x] # Deleted)
      BY DEF Exists, Never, Deleted
    <3>2. store[x] = Never \/ Exists(x)
      BY <1>3, RecordsAssumption DEF RecordsAssumption, Takes, Accepts
    <3> QED BY <3>1, <3>2
  <2>5. CASE i = k
    <3>1. Kind[k] = "update" => base[k] \in Versions /\ Current(base[k], x)
      BY <1>0, <1>3, <2>2, <2>5 DEF RequestFits, Takes, Accepts, Current
    <3>2. Kind[k] = "delete" => x = req[k].id
      BY <1>3, <2>5 DEF Takes, Accepts
    <3> QED BY <1>2, <1>3, <2>1, <2>3, <2>5, <3>1, <3>2, RecordsAssumption
            DEF RecordsAssumption, Takes
  <2>6. CASE i # k
    <3>1. effects'[k] = effects[k]
      BY <1>0, <1>3, <2>6 DEF Takes, TypeOK
    <3>2. Kind[k] = "update" => base[k] \in Versions
      BY <1>0, <3>1 DEF RequestFits, Counts, Unsent, Untouched
    <3> QED BY <1>2, <1>3, <2>1, <2>3, <2>4, <3>1, <3>2, RecordsAssumption
            DEF RecordsAssumption, Takes
  <2> QED BY <2>5, <2>6
<1>4. ASSUME NEW i \in Intents, NEW x \in Ids, Applies(i, x) \/ LateApplies(i, x)
      PROVE  Spent(k)'
  BY <1>3, <1>4 DEF Applies, LateApplies
<1>5. ASSUME NEW x \in Ids, PersonEdits(x) PROVE Spent(k)'
  <2>1. PICK c \in Contents : store' = [store EXCEPT ![x] = Live(clock, c)]
    BY <1>5 DEF PersonEdits
  <2>2. PICK r : r = Live(clock, c)
    OBVIOUS
  <2>3. r # Never /\ r.seq = clock /\ store[x] # Deleted
    BY <1>5, <2>2 DEF PersonEdits, Live, Never, Exists, Deleted
  <2>4. effects' = effects /\ base' = base /\ req' = req
    BY <1>5 DEF PersonEdits
  <2>5. Kind[k] = "update" => base[k] \in Versions
    BY <1>0, <2>4 DEF RequestFits, Counts, Unsent, Untouched
  <2> QED BY <1>2, <2>1, <2>2, <2>3, <2>4, <2>5
<1>6. ASSUME NEW i \in Intents, pc[i] \in Unsent,
             effects' = effects, store' = store,
             \A j \in Intents \ {i} : base'[j] = base[j] /\ req'[j] = req[j]
      PROVE  Spent(k)'
  <2>1. i # k
    BY <1>0, <1>6 DEF Counts, Untouched
  <2> QED BY <1>1, <1>6, <2>1
<1>7. ASSUME NEW i \in Intents,
             \/ Posts(i) \/ \E j \in Intents : GoesOn(i, j)
             \/ \E x \in Ids : Gets(i, x) \/ Puts(i, x) \/ Deletes(i, x)
      PROVE  Spent(k)'
  BY <1>0, <1>6, <1>7 DEF Posts, GoesOn, Gets, Puts, Deletes, Sends, Unsent, TypeOK
<1> QED BY <1>1, <1>4, <1>5, <1>7 DEF Next, Ended, vars, Repeats, Answers, Fails, GivesUp, Refuses,
        LateDrops

-----------------------------------------------------------------------------
LEMMA InitIInv == Init => IInv
<1> SUFFICES ASSUME Init PROVE IInv
  OBVIOUS
<1> USE RecordsAssumption DEF RecordsAssumption
<1>1. TypeOK /\ Cardinality(Old) \in Nat
  BY InitType, FS_Subset, FS_CardinalityType
<1>2. SeqsDiffer
  <2>1. PICK c \in [Old -> Contents], at \in [Old -> 1..Cardinality(Old)] :
          /\ \A x, y \in Old : x # y => at[x] # at[y]
          /\ store = [x \in Ids |-> IF x \in Old THEN Live(at[x], c[x]) ELSE Never]
    BY DEF Init
  <2>2. \A x \in Ids : Exists(x) => x \in Old /\ store[x].seq = at[x]
    BY <2>1 DEF Exists, Never, Live
  <2>3. clock = Cardinality(Old) + 1
    BY DEF Init
  <2> QED BY <1>1, <2>1, <2>2, <2>3 DEF SeqsDiffer
<1>3. VersionsFit
  BY DEF Init, VersionsFit, NoVersion, Versions
<1>4. \A i \in Intents : RequestFits(i) /\ Counts(i) /\ Spent(i)
  BY DEF Init, RequestFits, Counts, Spent, Unsent, Untouched, Refused
<1> QED BY <1>1, <1>2, <1>3, <1>4 DEF IInv

LEMMA NextIInv == IInv /\ [Next]_vars => IInv'
BY TypeStep, VersionsStep, RequestsStep, CountsStep, SpentStep DEF IInv

THEOREM Inductive == Spec => []IInv
BY InitIInv, NextIInv, PTL DEF Spec

(* Every variable keeps its type; no client sends one request more than    *)
(* MaxTries times.                                                         *)
THEOREM TypeCorrect == Spec => []TypeOK
<1>1. IInv => TypeOK
  BY DEF IInv
<1> QED BY <1>1, Inductive, PTL

(* What a client is told of its change is true, over repeats and late      *)
(* answers (the routes of crud.py with check_status of xml_parser.py).     *)
THEOREM OutcomesTrue == Spec => []OutcomeTrue
<1>1. IInv => OutcomeTrue
  <2> SUFFICES ASSUME IInv, NEW i \in Intents
               PROVE  /\ effects[i] <= 1
                      /\ pc[i] = "ok" => effects[i] = 1
                      /\ pc[i] \in {"refused", "bad", "missing", "unavailable"} /\ tries[i] <= 1
                           => effects[i] = 0
    BY DEF OutcomeTrue
  <2>1. Counts(i) /\ tries[i] \in Nat
    BY RecordsAssumption DEF RecordsAssumption, IInv, TypeOK
  <2> QED BY <2>1 DEF Counts, Unsent, Untouched, Refused
<1> QED BY <1>1, Inductive, PTL

(* What an update changes is what its client has read, as it was read: the *)
(* record of its version, and nothing else.                                *)
LEMMA UpdateTakes ==
  ASSUME IInv, [Next]_vars, NEW i \in Intents, Kind[i] = "update", effects'[i] # effects[i]
  PROVE  /\ base[i] \in Versions /\ Current(base[i], base[i].id)
         /\ base[i].fields = ElemToDict(store[base[i].id].content)
         /\ store' = [store EXCEPT ![base[i].id] = Result(i, base[i].id)]
         /\ req[i].body \in {DictToXml(Patch(i).fields), DictToXml(Whole(i).fields)}
<1>0. TypeOK /\ VersionsFit /\ RequestFits(i) /\ Counts(i)
  BY DEF IInv
<1>1. PICK x \in Ids : Takes(i, x) /\ (pc[i] = "pending" \/ late[i] > 0)
  <2>1. \E j \in Intents, x \in Ids : Applies(j, x) \/ LateApplies(j, x)
    BY DEF Next, Ended, vars, Posts, Repeats, Answers, Fails, GivesUp, Refuses, LateDrops, GoesOn,
           Gets, Puts, Deletes, PersonEdits
  <2>2. PICK j \in Intents, x \in Ids : Applies(j, x) \/ LateApplies(j, x)
    BY <2>1
  <2>3. j = i
    BY <1>0, <2>2 DEF Applies, LateApplies, Takes, TypeOK
  <2> QED BY <2>2, <2>3 DEF Applies, LateApplies, Goes
<1>2. pc[i] \notin Unsent /\ base[i] \in Versions
  BY <1>0, <1>1 DEF Counts, Unsent, Untouched, RequestFits
<1>3. Current(base[i], x)
  BY <1>0, <1>1, <1>2 DEF RequestFits, Takes, Accepts, Current
<1>4. x = base[i].id /\ base[i].fields = ElemToDict(store[x].content)
  BY <1>0, <1>2, <1>3 DEF VersionsFit, FitsStore
<1> QED BY <1>0, <1>1, <1>2, <1>3, <1>4 DEF Takes, RequestFits

(* An update is made of the record its client has read, when nobody has    *)
(* changed that since, whatever id the path and the body name              *)
(* (update_entity of crud.py).                                             *)
THEOREM NoUpdateLost == Spec => NoLostUpdate
<1>1. IInv /\ [Next]_vars =>
        [\A i \in Intents :
           Kind[i] = "update" /\ effects'[i] # effects[i] =>
             /\ Exists(base[i].id) /\ store[base[i].id].seq = base[i].seq
             /\ \A id \in Ids \ {base[i].id} : store'[id] = store[id]]_vars
  BY UpdateTakes DEF IInv, TypeOK, Current
<1> QED BY <1>1, Inductive, PTL DEF Spec, NoLostUpdate

(* An update leaves the fields it does not give values as they were, and   *)
(* the others become what was asked for, but for the items of a list that  *)
(* are no strings (build_mod_request, _dict_to_xml, _elem_to_dict).        *)
THEOREM UpdatesAsAsked == Spec => AppliedAsAsked
<1> DEFINE Asked(i, t, field) ==
      IF Gives(Wants[i][t])
        THEN /\ Len(field) = Len(Wants[i][t].items)
             /\ \A k \in 1..Len(field) :
                  field[k] = CASE Wants[i][t].items[k] \in Texts -> Wants[i][t].items[k]
                               [] Wants[i][t].items[k] \notin Texts /\ Wants[i][t].shape = "one" ->
                                    Str[Wants[i][t].items[k]]
                               [] Wants[i][t].items[k] \notin Texts /\ Wants[i][t].shape = "list" ->
                                    EmptyText
        ELSE field = store[base[i].id].content.elems[t]
<1>1. ASSUME IInv, [Next]_vars, NEW i \in Intents, Kind[i] = "update", effects'[i] # effects[i],
             NEW t \in Tags
      PROVE  Asked(i, t, store'[base[i].id].content.elems[t])
  <2>0. TypeOK /\ Wants[i][t] \in JsonValue
    BY <1>1, RecordsAssumption DEF IInv, RecordsAssumption, Json
  <2> DEFINE x == base[i].id
             old == store[x].content
             want == Wants[i][t]
  <2>1. x \in Ids /\ Exists(x) /\ old \in Content /\ base[i].fields = ElemToDict(old)
    BY <1>1, <2>0, UpdateTakes, StoredType DEF Versions, Current
  <2>2. store'[x].content.elems[t] = Modified(old, req[i].body).elems[t]
    <3>1. Result(i, x) = Live(clock, Modified(old, req[i].body))
      BY <1>1 DEF Result
    <3>2. store'[x] = Result(i, x)
      BY <1>1, <2>0, <2>1, UpdateTakes DEF TypeOK
    <3> QED BY <3>1, <3>2 DEF Live
  <2>3. /\ want.items \in Seq(Texts \cup Scalars) /\ Len(Written(want)) = Len(want.items)
        /\ Gives(want) => Written(want) # <<>>
    BY <2>0, WrittenType DEF JsonValue, Gives
  <2>4. DictToXml(base[i].fields).elems[t] = old.elems[t]
    BY <2>1, RoundTrip DEF Content
  <2>5. req[i].body.elems[t] = IF Gives(want) THEN Written(want)
                               ELSE IF want.shape = "absent" /\ req[i].body # DictToXml(Patch(i).fields)
                                 THEN old.elems[t] ELSE <<>>
    <3>1. CASE req[i].body = DictToXml(Patch(i).fields)
      BY <3>1 DEF Patch, DictToXml
    <3>2. CASE req[i].body = DictToXml(Whole(i).fields) /\ req[i].body # DictToXml(Patch(i).fields)
      <4>1. Whole(i).fields[t] = IF want.shape # "absent" THEN want ELSE base[i].fields[t]
        BY DEF Whole
      <4>2. CASE want.shape # "absent"
        BY <3>2, <4>1, <4>2 DEF DictToXml
      <4>3. CASE want.shape = "absent"
        <5>1. req[i].body.elems[t] = DictToXml(base[i].fields).elems[t]
          BY <3>2, <4>1, <4>3 DEF DictToXml
        <5> QED BY <2>4, <3>2, <4>3, <5>1 DEF Gives
      <4> QED BY <4>2, <4>3
    <3> QED BY <1>1, <3>1, <3>2, UpdateTakes
  <2>6. CASE Gives(want)
    <3>1. store'[x].content.elems[t] = Written(want)
      BY <2>2, <2>3, <2>5, <2>6 DEF Modified
    <3>2. \A k \in 1..Len(want.items) :
            Written(want)[k] = CASE want.items[k] \in Texts -> want.items[k]
                                 [] want.items[k] \notin Texts /\ want.shape = "one" ->
                                      Str[want.items[k]]
                                 [] want.items[k] \notin Texts /\ want.shape = "list" -> EmptyText
      BY <2>6 DEF Written, Gives
    <3> QED BY <2>3, <2>6, <3>1, <3>2
  <2>7. CASE ~Gives(want)
    BY <2>2, <2>5, <2>7 DEF Modified
  <2> QED BY <2>6, <2>7
<1>2. IInv /\ [Next]_vars =>
        [\A i \in Intents :
           Kind[i] = "update" /\ effects'[i] # effects[i] =>
             \A t \in Tags : Asked(i, t, store'[base[i].id].content.elems[t])]_vars
  BY <1>1
<1> QED BY <1>2, Inductive, PTL DEF Spec, AppliedAsAsked

-----------------------------------------------------------------------------
(* Two changes from one version *)

SameVersion(i, j) ==
  /\ Kind[i] = "update" /\ base[i] \in Versions
  /\ Kind[j] = "update" /\ base[j] \in Versions
  /\ base[i].id = base[j].id /\ base[i].seq = base[j].seq

OneWins ==
  \A i, j \in Intents : i # j /\ SameVersion(i, j) => effects[i] = 0 \/ effects[j] = 0

LEMMA InitOneWins == Init => OneWins
BY DEF Init, OneWins

(* A client that has read is not given another version.                    *)
LEMMA BaseStays ==
  ASSUME IInv, [Next]_vars, NEW i \in Intents, effects[i] # 0
  PROVE  base'[i] = base[i]
<1>1. TypeOK /\ pc[i] # "new"
  BY DEF IInv, Counts, Unsent, Untouched
<1>2. ASSUME NEW k \in Intents, NEW x \in Ids, Gets(k, x) PROVE base'[i] = base[i]
  BY <1>1, <1>2 DEF Gets, Goes, TypeOK
<1>3. ASSUME NEW k \in Intents, NEW j \in Intents, GoesOn(k, j) PROVE base'[i] = base[i]
  BY <1>1, <1>3 DEF GoesOn, Goes, TypeOK
<1> QED BY <1>2, <1>3 DEF Next, Ended, vars, Posts, Repeats, Answers, Fails, GivesUp, Refuses,
        LateDrops, Puts, Deletes, Applies, LateApplies, PersonEdits

(* While an update has been made, no other is made from its version: the   *)
(* record is no longer as both have read it.                               *)
LEMMA OtherLoses ==
  ASSUME IInv, [Next]_vars, NEW i \in Intents, NEW j \in Intents, SameVersion(i, j),
         effects[j] # 0
  PROVE  effects'[i] = effects[i]
<1>1. ASSUME effects'[i] # effects[i] PROVE FALSE
  <2>1. Kind[i] = "update" /\ Kind[j] = "update" /\ base[i].id \in Ids
    BY DEF SameVersion, Versions
  <2>2. Current(base[i], base[i].id)
    BY <1>1, <2>1, UpdateTakes
  <2>3. ~Current(base[j], base[i].id)
    BY <2>1 DEF IInv, Spent
  <2> QED BY <2>2, <2>3 DEF SameVersion, Current
<1> QED BY <1>1

(* The step that makes a change reads nothing.                             *)
LEMMA Made ==
  ASSUME IInv, [Next]_vars, NEW i \in Intents, effects'[i] # effects[i]
  PROVE  base' = base
BY DEF Next, Ended, vars, Posts, Repeats, Answers, Fails, GivesUp, Refuses, LateDrops, GoesOn,
       Gets, Puts, Deletes, PersonEdits, Applies, LateApplies

LEMMA OneTakes ==
  ASSUME IInv, [Next]_vars, NEW i \in Intents, NEW j \in Intents, i # j,
         effects'[i] # effects[i]
  PROVE  effects'[j] = effects[j]
<1>1. TypeOK
  BY DEF IInv
<1>2. PICK k \in Intents, x \in Ids : Applies(k, x) \/ LateApplies(k, x)
  BY DEF Next, Ended, vars, Posts, Repeats, Answers, Fails, GivesUp, Refuses, LateDrops, GoesOn,
         Gets, Puts, Deletes, PersonEdits
<1> QED BY <1>1, <1>2 DEF Applies, LateApplies, Takes, TypeOK

LEMMA OneWinsStep == IInv /\ OneWins /\ [Next]_vars => OneWins'
<1> SUFFICES ASSUME IInv, OneWins, [Next]_vars, NEW i \in Intents, NEW j \in Intents, i # j,
                    SameVersion(i, j)', effects'[i] # 0, effects'[j] # 0
             PROVE  FALSE
  BY DEF OneWins
<1>1. effects[i] # 0 \/ effects[j] # 0
  BY OneTakes
<1>2. CASE effects[i] # 0 /\ effects[j] # 0
  BY <1>2, BaseStays DEF OneWins, SameVersion, Versions
<1>3. CASE effects[i] = 0
  BY <1>1, <1>3, BaseStays, OtherLoses, Made DEF SameVersion
<1>4. CASE effects[j] = 0
  BY <1>1, <1>4, BaseStays, OtherLoses, Made DEF SameVersion
<1> QED BY <1>2, <1>3, <1>4

(* Of two clients that change a record from the same version of it only    *)
(* one gets its change made, however often each repeats its request and    *)
(* however late QuickBooks is: the other has to read the record again      *)
(* (update_entity of crud.py, which passes on the EditSequence).           *)
THEOREM OneWinner == Spec => []OneWins
BY Inductive, InitOneWins, OneWinsStep, PTL DEF Spec
=============================================================================
