---------------------------- MODULE QBPagesProofs ----------------------------
(***************************************************************************)
(* Proofs about QBPages, for every company file and any number of clients. *)
(***************************************************************************)
EXTENDS QBPages, TLAPS

IInv == TypeOK /\ CursorInv /\ PagesInOrder

(* Sequences that go on where others end *)
LEMMA Joining ==
  ASSUME NEW S, NEW s \in Seq(S), NEW t \in Seq(S),
         \A i \in DOMAIN s : s[i] = i,
         \A i \in 1..Len(t) : t[i] = Len(s) + i
  PROVE  /\ Len(s \o t) = Len(s) + Len(t)
         /\ \A i \in DOMAIN (s \o t) : (s \o t)[i] = i
<1>1. Len(s \o t) = Len(s) + Len(t) /\ s \o t \in Seq(S)
  OBVIOUS
<1>2. ASSUME NEW i \in 1..(Len(s) + Len(t)) PROVE (s \o t)[i] = i
  <2>1. CASE i <= Len(s)
    BY <2>1
  <2>2. CASE i > Len(s)
    <3>1. i - Len(s) \in 1..Len(t)
      BY <2>2
    <3>2. (s \o t)[i] = t[i - Len(s)]
      BY <2>2
    <3> QED BY <3>1, <3>2
  <2> QED BY <2>1, <2>2
<1> QED BY <1>1, <1>2

(* A page goes from where the last one ended to where the iterator is then. *)
LEMMA PageBounds ==
  ASSUME TypeOK, NEW c \in Clients, pc[c] = "trying"
  PROVE  /\ From(c) \in 0..Size /\ Upto(c) \in 0..Size /\ From(c) <= Upto(c)
         /\ From(c) < Size => From(c) < Upto(c)
         /\ Page(c) \in Seq(1..Size)
         /\ Len(Page(c)) = Upto(c) - From(c)
         /\ \A i \in 1..Len(Page(c)) : Page(c)[i] = From(c) + i
<1> USE PagesAssumption DEF PagesAssumption
<1>1. From(c) \in 0..Size
  BY DEF TypeOK, From, NoCursor
<1>2. req[c].page \in Nat \ {0}
  BY DEF TypeOK, AllRequests
<1>3. /\ Upto(c) \in 0..Size /\ From(c) <= Upto(c)
      /\ From(c) < Size => From(c) < Upto(c)
  BY <1>1, <1>2 DEF Upto
<1>4. Upto(c) - From(c) \in Nat
  BY <1>1, <1>3
<1>5. \A i \in 1..(Upto(c) - From(c)) : From(c) + i \in 1..Size
  BY <1>1, <1>3
<1> QED BY <1>1, <1>3, <1>4, <1>5 DEF Page

(* Only entities with an iterator are paged. *)
LEMMA PagesIterate ==
  ASSUME TypeOK, NEW c \in Clients, pc[c] = "trying", Pages(c)
  PROVE  req[c].of \in WithIterator
BY DEF TypeOK, Pages, Query, Rejected, IteratorNotSupported

(* What QuickBooks moves is the iterator of the client that asked. *)
LEMMA MovedType ==
  ASSUME TypeOK, NEW c \in Clients, pc[c] = "trying"
  PROVE  Moved(c) \in [Clients -> [of : WithIterator, at : 0..Size] \cup {NoCursor}]
BY PageBounds, PagesIterate DEF TypeOK, Moved

-----------------------------------------------------------------------------
(* Retries and the end of a request keep the types, and what a client got. *)
LEMMA EndsType ==
  ASSUME TypeOK, NEW c \in Clients, NEW how \in Idle, Ends(c, how)
  PROVE  /\ pc' \in [Clients -> Idle \cup {"trying"}]
         /\ attempt' \in [Clients -> 0..MaxAttempts]
         /\ req' \in [Clients -> AllRequests \cup {NoRequest}]
         /\ \A d \in Clients : pc'[d] = "trying" => pc[d] = "trying" /\ req'[d] = req[d]
BY PagesAssumption DEF PagesAssumption, TypeOK, Ends, Idle

LEMMA RetriesType ==
  ASSUME TypeOK, NEW c \in Clients, NEW transient \in BOOLEAN, Retries(c, transient)
  PROVE  /\ pc' \in [Clients -> Idle \cup {"trying"}]
         /\ attempt' \in [Clients -> 0..MaxAttempts]
         /\ req' \in [Clients -> AllRequests \cup {NoRequest}]
         /\ \A d \in Clients : pc'[d] = "trying" => pc[d] = "trying" /\ req'[d] = req[d]
<1> USE PagesAssumption DEF PagesAssumption, TypeOK
<1>1. CASE transient /\ attempt[c] < MaxAttempts
  <2>1. attempt[c] + 1 \in 0..MaxAttempts
    BY <1>1
  <2> QED BY <1>1, <2>1 DEF Retries
<1>2. CASE ~(transient /\ attempt[c] < MaxAttempts)
  <2> DEFINE how == IF transient THEN "unavailable" ELSE "error"
  <2>1. how \in Idle
    BY DEF Idle
  <2>2. Ends(c, how)
    BY <1>2 DEF Retries
  <2> HIDE DEF how
  <2> QED BY <2>1, <2>2, EndsType
<1> QED BY <1>1, <1>2

(* The invariant: iterators are where their clients' pages end. *)
THEOREM Inductive == Spec => []IInv
<1> USE PagesAssumption DEF PagesAssumption
<1>1. Init => IInv
  <2> SUFFICES ASSUME Init PROVE IInv
    OBVIOUS
  <2>1. got \in [Clients -> Seq(1..Size)] /\ remaining \in [Clients -> 0..Size]
    BY DEF Init
  <2>2. attempt \in [Clients -> 0..MaxAttempts] /\ pc \in [Clients -> Idle \cup {"trying"}]
    BY DEF Init, Idle
  <2>3. TypeOK
    BY <2>1, <2>2 DEF Init, TypeOK
  <2>4. CursorInv /\ PagesInOrder
    BY DEF Init, CursorInv, PagesInOrder
  <2> QED BY <2>3, <2>4 DEF IInv
<1>2. IInv /\ [Next]_vars => IInv'
  <2> SUFFICES ASSUME IInv, [Next]_vars PROVE IInv'
    OBVIOUS
  <2> USE DEF IInv
  <2>0. ASSUME \A d \in Clients : pc'[d] = "trying" => pc[d] = "trying" /\ req'[d] = req[d]
        PROVE  \A d \in Clients :
                 pc'[d] = "trying" => req'[d] \in AllRequests /\ ~Rejected(req'[d])
    BY <2>0 DEF TypeOK
  <2>1. ASSUME NEW c \in Clients, NEW r \in Requests[c], Asks(c, r) PROVE IInv'
    <3>1. TypeOK'
      <4>1. CASE Rejected(r)
        BY <2>1, <4>1 DEF Asks, TypeOK, Idle
      <4>2. CASE ~Rejected(r)
        <5>0. 1 \in 0..MaxAttempts
          OBVIOUS
        <5>1. attempt' \in [Clients -> 0..MaxAttempts] /\ pc' \in [Clients -> Idle \cup {"trying"}]
          BY <5>0, <2>1, <4>2 DEF Asks, TypeOK
        <5>2. r \in AllRequests
          BY <2>1
        <5>3. /\ req' \in [Clients -> AllRequests \cup {NoRequest}]
              /\ \A d \in Clients : req'[d] = IF d = c THEN r ELSE req[d]
          BY <2>1, <4>2, <5>2 DEF Asks, TypeOK
        <5>4. \A d \in Clients \ {c} : pc'[d] = pc[d]
          BY <2>1, <4>2 DEF Asks, TypeOK
        <5> QED BY <2>1, <4>2, <5>1, <5>2, <5>3, <5>4 DEF Asks, TypeOK
      <4> QED BY <4>1, <4>2
    <3>2. CursorInv' /\ PagesInOrder'
      BY <2>1 DEF Asks, CursorInv, PagesInOrder
    <3> QED BY <3>1, <3>2
  <2>2. ASSUME UNCHANGED <<got, remaining>>, open' \in BOOLEAN,
               cursor' = cursor \/ cursor' = [c \in Clients |-> NoCursor],
               pc' \in [Clients -> Idle \cup {"trying"}],
               attempt' \in [Clients -> 0..MaxAttempts],
               req' \in [Clients -> AllRequests \cup {NoRequest}],
               \A d \in Clients : pc'[d] = "trying" => pc[d] = "trying" /\ req'[d] = req[d]
        PROVE  IInv'
    <3>1. TypeOK'
      BY <2>0, <2>2 DEF TypeOK
    <3>2. CursorInv' /\ PagesInOrder'
      BY <2>2 DEF CursorInv, PagesInOrder
    <3> QED BY <3>1, <3>2
  <2>3. ASSUME NEW c \in Clients, Answers(c) PROVE IInv'
    <3> USE <2>3
    <3>0. /\ From(c) \in 0..Size /\ Upto(c) \in 0..Size /\ From(c) <= Upto(c)
          /\ From(c) < Size => From(c) < Upto(c)
          /\ Page(c) \in Seq(1..Size)
          /\ Len(Page(c)) = Upto(c) - From(c)
          /\ \A i \in 1..Len(Page(c)) : Page(c)[i] = From(c) + i
      BY PageBounds DEF Answers
    <3>1. TypeOK'
      <4>1. got' \in [Clients -> Seq(1..Size)] /\ remaining' \in [Clients -> 0..Size]
        <5>1. Page(c) \in Seq(1..Size) /\ Size - Upto(c) \in 0..Size
          BY <3>0
        <5>2. got[c] \o Page(c) \in Seq(1..Size)
          BY <5>1 DEF TypeOK
        <5> QED BY <5>1, <5>2 DEF Answers, TypeOK
      <4> QED BY <4>1, <2>0, EndsType, MovedType DEF Answers, TypeOK, Idle
    <3>2. ASSUME ~Pages(c) PROVE CursorInv' /\ PagesInOrder'
      BY <3>2 DEF Answers, Moved, CursorInv, PagesInOrder
    <3>3. ASSUME Pages(c) PROVE CursorInv' /\ PagesInOrder'
      <4>1. Len(got'[c]) = Upto(c) /\ \A i \in DOMAIN got'[c] : got'[c][i] = i
        <5>1. CASE Continues(c)
          <6>1. From(c) = Len(got[c])
            BY <5>1 DEF Answers, Understood, Known, From, CursorInv
          <6>2. got'[c] = got[c] \o Page(c)
            BY <5>1, <3>3 DEF Answers, TypeOK
          <6>3. got[c] \in Seq(1..Size)
            BY DEF TypeOK
          <6>4. \A i \in DOMAIN got[c] : got[c][i] = i
            BY DEF PagesInOrder
          <6>5. /\ Len(got[c] \o Page(c)) = Len(got[c]) + Len(Page(c))
                /\ \A i \in DOMAIN (got[c] \o Page(c)) : (got[c] \o Page(c))[i] = i
            <7>1. \A i \in 1..Len(Page(c)) : Page(c)[i] = Len(got[c]) + i
              BY <3>0, <6>1
            <7> QED BY <3>0, <6>3, <6>4, <7>1, Joining, ZenonT(40)
          <6>6. Len(got[c]) + Len(Page(c)) = Upto(c)
            BY <3>0, <6>1
          <6> QED BY <6>2, <6>5, <6>6
        <5>2. CASE ~Continues(c)
          <6>1. got'[c] = Page(c) /\ From(c) = 0
            BY <5>2, <3>3 DEF Answers, From, TypeOK
          <6> QED BY <3>0, <6>1
        <5> QED BY <5>1, <5>2
      <4>2. \A d \in Clients \ {c} :
              got'[d] = got[d] /\ remaining'[d] = remaining[d] /\ cursor'[d] = cursor[d]
        BY <3>3 DEF Answers, Moved, TypeOK
      <4>3. remaining'[c] = Size - Upto(c)
        BY <3>3 DEF Answers, TypeOK
      <4>4. cursor'[c] # NoCursor => cursor'[c].at = Upto(c) /\ Upto(c) \in 1..(Size - 1)
        <5>1. cursor'[c] # NoCursor => cursor'[c].at = Upto(c) /\ Upto(c) # Size
          BY <3>3 DEF Answers, Moved, TypeOK
        <5>2. Upto(c) # Size => Upto(c) \in 1..(Size - 1)
          BY <3>0
        <5> QED BY <5>1, <5>2
      <4> QED BY <4>1, <4>2, <4>3, <4>4 DEF CursorInv, PagesInOrder
    <3> QED BY <3>1, <3>2, <3>3
  <2>4. ASSUME NEW c \in Clients, Refuses(c) PROVE IInv'
    BY <2>2, <2>4, EndsType DEF Refuses, Idle
  <2>5. ASSUME NEW c \in Clients, NEW transient \in BOOLEAN, ConnectFails(c, transient)
        PROVE  IInv'
    BY <2>2, <2>5, RetriesType DEF ConnectFails, TypeOK
  <2>6. ASSUME NEW c \in Clients, NEW transient \in BOOLEAN, RequestFails(c, transient)
        PROVE  IInv'
    BY <2>2, <2>6, RetriesType DEF RequestFails, Closes
  <2>7. CASE SessionEnds
    BY <2>2, <2>7 DEF SessionEnds, Closes, TypeOK
  <2>8. CASE UNCHANGED vars
    BY <2>2, <2>8 DEF vars, TypeOK
  <2> QED BY <2>1, <2>3, <2>4, <2>5, <2>6, <2>7, <2>8 DEF Next
<1> QED BY <1>1, <1>2, PTL DEF Spec

(* Every reachable state is well typed. *)
THEOREM TypeCorrect == Spec => []TypeOK
BY Inductive, PTL DEF IInv

(* No page is skipped or repeated, and what remains is what is said to. *)
THEOREM InOrder == Spec => []PagesInOrder
BY Inductive, PTL DEF IInv

(* The iterators QuickBooks goes on with are where their clients are. *)
THEOREM CursorsFollow == Spec => []CursorInv
BY Inductive, PTL DEF IInv

(* Over whatever fails and is made again, every client walks once through   *)
(* the records: the pages are those of an uninterrupted listing.           *)
THEOREM Implements == Spec => ImplementsListing
<1> USE PagesAssumption DEF PagesAssumption
<1>1. Init => Listing!Init
  BY DEF Init, Listing!Init
<1>2. IInv /\ [Next]_vars => [Listing!Next]_(Listing!vars)
  <2> SUFFICES ASSUME IInv, [Next]_vars PROVE [Listing!Next]_(Listing!vars)
    OBVIOUS
  <2> USE DEF IInv
  <2>1. ASSUME UNCHANGED <<got, remaining>> PROVE UNCHANGED Listing!vars
    BY <2>1 DEF Listing!vars
  <2>2. ASSUME NEW c \in Clients, Answers(c) PROVE [Listing!Next]_(Listing!vars)
    <3> USE <2>2
    <3>1. CASE ~Pages(c)
      BY <2>1, <3>1 DEF Answers
    <3>2. CASE Pages(c)
      <4>1. /\ From(c) \in 0..Size /\ Upto(c) \in 0..Size
            /\ From(c) < Size => From(c) < Upto(c)
            /\ Page(c) = [i \in 1..(Upto(c) - From(c)) |-> From(c) + i]
            /\ Len(Page(c)) = Upto(c) - From(c) /\ Page(c) \in Seq(1..Size)
        BY PageBounds DEF Answers, Page
      <4>2. remaining' = [remaining EXCEPT ![c] = Size - Upto(c)]
        BY <3>2 DEF Answers
      <4>3. CASE ~Continues(c)
        <5>1. From(c) = 0 /\ got' = [got EXCEPT ![c] = Page(c)]
          BY <3>2, <4>3 DEF Answers, From
        <5>2. Page(c) = [i \in 1..Upto(c) |-> i]
          BY <4>1, <5>1
        <5>3. Upto(c) = 0 => Size = 0
          BY <4>1, <5>1
        <5>4. Listing!Has(c, Upto(c))
          BY <4>2, <5>1, <5>2 DEF Listing!Has
        <5> QED BY <4>1, <5>3, <5>4 DEF Listing!FirstPage, Listing!Next
      <4>4. CASE Continues(c)
        <5>1. /\ cursor[c] # NoCursor /\ From(c) = Len(got[c]) /\ From(c) \in 1..(Size - 1)
          BY <4>4 DEF Answers, Understood, Known, From, CursorInv
        <5>2. got' = [got EXCEPT ![c] = got[c] \o Page(c)]
          BY <3>2, <4>4 DEF Answers
        <5>3. got[c] \o Page(c) = [i \in 1..Upto(c) |-> i]
          <6>1. got[c] \in Seq(1..Size) /\ \A i \in DOMAIN got[c] : got[c][i] = i
            BY DEF TypeOK, PagesInOrder
          <6>2. \A i \in 1..Len(Page(c)) : Page(c)[i] = Len(got[c]) + i
            BY <4>1, <5>1
          <6>3. /\ Len(got[c] \o Page(c)) = Len(got[c]) + Len(Page(c))
                /\ \A i \in DOMAIN (got[c] \o Page(c)) : (got[c] \o Page(c))[i] = i
            BY <4>1, <6>1, <6>2, Joining
          <6>4. Len(got[c] \o Page(c)) = Upto(c) /\ got[c] \o Page(c) \in Seq(1..Size)
            <7>1. got[c] \o Page(c) \in Seq(1..Size)
              BY <4>1, <6>1
            <7>2. Len(got[c]) + Len(Page(c)) = Upto(c)
              BY <4>1, <5>1, SMTT(30)
            <7> QED BY <6>3, <7>1, <7>2
          <6> DEFINE all == got[c] \o Page(c)
          <6>5. all = [i \in 1..Len(all) |-> all[i]] /\ DOMAIN all = 1..Len(all)
            BY <6>4, SMTT(30)
          <6> HIDE DEF all
          <6>6. all = [i \in 1..Upto(c) |-> i]
            BY <6>3, <6>4, <6>5 DEF all
          <6> QED BY <6>6 DEF all
        <5>4. got[c] # <<>> /\ remaining[c] > 0
          <6>1. got[c] # <<>>
            BY <5>1
          <6>2. remaining[c] = Size - Len(got[c])
            BY <6>1 DEF PagesInOrder
          <6> QED BY <5>1, <6>1, <6>2
        <5>5. Upto(c) \in (Len(got[c]) + 1)..Size
          BY <4>1, <5>1
        <5>6. Listing!Has(c, Upto(c))
          BY <4>2, <5>2, <5>3 DEF Listing!Has
        <5> QED BY <5>4, <5>5, <5>6 DEF Listing!NextPage, Listing!Next
      <4> QED BY <4>3, <4>4
    <3> QED BY <3>1, <3>2
  <2>3. CASE UNCHANGED vars
    BY <2>1, <2>3 DEF vars
  <2>4. CASE SessionEnds
    BY <2>1, <2>4 DEF SessionEnds
  <2>5. ASSUME NEW c \in Clients, NEW r, Asks(c, r) PROVE UNCHANGED <<got, remaining>>
    BY <2>5 DEF Asks
  <2>6. ASSUME NEW c \in Clients, NEW transient,
               Refuses(c) \/ ConnectFails(c, transient) \/ RequestFails(c, transient)
        PROVE  UNCHANGED <<got, remaining>>
    BY <2>6 DEF Refuses, ConnectFails, RequestFails
  <2> QED BY <2>1, <2>2, <2>3, <2>4, <2>5, <2>6 DEF Next
<1> QED BY <1>1, <1>2, Inductive, PTL DEF Spec, ImplementsListing, Listing!Spec

-----------------------------------------------------------------------------
(* The elements of a query *)

Rank ==
  [e \in {"MaxReturned", "ActiveStatus", "FromModifiedDate", "NameFilter",
          "ModifiedDateRangeFilter", "FromTxnDate", "ToTxnDate", "EntityFilter",
          "TimeTrackingEntityFilter", "RefNumberFilter"} |->
     CASE e = "MaxReturned" -> 1 [] e = "ActiveStatus" -> 2 [] e = "FromModifiedDate" -> 3
       [] e = "NameFilter" -> 4 [] e = "ModifiedDateRangeFilter" -> 5 [] e = "FromTxnDate" -> 6
       [] e = "ToTxnDate" -> 7 [] e = "EntityFilter" -> 8
       [] e = "TimeTrackingEntityFilter" -> 9 [] e = "RefNumberFilter" -> 10]

ReportRank ==
  [e \in {"ReportType", "ReportDateMacro", "FromReportDate", "ToReportDate",
          "ReportEntityFilter", "SummarizeColumnsBy", "ReportBasis"} |->
     CASE e = "ReportType" -> 1 [] e = "ReportDateMacro" -> 2 [] e = "FromReportDate" -> 3
       [] e = "ToReportDate" -> 4 [] e = "ReportEntityFilter" -> 5
       [] e = "SummarizeColumnsBy" -> 6 [] e = "ReportBasis" -> 7]

(* s has the elements of body whose rank is above lo and up to hi, in order. *)
InRank(s, body, rank, lo, hi) ==
  /\ s \in Seq(DOMAIN rank)
  /\ \A i \in DOMAIN s : s[i] \in body /\ lo < rank[s[i]] /\ rank[s[i]] <= hi
  /\ \A i, j \in DOMAIN s : i < j => rank[s[i]] < rank[s[j]]
  /\ \A e \in DOMAIN rank :
       e \in body /\ lo < rank[e] /\ rank[e] <= hi => \E i \in DOMAIN s : s[i] = e

(* Joined, two such sequences are one. *)
LEMMA RanksJoin ==
  ASSUME NEW body, NEW N, NEW rank \in [N -> Nat],
         NEW lo \in Nat, NEW mid \in Nat, NEW hi \in Nat, lo <= mid, mid <= hi,
         NEW s, NEW t, InRank(s, body, rank, lo, mid), InRank(t, body, rank, mid, hi)
  PROVE  InRank(s \o t, body, rank, lo, hi)
<1>0. /\ s \in Seq(N) /\ t \in Seq(N) /\ DOMAIN rank = N
      /\ Len(s) \in Nat /\ Len(t) \in Nat /\ DOMAIN s = 1..Len(s) /\ DOMAIN t = 1..Len(t)
      /\ \A i \in DOMAIN s : s[i] \in N /\ rank[s[i]] \in Nat
      /\ \A i \in DOMAIN t : t[i] \in N /\ rank[t[i]] \in Nat
  BY DEF InRank
<1>1. /\ s \o t \in Seq(N) /\ DOMAIN (s \o t) = 1..(Len(s) + Len(t))
      /\ \A i \in DOMAIN s : i \in DOMAIN (s \o t) /\ (s \o t)[i] = s[i]
      /\ \A i \in DOMAIN t : Len(s) + i \in DOMAIN (s \o t) /\ (s \o t)[Len(s) + i] = t[i]
  BY <1>0, SMTT(30)
<1>2. ASSUME NEW i \in DOMAIN (s \o t)
      PROVE  \/ i \in DOMAIN s
             \/ i > Len(s) /\ i - Len(s) \in DOMAIN t /\ (s \o t)[i] = t[i - Len(s)]
  BY <1>0, <1>1
<1>3. \A i \in DOMAIN s : s[i] \in body /\ lo < rank[s[i]] /\ rank[s[i]] <= mid
  BY DEF InRank
<1>4. \A i \in DOMAIN t : t[i] \in body /\ mid < rank[t[i]] /\ rank[t[i]] <= hi
  BY DEF InRank
<1>5. \A i \in DOMAIN (s \o t) :
        LET e == (s \o t)[i] IN e \in body /\ lo < rank[e] /\ rank[e] <= hi
  BY <1>0, <1>1, <1>2, <1>3, <1>4
<1>6. ASSUME NEW i \in DOMAIN (s \o t), NEW j \in DOMAIN (s \o t), i < j
      PROVE  rank[(s \o t)[i]] < rank[(s \o t)[j]]
  <2>1. CASE j \in DOMAIN s
    BY <1>0, <1>1, <1>6, <2>1 DEF InRank
  <2>2. CASE i \in DOMAIN s /\ j \notin DOMAIN s
    BY <1>0, <1>1, <1>2, <1>3, <1>4, <2>2
  <2>3. CASE i \notin DOMAIN s
    <3>1. i > Len(s) /\ j > Len(s)
      BY <1>0, <1>1, <1>6, <2>3
    <3>2. i - Len(s) \in DOMAIN t /\ (s \o t)[i] = t[i - Len(s)]
      BY <1>2, <2>3
    <3>3. j - Len(s) \in DOMAIN t /\ (s \o t)[j] = t[j - Len(s)]
      BY <1>0, <1>2, <3>1
    <3>4. i - Len(s) < j - Len(s)
      BY <1>0, <1>1, <1>6
    <3> QED BY <3>2, <3>3, <3>4 DEF InRank
  <2> QED BY <2>1, <2>2, <2>3
<1>7. ASSUME NEW e \in N, e \in body, lo < rank[e], rank[e] <= hi
      PROVE  \E i \in DOMAIN (s \o t) : (s \o t)[i] = e
  <2>1. CASE rank[e] <= mid
    <3>1. PICK i \in DOMAIN s : s[i] = e
      BY <1>0, <1>7, <2>1 DEF InRank
    <3> QED BY <1>1, <3>1
  <2>2. CASE ~(rank[e] <= mid)
    <3>0. mid < rank[e]
      BY <2>2
    <3>1. PICK i \in DOMAIN t : t[i] = e
      BY <1>0, <1>7, <3>0 DEF InRank
    <3> QED BY <1>1, <3>1
  <2> QED BY <2>1, <2>2
<1> QED BY <1>0, <1>1, <1>5, <1>6, <1>7 DEF InRank

LEMMA KeptInRank ==
  ASSUME NEW body, NEW N, NEW rank \in [N -> Nat],
         \A x, y \in N : rank[x] = rank[y] => x = y,
         NEW e \in N, NEW lo \in Nat, rank[e] = lo + 1
  PROVE  InRank(Kept(body, e), body, rank, lo, lo + 1)
<1>1. CASE e \in body
  <2> DEFINE s == <<e>>
  <2>1. s \in Seq(N) /\ DOMAIN s = {1} /\ s[1] = e
    OBVIOUS
  <2>2. \A x \in N : x \in body /\ lo < rank[x] /\ rank[x] <= lo + 1 => x = e
    OBVIOUS
  <2>3. Kept(body, e) = s
    BY <1>1 DEF Kept
  <2> HIDE DEF s
  <2>4. InRank(s, body, rank, lo, lo + 1)
    BY <1>1, <2>1, <2>2 DEF InRank
  <2> QED BY <2>3, <2>4
<1>2. CASE e \notin body
  <2>1. \A x \in N : x \in body => ~(lo < rank[x] /\ rank[x] <= lo + 1)
    BY <1>2
  <2> QED BY <1>2, <2>1 DEF InRank, Kept
<1> QED BY <1>1, <1>2

LEMMA RankType == \A e \in DOMAIN Rank : Rank[e] \in 1..10
<1> SUFFICES ASSUME NEW e \in DOMAIN Rank PROVE Rank[e] \in 1..10
  OBVIOUS
<1>1. \/ e = "MaxReturned" \/ e = "ActiveStatus" \/ e = "FromModifiedDate" \/ e = "NameFilter"
      \/ e = "ModifiedDateRangeFilter" \/ e = "FromTxnDate" \/ e = "ToTxnDate"
      \/ e = "EntityFilter" \/ e = "TimeTrackingEntityFilter" \/ e = "RefNumberFilter"
  BY DEF Rank
<1> QED BY <1>1 DEF Rank

LEMMA SixInRow ==
  ASSUME NEW a, NEW b, NEW c, NEW d, NEW x, NEW y
  PROVE  <<a, b, c, d, x>> \o <<y>> = <<a, b, c, d, x, y>>
<1> DEFINE S == {a, b, c, d, x, y}
           s == <<a, b, c, d, x>>
           t == <<y>>
           u == <<a, b, c, d, x, y>>
<1>1. s \in Seq(S) /\ t \in Seq(S) /\ u \in Seq(S)
  OBVIOUS
<1>2. Len(s) = 5 /\ Len(t) = 1 /\ Len(u) = 6
  OBVIOUS
<1>3. Len(s \o t) = 6 /\ s \o t \in Seq(S)
  BY <1>1, <1>2
<1>4. \A i \in 1..6 : (s \o t)[i] = u[i]
  <2>1. \A i \in 1..5 : (s \o t)[i] = u[i]
    OBVIOUS
  <2>2. (s \o t)[6] = u[6]
    OBVIOUS
  <2> QED BY <2>1, <2>2
<1> HIDE DEF s, t, u, S
<1>5. s \o t = u
  BY <1>1, <1>2, <1>3, <1>4
<1> QED BY <1>5 DEF s, t, u

(* The loop puts the elements in the order of their ranks, and loses none. *)
LEMMA OrderedInRank ==
  ASSUME NEW body PROVE InRank(Ordered(body), body, Rank, 0, 10)
<1> DEFINE R(s, lo, hi) == InRank(s, body, Rank, lo, hi)
           N == DOMAIN Rank
           K(e) == Kept(body, e)
<1>0. /\ Rank \in [N -> Nat] /\ \A x, y \in N : Rank[x] = Rank[y] => x = y
  BY DEF Rank
<1>1. \A e \in N : \A lo \in Nat : Rank[e] = lo + 1 => R(K(e), lo, lo + 1)
  BY <1>0, KeptInRank
<1>2. ASSUME NEW s, NEW t, NEW lo \in Nat, NEW mid \in Nat, NEW hi \in Nat,
             lo <= mid, mid <= hi, R(s, lo, mid), R(t, mid, hi)
      PROVE  R(s \o t, lo, hi)
  <2> HIDE DEF N
  <2> QED BY <1>0, <1>2, RanksJoin
<1>3. /\ R(K("MaxReturned"), 0, 1) /\ R(K("ActiveStatus"), 1, 2)
      /\ R(K("FromModifiedDate"), 2, 3) /\ R(K("NameFilter"), 3, 4)
      /\ R(K("ModifiedDateRangeFilter"), 4, 5) /\ R(K("FromTxnDate"), 5, 6)
      /\ R(K("ToTxnDate"), 6, 7) /\ R(K("EntityFilter"), 7, 8)
      /\ R(K("TimeTrackingEntityFilter"), 8, 9) /\ R(K("RefNumberFilter"), 9, 10)
  <2> HIDE DEF R, K
  <2>1. \A e \in N, n \in 0..9 : Rank[e] = n + 1 => R(K(e), n, n + 1)
    BY <1>1
  <2>2. \A e \in N : Rank[e] \in 1..10
    BY RankType
  <2>3. \A e \in N : R(K(e), Rank[e] - 1, Rank[e])
    <3>1. \A n \in 1..10 : n - 1 \in 0..9 /\ n = (n - 1) + 1
      OBVIOUS
    <3> QED BY <2>1, <2>2, <3>1
  <2> HIDE DEF N
  <2>4. /\ "MaxReturned" \in N /\ Rank["MaxReturned"] = 1
        /\ "ActiveStatus" \in N /\ Rank["ActiveStatus"] = 2
        /\ "FromModifiedDate" \in N /\ Rank["FromModifiedDate"] = 3
        /\ "NameFilter" \in N /\ Rank["NameFilter"] = 4
        /\ "ModifiedDateRangeFilter" \in N /\ Rank["ModifiedDateRangeFilter"] = 5
        /\ "FromTxnDate" \in N /\ Rank["FromTxnDate"] = 6
        /\ "ToTxnDate" \in N /\ Rank["ToTxnDate"] = 7
        /\ "EntityFilter" \in N /\ Rank["EntityFilter"] = 8
        /\ "TimeTrackingEntityFilter" \in N /\ Rank["TimeTrackingEntityFilter"] = 9
        /\ "RefNumberFilter" \in N /\ Rank["RefNumberFilter"] = 10
    BY DEF N, Rank
  <2>5. \A e \in N, n \in 1..10 : Rank[e] = n => R(K(e), n - 1, n)
    BY <2>3
  <2> HIDE DEF R, K
  <2>6. /\ 1 - 1 = 0 /\ 2 - 1 = 1 /\ 3 - 1 = 2 /\ 4 - 1 = 3 /\ 5 - 1 = 4 /\ 6 - 1 = 5
        /\ 7 - 1 = 6 /\ 8 - 1 = 7 /\ 9 - 1 = 8 /\ 10 - 1 = 9
    OBVIOUS
  <2> QED BY <2>4, <2>5, <2>6
<1> HIDE DEF R
<1> DEFINE F3 == K("ActiveStatus") \o K("FromModifiedDate")
           F4 == F3 \o K("NameFilter")
           F5 == F4 \o K("ModifiedDateRangeFilter")
           F6 == F5 \o K("FromTxnDate")
           F7 == F6 \o K("ToTxnDate")
           F8 == F7 \o K("EntityFilter")
           F9 == F8 \o K("TimeTrackingEntityFilter")
           F10 == F9 \o K("RefNumberFilter")
<1>4. F10 = FiltersKept(body)
  BY DEF FiltersKept
<1>5. K("MaxReturned") \o F10 = Ordered(body)
  BY <1>4 DEF Ordered
<1> HIDE DEF K
<1>a. R(F3, 1, 3)
  BY <1>2, <1>3
<1>b. R(F4, 1, 4)
  <2> HIDE DEF F3
  <2> QED BY <1>2, <1>3, <1>a
<1>c. R(F5, 1, 5)
  <2> HIDE DEF F4
  <2> QED BY <1>2, <1>3, <1>b
<1>d. R(F6, 1, 6)
  <2> HIDE DEF F5
  <2> QED BY <1>2, <1>3, <1>c
<1>e. R(F7, 1, 7)
  <2> HIDE DEF F6
  <2> QED BY <1>2, <1>3, <1>d
<1>f. R(F8, 1, 8)
  <2> HIDE DEF F7
  <2> QED BY <1>2, <1>3, <1>e
<1>g. R(F9, 1, 9)
  <2> HIDE DEF F8
  <2> QED BY <1>2, <1>3, <1>f
<1>h. R(F10, 1, 10)
  <2> HIDE DEF F9
  <2> QED BY <1>2, <1>3, <1>g
<1> HIDE DEF F10
<1>6. R(K("MaxReturned") \o F10, 0, 10)
  BY <1>2, <1>3, <1>h
<1> QED BY <1>5, <1>6 DEF R

(* What is asked of a list is in the query, if its rank is known. *)
LEMMA SendsList ==
  ASSUME NEW c \in Clients, req[c].of \notin Reports, NEW e \in DOMAIN Rank,
         e \in {"MaxReturned"} \cup Filters(req[c])
  PROVE  Sends(c, e)
<1> DEFINE body == {"MaxReturned"} \cup Filters(req[c])
<1>1. Body(c) = Ordered(body)
  BY DEF Body, Query
<1>2. Rank[e] \in Nat /\ 0 < Rank[e] /\ Rank[e] <= 10
  BY RankType
<1> HIDE DEF body
<1>3. InRank(Ordered(body), body, Rank, 0, 10)
  BY OrderedInRank
<1>4. e \in body
  BY DEF body
<1>5. \E i \in DOMAIN Ordered(body) : Ordered(body)[i] = e
  BY <1>2, <1>3, <1>4 DEF InRank
<1> QED BY <1>1, <1>5 DEF Sends, Elements

(* ... and nothing else is. *)
LEMMA SendsOnly ==
  ASSUME NEW c \in Clients, req[c].of \notin Reports
  PROVE  Elements(c) \subseteq {"MaxReturned"} \cup Filters(req[c])
<1>1. Body(c) = Ordered({"MaxReturned"} \cup Filters(req[c]))
  BY DEF Body, Query
<1>2. \A i \in DOMAIN Body(c) : Body(c)[i] \in {"MaxReturned"} \cup Filters(req[c])
  BY <1>1, OrderedInRank DEF InRank
<1> QED BY <1>2 DEF Elements

(* Every filter of a list has an element. *)
LEMMA ElementsRanked ==
  ASSUME NEW e, NEW p \in Filtering PROVE ListElement(e, p) \in DOMAIN Rank
BY DEF Filtering, ListParams, ListElement, Rank

LEMMA FirstPage == FirstPageFiltered
<1> SUFFICES ASSUME NEW c \in Clients, pc[c] = "trying", req[c].of \in Entities, ~Continues(c)
             PROVE  Elements(c) = {"MaxReturned"}
                      \cup {ListElement(req[c].of, p) : p \in req[c].given \cap Filtering}
  BY DEF FirstPageFiltered
<1>1. req[c].of \notin Reports
  BY QueryAssumption DEF QueryAssumption
<1>2. req[c].iterator # "Held"
  BY <1>1 DEF Continues, Query
<1>3. Filters(req[c]) = {ListElement(req[c].of, p) : p \in req[c].given \cap Filtering}
  BY <1>2 DEF Filters
<1>4. \A e \in {"MaxReturned"} \cup Filters(req[c]) : e \in Elements(c)
  <2>1. \A e \in {"MaxReturned"} \cup Filters(req[c]) : e \in DOMAIN Rank
    BY <1>3, ElementsRanked DEF Rank
  <2> QED BY <1>1, <2>1, SendsList DEF Sends
<1> QED BY <1>1, <1>3, <1>4, SendsOnly

-----------------------------------------------------------------------------
(* Schemas *)

(* A schema is in the order of the ranks. *)
LEMMA SchemaRanked ==
  ASSUME NEW e \in Entities
  PROVE  /\ Schema(e) \in Seq(DOMAIN Rank)
         /\ \A i, j \in DOMAIN Schema(e) : Rank[Schema(e)[i]] < Rank[Schema(e)[j]] => i < j
<1> DEFINE last == IF e \in WithEntityFilter THEN "EntityFilter" ELSE "TimeTrackingEntityFilter"
<1>1. CASE e \in Lists
  <2>1. Schema(e) = <<"MaxReturned", "ActiveStatus", "FromModifiedDate", "NameFilter">>
    BY <1>1 DEF Schema
  <2> QED BY <2>1 DEF Rank
<1>2. CASE e \notin Lists /\ e \in WithRefNumber
  <2>1. Schema(e) = <<"MaxReturned", "ModifiedDateRangeFilter", "FromTxnDate", "ToTxnDate", last,
                      "RefNumberFilter">>
    BY <1>2, SixInRow DEF Schema
  <2>2. last \in {"EntityFilter", "TimeTrackingEntityFilter"}
    OBVIOUS
  <2> HIDE DEF last
  <2> QED BY <2>1, <2>2 DEF Rank
<1>3. CASE e \notin Lists /\ e \notin WithRefNumber
  <2>1. Schema(e) = <<"MaxReturned", "ModifiedDateRangeFilter", "FromTxnDate", "ToTxnDate", last>>
    BY <1>3 DEF Schema
  <2>2. last \in {"EntityFilter", "TimeTrackingEntityFilter"}
    OBVIOUS
  <2> HIDE DEF last
  <2> QED BY <2>1, <2>2 DEF Rank
<1> QED BY <1>1, <1>2, <1>3

(* What was not rejected has only elements of its kind. *)
LEMMA FiltersInSchema ==
  ASSUME NEW r, r.of \in Entities, ~Rejected(r),
         NEW x \in {"MaxReturned"} \cup Filters(r)
  PROVE  \E j \in DOMAIN Schema(r.of) : Schema(r.of)[j] = x
<1> DEFINE last == IF r.of \in WithEntityFilter THEN "EntityFilter" ELSE "TimeTrackingEntityFilter"
<1>0. /\ r.of \notin Lists => r.of \in Txns
      /\ r.of \in Txns => r.of \notin Lists
  BY QueryAssumption DEF QueryAssumption, Entities
<1>1. \/ x = "MaxReturned"
      \/ \E p \in r.given \cap Filtering : x = ListElement(r.of, p)
  BY DEF Filters
<1>2. \A p \in r.given : p \in Sent(r)
  BY DEF Sent
<1>3. CASE r.of \in Lists
  <2>1. Schema(r.of) = <<"MaxReturned", "ActiveStatus", "FromModifiedDate", "NameFilter">>
    BY <1>3 DEF Schema
  <2>2. x \in {"MaxReturned", "ActiveStatus", "FromModifiedDate", "NameFilter"}
    BY <1>0, <1>1, <1>2, <1>3 DEF Rejected, NotApplicable, TxnOnly, Filtering, ListParams, ListElement
  <2> QED BY <2>1, <2>2
<1>4. CASE r.of \notin Lists
  <2>1. x \in {"MaxReturned", "ModifiedDateRangeFilter", "FromTxnDate", "ToTxnDate", last,
               "RefNumberFilter"}
    BY <1>0, <1>1, <1>2, <1>4 DEF Rejected, NotApplicable, Filtering, ListParams, ListElement
  <2>2. x = "RefNumberFilter" => r.of \in WithRefNumber
    BY <1>0, <1>1, <1>2, <1>4 DEF Rejected, NotApplicable, Filtering, ListParams, ListElement
  <2>3. CASE r.of \in WithRefNumber
    <3>1. Schema(r.of) = <<"MaxReturned", "ModifiedDateRangeFilter", "FromTxnDate", "ToTxnDate",
                           last, "RefNumberFilter">>
      BY <1>4, <2>3, SixInRow DEF Schema
    <3> HIDE DEF last
    <3> QED BY <2>1, <3>1
  <2>4. CASE r.of \notin WithRefNumber
    <3>1. Schema(r.of) = <<"MaxReturned", "ModifiedDateRangeFilter", "FromTxnDate", "ToTxnDate",
                           last>>
      BY <1>4, <2>4 DEF Schema
    <3> HIDE DEF last
    <3> QED BY <2>1, <2>2, <2>4, <3>1
  <2> QED BY <2>3, <2>4
<1> QED BY <1>3, <1>4

LEMMA Fits ==
  ASSUME TypeOK, NEW c \in Clients, pc[c] = "trying", req[c].of \in Entities
  PROVE  InSchemaOrder(c)
<1> DEFINE schema == Schema(req[c].of)
           Place(e) == CHOOSE i \in DOMAIN schema : schema[i] = e
           body == Body(c)
           asked == {"MaxReturned"} \cup Filters(req[c])
<1>1. req[c].of \notin Reports /\ ~Rejected(req[c])
  BY QueryAssumption DEF QueryAssumption, TypeOK
<1>2. body = Ordered(asked)
  BY <1>1 DEF Body, Query
<1>3. InRank(body, asked, Rank, 0, 10)
  BY <1>2, OrderedInRank
<1>4. \A x \in asked : \E j \in DOMAIN schema : schema[j] = x
  BY <1>1, FiltersInSchema
<1>5. \A i, j \in DOMAIN schema : Rank[schema[i]] < Rank[schema[j]] => i < j
  BY SchemaRanked
<1> HIDE DEF body, schema, asked
<1>6. \A i \in DOMAIN body : \E j \in DOMAIN schema : schema[j] = body[i]
  BY <1>3, <1>4 DEF InRank
<1>7. \A i \in DOMAIN body : Place(body[i]) \in DOMAIN schema /\ schema[Place(body[i])] = body[i]
  BY <1>6
<1> HIDE DEF Place
<1>8. \A i, j \in DOMAIN body : i < j => Place(body[i]) < Place(body[j])
  <2>1. \A i, j \in DOMAIN body : i < j => Rank[body[i]] < Rank[body[j]]
    BY <1>3 DEF InRank
  <2> QED BY <1>5, <1>7, <2>1
<1> QED BY <1>6, <1>8 DEF body, schema, Place, InSchemaOrder

(* Both filters by date are sent when both are asked for, and not else. *)
LEMMA DateFilters ==
  ASSUME TypeOK, NEW c \in Clients, pc[c] = "trying", req[c].of \in Entities
  PROVE  HasOneDateFilter(c) <=> ~AsksForBothDates(req[c])
<1> DEFINE r == req[c]
<1>1. r.of \notin Reports /\ ~Rejected(r) /\ (r.of \notin Txns => r.of \in Lists)
  BY QueryAssumption DEF QueryAssumption, TypeOK, Entities
<1>2. \A e \in DOMAIN Rank \ {"MaxReturned"} : Sends(c, e) <=> e \in Filters(r)
  BY <1>1, SendsList, SendsOnly DEF Sends
<1>3. {"ModifiedDateRangeFilter", "FromTxnDate", "ToTxnDate"} \subseteq DOMAIN Rank \ {"MaxReturned"}
  BY DEF Rank
<1>4. \A p \in Filtering :
        /\ ListElement(r.of, p) = "FromTxnDate" <=> p = "from_date"
        /\ ListElement(r.of, p) = "ToTxnDate" <=> p = "to_date"
        /\ ListElement(r.of, p) = "ModifiedDateRangeFilter" <=> p = "modified_after" /\ r.of \in Txns
  BY DEF Filtering, ListParams, ListElement
<1>5. {"from_date", "to_date", "modified_after"} \subseteq Filtering
  BY DEF Filtering, ListParams
<1>6. CASE r.iterator = "Held"
  <2>1. Filters(r) = {}
    BY <1>6 DEF Filters
  <2> QED BY <1>2, <1>3, <1>6, <2>1 DEF HasOneDateFilter, AsksForBothDates
<1>7. CASE r.iterator # "Held"
  <2>1. \A e : e \in Filters(r) <=> \E p \in r.given \cap Filtering : e = ListElement(r.of, p)
    BY <1>7 DEF Filters
  <2>2. /\ "FromTxnDate" \in Filters(r) <=> "from_date" \in r.given
        /\ "ToTxnDate" \in Filters(r) <=> "to_date" \in r.given
        /\ "ModifiedDateRangeFilter" \in Filters(r) <=> "modified_after" \in r.given /\ r.of \in Txns
    BY <1>4, <1>5, <2>1
  <2>3. /\ Sends(c, "FromTxnDate") <=> "from_date" \in r.given
        /\ Sends(c, "ToTxnDate") <=> "to_date" \in r.given
        /\ Sends(c, "ModifiedDateRangeFilter") <=> "modified_after" \in r.given /\ r.of \in Txns
    BY <1>2, <1>3, <2>2
  <2> QED BY <1>7, <2>3 DEF HasOneDateFilter, AsksForBothDates
<1> QED BY <1>6, <1>7

-----------------------------------------------------------------------------
(* Reports *)

LEMMA ReportRankType == \A e \in DOMAIN ReportRank : ReportRank[e] \in 1..7
<1> SUFFICES ASSUME NEW e \in DOMAIN ReportRank PROVE ReportRank[e] \in 1..7
  OBVIOUS
<1>1. \/ e = "ReportType" \/ e = "ReportDateMacro" \/ e = "FromReportDate" \/ e = "ToReportDate"
      \/ e = "ReportEntityFilter" \/ e = "SummarizeColumnsBy" \/ e = "ReportBasis"
  BY DEF ReportRank
<1> QED BY <1>1 DEF ReportRank

(* A report's query has the elements that its parameters make, in order. *)
LEMMA ReportInRank ==
  ASSUME NEW r
  PROVE  InRank(ReportBody(r), {"ReportType"} \cup ReportElements(r), ReportRank, 0, 7)
<1> DEFINE body == {"ReportType"} \cup ReportElements(r)
           N == DOMAIN ReportRank
           R(s, lo, hi) == InRank(s, body, ReportRank, lo, hi)
           K(e) == Kept(body, e)
<1>0. /\ ReportRank \in [N -> Nat]
      /\ \A x, y \in N : ReportRank[x] = ReportRank[y] => x = y
  BY DEF ReportRank
<1>1. \A e \in N : \A lo \in Nat : ReportRank[e] = lo + 1 => R(K(e), lo, lo + 1)
  <2> HIDE DEF N, body
  <2> QED BY <1>0, KeptInRank
<1>2. ASSUME NEW s, NEW t, NEW lo \in Nat, NEW mid \in Nat, NEW hi \in Nat,
             lo <= mid, mid <= hi, R(s, lo, mid), R(t, mid, hi)
      PROVE  R(s \o t, lo, hi)
  <2> HIDE DEF N, body
  <2> QED BY <1>0, <1>2, RanksJoin
<1>3. /\ R(K("ReportType"), 0, 1) /\ R(K("ReportDateMacro"), 1, 2)
      /\ R(K("FromReportDate"), 2, 3) /\ R(K("ToReportDate"), 3, 4)
      /\ R(K("ReportEntityFilter"), 4, 5) /\ R(K("SummarizeColumnsBy"), 5, 6)
      /\ R(K("ReportBasis"), 6, 7)
  <2> HIDE DEF R, K
  <2>1. \A e \in N, n \in 0..6 : ReportRank[e] = n + 1 => R(K(e), n, n + 1)
    BY <1>1
  <2>2. \A n \in 1..7 : n - 1 \in 0..6 /\ n = (n - 1) + 1
    OBVIOUS
  <2> HIDE DEF N
  <2>3. \A e \in N, n \in 1..7 : ReportRank[e] = n => R(K(e), n - 1, n)
    BY <2>1, <2>2
  <2>4. /\ "ReportType" \in N /\ ReportRank["ReportType"] = 1
        /\ "ReportDateMacro" \in N /\ ReportRank["ReportDateMacro"] = 2
        /\ "FromReportDate" \in N /\ ReportRank["FromReportDate"] = 3
        /\ "ToReportDate" \in N /\ ReportRank["ToReportDate"] = 4
        /\ "ReportEntityFilter" \in N /\ ReportRank["ReportEntityFilter"] = 5
        /\ "SummarizeColumnsBy" \in N /\ ReportRank["SummarizeColumnsBy"] = 6
        /\ "ReportBasis" \in N /\ ReportRank["ReportBasis"] = 7
    BY DEF N, ReportRank
  <2>5. 1 - 1 = 0 /\ 2 - 1 = 1 /\ 3 - 1 = 2 /\ 4 - 1 = 3 /\ 5 - 1 = 4 /\ 6 - 1 = 5 /\ 7 - 1 = 6
    OBVIOUS
  <2> QED BY <2>3, <2>4, <2>5
<1> HIDE DEF R
<1> DEFINE F2 == K("ReportType") \o K("ReportDateMacro")
           F3 == F2 \o K("FromReportDate")
           F4 == F3 \o K("ToReportDate")
           F5 == F4 \o K("ReportEntityFilter")
           F6 == F5 \o K("SummarizeColumnsBy")
           F7 == F6 \o K("ReportBasis")
<1>4. F7 = ReportBody(r)
  <2>1. K("ReportType") = <<"ReportType">>
    BY DEF Kept
  <2>2. \A e \in N \ {"ReportType"} : K(e) = Kept(ReportElements(r), e)
    BY DEF Kept
  <2>3. {"ReportDateMacro", "FromReportDate", "ToReportDate", "ReportEntityFilter",
         "SummarizeColumnsBy", "ReportBasis"} \subseteq N \ {"ReportType"}
    BY DEF ReportRank
  <2> HIDE DEF N, K
  <2> QED BY <2>1, <2>2, <2>3 DEF ReportBody
<1> HIDE DEF K
<1>a. R(F2, 0, 2)
  BY <1>2, <1>3
<1>b. R(F3, 0, 3)
  <2> HIDE DEF F2
  <2> QED BY <1>2, <1>3, <1>a
<1>c. R(F4, 0, 4)
  <2> HIDE DEF F3
  <2> QED BY <1>2, <1>3, <1>b
<1>d. R(F5, 0, 5)
  <2> HIDE DEF F4
  <2> QED BY <1>2, <1>3, <1>c
<1>e. R(F6, 0, 6)
  <2> HIDE DEF F5
  <2> QED BY <1>2, <1>3, <1>d
<1>f. R(F7, 0, 7)
  <2> HIDE DEF F6
  <2> QED BY <1>2, <1>3, <1>e
<1> QED BY <1>4, <1>f DEF R

(* The parameters that a query leaves out: the filters of a later page,     *)
(* what a date macro beats, and the end of a period without a beginning.   *)
LeftOut(r) ==
  IF r.of \in Reports
    THEN IF "date_macro" \in r.given THEN r.given \cap {"from_date", "to_date"}
         ELSE IF "from_date" \in r.given THEN {} ELSE r.given \cap {"to_date"}
    ELSE IF r.iterator = "Held" THEN r.given \cap Filtering ELSE {}

OnlyTheseLeftOut ==
  \A c \in Clients :
    pc[c] = "trying" =>
      LeftOut(req[c]) =
        IF req[c].of \in Reports
          THEN {p \in req[c].given \cap DOMAIN ReportElement : ~Sends(c, ReportElement[p])}
          ELSE {p \in req[c].given \cap Filtering : ~Sends(c, ListElement(req[c].of, p))}

LEMMA ReportSends ==
  ASSUME NEW c \in Clients, req[c].of \in Reports, NEW p \in DOMAIN ReportElement
  PROVE  Sends(c, ReportElement[p]) <=> ReportElement[p] \in ReportElements(req[c])
<1> DEFINE body == {"ReportType"} \cup ReportElements(req[c])
           e == ReportElement[p]
<1>1. Body(c) = ReportBody(req[c])
  BY DEF Body, Query
<1>2. e \in DOMAIN ReportRank /\ e # "ReportType"
  BY DEF ReportElement, ReportRank
<1>3. 0 < ReportRank[e] /\ ReportRank[e] <= 7
  BY <1>2, ReportRankType
<1> HIDE DEF e, body
<1>4. InRank(ReportBody(req[c]), body, ReportRank, 0, 7)
  BY ReportInRank DEF body
<1>5. (\E i \in DOMAIN ReportBody(req[c]) : ReportBody(req[c])[i] = e) <=> e \in body
  BY <1>2, <1>3, <1>4 DEF InRank
<1> QED BY <1>1, <1>2, <1>5 DEF Sends, Elements, body, e

LEMMA LeavesOut == OnlyTheseLeftOut
<1> SUFFICES ASSUME NEW c \in Clients, pc[c] = "trying"
             PROVE  LeftOut(req[c]) =
                      IF req[c].of \in Reports
                        THEN {p \in req[c].given \cap DOMAIN ReportElement :
                                ~Sends(c, ReportElement[p])}
                        ELSE {p \in req[c].given \cap Filtering :
                                ~Sends(c, ListElement(req[c].of, p))}
  BY DEF OnlyTheseLeftOut
<1> DEFINE r == req[c]
<1>1. CASE r.of \in Reports
  <2>1. /\ \A p, q \in DOMAIN ReportElement : ReportElement[p] = ReportElement[q] => p = q
        /\ DOMAIN ReportElement =
             {"date_macro", "from_date", "to_date", "entity", "summarize_by", "basis"}
    BY DEF ReportElement
  <2> DEFINE asking == Period(r.given) \cup (r.given \cap {"entity", "summarize_by", "basis"})
  <2>2. asking \subseteq DOMAIN ReportElement
    BY <2>1 DEF Period
  <2>3. ReportElements(r) = {ReportElement[p] : p \in asking}
    BY DEF ReportElements
  <2>4. \A p \in DOMAIN ReportElement : ReportElement[p] \in ReportElements(r) <=> p \in asking
    BY <2>1, <2>2, <2>3
  <2>5. {p \in r.given \cap DOMAIN ReportElement : ~Sends(c, ReportElement[p])}
          = (r.given \cap DOMAIN ReportElement) \ asking
    BY <1>1, <2>4, ReportSends
  <2>6. LeftOut(r) = (r.given \cap DOMAIN ReportElement) \ asking
    BY <1>1, <2>1 DEF LeftOut, Period
  <2> QED BY <1>1, <2>5, <2>6
<1>2. CASE r.of \notin Reports /\ r.iterator # "Held"
  <2>1. \A p \in r.given \cap Filtering : ListElement(r.of, p) \in Filters(r)
    BY <1>2 DEF Filters
  <2>2. \A p \in r.given \cap Filtering : Sends(c, ListElement(r.of, p))
    BY <1>2, <2>1, SendsList, ElementsRanked
  <2> QED BY <1>2, <2>2 DEF LeftOut
<1>3. CASE r.of \notin Reports /\ r.iterator = "Held"
  <2>1. Body(c) = Ordered({"MaxReturned"})
    BY <1>3 DEF Body, Query, Filters
  <2>2. \A i \in DOMAIN Body(c) : Body(c)[i] = "MaxReturned"
    BY <2>1, OrderedInRank DEF InRank
  <2>3. \A p \in Filtering : ListElement(r.of, p) # "MaxReturned"
    BY DEF Filtering, ListParams, ListElement
  <2>4. \A p \in Filtering : ~Sends(c, ListElement(r.of, p))
    BY <2>2, <2>3 DEF Sends, Elements
  <2> QED BY <1>3, <2>4 DEF LeftOut
<1> QED BY <1>1, <1>2, <1>3

-----------------------------------------------------------------------------
(* A first page is filtered by what was asked and by nothing else, for     *)
(* every entity and every set of parameters (list_entities, crud.py).      *)
THEOREM FirstPagesFiltered == Spec => []FirstPageFiltered
BY FirstPage, PTL

(* Whatever is asked of whichever entity, the elements of the query are    *)
(* those of its kind in qbXML's order (_order_query_body), and it fits the *)
(* schema but when a first page asks for a time of change and a date.      *)
THEOREM QueriesFit == Spec => []FitsUnlessBothDates
<1>1. TypeOK => FitsUnlessBothDates
  BY Fits, DateFilters DEF FitsUnlessBothDates, FitsSchema
<1> QED BY <1>1, TypeCorrect, PTL

(* No parameter that was accepted is ignored but those that NoParameterIgnored *)
(* fails for: the filters of later pages and parts of a report's period.   *)
THEOREM LeftOutExactly == Spec => []OnlyTheseLeftOut
BY LeavesOut, PTL
===============================================================================
