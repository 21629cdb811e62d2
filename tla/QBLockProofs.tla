----------------------------- MODULE QBLockProofs -----------------------------
(***************************************************************************)
(* Queues in which everybody waits once: the lemmas about the FIFO of an   *)
(* asyncio.Lock that QBSessionProofs and QBProcessProofs share.            *)
(***************************************************************************)
EXTENDS Naturals, Sequences, TLAPS

(* The members of W wait in q, each at one place, and nobody else does. *)
IsQueueOf(q, W) ==
  /\ q \in Seq(W)
  /\ \A w \in W : \E i \in DOMAIN q : q[i] = w
  /\ \A i, j \in DOMAIN q : q[i] = q[j] => i = j

(* e waits in t, at place k or before. *)
WaitsBy(t, e, k) == \E j \in DOMAIN t : j <= k /\ t[j] = e

(* From q to t nobody of W comes to have more before him: those behind the *)
(* first wait where they did, or at an earlier place.                      *)
KeepsTurns(q, t, W) ==
  \A k \in DOMAIN q : k > 1 /\ q[k] \in W => WaitsBy(t, q[k], k)

(* Nobody waits in an empty queue. *)
LEMMA EmptyQueue == IsQueueOf(<<>>, {})
BY DEF IsQueueOf

(* asyncio.Lock.acquire: to the end of the queue *)
LEMMA QueueAppend ==
  ASSUME NEW q, NEW W, IsQueueOf(q, W), NEW e, e \notin W
  PROVE  IsQueueOf(Append(q, e), W \cup {e})
<1> DEFINE t == Append(q, e)
           V == W \cup {e}
<1>1. /\ q \in Seq(W) /\ Len(q) \in Nat /\ DOMAIN q = 1..Len(q)
      /\ \A i \in DOMAIN q : q[i] \in W
  BY DEF IsQueueOf
<1>2. q \in Seq(V) /\ e \in V
  BY <1>1
<1>3. /\ t \in Seq(V) /\ DOMAIN t = 1..(Len(q) + 1)
      /\ \A i \in 1..Len(q) : t[i] = q[i]
      /\ t[Len(q) + 1] = e
  BY <1>1, <1>2
<1> HIDE DEF t
<1>4. \A w \in V : \E i \in DOMAIN t : t[i] = w
  <2>1. ASSUME NEW w \in W PROVE \E i \in DOMAIN t : t[i] = w
    <3>1. PICK i \in DOMAIN q : q[i] = w
      BY DEF IsQueueOf
    <3> QED BY <1>1, <1>3, <3>1
  <2>2. \E i \in DOMAIN t : t[i] = e
    BY <1>1, <1>3
  <2> QED BY <2>1, <2>2
<1>5. \A i, j \in DOMAIN t : t[i] = t[j] => i = j
  <2> SUFFICES ASSUME NEW i \in DOMAIN t, NEW j \in DOMAIN t, t[i] = t[j] PROVE i = j
    OBVIOUS
  <2>1. CASE i \in DOMAIN q /\ j \in DOMAIN q
    BY <1>1, <1>3, <2>1 DEF IsQueueOf
  <2>2. CASE i \notin DOMAIN q \/ j \notin DOMAIN q
    BY <1>1, <1>3, <2>2
  <2> QED BY <2>1, <2>2
<1> QED BY <1>3, <1>4, <1>5 DEF IsQueueOf, t

(* One leaves the queue, from whatever place. *)
LEMMA QueueWithout ==
  ASSUME NEW q, NEW W, IsQueueOf(q, W), NEW i \in DOMAIN q,
         NEW t \in Seq(W), Len(t) = Len(q) - 1,
         \A k \in 1..(Len(q) - 1) : t[k] = IF k < i THEN q[k] ELSE q[k + 1]
  PROVE  /\ q[i] \in W
         /\ IsQueueOf(t, W \ {q[i]})
         /\ \A k \in DOMAIN q \ {i} : WaitsBy(t, q[k], k)
<1>1. /\ Len(q) \in Nat /\ DOMAIN q = 1..Len(q)
      /\ \A k \in DOMAIN q : q[k] \in W
  BY DEF IsQueueOf
<1>2. Len(q) - 1 \in Nat /\ DOMAIN t = 1..(Len(q) - 1)
  BY <1>1
<1>3. ASSUME NEW k \in DOMAIN t
      PROVE  /\ k < i => k \in DOMAIN q /\ t[k] = q[k]
             /\ ~(k < i) => k + 1 \in DOMAIN q /\ t[k] = q[k + 1]
  BY <1>1, <1>2
<1>4. \A k \in DOMAIN t : t[k] \in W \ {q[i]}
  <2> SUFFICES ASSUME NEW k \in DOMAIN t PROVE t[k] \in W \ {q[i]}
    OBVIOUS
  <2>1. CASE k < i
    BY <1>1, <1>3, <2>1 DEF IsQueueOf
  <2>2. CASE ~(k < i)
    <3>1. k + 1 # i
      BY <1>1, <1>2, <2>2
    <3> QED BY <1>1, <1>3, <2>2, <3>1 DEF IsQueueOf
  <2> QED BY <2>1, <2>2
<1>5. t \in Seq(W \ {q[i]})
  BY <1>2, <1>4
<1>6. ASSUME NEW k \in DOMAIN q \ {i} PROVE WaitsBy(t, q[k], k)
  <2>1. CASE k < i
    <3>1. k \in DOMAIN t /\ t[k] = q[k] /\ k <= k
      BY <1>1, <1>2, <2>1
    <3> QED BY <3>1 DEF WaitsBy
  <2>2. CASE ~(k < i)
    <3>1. k - 1 \in DOMAIN t /\ ~(k - 1 < i) /\ (k - 1) + 1 = k /\ k - 1 <= k
      <4>1. k \in 1..Len(q) /\ i \in 1..Len(q) /\ k # i
        BY <1>1
      <4>2. i + 1 <= k
        BY <2>2, <4>1
      <4>3. k - 1 \in 1..(Len(q) - 1) /\ ~(k - 1 < i) /\ (k - 1) + 1 = k /\ k - 1 <= k
        BY <1>1, <4>1, <4>2
      <4> QED BY <1>2, <4>3
    <3>2. t[k - 1] = q[k]
      BY <1>3, <3>1
    <3> QED BY <3>1, <3>2 DEF WaitsBy
  <2> QED BY <2>1, <2>2
<1>7. \A w \in W \ {q[i]} : \E j \in DOMAIN t : t[j] = w
  <2> SUFFICES ASSUME NEW w \in W \ {q[i]} PROVE \E j \in DOMAIN t : t[j] = w
    OBVIOUS
  <2>1. PICK k \in DOMAIN q : q[k] = w
    BY DEF IsQueueOf
  <2> QED BY <1>6, <2>1 DEF WaitsBy
<1>8. \A k, l \in DOMAIN t : t[k] = t[l] => k = l
  <2> SUFFICES ASSUME NEW k \in DOMAIN t, NEW l \in DOMAIN t, t[k] = t[l] PROVE k = l
    OBVIOUS
  <2>0. \A m, n \in DOMAIN q : q[m] = q[n] => m = n
    BY DEF IsQueueOf
  <2>1. k \in Nat /\ l \in Nat /\ i \in Nat
    BY <1>1, <1>2
  <2>2. CASE k < i /\ l < i
    BY <1>3, <2>0, <2>2
  <2>3. CASE k < i /\ ~(l < i)
    <3>1. k = l + 1
      BY <1>3, <2>0, <2>3
    <3> QED BY <2>1, <2>3, <3>1
  <2>4. CASE ~(k < i) /\ l < i
    <3>1. k + 1 = l
      BY <1>3, <2>0, <2>4
    <3> QED BY <2>1, <2>4, <3>1
  <2>5. CASE ~(k < i) /\ ~(l < i)
    <3>1. k + 1 = l + 1
      BY <1>3, <2>0, <2>5
    <3> QED BY <2>1, <3>1
  <2> QED BY <2>2, <2>3, <2>4, <2>5
<1> QED BY <1>1, <1>5, <1>6, <1>7, <1>8 DEF IsQueueOf

(* Its first goes on: the others wait as before, one place further. *)
LEMMA QueueTail ==
  ASSUME NEW q, NEW W, IsQueueOf(q, W), q # <<>>
  PROVE  /\ Head(q) \in W
         /\ IsQueueOf(Tail(q), W \ {Head(q)})
         /\ \A k \in DOMAIN q : k > 1 => WaitsBy(Tail(q), q[k], k)
<1>1. q \in Seq(W) /\ Len(q) \in Nat \ {0} /\ DOMAIN q = 1..Len(q) /\ 1 \in DOMAIN q
  BY DEF IsQueueOf
<1> DEFINE t == Tail(q)
<1>2. /\ t \in Seq(W) /\ Len(t) = Len(q) - 1
      /\ \A k \in 1..(Len(q) - 1) : t[k] = IF k < 1 THEN q[k] ELSE q[k + 1]
  <2>1. t \in Seq(W) /\ Len(t) = Len(q) - 1
    BY <1>1
  <2>2. \A k \in 1..(Len(q) - 1) : t[k] = q[k + 1] /\ ~(k < 1)
    BY <1>1
  <2> QED BY <2>1, <2>2
<1>3. Head(q) = q[1]
  BY <1>1
<1> HIDE DEF t
<1>4. /\ q[1] \in W
      /\ IsQueueOf(t, W \ {q[1]})
      /\ \A k \in DOMAIN q \ {1} : WaitsBy(t, q[k], k)
  BY <1>1, <1>2, QueueWithout
<1> QED BY <1>1, <1>3, <1>4 DEF t

(* In a queue that is not empty, somebody is the first. *)
LEMMA QueueNonempty ==
  ASSUME NEW q, NEW W, IsQueueOf(q, W), W # {}
  PROVE  q # <<>> /\ Head(q) \in W
<1>1. PICK w \in W : TRUE
  OBVIOUS
<1>2. PICK i \in DOMAIN q : q[i] = w
  BY DEF IsQueueOf
<1>3. q # <<>> /\ q \in Seq(W)
  BY <1>2 DEF IsQueueOf
<1> QED BY <1>3

(* Turns *)
LEMMA TurnsStay == ASSUME NEW S, NEW q \in Seq(S), NEW W PROVE KeepsTurns(q, q, W)
BY DEF KeepsTurns, WaitsBy

LEMMA TurnsAppend ==
  ASSUME NEW S, NEW q \in Seq(S), NEW t \in Seq(S), NEW e \in S, NEW W, KeepsTurns(q, t, W)
  PROVE  KeepsTurns(q, Append(t, e), W)
<1>1. \A j \in DOMAIN t : j \in DOMAIN Append(t, e) /\ Append(t, e)[j] = t[j]
  OBVIOUS
<1> QED BY <1>1 DEF KeepsTurns, WaitsBy
==============================================================================
