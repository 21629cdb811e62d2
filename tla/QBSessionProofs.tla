--------------------------- MODULE QBSessionProofs ---------------------------
(***************************************************************************)
(* Proofs about QBSession for every set of calls and every max_attempts:   *)
(* first the types, then the inductive invariant IInv part by part, and    *)
(* from these the properties callers rely on.                              *)
(***************************************************************************)
EXTENDS QBSession, QBLockProofs, SequenceTheorems, TLAPS

USE DEF callVars, monitorVars, dialogVars, procVars, workerVars, qbVars, vars

(* Sequence facts used throughout. *)
LEMMA AppendTyped ==
  ASSUME NEW S, NEW s \in Seq(S), NEW e \in S
  PROVE  Append(s, e) \in Seq(S)
OBVIOUS

LEMMA TailTyped ==
  ASSUME NEW S, NEW s \in Seq(S), s # <<>>
  PROVE  Tail(s) \in Seq(S) /\ Head(s) \in S
OBVIOUS

LEMMA RemoveAtTyped ==
  ASSUME NEW S, NEW s \in Seq(S), NEW i \in DOMAIN s
  PROVE  RemoveAt(s, i) \in Seq(S)
<1>1. i \in 1..Len(s) /\ Len(s) \in Nat
  OBVIOUS
<1>2. SubSeq(s, 1, i - 1) \in Seq(S) /\ SubSeq(s, i + 1, Len(s)) \in Seq(S)
  BY <1>1, SubSeqProperties
<1>3. QED
  BY <1>2, ConcatProperties DEF RemoveAt

LEMMA SingleLine ==
  ASSUME NEW e
  PROVE  /\ Append(<<>>, e) = <<e>>
         /\ <<e>> # <<>>
         /\ Head(<<e>>) = e
         /\ Tail(<<e>>) = <<>>
         /\ Len(<<e>>) = 1
OBVIOUS

LEMMA BumpTyped ==
  ASSUME NEW count \in [Writes -> Nat], NEW r
  PROVE  Bump(count, r) \in [Writes -> Nat]
BY DEF Bump

-----------------------------------------------------------------------------
(* Types *)

(* Killing the worker, whatever it was doing. *)
LEMMA KillTyped ==
  ASSUME TypeOK, KillWorker
  PROVE  ProcTyped' /\ WorkerTyped'
<1> USE DEF TypeOK, CallTyped, LoopTyped, DialogTyped, ProcTyped, WorkerTyped
<1>1. CASE hasProc
  BY <1>1, BumpTyped, EmptySeq, ZenonT(40)
     DEF KillWorker, WorkerEnds
<1>2. CASE ~hasProc
  BY <1>2 DEF TypeOK, KillWorker, ProcTyped, WorkerTyped, workerVars, qbVars
<1>3. QED
  BY <1>1, <1>2

(* Leaving _execute_once with an error. *)
LEMMA RaiseTyped ==
  ASSUME TypeOK, NEW r \in Reqs, NEW q \in Seq(Reqs \cup {Monitor}),
         NEW reached, NEW f, Raise(r, q, reached, f)
  PROVE  CallTyped' /\ DialogTyped'
<1> USE DEF TypeOK, CallTyped, LoopTyped, DialogTyped, ProcTyped, WorkerTyped
<1>1. DialogTyped'
  BY DEF Raise
<1>2. owner' \in Reqs \cup {NoReq}
  BY DEF Raise
<1>3. Append(q, r) \in Seq(Reqs \cup {Monitor})
  BY AppendTyped
<1>4. waiters' \in Seq(Reqs \cup {Monitor})
  BY <1>3 DEF Raise
<1>5. attempt' \in [Reqs -> 1..MaxAttempts]
  <2>1. MaxAttempts \in Nat /\ attempt[r] \in 1..MaxAttempts
    BY SessionAssumption
  <2>2. attempt[r] < MaxAttempts => attempt[r] + 1 \in 1..MaxAttempts
    BY <2>1
  <2>3. attempt' = attempt \/ (attempt[r] < MaxAttempts /\ attempt' = [attempt EXCEPT ![r] = attempt[r] + 1])
    BY DEF Raise, AttemptsLeft
  <2>4. QED
    BY <2>2, <2>3
<1>6. \A g \in Transient : Remedy[g] \in Active
  BY DEF Remedy, Active, Transient
<1>7. pc' \in [Reqs -> {"new"} \cup Active \cup Final]
  BY <1>6 DEF Raise, Transits, MayRetry, Active, Final
<1>8. QED
  BY <1>1, <1>2, <1>4, <1>5, <1>7 

(* From taking the lock to the next await. *)
LEMMA EnterTyped ==
  ASSUME TypeOK, NEW r \in Reqs, NEW q \in Seq(Reqs \cup {Monitor}), Enter(r, q)
  PROVE  TypeOK'
<1> USE DEF TypeOK, CallTyped, LoopTyped, DialogTyped, ProcTyped, WorkerTyped
<1>1. LoopTyped'
  BY DEF Enter
<1>2. CASE EnterWarm(r, q) /\ Write(r, q)
  <2>1. stdin' \in Seq(Reqs)
    BY <1>2, AppendTyped DEF Write
  <2>2. CASE UNCHANGED state
    BY <1>1, <1>2, <2>1, <2>2
       DEF Write, EnterWarm, Transits, Active
  <2>3. CASE PipeBreaks(r, q)
    BY <1>1, <1>2, <2>3, KillTyped, RaiseTyped DEF PipeBreaks, EnterWarm
  <2>4. QED
    BY <1>2, <2>2, <2>3 DEF EnterWarm
<1>3. CASE EnterWarm(r, q) /\ PipeBreaks(r, q)
  BY <1>1, <1>3, KillTyped, RaiseTyped DEF PipeBreaks, EnterWarm
<1>4. CASE EnterCold(r, q)
  BY <1>1, <1>4, EmptySeq
     DEF EnterCold, Transits, Active
<1>5. CASE SpawnFails(r, q)
  BY <1>1, <1>5, KillTyped
     DEF SpawnFails, Transits, Final
<1>6. QED
  BY <1>2, <1>3, <1>4, <1>5 DEF Enter, EnterWarm

LEMMA LinesTyped ==
  ASSUME NEW r \in Reqs \cup {NoReq}, NEW f \in Transient \cup {Unrecognized}
  PROVE  /\ Ready \in Lines
         /\ OkLine(r) \in Lines
         /\ Garbled(r) \in Lines
         /\ ErrorLine(r, "connect", f) \in Lines
         /\ ErrorLine(r, "request", f) \in Lines
BY DEF Ready, OkLine, Garbled, ErrorLine, Lines, LineKinds

(* A call, one step at a time. *)
LEMMA CallStepTyped ==
  ASSUME TypeOK, NEW r \in Reqs, CallStep(r)
  PROVE  TypeOK'
<1> USE DEF TypeOK, CallTyped, LoopTyped, DialogTyped, ProcTyped, WorkerTyped
<1> DEFINE Q == Seq(Reqs \cup {Monitor})
<1>0. /\ waiters \in Q
      /\ waiters # <<>> => Tail(waiters) \in Q
      /\ stdout # <<>> => Tail(stdout) \in Seq(Lines)
      /\ Append(waiters, r) \in Q
  BY TailTyped, AppendTyped 
<1>1. CASE Refuse(r)
  BY <1>1 DEF Refuse, Transits, Final
<1>2. CASE FindsLockFree(r)
  BY <1>2, EnterTyped, EmptySeq DEF FindsLockFree
<1>3. CASE Queues(r)
  BY <1>0, <1>3 DEF Queues, Transits, Active
<1>4. CASE GetsLock(r)
  BY <1>0, <1>4, EnterTyped DEF GetsLock, IsNext
<1>5. CASE WorkerReady(r)
  <2>1. LoopTyped' /\ stdout' \in Seq(Lines)
    BY <1>0, <1>5 DEF WorkerReady
  <2>2. CASE Write(r, waiters) /\ state' = "disconnected"
    <3>1. stdin' \in Seq(Reqs)
      BY <2>2, AppendTyped DEF Write
    <3>2. QED
      BY <2>1, <2>2, <3>1
         DEF Write, Transits, Active
  <2>3. CASE PipeBreaks(r, waiters)
    BY <1>0, <2>1, <2>3, KillTyped, RaiseTyped DEF PipeBreaks
  <2>4. QED
    BY <1>5, <2>2, <2>3 DEF WorkerReady
<1>6. CASE StartupFails(r) \/ StartupTimesOut(r) \/ ReadEof(r) \/ ReadTimesOut(r)
  <2>1. LoopTyped' /\ stdout' \in Seq(Lines)
    BY <1>6 DEF StartupFails, StartupTimesOut, ReadEof, ReadTimesOut
  <2>2. ProcTyped' /\ WorkerTyped'
    BY <1>6, KillTyped DEF StartupFails, StartupTimesOut, ReadEof, ReadTimesOut
  <2>3. CallTyped' /\ DialogTyped'
    BY <1>0, <1>6, RaiseTyped DEF StartupFails, StartupTimesOut, ReadEof, ReadTimesOut
  <2>4. QED
    BY <2>1, <2>2, <2>3
<1>7. CASE ReadOk(r)
  BY <1>0, <1>7
     DEF ReadOk, HeadIs, Transits, Final
<1>8. CASE ReadError(r) \/ ReadGarbled(r)
  <2>1. LoopTyped' /\ stdout' \in Seq(Lines)
    BY <1>0, <1>8 DEF ReadError, ReadGarbled, HeadIs
  <2>2. ProcTyped'
    BY <1>8 DEF ReadError, ReadGarbled
  <2>3. WorkerTyped'
    BY <1>8 DEF ReadError, ReadGarbled
  <2>4. CallTyped' /\ DialogTyped'
    BY <1>0, <1>8, RaiseTyped DEF ReadError, ReadGarbled
  <2>5. QED
    BY <2>1, <2>2, <2>3, <2>4
<1>9. CASE RestartWorker(r)
  BY <1>0, <1>9, KillTyped
     DEF RestartWorker, IsNext, Transits, Active
<1>10. CASE Sweep(r)
  <2>1. pc' \in [Reqs -> {"new"} \cup Active \cup Final]
    BY <1>10 DEF Sweep, Transits, Active, Final
  <2>2. blocking' \in BOOLEAN
    BY <1>10 DEF Sweep
  <2>3. swept' \in SUBSET Reqs
    BY <1>10 DEF Sweep
  <2>4. QED
    BY <1>10, <2>1, <2>2, <2>3 DEF Sweep
<1>11. QED
  BY <1>1, <1>2, <1>3, <1>4, <1>5, <1>6, <1>7, <1>8, <1>9, <1>10 DEF CallStep

LEMMA WorkerStepTyped ==
  ASSUME TypeOK, WorkerStep
  PROVE  TypeOK'
<1> USE DEF TypeOK, CallTyped, LoopTyped, DialogTyped, ProcTyped, WorkerTyped
<1>0. WorkerOnly => CallTyped' /\ DialogTyped' /\ ProcTyped' /\ LoopTyped'
  BY DEF WorkerOnly
<1>1. ASSUME NEW line \in Lines
      PROVE  Append(stdout, line) \in Seq(Lines)
  BY AppendTyped 
<1>2. CASE WorkerBoots
  BY <1>0, <1>1, <1>2, LinesTyped DEF WorkerBoots
<1>3. CASE WorkerReads
  BY <1>0, <1>3, TailTyped DEF WorkerReads
<1>4. CASE Connects
  BY <1>0, <1>4 DEF Connects
<1>5. ASSUME NEW f \in ConnectFaults, ConnectFails(f)
      PROVE  TypeOK'
  <2>1. f \in Transient \cup {Unrecognized}
    BY DEF ConnectFaults, Transient
  <2>2. QED
    BY <1>0, <1>1, <1>5, <2>1, LinesTyped
       DEF ConnectFails, Responds
<1>6. CASE RequestSucceeds
  BY <1>0, <1>1, <1>6, LinesTyped, BumpTyped DEF RequestSucceeds, Responds
<1>7. ASSUME NEW f \in RequestFaults, RequestFails(f)
      PROVE  TypeOK'
  <2>1. f \in Transient \cup {Unrecognized}
    BY DEF RequestFaults, Transient
  <2>2. QED
    BY <1>0, <1>1, <1>7, <2>1, LinesTyped, BumpTyped
       DEF RequestFails, Responds
<1>8. CASE WorkerDies
  <2>1. WorkerTyped'
    BY <1>8, BumpTyped, EmptySeq DEF WorkerDies, WorkerEnds
  <2>2. stdout' \in Seq(Lines)
    BY <1>1, <1>8, LinesTyped DEF WorkerDies
  <2>3. QED
    BY <1>0, <1>8, <2>1, <2>2 DEF WorkerDies
<1>9. QED
  BY <1>2, <1>3, <1>4, <1>5, <1>6, <1>7, <1>8 DEF WorkerStep

(* Every state of the session manager, the worker and QuickBooks is of the *)
(* shape QBSession gives it; in particular no call makes more than         *)
(* max_attempts attempts.                                                  *)
THEOREM TypeCorrect == Spec => []TypeOK
<1> USE DEF TypeOK, CallTyped, LoopTyped, DialogTyped, ProcTyped, WorkerTyped
<1>1. Init => TypeOK
  <2> SUFFICES ASSUME Init PROVE TypeOK
    OBVIOUS
  <2>1. 1 \in 1..MaxAttempts
    BY SessionAssumption
  <2>2. CallTyped
    BY <2>1, EmptySeq DEF Init
  <2>3. WorkerTyped
    BY EmptySeq DEF Init
  <2>4. LoopTyped /\ DialogTyped /\ ProcTyped /\ stdout \in Seq(Lines)
    BY EmptySeq DEF Init
  <2>5. QED
    BY <2>2, <2>3, <2>4
<1>2. ASSUME TypeOK, [Next]_vars
      PROVE  TypeOK'
  <2> USE <1>2
  <2>1. CASE Start \/ StopBegins \/ TimePasses
    <3>1. ASSUME NEW i \in DOMAIN waiters
          PROVE  RemoveAt(waiters, i) \in Seq(Reqs \cup {Monitor})
      BY RemoveAtTyped 
    <3>2. QED
      BY <2>1, <3>1
         DEF Start, StopBegins, TimePasses
  <2>2. CASE StopKills
    BY <2>2, KillTyped
       DEF StopKills
  <2>3. CASE MonitorQueues
    BY <2>3, AppendTyped
       DEF MonitorQueues
  <2>4. CASE IdleRelease
    <3>1. waiters # <<>> => Tail(waiters) \in Seq(Reqs \cup {Monitor})
      BY TailTyped
    <3>2. ProcTyped' /\ WorkerTyped'
      BY <2>4, KillTyped DEF IdleRelease
    <3>3. QED
      BY <2>4, <3>1, <3>2 DEF IdleRelease, IsNext
  <2>5. CASE \E r \in Reqs : CallStep(r)
    BY <2>5, CallStepTyped
  <2>6. CASE WorkerStep
    BY <2>6, WorkerStepTyped
  <2>7. ASSUME NEW w \in Writes, LateApply(w) \/ LateDrop(w)
        PROVE  TypeOK'
    <3>1. orphan[w] \in Nat /\ applied[w] \in Nat /\ orphan[w] > 0
      BY <2>7 DEF LateApply, LateDrop
    <3>2. orphan[w] - 1 \in Nat /\ applied[w] + 1 \in Nat
      BY <3>1
    <3>3. orphan' \in [Writes -> Nat] /\ applied' \in [Writes -> Nat]
      BY <2>7, <3>2 DEF LateApply, LateDrop
    <3>4. QED
      BY <2>7, <3>3, SMTT(30) DEF LateApply, LateDrop, WorkerOnly
  <2>8. CASE UNCHANGED vars
    BY <2>8
       
  <2>9. QED
    BY <2>1, <2>2, <2>3, <2>4, <2>5, <2>6, <2>7, <2>8 DEF Next, MonitorStep, Ended
<1>3. QED
  BY <1>1, <1>2, PTL DEF Spec

-----------------------------------------------------------------------------
(* The inductive invariant *)

LEMMA InitIInv == Init => IInv
BY SessionAssumption
   DEF Init, IInv, LockInv, WorkerInv, ExchangeInv, IdleExchange, WorkerAlive, WriteInv, Seen,
       SessionInv, HeadIs

(* Counters of QuickBooks are natural numbers. *)
LEMMA SeenNat ==
  ASSUME TypeOK, NEW w \in Writes
  PROVE  applied[w] \in Nat /\ orphan[w] \in Nat /\ w \in Reqs
BY SessionAssumption DEF TypeOK, WorkerTyped

(* A worker that has a job is serving the call that holds the lock, and    *)
(* QuickBooks has seen nothing of it before the call of ProcessRequest     *)
(* that it is in.                                                          *)
LEMMA BusyWorker ==
  ASSUME TypeOK, IInv, wk \in {"connecting", "calling"}
  PROVE  /\ owner \in Reqs /\ job = owner /\ pc[owner] = "reading"
         /\ stdin = <<>> /\ stdout = <<>>
         /\ hasProc
         /\ owner \in Writes => applied[owner] = 0 /\ orphan[owner] = 0
<1>1. hasProc /\ WorkerAlive
  BY DEF IInv, WorkerInv, WorkerAlive
<1>2. owner \in Reqs
  BY <1>1 DEF IInv, ExchangeInv, IdleExchange, TypeOK, CallTyped
<1>3. pc[owner] = "reading"
  BY <1>2 DEF IInv, LockInv, ExchangeInv, StartingExchange
<1>4. job = owner /\ stdin = <<>> /\ stdout = <<>>
  BY <1>2, <1>3 DEF IInv, ExchangeInv, ReadingExchange
<1>5. owner \in Writes => applied[owner] = 0 /\ orphan[owner] = 0
  BY <1>3, <1>4, SeenNat DEF IInv, WriteInv, Seen
<1>6. QED
  BY <1>1, <1>2, <1>3, <1>4, <1>5

(* The line a call reads is the answer to its own request, and nothing     *)
(* else is in the pipes.                                                   *)
LEMMA ReadLine ==
  ASSUME TypeOK, IInv, NEW r \in Reqs, pc[r] = "reading", stdout # <<>>
  PROVE  /\ owner = r
         /\ wk \in {"idle", "dead"} /\ stdin = <<>> /\ job = NoReq
         /\ Head(stdout).req = r
         /\ Head(stdout).kind = "garbled" => wk = "dead"
         /\ Tail(stdout) = <<>>
<1>1. owner = r
  BY DEF IInv, LockInv
<1>2. PICK line \in Lines : line.req = r /\ stdout = <<line>> /\ (line.kind = "garbled" => wk = "dead")
  BY DEF IInv, ExchangeInv, ReadingExchange
<1>3. wk \in {"idle", "dead"} /\ stdin = <<>>
  BY DEF IInv, ExchangeInv, ReadingExchange
<1>4. job = NoReq
  BY <1>3 DEF IInv, WorkerInv
<1>5. Head(stdout) = line /\ Tail(stdout) = <<>>
  BY <1>2, SingleLine
<1>6. QED
  BY <1>1, <1>2, <1>3, <1>4, <1>5

(* After _kill_worker there is no worker, and the only write QuickBooks    *)
(* may have seen more of is the one it was called with.                    *)
LEMMA KillFacts ==
  ASSUME TypeOK, IInv, KillWorker
  PROVE  /\ ~hasProc' /\ state' = "disconnected"
         /\ wk' \in {"none", "dead"}
         /\ wk # "none" => wk' = "dead"
         /\ job' = NoReq /\ ~com' /\ stdin' = <<>>
         /\ applied' = applied
         /\ \A w \in Writes : wk # "calling" \/ job # w => orphan'[w] = orphan[w]
         /\ \A w \in Writes : wk = "calling" /\ job = w => orphan'[w] = orphan[w] + 1
<1>1. CASE hasProc
  BY <1>1 DEF KillWorker, WorkerEnds, Bump, TypeOK, WorkerTyped
<1>2. CASE ~hasProc
  BY <1>2 DEF KillWorker, IInv, WorkerInv
<1>3. QED
  BY <1>1, <1>2

(* Where a call that failed can be. *)
LEMMA RaiseFacts ==
  ASSUME TypeOK, NEW r \in Reqs, NEW q, NEW reached \in BOOLEAN, NEW f,
         Raise(r, q, reached, f)
  PROVE  /\ owner' = NoReq
         /\ pc'[r] \in {"error", "unavailable", "blocked", "sweeping", "restarting", "backoff"}
         /\ (reached /\ r \in Writes => pc'[r] = "error")
         /\ \A s \in Reqs : s # r => pc'[s] = pc[s]
<1>1. \A g \in Transient : Remedy[g] \in {"sweeping", "restarting", "backoff"}
  BY DEF Remedy, Transient
<1>2. \A to : Transits(r, to) => pc'[r] = to /\ \A s \in Reqs : s # r => pc'[s] = pc[s]
  BY DEF Transits, TypeOK, CallTyped
<1>3. QED
  BY <1>1, <1>2 DEF Raise, MayRetry

(* A call moves between states in which it holds neither the lock nor a    *)
(* result; nothing else changes but who waits, the clock and the dialogs.  *)
LEMMA QuietStep ==
  ASSUME TypeOK, IInv, UNCHANGED <<owner, hasProc, state, wk, job, com, stdin, stdout, applied, orphan>>,
         \A s \in Reqs : \/ pc'[s] = pc[s]
                         \/ /\ pc[s] \notin {"starting", "reading", "ok", "error"}
                            /\ pc'[s] \notin {"starting", "reading", "ok"}
  PROVE  IInv'
<1>1. LockInv'
  BY DEF IInv, LockInv
<1>2. WorkerInv' /\ SessionInv'
  BY DEF IInv, WorkerInv, SessionInv, WorkerAlive, HeadIs
<1>3. ExchangeInv'
  BY DEF IInv, ExchangeInv, IdleExchange, StartingExchange, ReadingExchange, WorkerAlive
<1>4. WriteInv'
  BY SeenNat DEF IInv, WriteInv, Seen, HeadIs
<1>5. QED
  BY <1>1, <1>2, <1>3, <1>4 DEF IInv

(* The worker is killed by somebody who is not reading from it. *)
LEMMA KillStep ==
  ASSUME TypeOK, IInv, KillWorker, UNCHANGED <<owner, stdout>>,
         \A s \in Reqs : \/ pc'[s] = pc[s]
                         \/ /\ pc[s] \notin {"starting", "reading", "ok", "error"}
                            /\ pc'[s] \notin {"starting", "reading", "ok"}
  PROVE  IInv'
<1>1. LockInv'
  BY DEF IInv, LockInv
<1>2. WorkerInv' /\ SessionInv'
  BY KillFacts DEF WorkerInv, SessionInv, WorkerAlive
<1>3. ExchangeInv'
  <2>1. IdleExchange'
    BY KillFacts DEF IdleExchange, WorkerAlive
  <2>2. ASSUME NEW s \in Reqs, pc'[s] = "starting"
        PROVE  StartingExchange'
    BY <2>2, KillFacts DEF IInv, ExchangeInv, StartingExchange
  <2>3. ASSUME NEW s \in Reqs, pc'[s] = "reading"
        PROVE  ReadingExchange(s)'
    BY <2>3, KillFacts DEF IInv, ExchangeInv, ReadingExchange
  <2>4. QED
    BY <2>1, <2>2, <2>3 DEF ExchangeInv
<1>4. WriteInv'
  <2> SUFFICES ASSUME NEW w \in Writes
               PROVE  WriteInv!(w)'
    BY DEF WriteInv
  <2>1. QED
    BY KillFacts, BusyWorker, SeenNat DEF IInv, WriteInv, Seen, HeadIs
<1>5. QED
  BY <1>1, <1>2, <1>3, <1>4 DEF IInv
(* A call leaves _execute_once with an error after killing the worker.  If *)
(* it says that QuickBooks was not reached, nothing had been written.      *)
LEMMA LeaveStep ==
  ASSUME TypeOK, IInv, NEW r \in Reqs, NEW q, NEW reached \in BOOLEAN, NEW f,
         owner = r \/ (owner = NoReq /\ pc[r] \notin {"starting", "reading", "ok", "error"}),
         ~reached => pc[r] # "reading",
         KillWorker, Raise(r, q, reached, f)
  PROVE  IInv'
<1>1. \A s \in Reqs : s # r => pc[s] \notin {"starting", "reading"}
  BY SessionAssumption DEF IInv, LockInv
<1>2. \A s \in Reqs : pc'[s] \notin {"starting", "reading"}
  BY <1>1, RaiseFacts
<1>3. LockInv'
  BY <1>2, RaiseFacts, SessionAssumption DEF LockInv
<1>4. WorkerInv' /\ SessionInv'
  BY KillFacts DEF WorkerInv, SessionInv, WorkerAlive
<1>5. ExchangeInv'
  BY <1>2, KillFacts DEF ExchangeInv, IdleExchange, WorkerAlive
<1>6. ASSUME NEW w \in Writes
      PROVE  WriteInv!(w)'
  <2>1. w \in Reqs /\ applied'[w] \in Nat /\ orphan'[w] \in Nat
    BY SeenNat, KillTyped DEF WorkerTyped
  <2>2. CASE w = r
    <3>1. reached => pc'[w] = "error"
      BY <2>1, <2>2, RaiseFacts
    <3>2. pc'[w] # "ok"
      BY <2>1, <2>2, RaiseFacts
    <3>3. Seen(w)' <= 1
      BY <2>1, KillFacts, BusyWorker, SeenNat DEF IInv, WriteInv, Seen
    <3>4. ~reached => Seen(w)' = 0
      <4>1. ~reached => pc[w] \notin {"reading", "ok", "error"}
        BY <2>1, <2>2, SessionAssumption DEF IInv, LockInv
      <4>2. ~reached => wk # "calling" \/ job # w
        BY <4>1, BusyWorker
      <4>3. QED
        BY <2>1, <4>1, <4>2, KillFacts, SeenNat DEF IInv, WriteInv, Seen
    <3>5. QED
      BY <1>2, <2>1, <3>1, <3>2, <3>3, <3>4
  <2>3. CASE w # r
    <3>1. pc'[w] = pc[w] /\ pc[w] # "reading"
      BY <1>1, <2>1, <2>3, RaiseFacts
    <3>2. wk # "calling" \/ job # w
      BY <3>1, BusyWorker
    <3>3. applied'[w] = applied[w] /\ orphan'[w] = orphan[w]
      BY <3>2, KillFacts
    <3>4. QED
      BY <3>1, <3>3 DEF IInv, WriteInv, Seen
  <2>4. QED
    BY <2>2, <2>3
<1>7. WriteInv'
  BY <1>6 DEF WriteInv
<1>8. QED
  BY <1>3, <1>4, <1>5, <1>7 DEF IInv

(* A request is written to a worker that is idle. *)
LEMMA WriteStep ==
  ASSUME TypeOK, IInv, NEW r \in Reqs, NEW q, Write(r, q),
         owner \in {NoReq, r}, pc[r] \notin {"reading", "ok", "error"},
         wk = "idle", stdin = <<>>, stdout' = <<>>,
         state' = "connected" => com
  PROVE  IInv'
<1>1. /\ owner' = r /\ pc'[r] = "reading" /\ stdin' = <<r>> /\ stdout' = <<>>
      /\ \A s \in Reqs : s # r => pc'[s] = pc[s] /\ pc[s] \notin {"starting", "reading"}
  BY SingleLine, SessionAssumption DEF Write, Transits, IInv, LockInv, TypeOK, CallTyped
<1>2. UNCHANGED <<hasProc, wk, job, com, applied, orphan>>
  BY DEF Write
<1>3. LockInv'
  BY <1>1 DEF LockInv
<1>4. WorkerInv'
  BY <1>1, <1>2 DEF IInv, WorkerInv
<1>5. SessionInv'
  BY <1>1, <1>2 DEF SessionInv, HeadIs
<1>6. ExchangeInv'
  BY <1>1, <1>2, SessionAssumption DEF ExchangeInv, ReadingExchange
<1>7. WriteInv'
  BY <1>1, <1>2, SessionAssumption, SeenNat DEF IInv, WriteInv, Seen, HeadIs
<1>8. QED
  BY <1>3, <1>4, <1>5, <1>6, <1>7 DEF IInv

(* From taking the lock to the next await. *)
LEMMA EnterStep ==
  ASSUME TypeOK, IInv, NEW r \in Reqs, NEW q, Enter(r, q), owner = NoReq,
         pc[r] \in {"new", "backoff", "queued"}
  PROVE  IInv'
<1>1. CASE EnterWarm(r, q) /\ Write(r, q) /\ UNCHANGED state
  <2>1. wk = "idle" /\ stdin = <<>> /\ stdout' = <<>>
    BY <1>1 DEF EnterWarm, IInv, ExchangeInv, IdleExchange
  <2>2. state' = "connected" => com
    BY <1>1 DEF EnterWarm, IInv, SessionInv
  <2>3. QED
    BY <1>1, <2>1, <2>2, WriteStep
<1>2. CASE EnterWarm(r, q) /\ PipeBreaks(r, q)
  BY <1>2, LeaveStep DEF PipeBreaks
<1>3. CASE EnterCold(r, q)
  <2>1. /\ owner' = r /\ pc'[r] = "starting"
        /\ \A s \in Reqs : s # r => pc'[s] = pc[s] /\ pc[s] \notin {"starting", "reading"}
    BY <1>3, SessionAssumption DEF EnterCold, Transits, IInv, LockInv, TypeOK, CallTyped
  <2>2. LockInv'
    BY <2>1 DEF LockInv
  <2>3. WorkerInv' /\ SessionInv'
    BY <1>3 DEF EnterCold, WorkerInv, SessionInv, HeadIs
  <2>4. ExchangeInv'
    BY <1>3, <2>1, SessionAssumption DEF EnterCold, ExchangeInv, StartingExchange
  <2>5. WriteInv'
    BY <1>3, <2>1, SeenNat DEF EnterCold, IInv, WriteInv, Seen, HeadIs
  <2>6. QED
    BY <2>2, <2>3, <2>4, <2>5 DEF IInv
<1>4. CASE SpawnFails(r, q)
  <2>1. \A s \in Reqs : \/ pc'[s] = pc[s]
                        \/ s = r /\ pc'[s] = "error"
    BY <1>4 DEF SpawnFails, Transits, TypeOK, CallTyped
  <2>2. QED
    BY <1>4, <2>1, KillStep DEF SpawnFails
<1>5. QED
  BY <1>1, <1>2, <1>3, <1>4 DEF Enter, EnterWarm
(* A call that read a line ends, with the answer or with an error. *)
LEMMA ReadStep ==
  ASSUME TypeOK, IInv, NEW r \in Reqs,
         ReadOk(r) \/ ReadError(r) \/ ReadGarbled(r)
  PROVE  IInv'
<1> DEFINE kind == Head(stdout).kind
<1>1. /\ pc[r] = "reading" /\ stdout # <<>> /\ stdout' = Tail(stdout)
      /\ UNCHANGED <<hasProc, wk, job, com, stdin, applied, orphan>>
      /\ owner' = NoReq
  BY DEF ReadOk, ReadError, ReadGarbled, Reading, HeadIs, Raise
<1>2. wk \in {"idle", "dead"} /\ stdin = <<>> /\ job = NoReq /\ stdout' = <<>> /\ owner = r
  BY <1>1, ReadLine
<1>3. /\ pc'[r] \in {"ok", "error", "unavailable", "blocked", "sweeping", "restarting", "backoff"}
      /\ \A s \in Reqs : s # r => pc'[s] = pc[s] /\ pc[s] \notin {"starting", "reading"}
      /\ pc'[r] = "ok" => kind = "ok"
      /\ r \in Writes /\ pc'[r] \notin {"ok", "error"} => kind = "connect"
  <2>1. \A s \in Reqs : s # r => pc[s] \notin {"starting", "reading"}
    BY <1>2 DEF IInv, LockInv
  <2>2. CASE ReadOk(r)
    BY <2>1, <2>2 DEF ReadOk, HeadIs, Transits, TypeOK, CallTyped
  <2>3. CASE ReadError(r)
    BY <2>1, <2>3, RaiseFacts DEF ReadError
  <2>4. CASE ReadGarbled(r)
    BY <2>1, <2>4, RaiseFacts DEF ReadGarbled
  <2>5. QED
    BY <2>2, <2>3, <2>4
<1>4. \A s \in Reqs : pc'[s] \notin {"starting", "reading"}
  BY <1>3
<1>5. LockInv'
  BY <1>1, <1>4, SessionAssumption DEF LockInv
<1>6. WorkerInv'
  BY <1>1 DEF IInv, WorkerInv
<1>7. SessionInv'
  <2>1. state' = "connected" => ReadOk(r) \/ ReadGarbled(r)
    BY DEF ReadError
  <2>2. ReadOk(r) /\ wk = "idle" => com
    BY DEF ReadOk, IInv, SessionInv
  <2>3. ReadGarbled(r) /\ wk = "idle" => FALSE
    BY <1>1, ReadLine DEF ReadGarbled, HeadIs
  <2>4. QED
    BY <1>1, <1>2, <2>1, <2>2, <2>3 DEF SessionInv, WorkerAlive, HeadIs
<1>8. ExchangeInv'
  BY <1>1, <1>2, <1>4 DEF IInv, WorkerInv, ExchangeInv, IdleExchange, WorkerAlive
<1>9. WriteInv'
  <2> SUFFICES ASSUME NEW w \in Writes
               PROVE  WriteInv!(w)'
    BY DEF WriteInv
  <2>1. w \in Reqs
    BY SeenNat
  <2>2. CASE w = r
    BY <1>1, <1>2, <1>3, <1>4, <2>1, <2>2, SeenNat DEF IInv, WriteInv, Seen, HeadIs
  <2>3. CASE w # r
    BY <1>1, <1>3, <2>1, <2>3 DEF IInv, WriteInv, Seen
  <2>4. QED
    BY <2>2, <2>3
<1>10. QED
  BY <1>5, <1>6, <1>7, <1>8, <1>9 DEF IInv

LEMMA CallStepIInv ==
  ASSUME TypeOK, IInv, NEW r \in Reqs, CallStep(r)
  PROVE  IInv'
<1>1. ASSUME NEW to, Transits(r, to)
      PROVE  pc'[r] = to /\ \A s \in Reqs : s # r => pc'[s] = pc[s]
  BY <1>1 DEF Transits, TypeOK, CallTyped
<1>2. CASE Refuse(r) \/ Queues(r) \/ Sweep(r)
  BY <1>1, <1>2, QuietStep DEF Refuse, Queues, Arrives, Sweep
<1>3. CASE FindsLockFree(r) \/ GetsLock(r)
  BY <1>3, EnterStep DEF FindsLockFree, Arrives, LockIsFree, GetsLock, IsNext
<1>4. CASE WorkerReady(r)
  <2>1. pc[r] = "starting" /\ owner = r /\ StartingExchange /\ stdout # <<>> /\ stdout' = Tail(stdout)
    BY <1>4 DEF WorkerReady, IInv, ExchangeInv
  <2>2. stdout' = <<>> /\ stdin = <<>> /\ wk \in {"idle", "dead"}
    BY <2>1, SingleLine DEF StartingExchange
  <2>3. CASE Write(r, waiters) /\ state' = "disconnected"
    BY <2>1, <2>2, <2>3, WriteStep DEF Write
  <2>4. CASE PipeBreaks(r, waiters)
    BY <2>1, <2>4, LeaveStep DEF PipeBreaks
  <2>5. QED
    BY <1>4, <2>3, <2>4 DEF WorkerReady
<1>5. CASE StartupFails(r) \/ StartupTimesOut(r)
  BY <1>5, LeaveStep DEF StartupFails, StartupTimesOut
<1>6. CASE ReadEof(r) \/ ReadTimesOut(r)
  BY <1>6, LeaveStep DEF ReadEof, ReadTimesOut, Reading
<1>7. CASE ReadOk(r) \/ ReadError(r) \/ ReadGarbled(r)
  BY <1>7, ReadStep
<1>8. CASE RestartWorker(r)
  BY <1>1, <1>8, KillStep DEF RestartWorker
<1>9. QED
  BY <1>2, <1>3, <1>4, <1>5, <1>6, <1>7, <1>8 DEF CallStep

(* The worker, its one exchange and its death. *)
LEMMA WorkerStepIInv ==
  ASSUME TypeOK, IInv, WorkerStep
  PROVE  IInv'
<1>1. UNCHANGED <<owner, pc, hasProc, state>>
  BY DEF WorkerStep, WorkerOnly, WorkerBoots, WorkerReads, Connects, RequestSucceeds, WorkerDies,
         ConnectFails, RequestFails
<1>2. LockInv'
  BY <1>1 DEF IInv, LockInv
<1>3. \A s \in Reqs : pc[s] \in {"starting", "reading"} <=> owner = s
  BY DEF IInv, LockInv
<1>4. CASE WorkerBoots
  <2>1. wk = "booting" /\ wk' = "idle" /\ hasProc /\ stdout' = Append(stdout, Ready)
        /\ UNCHANGED <<job, com, stdin, applied, orphan>>
    BY <1>4 DEF WorkerBoots, IInv, WorkerInv
  <2>2. owner \in Reqs /\ pc[owner] = "starting" /\ stdout = <<>> /\ stdin = <<>>
    BY <1>3, <2>1
       DEF IInv, ExchangeInv, IdleExchange, StartingExchange, ReadingExchange, WorkerAlive,
           TypeOK, CallTyped
  <2>3. stdout' = <<Ready>>
    BY <2>1, <2>2, SingleLine
  <2>4. Head(stdout').kind = "ready" /\ stdout' # <<>>
    BY <2>3, SingleLine DEF Ready
  <2>5. WorkerInv' /\ ExchangeInv'
    BY <1>1, <1>3, <2>1, <2>2, <2>3, SessionAssumption
       DEF IInv, WorkerInv, ExchangeInv, StartingExchange
  <2>6. SessionInv'
    BY <1>1, <2>1, <2>2, <2>4, SessionAssumption DEF IInv, SessionInv, HeadIs
  <2>7. WriteInv'
    BY <1>1, <1>3, <2>1, <2>2, SeenNat DEF IInv, WriteInv, Seen
  <2>8. QED
    BY <1>2, <2>5, <2>6, <2>7 DEF IInv
<1>5. CASE WorkerReads
  <2>1. wk = "idle" /\ stdin # <<>> /\ job' = Head(stdin) /\ stdin' = Tail(stdin)
        /\ wk' = (IF com THEN "calling" ELSE "connecting")
        /\ UNCHANGED <<com, stdout, applied, orphan>>
    BY <1>5 DEF WorkerReads
  <2>2. owner \in Reqs /\ pc[owner] = "reading" /\ stdin = <<owner>> /\ stdout = <<>> /\ hasProc
    BY <1>3, <2>1
       DEF IInv, WorkerInv, ExchangeInv, IdleExchange, StartingExchange, ReadingExchange,
           WorkerAlive, TypeOK, CallTyped
  <2>3. job' = owner /\ stdin' = <<>>
    BY <2>1, <2>2, SingleLine
  <2>4. WorkerInv' /\ SessionInv' /\ ExchangeInv'
    BY <1>1, <1>3, <2>1, <2>2, <2>3, SessionAssumption
       DEF IInv, WorkerInv, SessionInv, HeadIs, ExchangeInv, ReadingExchange
  <2>5. WriteInv'
    BY <1>1, <2>1, <2>2, SeenNat DEF IInv, WriteInv, Seen, HeadIs
  <2>6. QED
    BY <1>2, <2>4, <2>5 DEF IInv
<1>6. CASE Connects
  <2>1. WorkerInv' /\ SessionInv' /\ ExchangeInv'
    BY <1>1, <1>3, <1>6, BusyWorker, SessionAssumption
       DEF Connects, IInv, WorkerInv, SessionInv, HeadIs, ExchangeInv, ReadingExchange
  <2>2. WriteInv'
    BY <1>1, <1>6, SeenNat DEF Connects, IInv, WriteInv, Seen, HeadIs
  <2>3. QED
    BY <1>2, <2>1, <2>2 DEF IInv
<1>7. ASSUME NEW line \in Lines, Responds(line), wk \in {"connecting", "calling"},
             line.req = job, line.kind \notin {"ready", "garbled"},
             com' \in BOOLEAN, line.kind = "ok" => com',
             \A w \in Writes : w # job => applied'[w] = applied[w] /\ orphan'[w] = orphan[w],
             job \in Writes => /\ applied'[job] + orphan'[job] <= 1
                               /\ line.kind = "connect" => applied'[job] + orphan'[job] = 0
                               /\ line.kind = "ok" => applied'[job] = 1
      PROVE  IInv'
  <2>1. owner \in Reqs /\ pc[owner] = "reading" /\ job = owner /\ stdin = <<>> /\ hasProc
    BY <1>7, BusyWorker
  <2>2. /\ stdout' = <<line>> /\ stdout' # <<>> /\ Head(stdout') = line
        /\ stdin' = <<>> /\ wk' = "idle" /\ job' = NoReq
    <3>1. stdout = <<>> /\ stdin = <<>>
      BY <1>7, BusyWorker
    <3>2. stdout' = <<line>>
      BY <1>7, <3>1, SingleLine DEF Responds
    <3>3. QED
      BY <1>7, <3>1, <3>2, SingleLine DEF Responds
  <2>3. WorkerInv'
    BY <1>1, <2>1, <2>2 DEF WorkerInv
  <2>4. ExchangeInv'
    BY <1>1, <1>3, <1>7, <2>1, <2>2, SessionAssumption DEF ExchangeInv, ReadingExchange
  <2>5. SessionInv'
    BY <1>1, <1>7, <2>1, <2>2, SessionAssumption DEF SessionInv, HeadIs
  <2>6. WriteInv'
    <3> SUFFICES ASSUME NEW w \in Writes
                 PROVE  WriteInv!(w)'
      BY DEF WriteInv
    <3>1. CASE w = job
      BY <1>1, <1>7, <2>1, <2>2, <3>1 DEF Seen, HeadIs
    <3>2. CASE w # job
      <4>1. pc[w] # "reading"
        BY <1>3, <2>1, <3>2, SeenNat
      <4>2. QED
        BY <1>1, <1>7, <3>2, <4>1 DEF IInv, WriteInv, Seen
    <3>3. QED
      BY <3>1, <3>2
  <2>7. QED
    BY <1>2, <2>3, <2>4, <2>5, <2>6 DEF IInv
<1>8. ASSUME NEW f \in ConnectFaults, ConnectFails(f)
      PROVE  IInv'
  <2> DEFINE line == ErrorLine(job, "connect", f)
  <2>1. line \in Lines /\ line.req = job /\ line.kind = "connect"
    BY LinesTyped DEF ErrorLine, ConnectFaults, Transient, TypeOK, WorkerTyped
  <2>2. Responds(line) /\ wk = "connecting" /\ UNCHANGED <<applied, orphan>> /\ com' = FALSE
    BY <1>8 DEF ConnectFails
  <2>3. com' \in BOOLEAN /\ (line.kind = "ok" => com')
    BY <2>1, <2>2
  <2>4. /\ \A w \in Writes : w # job => applied'[w] = applied[w] /\ orphan'[w] = orphan[w]
        /\ job \in Writes => applied'[job] = 0 /\ orphan'[job] = 0
    BY <2>2, BusyWorker DEF TypeOK, WorkerTyped
  <2>5. job \in Writes => /\ applied'[job] + orphan'[job] <= 1
                          /\ line.kind = "connect" => applied'[job] + orphan'[job] = 0
                          /\ line.kind = "ok" => applied'[job] = 1
    BY <2>1, <2>4
  <2>6. wk \in {"connecting", "calling"} /\ line.kind \notin {"ready", "garbled"}
    BY <2>1, <2>2
  <2> HIDE DEF line
  <2>7. QED
    BY <1>7, <2>1, <2>2, <2>3, <2>4, <2>5, <2>6
<1>9. CASE RequestSucceeds
  <2> DEFINE line == OkLine(job)
  <2>1. line \in Lines /\ line.req = job /\ line.kind = "ok"
    BY LinesTyped DEF OkLine, TypeOK, WorkerTyped
  <2>2. Responds(line) /\ wk = "calling" /\ applied' = Bump(applied, job) /\ UNCHANGED <<com, orphan>>
    BY <1>9 DEF RequestSucceeds
  <2>3. com' \in BOOLEAN /\ com'
    BY <2>2 DEF IInv, WorkerInv, TypeOK, WorkerTyped
  <2>4. /\ \A w \in Writes : w # job => applied'[w] = applied[w] /\ orphan'[w] = orphan[w]
        /\ job \in Writes => applied'[job] = 1 /\ orphan'[job] = 0
    BY <2>2, BusyWorker DEF Bump, TypeOK, WorkerTyped
  <2> HIDE DEF line
  <2>5. QED
    BY <1>7, <2>1, <2>2, <2>3, <2>4
<1>10. ASSUME NEW f \in RequestFaults, RequestFails(f)
       PROVE  IInv'
  <2> DEFINE line == ErrorLine(job, "request", f)
  <2>1. line \in Lines /\ line.req = job /\ line.kind = "request"
    BY LinesTyped DEF ErrorLine, RequestFaults, Transient, TypeOK, WorkerTyped
  <2>2. Responds(line) /\ wk = "calling" /\ orphan' = Bump(orphan, job) /\ UNCHANGED applied /\ com' = FALSE
    BY <1>10 DEF RequestFails
  <2>3. /\ \A w \in Writes : w # job => applied'[w] = applied[w] /\ orphan'[w] = orphan[w]
        /\ job \in Writes => applied'[job] = 0 /\ orphan'[job] = 1
    BY <2>2, BusyWorker DEF Bump, TypeOK, WorkerTyped
  <2>4. com' \in BOOLEAN /\ (line.kind = "ok" => com')
    BY <2>1, <2>2
  <2>5. job \in Writes => /\ applied'[job] + orphan'[job] <= 1
                          /\ line.kind = "connect" => applied'[job] + orphan'[job] = 0
                          /\ line.kind = "ok" => applied'[job] = 1
    BY <2>1, <2>3
  <2>6. wk \in {"connecting", "calling"} /\ line.kind \notin {"ready", "garbled"}
    BY <2>1, <2>2
  <2> HIDE DEF line
  <2>7. QED
    BY <1>7, <2>1, <2>2, <2>3, <2>4, <2>5, <2>6
<1>11. CASE WorkerDies
  <2>1. /\ wk' = "dead" /\ job' = NoReq /\ com' = FALSE /\ stdin' = <<>> /\ applied' = applied
        /\ orphan' = IF wk = "calling" THEN Bump(orphan, job) ELSE orphan
        /\ wk \notin {"none", "dead"}
    BY <1>11 DEF WorkerDies, WorkerEnds
  <2>2. \/ stdout' = stdout
        \/ /\ wk \in {"connecting", "calling"}
           /\ stdout' = <<Garbled(job)>> /\ stdout' # <<>> /\ Head(stdout') = Garbled(job)
    BY <1>11, BusyWorker, SingleLine DEF WorkerDies, IInv, WorkerInv
  <2>3. WorkerInv' /\ SessionInv'
    BY <2>1 DEF WorkerInv, SessionInv, WorkerAlive
  <2>4. IdleExchange'
    BY <2>1 DEF IdleExchange, WorkerAlive
  <2>5. ASSUME NEW s \in Reqs, pc[s] = "starting"
        PROVE  StartingExchange'
    BY <1>3, <2>1, <2>2, <2>5, BusyWorker DEF IInv, ExchangeInv, StartingExchange
  <2>6. ASSUME NEW s \in Reqs, pc[s] = "reading"
        PROVE  ReadingExchange(s)'
    <3>1. CASE stdout' = stdout
      BY <2>1, <2>6, <3>1 DEF IInv, ExchangeInv, ReadingExchange
    <3>2. CASE stdout' # stdout
      <4>1. job = s
        BY <1>3, <2>2, <2>6, <3>2, BusyWorker
      <4>2. /\ Garbled(s) \in Lines /\ Garbled(s).kind = "garbled" /\ Garbled(s).req = s
        BY LinesTyped DEF Garbled
      <4>3. QED
        BY <2>1, <2>2, <3>2, <4>1, <4>2 DEF ReadingExchange
    <3>3. QED
      BY <3>1, <3>2
  <2>7. ExchangeInv'
    BY <1>1, <2>4, <2>5, <2>6 DEF ExchangeInv
  <2>8. WriteInv'
    <3> SUFFICES ASSUME NEW w \in Writes
                 PROVE  WriteInv!(w)'
      BY DEF WriteInv
    <3>1. HeadIs({"connect"})' => HeadIs({"connect"})
      BY <2>2 DEF HeadIs, Garbled
    <3>2. HeadIs({"ok"})' => HeadIs({"ok"})
      BY <2>2 DEF HeadIs, Garbled
    <3>3. CASE wk = "calling" /\ job = w
      <4>1. w \in Writes /\ applied[w] = 0 /\ orphan[w] = 0 /\ pc[w] = "reading" /\ stdout = <<>>
        BY <3>3, BusyWorker
      <4>2. applied'[w] = 0 /\ orphan'[w] = 1
        BY <2>1, <3>3, <4>1 DEF Bump, TypeOK, WorkerTyped
      <4>3. ~HeadIs({"connect"})' /\ ~HeadIs({"ok"})'
        BY <3>1, <3>2, <4>1 DEF HeadIs
      <4>4. QED
        BY <1>1, <2>1, <4>1, <4>2, <4>3 DEF Seen
    <3>4. CASE ~(wk = "calling" /\ job = w)
      <4>1. applied'[w] = applied[w] /\ orphan'[w] = orphan[w]
        BY <2>1, <3>4 DEF Bump, TypeOK, WorkerTyped
      <4>2. QED
        BY <1>1, <2>1, <3>1, <3>2, <4>1 DEF IInv, WriteInv, Seen
    <3>5. QED
      BY <3>3, <3>4
  <2>9. QED
    BY <1>2, <2>3, <2>7, <2>8 DEF IInv
<1>12. QED
  BY <1>4, <1>5, <1>6, <1>8, <1>9, <1>10, <1>11 DEF WorkerStep

(* QuickBooks settles a call nobody waits for: the sum does not grow. *)
LEMMA LateStepIInv ==
  ASSUME TypeOK, IInv, NEW w \in Writes, LateApply(w) \/ LateDrop(w)
  PROVE  IInv'
<1>1. UNCHANGED <<owner, pc, hasProc, state, wk, job, com, stdin, stdout>>
  BY DEF LateApply, LateDrop, WorkerOnly
<1>2. orphan[w] > 0 /\ orphan' = [orphan EXCEPT ![w] = @ - 1]
      /\ (applied' = applied \/ applied' = [applied EXCEPT ![w] = @ + 1])
  BY DEF LateApply, LateDrop
<1>3. LockInv' /\ WorkerInv' /\ SessionInv'
  BY <1>1 DEF IInv, LockInv, WorkerInv, SessionInv, WorkerAlive, HeadIs
<1>4. ExchangeInv'
  BY <1>1 DEF IInv, ExchangeInv, IdleExchange, StartingExchange, ReadingExchange, WorkerAlive
<1>5. ASSUME NEW v \in Writes
      PROVE  WriteInv!(v)'
  <2>1. CASE v = w
    <3>1. applied[w] = 0 /\ orphan[w] = 1
      BY <1>2, SeenNat DEF IInv, WriteInv, Seen
    <3>2. orphan'[w] = 0 /\ applied'[w] \in {0, 1}
      BY <1>2, <3>1 DEF TypeOK, WorkerTyped
    <3>3. QED
      BY <1>1, <2>1, <3>1, <3>2 DEF IInv, WriteInv, Seen, HeadIs
  <2>2. CASE v # w
    <3>1. applied'[v] = applied[v] /\ orphan'[v] = orphan[v]
      BY <1>2, <2>2 DEF TypeOK, WorkerTyped
    <3>2. QED
      BY <1>1, <3>1 DEF IInv, WriteInv, Seen, HeadIs
  <2>3. QED
    BY <2>1, <2>2
<1>6. WriteInv'
  BY <1>5 DEF WriteInv
<1>7. QED
  BY <1>3, <1>4, <1>6 DEF IInv

THEOREM Inductive == Spec => []IInv
<1>1. ASSUME TypeOK, IInv, [Next]_vars
      PROVE  IInv'
  <2> USE <1>1
  <2>1. CASE Start \/ StopBegins \/ TimePasses \/ MonitorQueues \/ UNCHANGED vars
    BY <2>1, QuietStep DEF Start, StopBegins, TimePasses, MonitorQueues
  <2>2. CASE StopKills \/ IdleRelease
    BY <2>2, KillStep DEF StopKills, IdleRelease
  <2>3. CASE \E r \in Reqs : CallStep(r)
    BY <2>3, CallStepIInv
  <2>4. CASE WorkerStep
    BY <2>4, WorkerStepIInv
  <2>5. CASE \E w \in Writes : LateApply(w) \/ LateDrop(w)
    BY <2>5, LateStepIInv
  <2>6. QED
    BY <2>1, <2>2, <2>3, <2>4, <2>5 DEF Next, MonitorStep, Ended
<1>2. QED
  BY <1>1, InitIInv, TypeCorrect, PTL DEF Spec

-----------------------------------------------------------------------------
(* What follows from the invariant *)

(* QuickBooks applies a write at most once, and never has two calls of it, *)
(* for any number of callers and of attempts: execute does not repeat a    *)
(* write that got as far as ProcessRequest.                                *)
THEOREM AtMostOnce == Spec => []WriteAppliedAtMostOnce
<1>1. IInv => WriteAppliedAtMostOnce
  BY DEF IInv, WriteInv, Seen, WriteAppliedAtMostOnce
<1>2. QED
  BY <1>1, Inductive, PTL

(* A write whose caller got QBUnavailableError has not been seen by        *)
(* QuickBooks, so the 503 and its Retry-After are right about it.          *)
THEOREM UnavailableUnseen == Spec => []UnavailableWriteUnseen
<1>1. TypeOK /\ IInv => UnavailableWriteUnseen
  BY SeenNat DEF IInv, WriteInv, Seen, UnavailableWriteUnseen
<1>2. QED
  BY <1>1, TypeCorrect, Inductive, PTL

(* A write whose call returned was applied, once, and is over. *)
THEOREM ReturnedApplied == Spec => []ReturnedWriteApplied
<1>1. TypeOK /\ IInv => ReturnedWriteApplied
  <2> SUFFICES ASSUME TypeOK, IInv, NEW w \in Writes, pc[w] = "ok"
               PROVE  applied[w] = 1 /\ orphan[w] = 0
    BY DEF ReturnedWriteApplied
  <2>1. applied[w] = 1 /\ applied[w] + orphan[w] <= 1
    BY DEF IInv, WriteInv, Seen
  <2>2. QED
    BY <2>1, SeenNat
<1>2. QED
  BY <1>1, TypeCorrect, Inductive, PTL

(* The lock keeps the pipe protocol in step: never more than one request   *)
(* or line between a live worker and the session, and none while nobody    *)
(* holds the lock.                                                         *)
THEOREM AtMostOneExchange == Spec => []OneExchange
<1>1. TypeOK /\ IInv => OneExchange
  <2> SUFFICES ASSUME TypeOK, IInv, WorkerAlive
               PROVE  /\ InTransit <= 1
                      /\ owner = NoReq => InTransit = 0
    BY DEF OneExchange
  <2>1. CASE owner = NoReq
    <3>1. wk = "idle" /\ stdin = <<>> /\ stdout = <<>> /\ job = NoReq
      BY <2>1 DEF IInv, ExchangeInv, IdleExchange, WorkerInv
    <3>2. QED
      BY <3>1 DEF InTransit
  <2>2. CASE owner \in Reqs
    <3>1. (pc[owner] = "starting" /\ StartingExchange) \/ (pc[owner] = "reading" /\ ReadingExchange(owner))
      BY <2>2 DEF IInv, LockInv, ExchangeInv
    <3>2. job # NoReq <=> wk \in {"connecting", "calling"}
      BY DEF IInv, WorkerInv
    <3>3. Len(stdin) + (IF job = NoReq THEN 0 ELSE 1) + Len(stdout) <= 1
      <4>1. CASE StartingExchange
        BY <3>2, <4>1, SingleLine DEF StartingExchange
      <4>2. CASE ReadingExchange(owner)
        <5>1. \/ job = NoReq /\ stdin = <<owner>> /\ stdout = <<>>
              \/ stdin = <<>> /\ stdout = <<>>
              \/ job = NoReq /\ stdin = <<>> /\ \E line \in Lines : stdout = <<line>>
              \/ job = NoReq /\ stdout = <<>> /\ wk = "dead"
          BY <3>2, <4>2 DEF ReadingExchange
        <5>2. wk # "dead"
          BY DEF WorkerAlive
        <5>3. \/ job = NoReq /\ Len(stdin) = 1 /\ Len(stdout) = 0
              \/ Len(stdin) = 0 /\ Len(stdout) = 0
              \/ job = NoReq /\ Len(stdin) = 0 /\ Len(stdout) = 1
          BY <5>1, <5>2, SingleLine
        <5>4. CASE job = NoReq
          <6>1. (IF job = NoReq THEN 0 ELSE 1) = 0
            BY <5>4
          <6>2. CASE Len(stdin) = 1 /\ Len(stdout) = 0
            BY <6>1, <6>2
          <6>3. CASE Len(stdin) = 0 /\ Len(stdout) = 0
            BY <6>1, <6>3
          <6>4. CASE Len(stdin) = 0 /\ Len(stdout) = 1
            BY <6>1, <6>4
          <6>5. QED
            BY <5>3, <6>2, <6>3, <6>4
        <5>5. CASE job # NoReq
          BY <5>3, <5>5
        <5>6. QED
          BY <5>4, <5>5
      <4>3. QED
        BY <3>1, <4>1, <4>2
    <3>4. QED
      BY <2>2, <3>3, SessionAssumption DEF InTransit
  <2>3. QED
    BY <2>1, <2>2 DEF TypeOK, CallTyped
<1>2. QED
  BY <1>1, TypeCorrect, Inductive, PTL

(* "connected" is said of a live worker only while it has a session with   *)
(* QuickBooks.                                                             *)
THEOREM ConnectedIsTrue == Spec => []ConnectedMeansSession
<1>1. IInv => ConnectedMeansSession
  BY DEF IInv, SessionInv, ConnectedMeansSession
<1>2. QED
  BY <1>1, Inductive, PTL

-----------------------------------------------------------------------------
(* What a step may do *)

(* How a step of a call moves it. *)
Moves(r) ==
  /\ \A s \in Reqs : s # r => pc'[s] = pc[s]
  /\ pc[r] \in {"new"} \cup Active
  /\ pc'[r] \in Active \cup Final
  /\ pc'[r] = "refused" => pc[r] = "new"
  /\ pc'[r] = "ok" => ReadOk(r)
  /\ UNCHANGED applied
  /\ ~hasProc' /\ hasProc /\ wk # "dead" => owner = NoReq \/ owner' = NoReq

LEMMA CallMoves ==
  ASSUME TypeOK, NEW r \in Reqs, CallStep(r)
  PROVE  Moves(r)
<1> DEFINE Failing == {"error", "unavailable", "blocked", "sweeping", "restarting", "backoff"}
<1>1. ASSUME NEW to, Transits(r, to)
      PROVE  pc'[r] = to /\ \A s \in Reqs : s # r => pc'[s] = pc[s]
  BY <1>1 DEF Transits, TypeOK, CallTyped
<1>2. ASSUME NEW q, NEW reached \in BOOLEAN, NEW f, Raise(r, q, reached, f)
      PROVE  pc'[r] \in Failing /\ owner' = NoReq /\ \A s \in Reqs : s # r => pc'[s] = pc[s]
  BY <1>2, RaiseFacts
<1>3. KillWorker => UNCHANGED applied
  BY DEF KillWorker, WorkerEnds
<1>4. ASSUME NEW q, Enter(r, q)
      PROVE  /\ pc'[r] \in Failing \cup {"reading", "starting"}
             /\ \A s \in Reqs : s # r => pc'[s] = pc[s]
             /\ UNCHANGED applied
  BY <1>1, <1>2, <1>3, <1>4 DEF Enter, EnterWarm, EnterCold, SpawnFails, Write, PipeBreaks
<1>5. CASE Refuse(r) \/ Queues(r) \/ RestartWorker(r) \/ Sweep(r)
  BY <1>1, <1>3, <1>5 DEF Refuse, Queues, Arrives, RestartWorker, IsNext, Sweep, Moves, Active, Final
<1>6. CASE FindsLockFree(r) \/ GetsLock(r)
  <2>1. owner = NoReq /\ pc[r] \in {"new", "backoff", "queued"}
    BY <1>6 DEF FindsLockFree, Arrives, LockIsFree, GetsLock, IsNext
  <2>2. QED
    BY <1>4, <1>6, <2>1 DEF FindsLockFree, GetsLock, Moves, Active, Final
<1>7. CASE WorkerReady(r)
  <2>1. pc[r] = "starting"
    BY <1>7 DEF WorkerReady
  <2>2. CASE Write(r, waiters)
    BY <1>1, <2>1, <2>2 DEF Write, Moves, Active, Final
  <2>3. CASE PipeBreaks(r, waiters)
    BY <1>2, <1>3, <2>1, <2>3 DEF PipeBreaks, Moves, Active, Final
  <2>4. QED
    BY <1>7, <2>2, <2>3 DEF WorkerReady
<1>8. CASE ReadOk(r)
  BY <1>1, <1>8 DEF ReadOk, Reading, Moves, Active, Final
<1>9. CASE ReadError(r) \/ ReadGarbled(r)
  <2>1. pc'[r] \in Failing /\ owner' = NoReq /\ \A s \in Reqs : s # r => pc'[s] = pc[s]
    <3>1. (Head(stdout).kind # "connect") \in BOOLEAN
      OBVIOUS
    <3>2. QED
      BY <1>2, <1>9, <3>1 DEF ReadError, ReadGarbled
  <2>2. pc[r] = "reading" /\ UNCHANGED applied
    BY <1>9 DEF ReadError, ReadGarbled, Reading
  <2>3. QED
    BY <2>1, <2>2 DEF Moves, Active, Final
<1>10. CASE StartupFails(r) \/ StartupTimesOut(r) \/ ReadEof(r) \/ ReadTimesOut(r)
  <2>1. pc'[r] \in Failing /\ owner' = NoReq /\ \A s \in Reqs : s # r => pc'[s] = pc[s]
    BY <1>2, <1>10 DEF StartupFails, StartupTimesOut, ReadEof, ReadTimesOut
  <2>2. pc[r] \in {"starting", "reading"} /\ UNCHANGED applied
    BY <1>3, <1>10 DEF StartupFails, StartupTimesOut, ReadEof, ReadTimesOut, Reading
  <2>3. QED
    BY <2>1, <2>2 DEF Moves, Active, Final
<1>11. QED
  BY <1>5, <1>6, <1>7, <1>8, <1>9, <1>10 DEF CallStep

(* Nothing but its own steps moves a call. *)
LEMMA OthersDoNotMove ==
  ASSUME [Next]_vars, ~ \E r \in Reqs : CallStep(r)
  PROVE  UNCHANGED pc
BY DEF Next, Start, StopBegins, StopKills, TimePasses, MonitorStep, MonitorQueues, IdleRelease,
       WorkerStep, WorkerOnly, WorkerBoots, WorkerReads, Connects, RequestSucceeds, WorkerDies,
       ConnectFails, RequestFails, LateApply, LateDrop, Ended

(* A call returns the answer to its own request, never a line that an      *)
(* earlier request of another caller left in the pipe.                     *)
THEOREM OwnAnswer == Spec => AnswerIsOwn
<1>1. ASSUME TypeOK, IInv, [Next]_vars
      PROVE  [\A r \in Reqs : pc[r] # "ok" /\ pc'[r] = "ok" => Head(stdout).req = r]_vars
  <2> SUFFICES ASSUME NEW r \in Reqs, pc[r] # "ok", pc'[r] = "ok"
               PROVE  Head(stdout).req = r
    OBVIOUS
  <2>1. ReadOk(r)
    BY <1>1, CallMoves, OthersDoNotMove DEF Moves
  <2>2. QED
    BY <1>1, <2>1, ReadLine DEF ReadOk, Reading, HeadIs
<1>2. QED
  BY <1>1, TypeCorrect, Inductive, PTL DEF Spec, AnswerIsOwn

(* Nobody kills a live worker that another call is waiting for, but stop():*)
(* who finds the worker idle, or restarts it, has waited for the lock.     *)
THEOREM ForeignKillsNone == Spec => NoForeignKill
<1>1. ASSUME TypeOK, [Next]_vars
      PROVE  [WorkerAlive /\ ~hasProc' /\ owner # NoReq => life = "stopping" \/ owner' = NoReq]_vars
  <2> SUFFICES ASSUME hasProc, wk # "dead", ~hasProc', owner # NoReq
               PROVE  life = "stopping" \/ owner' = NoReq
    BY DEF WorkerAlive
  <2>1. CASE \E r \in Reqs : CallStep(r)
    BY <1>1, <2>1, CallMoves DEF Moves
  <2>2. CASE MonitorStep
    BY <2>2 DEF MonitorStep, MonitorQueues, IdleRelease, LockIsFree, IsNext
  <2>3. CASE StopKills
    BY <2>3 DEF StopKills
  <2>4. QED
    BY <1>1, <2>1, <2>2, <2>3
       DEF Next, Start, StopBegins, TimePasses, WorkerStep, WorkerOnly, WorkerBoots, WorkerReads,
           Connects, RequestSucceeds, WorkerDies, ConnectFails, RequestFails, LateApply, LateDrop,
           Ended
<1>2. QED
  BY <1>1, TypeCorrect, PTL DEF Spec, NoForeignKill

-----------------------------------------------------------------------------
(* The session manager implements the service *)

LEMMA StatusTyped ==
  ASSUME TypeOK, NEW r \in Reqs
  PROVE  /\ pc[r] \in Active => StatusOf(r) = "pending"
         /\ pc[r] \in {"unavailable", "blocked"} => StatusOf(r) = "unavailable"
         /\ pc[r] \in {"new", "refused", "ok", "error"} => StatusOf(r) = pc[r]
BY DEF StatusOf, Active

(* What the caller of r sees of a step that moves r and nothing else. *)
LEMMA StatusMoves ==
  ASSUME TypeOK, NEW r \in Reqs, \A s \in Reqs : s # r => pc'[s] = pc[s]
  PROVE  [s \in Reqs |-> StatusOf(s)]'
           = [[s \in Reqs |-> StatusOf(s)] EXCEPT ![r] = StatusOf(r)']
BY DEF StatusOf

LEMMA ServiceCall ==
  ASSUME TypeOK, IInv, TypeOK', IInv', NEW r \in Reqs, Moves(r)
  PROVE  [Service!Next]_(Service!vars)
<1> DEFINE status == [s \in Reqs |-> StatusOf(s)]
<1>1. status' = [status EXCEPT ![r] = status'[r]] /\ UNCHANGED applied
  BY StatusMoves DEF Moves
<1>2. status[r] \in {"new", "pending"} /\ (pc[r] = "new" <=> status[r] = "new")
  BY DEF Moves, StatusOf, Active
<1>3. /\ pc'[r] \in Active => status'[r] = "pending"
      /\ pc'[r] \in {"unavailable", "blocked"} => status'[r] = "unavailable"
      /\ pc'[r] \in {"refused", "ok", "error"} => status'[r] = pc'[r]
  BY DEF StatusOf, Active
<1>4. CASE pc'[r] \in Active
  <2>1. CASE pc[r] = "new"
    BY <1>1, <1>2, <1>3, <1>4, <2>1
       DEF Service!Next, Service!Submit, Service!Move
  <2>2. CASE pc[r] # "new"
    <3>1. status[r] = "pending" /\ status'[r] = "pending"
      BY <1>2, <1>3, <1>4, <2>2
    <3>2. status' = status
      BY <1>1, <3>1
    <3>3. QED
      BY <1>1, <3>2 DEF Service!vars
  <2>3. QED
    BY <2>1, <2>2
<1>5. CASE pc'[r] = "refused"
  BY <1>1, <1>2, <1>3, <1>5 DEF Moves, Service!Next, Service!Refuse, Service!Move
<1>6. CASE pc'[r] = "error"
  BY <1>1, <1>2, <1>3, <1>6 DEF Service!Next, Service!Fail, Service!Move, Service!Open
<1>7. CASE pc'[r] = "ok"
  <2>1. r \in Writes => applied[r] = 1
    BY <1>1, <1>7 DEF IInv, WriteInv
  <2>2. status[r] = "pending"
    BY <1>2, <1>7 DEF Moves, ReadOk, Reading
  <2>3. QED
    BY <1>1, <1>3, <1>7, <2>1, <2>2 DEF Service!Next, Service!Answer, Service!Move
<1>8. CASE pc'[r] \in {"unavailable", "blocked"}
  <2>1. r \in Writes => applied[r] = 0
    <3> SUFFICES ASSUME r \in Writes PROVE applied[r] = 0
      OBVIOUS
    <3>1. applied'[r] + orphan'[r] = 0
      BY <1>8 DEF IInv, WriteInv, Seen
    <3>2. applied'[r] \in Nat /\ orphan'[r] \in Nat /\ applied'[r] = applied[r]
      BY <1>1 DEF TypeOK, WorkerTyped
    <3>3. QED
      BY <3>1, <3>2
  <2>2. QED
    BY <1>1, <1>2, <1>3, <1>8, <2>1
       DEF Service!Next, Service!GiveUp, Service!Move, Service!Open
<1>9. QED
  BY <1>4, <1>5, <1>6, <1>7, <1>8 DEF Moves, Final

LEMMA ServiceApplies ==
  ASSUME TypeOK, NEW w \in Writes, pc[w] \in Active \cup {"error"}, applied[w] = 0,
         applied' = [applied EXCEPT ![w] = 1], UNCHANGED pc
  PROVE  Service!Next
<1> DEFINE status == [s \in Reqs |-> StatusOf(s)]
<1>1. w \in Reqs
  BY SeenNat
<1>2. status[w] \in {"pending", "error"}
  BY <1>1 DEF StatusOf, Active
<1>3. UNCHANGED status
  BY DEF StatusOf
<1>4. QED
  BY <1>2, <1>3 DEF Service!Next, Service!Apply

(* Every behaviour of the session manager, its worker and QuickBooks is    *)
(* one of QBService: each step is a step of the service or a stutter.      *)
THEOREM Implements == Spec => ImplementsService
<1>1. Init => Service!Init
  BY DEF Init, Service!Init, StatusOf, Active
<1>2. ASSUME TypeOK, IInv, TypeOK', IInv', [Next]_vars
      PROVE  [Service!Next]_(Service!vars)
  <2> USE <1>2
  <2>1. CASE \E r \in Reqs : CallStep(r)
    BY <2>1, CallMoves, ServiceCall
  <2>2. CASE UNCHANGED <<pc, applied>>
    BY <2>2 DEF Service!vars, StatusOf
  <2>3. CASE RequestSucceeds
    <3>1. /\ owner \in Reqs /\ job = owner /\ pc[owner] = "reading"
          /\ owner \in Writes => applied[owner] = 0
          /\ applied' = Bump(applied, owner) /\ UNCHANGED pc
      BY <2>3, BusyWorker DEF RequestSucceeds, WorkerOnly
    <3>2. CASE owner \in Writes
      <4>1. applied' = [applied EXCEPT ![owner] = 1]
        BY <3>1, <3>2 DEF Bump, TypeOK, WorkerTyped
      <4>2. QED
        BY <3>1, <3>2, <4>1, ServiceApplies DEF Active
    <3>3. CASE owner \notin Writes
      BY <2>2, <3>1, <3>3 DEF Bump
    <3>4. QED
      BY <3>2, <3>3
  <2>4. ASSUME NEW w \in Writes, LateApply(w)
        PROVE  Service!Next
    <3>1. orphan[w] > 0 /\ applied' = [applied EXCEPT ![w] = applied[w] + 1] /\ UNCHANGED pc
      BY <2>4 DEF LateApply, WorkerOnly
    <3>2. applied[w] = 0 /\ orphan[w] = 1
      BY <3>1, SeenNat DEF IInv, WriteInv, Seen
    <3>3. pc[w] \in {"reading", "error"}
      BY <3>2 DEF IInv, WriteInv, Seen
    <3>4. applied' = [applied EXCEPT ![w] = 1]
      BY <3>1, <3>2
    <3>5. QED
      BY <3>1, <3>2, <3>3, <3>4, ServiceApplies DEF Active
  <2>5. UNCHANGED <<pc, applied>> \/ RequestSucceeds \/ (\E r \in Reqs : CallStep(r))
          \/ \E w \in Writes : LateApply(w)
    BY DEF Next, Start, StopBegins, StopKills, TimePasses, MonitorStep, MonitorQueues, IdleRelease,
           KillWorker, WorkerEnds, WorkerStep, WorkerOnly, WorkerBoots, WorkerReads, Connects,
           WorkerDies, ConnectFails, RequestFails, LateDrop, Ended
  <2>6. QED
    BY <2>1, <2>2, <2>3, <2>4, <2>5
<1>3. QED
  BY <1>1, <1>2, TypeCorrect, Inductive, PTL DEF Spec, ImplementsService, Service!Spec

-----------------------------------------------------------------------------
(* The lock: who waits for it *)

(* Calls wait for an attempt, or to restart the worker. *)
Waiting ==
  {r \in Reqs : pc[r] \in {"queued", "restarting"}} \cup {m \in {Monitor} : monitor = "queued"}

QueueInv == IsQueueOf(waiters, Waiting)

(* stop() takes the monitor out of the queue before anything else. *)
MonitorInv == monitor # "off" => life = "running"

LEMMA RemoveAtFacts ==
  ASSUME NEW S, NEW s \in Seq(S), NEW i \in DOMAIN s
  PROVE  /\ RemoveAt(s, i) \in Seq(S)
         /\ Len(RemoveAt(s, i)) = Len(s) - 1
         /\ \A k \in 1..(Len(s) - 1) : RemoveAt(s, i)[k] = IF k < i THEN s[k] ELSE s[k + 1]
<1> DEFINE a == SubSeq(s, 1, i - 1)
           b == SubSeq(s, i + 1, Len(s))
<1>1. i \in 1..Len(s) /\ Len(s) \in Nat /\ \A k \in 1..Len(s) : s[k] \in S
  OBVIOUS
<1>2. /\ a \in Seq(S) /\ Len(a) = i - 1
      /\ \A k \in 1..(i - 1) : a[k] = s[k]
  <2>1. \A k \in 1..(i - 1) : s[k] \in S /\ 1 + k - 1 = k
    BY <1>1
  <2>2. i - 1 \in Int /\ (i - 1) - 1 + 1 = i - 1 /\ (1 <= i - 1 \/ i - 1 = 0)
    BY <1>1
  <2> QED BY <1>1, <2>1, <2>2, SubSeqProperties
<1>3. /\ b \in Seq(S) /\ Len(b) = Len(s) - i
      /\ \A k \in 1..(Len(s) - i) : b[k] = s[k + i]
  <2>1. \A k \in (i + 1)..Len(s) : s[k] \in S
    BY <1>1
  <2>2. /\ i + 1 \in Int /\ Len(s) \in Int
        /\ Len(s) - (i + 1) + 1 = Len(s) - i /\ (i + 1 <= Len(s) \/ Len(s) - i = 0)
    BY <1>1
  <2>3. \A k \in 1..(Len(s) - i) : (i + 1) + k - 1 = k + i
    BY <1>1
  <2> QED BY <2>1, <2>2, <2>3, SubSeqProperties
<1>4. RemoveAt(s, i) = a \o b
  BY DEF RemoveAt
<1> HIDE DEF a, b
<1>5. /\ a \o b \in Seq(S) /\ Len(a \o b) = Len(s) - 1
      /\ \A k \in 1..(Len(s) - 1) : (a \o b)[k] = IF k <= i - 1 THEN a[k] ELSE b[k - (i - 1)]
  <2>1. Len(a) + Len(b) = Len(s) - 1
    BY <1>1, <1>2, <1>3
  <2>2. /\ a \o b \in Seq(S) /\ Len(a \o b) = Len(a) + Len(b)
        /\ \A k \in 1..(Len(a) + Len(b)) :
             (a \o b)[k] = IF k <= Len(a) THEN a[k] ELSE b[k - Len(a)]
    BY <1>2, <1>3, ConcatProperties
  <2> QED BY <1>2, <2>1, <2>2
<1>6. ASSUME NEW k \in 1..(Len(s) - 1)
      PROVE  (a \o b)[k] = IF k < i THEN s[k] ELSE s[k + 1]
  <2>1. CASE k < i
    <3>1. k <= i - 1 /\ k \in 1..(i - 1)
      BY <1>1, <2>1
    <3> QED BY <1>2, <1>5, <2>1, <3>1
  <2>2. CASE ~(k < i)
    <3>1. ~(k <= i - 1) /\ k - (i - 1) \in 1..(Len(s) - i) /\ (k - (i - 1)) + i = k + 1
      BY <1>1, <2>2
    <3> QED BY <1>3, <1>5, <2>2, <3>1
  <2> QED BY <2>1, <2>2
<1> QED BY <1>4, <1>5, <1>6

(* A step that leaves the queue as it is, and whoever waits in it *)
LEMMA QueueStays ==
  ASSUME TypeOK, QueueInv, waiters' = waiters, Waiting' = Waiting
  PROVE  QueueInv' /\ KeepsTurns(waiters, waiters', Reqs)
<1>1. waiters \in Seq(Reqs \cup {Monitor})
  BY DEF TypeOK, CallTyped
<1> QED BY <1>1, TurnsStay DEF QueueInv

(* A call goes on from wherever it was, having left q waiting. *)
LEMMA GoesOn ==
  ASSUME TypeOK, NEW r \in Reqs, NEW q, IsQueueOf(q, Waiting \ {r}),
         KeepsTurns(waiters, q, Reqs), UNCHANGED monitor,
         NEW to, Transits(r, to), to \notin {"queued", "restarting"}, waiters' = q
  PROVE  QueueInv' /\ KeepsTurns(waiters, waiters', Reqs)
<1>1. Waiting' = Waiting \ {r}
  BY SessionAssumption DEF Transits, Waiting, TypeOK, CallTyped, SessionAssumption
<1> QED BY <1>1 DEF QueueInv

(* ... or to the end of the queue. *)
LEMMA GoesBehind ==
  ASSUME TypeOK, NEW r \in Reqs, NEW q \in Seq(Reqs \cup {Monitor}), IsQueueOf(q, Waiting \ {r}),
         KeepsTurns(waiters, q, Reqs), UNCHANGED monitor,
         NEW to, Transits(r, to), to \in {"queued", "restarting"}, waiters' = Append(q, r)
  PROVE  QueueInv' /\ KeepsTurns(waiters, waiters', Reqs)
<1>1. Waiting' = (Waiting \ {r}) \cup {r}
  BY DEF Transits, Waiting, TypeOK, CallTyped
<1>2. IsQueueOf(Append(q, r), (Waiting \ {r}) \cup {r})
  BY QueueAppend
<1>3. waiters \in Seq(Reqs \cup {Monitor}) /\ r \in Reqs \cup {Monitor}
  BY DEF TypeOK, CallTyped
<1>4. KeepsTurns(waiters, Append(q, r), Reqs)
  BY <1>3, TurnsAppend
<1> QED BY <1>1, <1>2, <1>4 DEF QueueInv

LEMMA RaiseQueue ==
  ASSUME TypeOK, NEW r \in Reqs, NEW q \in Seq(Reqs \cup {Monitor}), IsQueueOf(q, Waiting \ {r}),
         KeepsTurns(waiters, q, Reqs), UNCHANGED monitor,
         NEW reached, NEW f, Raise(r, q, reached, f)
  PROVE  QueueInv' /\ KeepsTurns(waiters, waiters', Reqs)
<1>1. CASE \E to \in {"error", "blocked", "unavailable", "backoff", "sweeping"} :
             Transits(r, to) /\ waiters' = q
  BY <1>1, GoesOn
<1>2. CASE Transits(r, "restarting") /\ waiters' = Append(q, r)
  BY <1>2, GoesBehind
<1>3. ASSUME f \in Transient
      PROVE  Remedy[f] \in {"sweeping", "restarting", "backoff"}
  BY <1>3 DEF Remedy, Transient
<1> QED BY <1>1, <1>2, <1>3 DEF Raise, MayRetry

LEMMA EnterQueue ==
  ASSUME TypeOK, NEW r \in Reqs, NEW q \in Seq(Reqs \cup {Monitor}), IsQueueOf(q, Waiting \ {r}),
         KeepsTurns(waiters, q, Reqs), Enter(r, q)
  PROVE  QueueInv' /\ KeepsTurns(waiters, waiters', Reqs)
<1>1. UNCHANGED monitor
  BY DEF Enter
<1>2. CASE \E to \in {"reading", "starting", "error"} : Transits(r, to) /\ waiters' = q
  BY <1>1, <1>2, GoesOn
<1>3. CASE \E reached \in BOOLEAN : Raise(r, q, reached, "worker-gone")
  BY <1>1, <1>3, RaiseQueue
<1> QED BY <1>2, <1>3 DEF Enter, EnterWarm, EnterCold, SpawnFails, Write, PipeBreaks

LEMMA CallQueue ==
  ASSUME TypeOK, QueueInv, NEW r \in Reqs, CallStep(r)
  PROVE  QueueInv' /\ KeepsTurns(waiters, waiters', Reqs)
<1> DEFINE Ok == QueueInv' /\ KeepsTurns(waiters, waiters', Reqs)
<1>1. waiters \in Seq(Reqs \cup {Monitor})
  BY DEF TypeOK, CallTyped
<1>2. KeepsTurns(waiters, waiters, Reqs)
  BY <1>1, TurnsStay
<1>3. ASSUME pc[r] \notin {"queued", "restarting"}
      PROVE  IsQueueOf(waiters, Waiting \ {r})
  <2>1. Waiting \ {r} = Waiting
    BY <1>3, SessionAssumption DEF Waiting, SessionAssumption
  <2> QED BY <2>1 DEF QueueInv
<1>4. ASSUME IsNext(r)
      PROVE  /\ IsQueueOf(Tail(waiters), Waiting \ {r})
             /\ KeepsTurns(waiters, Tail(waiters), Reqs)
             /\ Tail(waiters) \in Seq(Reqs \cup {Monitor})
  BY <1>1, <1>4, QueueTail, TailTyped DEF IsNext, QueueInv, KeepsTurns
<1>5. CASE Refuse(r)
  BY <1>2, <1>3, <1>5, GoesOn DEF Refuse
<1>6. CASE FindsLockFree(r)
  <2>1. pc[r] \notin {"queued", "restarting"} /\ waiters = <<>> /\ Enter(r, waiters)
    BY <1>6 DEF FindsLockFree, Arrives, LockIsFree
  <2> QED BY <1>1, <1>2, <1>3, <2>1, EnterQueue
<1>7. CASE Queues(r)
  <2>1. pc[r] \notin {"queued", "restarting"}
    BY <1>7 DEF Queues, Arrives
  <2>2. UNCHANGED monitor /\ Transits(r, "queued") /\ waiters' = Append(waiters, r)
    BY <1>7 DEF Queues
  <2> QED BY <1>1, <1>2, <1>3, <2>1, <2>2, GoesBehind
<1>8. CASE GetsLock(r)
  BY <1>4, <1>8, EnterQueue DEF GetsLock
<1>9. CASE WorkerReady(r)
  <2>1. pc[r] = "starting" /\ UNCHANGED monitor
    BY <1>9 DEF WorkerReady
  <2>2. CASE Write(r, waiters)
    BY <1>2, <1>3, <2>1, <2>2, GoesOn DEF Write
  <2>3. CASE PipeBreaks(r, waiters)
    BY <1>1, <1>2, <1>3, <2>1, <2>3, RaiseQueue DEF PipeBreaks
  <2> QED BY <1>9, <2>2, <2>3 DEF WorkerReady
<1>10. CASE StartupFails(r) \/ StartupTimesOut(r)
  <2>1. pc[r] = "starting" /\ UNCHANGED monitor
    BY <1>10 DEF StartupFails, StartupTimesOut
  <2> QED BY <1>1, <1>2, <1>3, <1>10, <2>1, RaiseQueue DEF StartupFails, StartupTimesOut
<1>11. CASE ReadOk(r)
  <2>1. pc[r] = "reading" /\ UNCHANGED monitor /\ waiters' = waiters /\ Transits(r, "ok")
    BY <1>11 DEF ReadOk, Reading
  <2> QED BY <1>2, <1>3, <2>1, GoesOn
<1>12. CASE ReadError(r) \/ ReadGarbled(r) \/ ReadEof(r) \/ ReadTimesOut(r)
  <2>1. pc[r] = "reading" /\ UNCHANGED monitor
    BY <1>12 DEF ReadError, ReadGarbled, ReadEof, ReadTimesOut, Reading
  <2>2. \E reached, f : Raise(r, waiters, reached, f)
    BY <1>12 DEF ReadError, ReadGarbled, ReadEof, ReadTimesOut
  <2> QED BY <1>1, <1>2, <1>3, <2>1, <2>2, RaiseQueue
<1>13. CASE RestartWorker(r)
  <2>1. IsNext(r) /\ UNCHANGED monitor /\ waiters' = Tail(waiters) /\ Transits(r, "backoff")
    BY <1>13 DEF RestartWorker
  <2> QED BY <1>4, <2>1, GoesOn
<1>14. CASE Sweep(r)
  <2>1. pc[r] = "sweeping" /\ UNCHANGED monitor /\ waiters' = waiters
    BY <1>14 DEF Sweep
  <2>2. \E to \in {"backoff", "error"} : Transits(r, to)
    BY <1>14 DEF Sweep
  <2> QED BY <1>2, <1>3, <2>1, <2>2, GoesOn
<1> QED BY <1>5, <1>6, <1>7, <1>8, <1>9, <1>10, <1>11, <1>12, <1>13, <1>14 DEF CallStep

LEMMA QueueStep ==
  ASSUME TypeOK, MonitorInv, QueueInv, [Next]_vars
  PROVE  QueueInv' /\ KeepsTurns(waiters, waiters', Reqs)
<1>1. waiters \in Seq(Reqs \cup {Monitor}) /\ Monitor \notin Reqs
  BY SessionAssumption DEF TypeOK, CallTyped, SessionAssumption
<1>2. CASE MonitorQueues
  <2>1. Monitor \notin Waiting /\ Waiting' = Waiting \cup {Monitor}
    BY <1>1, <1>2 DEF MonitorQueues, MonitorFindsIdle, Waiting
  <2>2. waiters' = Append(waiters, Monitor)
    BY <1>2 DEF MonitorQueues
  <2>3. QueueInv'
    BY <2>1, <2>2, QueueAppend DEF QueueInv
  <2>4. KeepsTurns(waiters, Append(waiters, Monitor), Reqs)
    <3>1. Monitor \in Reqs \cup {Monitor}
      OBVIOUS
    <3> QED BY <1>1, <3>1, TurnsStay, TurnsAppend
  <2> QED BY <2>2, <2>3, <2>4
<1>3. CASE IdleRelease
  <2>0. monitor' = "sleeping" /\ UNCHANGED pc
    BY <1>3 DEF IdleRelease
  <2>1. CASE MonitorFindsIdle /\ UNCHANGED waiters
    <3>1. Waiting' = Waiting
      BY <2>0, <2>1 DEF MonitorFindsIdle, Waiting
    <3> QED BY <2>1, <3>1, QueueStays
  <2>2. CASE monitor = "queued" /\ IsNext(Monitor) /\ waiters' = Tail(waiters)
    <3>1. Waiting' = Waiting \ {Monitor}
      BY <1>1, <2>0, <2>2 DEF Waiting
    <3>2. waiters # <<>> /\ Head(waiters) = Monitor
      BY <2>2 DEF IsNext
    <3> QED BY <2>2, <3>1, <3>2, QueueTail DEF QueueInv, KeepsTurns
  <2> QED BY <1>3, <2>1, <2>2 DEF IdleRelease
<1>4. CASE StopBegins
  <2>0. monitor' = "off" /\ UNCHANGED pc
    BY <1>4 DEF StopBegins
  <2>1. CASE monitor # "queued"
    <3>1. Waiting' = Waiting /\ waiters' = waiters
      BY <1>4, <2>0, <2>1 DEF StopBegins, Waiting
    <3> QED BY <3>1, QueueStays
  <2>2. CASE monitor = "queued"
    <3>1. Waiting' = Waiting \ {Monitor}
      BY <1>1, <2>0, <2>2 DEF Waiting
    <3>2. PICK i \in DOMAIN waiters : waiters[i] = Monitor /\ waiters' = RemoveAt(waiters, i)
      BY <1>4, <2>2 DEF StopBegins
    <3>3. waiters \in Seq(Waiting)
      BY DEF QueueInv, IsQueueOf
    <3>4. /\ waiters' \in Seq(Waiting) /\ Len(waiters') = Len(waiters) - 1
          /\ \A k \in 1..(Len(waiters) - 1) :
               waiters'[k] = IF k < i THEN waiters[k] ELSE waiters[k + 1]
      BY <3>2, <3>3, RemoveAtFacts
    <3>5. /\ IsQueueOf(waiters', Waiting \ {waiters[i]})
          /\ \A k \in DOMAIN waiters \ {i} : WaitsBy(waiters', waiters[k], k)
      BY <3>4, QueueWithout DEF QueueInv
    <3>6. KeepsTurns(waiters, waiters', Reqs)
      BY <1>1, <3>2, <3>5 DEF KeepsTurns
    <3> QED BY <3>1, <3>2, <3>5, <3>6 DEF QueueInv
  <2> QED BY <2>1, <2>2
<1>5. CASE Start
  <2>1. Waiting' = Waiting /\ waiters' = waiters
    <3>1. monitor = "off"
      BY <1>5 DEF Start, MonitorInv, TypeOK, LoopTyped
    <3> QED BY <1>5, <3>1 DEF Start, Waiting
  <2> QED BY <2>1, QueueStays
<1>6. CASE StopKills \/ TimePasses \/ WorkerStep \/ (\E w \in Writes : LateApply(w) \/ LateDrop(w))
           \/ Ended \/ UNCHANGED vars
  <2>1. UNCHANGED <<waiters, pc, monitor>>
    BY <1>6 DEF StopKills, TimePasses, WorkerStep, WorkerOnly, WorkerBoots, WorkerReads, Connects,
                RequestSucceeds, WorkerDies, ConnectFails, RequestFails, LateApply, LateDrop, Ended
  <2>2. Waiting' = Waiting
    BY <2>1 DEF Waiting
  <2> QED BY <2>1, <2>2, QueueStays
<1> QED BY <1>2, <1>3, <1>4, <1>5, <1>6, CallQueue DEF Next, MonitorStep

(* Of the calls and the monitor, those that wait for _lock wait in its     *)
(* queue, each once (session.py), and the monitor only while _running.     *)
THEOREM LockQueued == Spec => [](QueueInv /\ MonitorInv)
<1>1. Init => QueueInv /\ MonitorInv
  <2> SUFFICES ASSUME Init PROVE QueueInv /\ MonitorInv
    OBVIOUS
  <2>1. Waiting = {} /\ waiters = <<>>
    BY DEF Init, Waiting
  <2> QED BY <2>1, EmptyQueue DEF Init, QueueInv, MonitorInv
<1>2. ASSUME TypeOK, MonitorInv, [Next]_vars PROVE MonitorInv'
  <2>1. CASE Start \/ StopBegins \/ StopKills \/ MonitorStep
    BY <1>2, <2>1 DEF Start, StopBegins, StopKills, MonitorStep, MonitorQueues, MonitorFindsIdle,
                      IdleRelease, MonitorInv
  <2>2. CASE \E r \in Reqs : CallStep(r)
    <3>1. UNCHANGED <<life, monitor>>
      BY <2>2 DEF CallStep, Refuse, FindsLockFree, Queues, GetsLock, Enter, WorkerReady,
                  StartupFails, StartupTimesOut, ReadOk, ReadError, ReadGarbled, ReadEof,
                  ReadTimesOut, RestartWorker, Sweep
    <3> QED BY <1>2, <3>1 DEF MonitorInv
  <2>3. CASE TimePasses \/ WorkerStep \/ (\E w \in Writes : LateApply(w) \/ LateDrop(w))
             \/ Ended \/ UNCHANGED vars
    <3>1. UNCHANGED <<life, monitor>>
      BY <2>3 DEF TimePasses, WorkerStep, WorkerOnly, WorkerBoots, WorkerReads, Connects,
                  RequestSucceeds, WorkerDies, ConnectFails, RequestFails, LateApply, LateDrop, Ended
    <3> QED BY <1>2, <3>1 DEF MonitorInv
  <2> QED BY <1>2, <2>1, <2>2, <2>3 DEF Next
<1> QED BY <1>1, <1>2, TypeCorrect, QueueStep, PTL DEF Spec

(* Nobody waits for a lock that nobody will give: the call that has it is  *)
(* waiting for a line with a timeout, or the first in the queue may go on. *)
SomebodyGoesOn ==
  Waiting # {} => \/ \E r \in Reqs : owner = r /\ pc[r] \in {"starting", "reading"}
                  \/ \E w \in Waiting : IsNext(w)

THEOREM NobodyStuck == Spec => []SomebodyGoesOn
<1>1. TypeOK /\ LockInv /\ QueueInv => SomebodyGoesOn
  <2> SUFFICES ASSUME TypeOK, LockInv, QueueInv, Waiting # {}
               PROVE  \/ \E r \in Reqs : owner = r /\ pc[r] \in {"starting", "reading"}
                      \/ \E w \in Waiting : IsNext(w)
    BY DEF SomebodyGoesOn
  <2>1. waiters # <<>> /\ Head(waiters) \in Waiting
    BY QueueNonempty DEF QueueInv
  <2>2. CASE owner = NoReq
    BY <2>1, <2>2 DEF IsNext
  <2>3. CASE owner \in Reqs
    BY <2>3 DEF LockInv
  <2> QED BY <2>2, <2>3 DEF TypeOK, CallTyped
<1>2. IInv => LockInv
  BY DEF IInv
<1> QED BY <1>1, <1>2, TypeCorrect, Inductive, LockQueued, PTL

(* asyncio.Lock is fair: a call that waits for _lock never comes to wait   *)
(* behind more others than before.                                         *)
THEOREM TurnsKept == Spec => [][KeepsTurns(waiters, waiters', Reqs)]_vars
<1>1. TypeOK /\ MonitorInv /\ QueueInv /\ [Next]_vars => [KeepsTurns(waiters, waiters', Reqs)]_vars
  BY QueueStep
<1> QED BY <1>1, TypeCorrect, LockQueued, PTL DEF Spec

-----------------------------------------------------------------------------
(* A call that is told of a dialog only a person can answer was told so    *)
(* after a sweep, though perhaps that of another call (BlockedByOwnDialog  *)
(* does not hold).                                                         *)
BlockedBySomeDialog ==
  /\ blocking => swept # {}
  /\ \A r \in Reqs : pc[r] = "blocked" => swept # {}

THEOREM SomebodySwept == Spec => []BlockedBySomeDialog
<1>1. Init => BlockedBySomeDialog
  BY DEF Init, BlockedBySomeDialog
<1>2. ASSUME TypeOK, BlockedBySomeDialog, [Next]_vars PROVE BlockedBySomeDialog'
  <2>1. ASSUME NEW r \in Reqs, CallStep(r) PROVE BlockedBySomeDialog'
    <3>1. CASE Sweep(r)
      <4>1. swept' # {}
        BY <3>1 DEF Sweep
      <4> QED BY <4>1 DEF BlockedBySomeDialog
    <3>2. CASE ~Sweep(r)
      <4>1. UNCHANGED <<blocking, swept>>
        BY <2>1, <3>2 DEF CallStep, Refuse, FindsLockFree, Queues, GetsLock, Enter, EnterWarm,
             EnterCold, SpawnFails, WorkerReady, StartupFails, StartupTimesOut, ReadOk, ReadError,
             ReadGarbled, ReadEof, ReadTimesOut, RestartWorker, Write, PipeBreaks, Raise
      <4>2. \A s \in Reqs : s # r => pc'[s] = pc[s]
        BY <1>2, <2>1, CallMoves DEF Moves
      <4>3. pc'[r] = "blocked" => blocking
        <5>1. ASSUME NEW to, Transits(r, to) PROVE pc'[r] = to
          BY <1>2, <5>1 DEF Transits, TypeOK, CallTyped
        <5>2. ASSUME NEW q, NEW reached, NEW f, Raise(r, q, reached, f), pc'[r] = "blocked"
              PROVE  blocking
          <6>1. \A g \in Transient : Remedy[g] # "blocked"
            BY DEF Remedy, Transient
          <6> QED BY <5>1, <5>2, <6>1 DEF Raise, MayRetry
        <5>3. ASSUME NEW q, Enter(r, q), pc'[r] = "blocked" PROVE blocking
          BY <5>1, <5>2, <5>3 DEF Enter, EnterWarm, EnterCold, SpawnFails, Write, PipeBreaks
        <5>4. CASE Refuse(r) \/ Queues(r) \/ ReadOk(r) \/ RestartWorker(r)
          BY <5>1, <5>4 DEF Refuse, Queues, ReadOk, RestartWorker
        <5>5. CASE FindsLockFree(r) \/ GetsLock(r)
          BY <5>3, <5>5 DEF FindsLockFree, GetsLock
        <5>6. CASE WorkerReady(r)
          BY <5>1, <5>2, <5>6 DEF WorkerReady, Write, PipeBreaks
        <5>7. CASE StartupFails(r) \/ StartupTimesOut(r) \/ ReadError(r) \/ ReadGarbled(r)
                   \/ ReadEof(r) \/ ReadTimesOut(r)
          BY <5>2, <5>7 DEF StartupFails, StartupTimesOut, ReadError, ReadGarbled, ReadEof, ReadTimesOut
        <5> QED BY <2>1, <3>2, <5>4, <5>5, <5>6, <5>7 DEF CallStep
      <4> QED BY <1>2, <4>1, <4>2, <4>3 DEF BlockedBySomeDialog
    <3> QED BY <3>1, <3>2
  <2>2. CASE ~ \E r \in Reqs : CallStep(r)
    <3>1. UNCHANGED pc
      BY <1>2, <2>2, OthersDoNotMove
    <3>2. UNCHANGED <<blocking, swept>>
      BY <1>2, <2>2 DEF Next, Start, StopBegins, StopKills, TimePasses, MonitorStep, MonitorQueues,
           IdleRelease, WorkerStep, WorkerOnly, WorkerBoots, WorkerReads, Connects, RequestSucceeds,
           WorkerDies, ConnectFails, RequestFails, LateApply, LateDrop, Ended
    <3> QED BY <1>2, <3>1, <3>2 DEF BlockedBySomeDialog
  <2> QED BY <2>1, <2>2
<1> QED BY <1>1, <1>2, TypeCorrect, PTL DEF Spec
=============================================================================
