--------------------------- MODULE QBProcessProofs ---------------------------
(***************************************************************************)
(* Proofs about QBProcess, for any number of calls and attempts.           *)
(***************************************************************************)
EXTENDS QBProcess, QBLockProofs, TLAPS

(* What is done to the queue of the lock leaves it a queue. *)
LEMMA QueueType ==
  ASSUME NEW S, NEW q \in Seq(S), NEW e \in S
  PROVE  /\ Append(q, e) \in Seq(S)
         /\ q # <<>> => Tail(q) \in Seq(S)
OBVIOUS

LEMMA RetriesType ==
  ASSUME TypeOK, NEW c \in Calls, Retries(c)
  PROVE  /\ pc' \in [Calls -> {"new"} \cup Active \cup Final]
         /\ attempt' \in [Calls -> 1..MaxAttempts]
<1> USE ProcessAssumption DEF ProcessAssumption, TypeOK, Retries, Goes, Active, Final
<1>1. CASE attempt[c] < MaxAttempts
  <2>1. attempt[c] + 1 \in 1..MaxAttempts
    BY <1>1
  <2> QED BY <1>1, <2>1, SMTT(30)
<1>2. CASE ~(attempt[c] < MaxAttempts)
  BY <1>2
<1> QED BY <1>1, <1>2

LEMMA InitType == Init => TypeOK
<1> SUFFICES ASSUME Init PROVE TypeOK
  OBVIOUS
<1>1. 1 \in 1..MaxAttempts
  BY ProcessAssumption DEF ProcessAssumption
<1>2. waiters \in Seq(Calls \cup {Monitor})
  BY DEF Init
<1> QED BY <1>1, <1>2 DEF Init, TypeOK, Active, Final

LEMMA NextType == TypeOK /\ [Next]_vars => TypeOK'
<1> SUFFICES ASSUME TypeOK, [Next]_vars PROVE TypeOK'
  OBVIOUS
<1> USE DEF TypeOK, callVars, loopVars, worldVars, history
<1>1. ASSUME NEW c \in Calls, WarmsInBackground(c) PROVE TypeOK'
  BY <1>1 DEF WarmsInBackground, Goes, Active
<1>2. ASSUME NEW c \in Calls, FindsLockFree(c) PROVE TypeOK'
  BY <1>2 DEF FindsLockFree, Enters, Goes, Active
<1>3. ASSUME NEW c \in Calls, Queues(c) PROVE TypeOK'
  <2>1. waiters' \in Seq(Calls \cup {Monitor})
    BY <1>3, QueueType DEF Queues
  <2> QED BY <1>3, <2>1 DEF Queues, Goes, Active
<1>4. ASSUME NEW c \in Calls, GetsLock(c) PROVE TypeOK'
  <2>1. waiters' \in Seq(Calls \cup {Monitor})
    BY <1>4 DEF GetsLock, IsNext
  <2> QED BY <1>4, <2>1 DEF GetsLock, Enters, Goes, Active
<1>5. ASSUME NEW c \in Calls, Answered(c) PROVE TypeOK'
  BY <1>5 DEF Answered, LeavesLock, Goes, Final
<1>6. ASSUME NEW c \in Calls, NotStarted(c) PROVE TypeOK'
  <2>1. Retries(c)
    BY <1>6 DEF NotStarted
  <2>2. qb' \in {"closed", "loading", "open"}
    BY <1>6 DEF NotStarted, LaunchRemedy
  <2> QED BY <1>6, <2>1, <2>2, RetriesType DEF NotStarted, LeavesLock
<1>7. ASSUME NEW c \in Calls, Rejected(c) PROVE TypeOK'
  <2>1. Retries(c)
    BY <1>7 DEF Rejected
  <2> QED BY <1>7, <2>1, RetriesType, ZenonT(40) DEF Rejected, LeavesLock
<1>8. ASSUME NEW c \in Calls, Fails(c) PROVE TypeOK'
  <2>1. pc' \in [Calls -> {"new"} \cup Active \cup Final]
    BY <1>8 DEF Fails, Goes, Final
  <2> QED BY <1>8, <2>1, ZenonT(40) DEF Fails, LeavesLock
<1>9. CASE MonitorQueues
  <2>1. waiters' \in Seq(Calls \cup {Monitor})
    BY <1>9, QueueType DEF MonitorQueues
  <2> QED BY <1>9, <2>1 DEF MonitorQueues
<1>10. CASE IdleRelease
  <2>1. waiters' \in Seq(Calls \cup {Monitor})
    <3>1. CASE UNCHANGED waiters
      BY <3>1
    <3>2. CASE IsNext(Monitor) /\ waiters' = Tail(waiters)
      BY <3>2 DEF IsNext
    <3> QED BY <1>10, <3>1, <3>2 DEF IdleRelease
  <2>2. monitor' \in {"sleeping", "queued", "closing"} /\ missed' \in BOOLEAN
    BY <1>10 DEF IdleRelease, LooksForWindows
  <2> QED BY <1>10, <2>1, <2>2 DEF IdleRelease
<1>11. CASE CloseQB
  BY <1>11 DEF CloseQB
<1>12. CASE TimePasses
  BY <1>12 DEF TimePasses
<1>13. CASE Loads \/ PersonStarts \/ PersonOpensWindow \/ Exits
  BY <1>13, ZenonT(40) DEF Loads, PersonStarts, PersonOpensWindow, Exits, ShowsWindow, World
<1>14. CASE UNCHANGED vars
  BY <1>14 DEF vars
<1> QED BY <1>1, <1>2, <1>3, <1>4, <1>5, <1>6, <1>7, <1>8, <1>9, <1>10, <1>11, <1>12,
           <1>13, <1>14 DEF Next, CallStep, MonitorStep

(* Every variable keeps its type, and no call makes more than max_attempts *)
(* attempts (the loop of execute, session.py).                             *)
THEOREM TypeCorrect == Spec => []TypeOK
BY InitType, NextType, PTL DEF Spec

-----------------------------------------------------------------------------
(* While close_qb runs nothing of the bridge's takes a step but itself.    *)
LEMMA ClosingStandsStill ==
  ASSUME TypeOK, Next, monitor = "closing"
  PROVE  CloseQB \/ UNCHANGED <<monitor, owner, session>>
<1>1. ~LoopIsFree
  BY DEF LoopIsFree
<1> QED BY <1>1 DEF Next, CallStep, MonitorStep, WarmsInBackground, FindsLockFree, Queues,
        GetsLock, Arrives, Answered, NotStarted, Rejected, Fails, Exchanges, MonitorQueues,
        IdleRelease, FindsIdle, TimePasses, Loads, PersonStarts, PersonOpensWindow, Exits,
        ShowsWindow, World, callVars, loopVars

(* The monitor sets about closing QuickBooks in one step only. *)
LEMMA OnlyReleaseCloses ==
  ASSUME TypeOK, Next, monitor # "closing", monitor' = "closing"
  PROVE  IdleRelease
BY DEF Next, CallStep, MonitorStep, WarmsInBackground, FindsLockFree, Queues, GetsLock, Enters,
       Answered, NotStarted, Rejected, Fails, LeavesLock, MonitorQueues, CloseQB, TimePasses,
       Loads, PersonStarts, PersonOpensWindow, Exits, ShowsWindow, World, loopVars

LEMMA NobodyCallsStep ==
  TypeOK /\ NobodyCallsWhileClosing /\ [Next]_vars => NobodyCallsWhileClosing'
<1> SUFFICES ASSUME TypeOK, NobodyCallsWhileClosing, [Next]_vars, monitor' = "closing"
             PROVE  owner' = Nobody /\ ~session'
  BY DEF NobodyCallsWhileClosing
<1>1. CASE UNCHANGED vars
  BY <1>1 DEF vars, callVars, loopVars, NobodyCallsWhileClosing
<1>2. CASE Next /\ monitor = "closing"
  BY <1>2, ClosingStandsStill DEF CloseQB, NobodyCallsWhileClosing
<1>3. CASE Next /\ monitor # "closing"
  <2>1. IdleRelease
    BY <1>3, OnlyReleaseCloses
  <2> QED BY <2>1 DEF IdleRelease, LockIsFree, IsNext
<1> QED BY <1>1, <1>2, <1>3

(* For any number of calls: none is in an exchange, and no session is open,*)
(* while the idle monitor force-closes QuickBooks (session.py).            *)
THEOREM NobodyCalls == Spec => []NobodyCallsWhileClosing
<1>1. Init => NobodyCallsWhileClosing
  BY DEF Init, NobodyCallsWhileClosing
<1> QED BY <1>1, TypeCorrect, NobodyCallsStep, PTL DEF Spec

LEMMA WindowsSeenStep ==
  TypeOK /\ WindowsSeenAreSpared /\ [Next]_vars => WindowsSeenAreSpared'
<1> SUFFICES ASSUME TypeOK, WindowsSeenAreSpared, [Next]_vars,
                    monitor' = "closing", windows'
             PROVE  opened' \/ missed'
  BY DEF WindowsSeenAreSpared
<1> USE DEF WindowsSeenAreSpared, TypeOK
<1>1. CASE UNCHANGED vars
  BY <1>1 DEF vars, loopVars, worldVars, history
<1>2. CASE Next /\ monitor # "closing"
  <2>1. IdleRelease
    BY <1>2, OnlyReleaseCloses
  <2>2. missed' = windows
    BY <1>2, <2>1 DEF IdleRelease, LooksForWindows
  <2> QED BY <2>1, <2>2 DEF IdleRelease, worldVars
<1>3. CASE Next /\ monitor = "closing"
  <2>1. ~LoopIsFree
    BY <1>3 DEF LoopIsFree
  <2>2. CASE Loads \/ PersonOpensWindow
    BY <1>3, <2>2 DEF Loads, PersonOpensWindow, ShowsWindow
  <2>3. CASE PersonStarts \/ Exits \/ TimePasses \/ CloseQB
    BY <1>3, <2>3 DEF PersonStarts, Exits, TimePasses, CloseQB, World, history, worldVars
  <2> QED BY <1>3, <2>1, <2>2, <2>3 DEF Next, CallStep, MonitorStep, WarmsInBackground,
          FindsLockFree, Queues, GetsLock, Arrives, Answered, NotStarted, Rejected, Fails,
          Exchanges, MonitorQueues, IdleRelease, FindsIdle
<1> QED BY <1>1, <1>2, <1>3

(* Whoever opens windows and whenever: those of a QuickBooks that is being *)
(* closed came up after the look, or the look failed to see them           *)
(* (qb_has_visible_windows before close_qb, session.py).                   *)
THEOREM WindowsSpared == Spec => []WindowsSeenAreSpared
<1>1. Init => WindowsSeenAreSpared
  BY DEF Init, WindowsSeenAreSpared
<1> QED BY <1>1, TypeCorrect, WindowsSeenStep, PTL DEF Spec

-----------------------------------------------------------------------------
(* The lock: who waits for it, and who has it *)

Waiting == {c \in Calls : pc[c] = "queued"} \cup {m \in {Monitor} : monitor = "queued"}

QueueInv == IsQueueOf(waiters, Waiting)

LockInv == \A c \in Calls : pc[c] = "calling" <=> owner = c

LEMMA WaitersType == TypeOK => Waiting \subseteq Calls \cup {Monitor}
BY DEF Waiting

(* A step that leaves the queue as it is, and whoever waits in it *)
LEMMA QueueStays ==
  ASSUME QueueInv, waiters' = waiters, Waiting' = Waiting
  PROVE  QueueInv' /\ KeepsTurns(waiters, waiters', Calls \cup {Monitor})
<1>1. waiters \in Seq(Waiting)
  BY DEF QueueInv, IsQueueOf
<1> QED BY <1>1, TurnsStay DEF QueueInv

(* A call that does not wait goes somewhere else but to the queue. *)
LEMMA GoesElsewhere ==
  ASSUME TypeOK, NEW c \in Calls, pc[c] # "queued", NEW to, to # "queued", Goes(c, to),
         UNCHANGED monitor
  PROVE  Waiting' = Waiting
BY DEF TypeOK, Goes, Waiting

LEMMA LockStep ==
  ASSUME TypeOK, LockInv, QueueInv, [Next]_vars
  PROVE  LockInv' /\ QueueInv' /\ KeepsTurns(waiters, waiters', Calls \cup {Monitor})
<1> USE ProcessAssumption DEF ProcessAssumption
<1> DEFINE Ok == LockInv' /\ QueueInv' /\ KeepsTurns(waiters, waiters', Calls \cup {Monitor})
<1>1. ASSUME NEW c \in Calls, WarmsInBackground(c) PROVE Ok
  <2>1. Waiting' = Waiting
    BY <1>1, GoesElsewhere DEF WarmsInBackground, loopVars
  <2>2. LockInv'
    BY <1>1 DEF WarmsInBackground, Goes, LockInv, TypeOK
  <2> QED BY <1>1, <2>1, <2>2, QueueStays DEF WarmsInBackground
<1>2. ASSUME NEW c \in Calls, FindsLockFree(c) PROVE Ok
  <2>1. Waiting' = Waiting
    BY <1>2, GoesElsewhere DEF FindsLockFree, Arrives, Enters
  <2>2. LockInv'
    BY <1>2 DEF FindsLockFree, Enters, LockIsFree, Goes, LockInv, TypeOK
  <2> QED BY <1>2, <2>1, <2>2, QueueStays DEF FindsLockFree
<1>3. ASSUME NEW c \in Calls, Queues(c) PROVE Ok
  <2>1. pc[c] # "queued" /\ pc[c] # "calling"
    BY <1>3 DEF Queues, Arrives
  <2>2. c \notin Waiting /\ Waiting' = Waiting \cup {c}
    BY <1>3, <2>1 DEF Queues, Goes, loopVars, Waiting, TypeOK
  <2>3. LockInv'
    BY <1>3, <2>1 DEF Queues, Goes, LockInv, TypeOK
  <2>4. waiters' = Append(waiters, c)
    BY <1>3 DEF Queues
  <2>5. QueueInv'
    BY <2>2, <2>4, QueueAppend DEF QueueInv
  <2>6. KeepsTurns(waiters, Append(waiters, c), Calls \cup {Monitor})
    <3>1. waiters \in Seq(Calls \cup {Monitor}) /\ c \in Calls \cup {Monitor}
      BY DEF TypeOK
    <3> QED BY <3>1, TurnsStay, TurnsAppend
  <2> QED BY <2>3, <2>4, <2>5, <2>6
<1>4. ASSUME NEW c \in Calls, GetsLock(c) PROVE Ok
  <2>1. Waiting' = Waiting \ {c}
    BY <1>4 DEF GetsLock, Enters, Goes, Waiting, TypeOK
  <2>2. LockInv'
    BY <1>4 DEF GetsLock, IsNext, Enters, Goes, LockInv, TypeOK
  <2>3. waiters # <<>> /\ Head(waiters) = c /\ waiters' = Tail(waiters)
    BY <1>4 DEF GetsLock, IsNext
  <2> QED BY <2>1, <2>2, <2>3, QueueTail DEF QueueInv, KeepsTurns
<1>5. ASSUME NEW c \in Calls, Exchanges(c), LeavesLock,
             NEW to \in {"ok", "failed", "backoff"}, Goes(c, to)
      PROVE  Ok
  <2>1. Waiting' = Waiting
    BY <1>5, GoesElsewhere DEF Exchanges, LeavesLock, loopVars
  <2>2. LockInv'
    BY <1>5 DEF Exchanges, LeavesLock, Goes, LockInv, TypeOK
  <2> QED BY <1>5, <2>1, <2>2, QueueStays DEF LeavesLock
<1>6. ASSUME NEW c \in Calls, Answered(c) \/ Fails(c) PROVE Ok
  BY <1>5, <1>6 DEF Answered, Fails
<1>7. ASSUME NEW c \in Calls, NotStarted(c) \/ Rejected(c) PROVE Ok
  <2>1. Exchanges(c) /\ LeavesLock /\ Retries(c)
    BY <1>7 DEF NotStarted, Rejected
  <2>2. Goes(c, "backoff") \/ Goes(c, "failed")
    BY <2>1 DEF Retries
  <2> QED BY <1>5, <2>1, <2>2
<1>8. CASE MonitorQueues
  <2>1. Monitor \notin Waiting /\ Waiting' = Waiting \cup {Monitor}
    BY <1>8 DEF MonitorQueues, FindsIdle, Waiting
  <2>2. waiters' = Append(waiters, Monitor)
    BY <1>8 DEF MonitorQueues
  <2>3. QueueInv'
    BY <2>1, <2>2, QueueAppend DEF QueueInv
  <2>4. KeepsTurns(waiters, Append(waiters, Monitor), Calls \cup {Monitor})
    <3>1. waiters \in Seq(Calls \cup {Monitor}) /\ Monitor \in Calls \cup {Monitor}
      BY DEF TypeOK
    <3> QED BY <3>1, TurnsStay, TurnsAppend
  <2> QED BY <1>8, <2>2, <2>3, <2>4 DEF MonitorQueues, LockInv
<1>9. CASE IdleRelease
  <2>0. monitor' # "queued" /\ UNCHANGED <<owner, pc>>
    BY <1>9 DEF IdleRelease, LooksForWindows
  <2>1. LockInv'
    BY <2>0 DEF LockInv
  <2>2. CASE FindsIdle /\ UNCHANGED waiters
    <3>1. Waiting' = Waiting
      BY <2>0, <2>2 DEF FindsIdle, Waiting
    <3> QED BY <2>1, <2>2, <3>1, QueueStays
  <2>3. CASE monitor = "queued" /\ IsNext(Monitor) /\ waiters' = Tail(waiters)
    <3>1. Waiting' = Waiting \ {Monitor}
      BY <2>0, <2>3 DEF Waiting
    <3>2. waiters # <<>> /\ Head(waiters) = Monitor
      BY <2>3 DEF IsNext
    <3> QED BY <2>1, <2>3, <3>1, <3>2, QueueTail DEF QueueInv, KeepsTurns
  <2> QED BY <1>9, <2>2, <2>3 DEF IdleRelease
<1>10. CASE CloseQB \/ TimePasses \/ Loads \/ PersonStarts \/ PersonOpensWindow \/ Exits
            \/ UNCHANGED vars
  <2>1. UNCHANGED <<owner, pc, waiters>> /\ (monitor' = "queued" <=> monitor = "queued")
    BY <1>10 DEF CloseQB, TimePasses, Loads, PersonStarts, PersonOpensWindow, Exits, ShowsWindow,
                 World, vars, callVars, loopVars
  <2>2. Waiting' = Waiting
    BY <2>1 DEF Waiting
  <2>3. LockInv'
    BY <2>1 DEF LockInv
  <2> QED BY <2>1, <2>2, <2>3, QueueStays
<1> QED BY <1>1, <1>2, <1>3, <1>4, <1>6, <1>7, <1>8, <1>9, <1>10 DEF Next, CallStep, MonitorStep

(* Of the calls and the monitor, those that wait for _lock wait in its     *)
(* queue, each once, and the one in an exchange has it.                    *)
THEOREM LockTaken == Spec => [](LockInv /\ QueueInv)
<1>1. Init => LockInv /\ QueueInv
  <2> SUFFICES ASSUME Init PROVE LockInv /\ QueueInv
    OBVIOUS
  <2>1. Waiting = {} /\ waiters = <<>>
    BY DEF Init, Waiting
  <2> QED BY <2>1, EmptyQueue, ProcessAssumption DEF Init, LockInv, QueueInv, ProcessAssumption
<1> QED BY <1>1, TypeCorrect, LockStep, PTL DEF Spec

(* Nobody waits for a lock that nobody will give: it is held for an        *)
(* exchange, which has a timeout, or the first in the queue may go on.     *)
SomebodyGoesOn ==
  Waiting # {} => \/ \E c \in Calls : owner = c /\ pc[c] = "calling"
                  \/ \E w \in Waiting : IsNext(w)

THEOREM NobodyStuck == Spec => []SomebodyGoesOn
<1>1. TypeOK /\ LockInv /\ QueueInv => SomebodyGoesOn
  <2> SUFFICES ASSUME TypeOK, LockInv, QueueInv, Waiting # {}
               PROVE  \/ \E c \in Calls : owner = c /\ pc[c] = "calling"
                      \/ \E w \in Waiting : IsNext(w)
    BY DEF SomebodyGoesOn
  <2>1. waiters # <<>> /\ Head(waiters) \in Waiting
    BY QueueNonempty DEF QueueInv
  <2>2. CASE owner = Nobody
    BY <2>1, <2>2 DEF IsNext
  <2>3. CASE owner \in Calls
    BY <2>3 DEF LockInv
  <2> QED BY <2>2, <2>3 DEF TypeOK
<1> QED BY <1>1, TypeCorrect, LockTaken, PTL

(* asyncio.Lock is fair: who waits never comes to wait behind more others. *)
THEOREM TurnsKept == Spec => [][KeepsTurns(waiters, waiters', Calls \cup {Monitor})]_vars
<1>1. TypeOK /\ LockInv /\ QueueInv /\ [Next]_vars =>
        [KeepsTurns(waiters, waiters', Calls \cup {Monitor})]_vars
  BY LockStep
<1> QED BY <1>1, TypeCorrect, LockTaken, PTL DEF Spec
=============================================================================
