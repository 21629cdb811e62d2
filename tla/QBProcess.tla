------------------------------ MODULE QBProcess ------------------------------
(***************************************************************************)
(* The QuickBooks Desktop process, which the bridge starts, closes and     *)
(* shares with the people at its screen: the remedy launch_qb and the idle *)
(* monitor with auto_close_qb (qb/session.py), qb/process.py, and the      *)
(* warm-up route (api/routes/connection.py).                               *)
(*                                                                         *)
(* QBSession is about the exchange between a call and the worker; here an  *)
(* exchange is one stretch of time with _lock held and one of four ends,   *)
(* and what matters is what happens to QuickBooks meanwhile.               *)
(***************************************************************************)
EXTENDS Naturals, Sequences, FiniteSets

CONSTANTS Calls,        \* calls of execute
          MaxAttempts,
          Monitor,      \* the idle monitor task, as a waiter on the lock
          Nobody

ASSUME ProcessAssumption == /\ MaxAttempts \in Nat \ {0}
                            /\ Monitor \notin Calls /\ Nobody \notin Calls

VARIABLES
  (* the bridge *)
  conf,      \* auto_launch_qb and auto_close_qb
  owner,     \* the call holding _lock across its exchange
  waiters,   \* the FIFO of _lock
  pc,        \* where each call is
  attempt,
  warmTask,  \* the call app.state.warm_task runs, or has run
  monitor,   \* the idle monitor; closing: its thread is inside close_qb
  activity,  \* _last_activity: 0, within idle_timeout, or older
  session,   \* the worker has a session open
  (* the machine *)
  qb,        \* the process: closed, loading or open
  windows,   \* it has windows on screen
  (* history *)
  opened,    \* a window came up after the monitor had looked for one
  missed,    \* there were windows when it looked, which it did not see
  gaveUp     \* Stop-Process has failed since the last call

callVars  == <<owner, waiters, pc, attempt, warmTask>>
loopVars  == <<monitor, activity>>
worldVars == <<qb, windows>>
history   == <<opened, missed, gaveUp>>
vars == <<conf, callVars, loopVars, session, worldVars, history>>

Final  == {"ok", "failed"}
Active == {"ready", "queued", "calling", "backoff"}

TypeOK ==
  /\ conf \in [launch : BOOLEAN, close : BOOLEAN]
  /\ owner \in Calls \cup {Nobody}
  /\ waiters \in Seq(Calls \cup {Monitor})
  /\ pc \in [Calls -> {"new"} \cup Active \cup Final]
  /\ attempt \in [Calls -> 1..MaxAttempts]
  /\ warmTask \in Calls \cup {Nobody}
  /\ monitor \in {"sleeping", "queued", "closing"}
  /\ activity \in {"never", "recent", "old"}
  /\ session \in BOOLEAN
  /\ qb \in {"closed", "loading", "open"}
  /\ windows \in BOOLEAN
  /\ opened \in BOOLEAN /\ missed \in BOOLEAN /\ gaveUp \in BOOLEAN

(* The bridge starts beside whatever QuickBooks there is. *)
Init ==
  /\ conf \in [launch : BOOLEAN, close : BOOLEAN]
  /\ owner = Nobody
  /\ waiters = <<>>
  /\ pc = [c \in Calls |-> "new"]
  /\ attempt = [c \in Calls |-> 1]
  /\ warmTask = Nobody
  /\ monitor = "sleeping"
  /\ activity = "never"
  /\ session = FALSE
  /\ qb \in {"closed", "open"}
  /\ windows \in {FALSE, qb = "open"}
  /\ opened = FALSE /\ missed = FALSE /\ gaveUp = FALSE

-----------------------------------------------------------------------------
BugClosesInThread == TRUE

(* close_qb runs on the event loop: until it returns no coroutine does. *)
LoopIsFree == monitor # "closing"

IsNext(who) == owner = Nobody /\ waiters # <<>> /\ Head(waiters) = who

LockIsFree == owner = Nobody /\ waiters = <<>>

Goes(c, to) == pc' = [pc EXCEPT ![c] = to]

-----------------------------------------------------------------------------
(* Calls *)

(* POST /connection/warm?wait=false makes a task of its own, unless the    *)
(* last one has not ended; the route answers 202 in either case.           *)
WarmsInBackground(c) ==
  /\ LoopIsFree
  /\ pc[c] = "new"
  /\ warmTask \in Calls => pc[warmTask] \in Final
  /\ warmTask' = c
  /\ Goes(c, "ready")
  /\ UNCHANGED <<conf, owner, waiters, attempt, loopVars, session, worldVars, history>>

(* A call, that of a warm-up or any other, comes to _lock for an attempt.  *)
Arrives(c) == LoopIsFree /\ pc[c] \in {"new", "ready", "backoff"}

Enters(c) == /\ owner' = c
             /\ Goes(c, "calling")
             /\ activity' = "recent"
             /\ gaveUp' = FALSE
             /\ UNCHANGED <<opened, missed>>

FindsLockFree(c) ==
  /\ Arrives(c)
  /\ LockIsFree
  /\ Enters(c)
  /\ UNCHANGED <<conf, waiters, attempt, warmTask, monitor, session, worldVars>>

Queues(c) ==
  /\ Arrives(c)
  /\ ~LockIsFree
  /\ Goes(c, "queued")
  /\ waiters' = Append(waiters, c)
  /\ UNCHANGED <<conf, owner, attempt, warmTask, loopVars, session, worldVars, history>>

GetsLock(c) ==
  /\ LoopIsFree
  /\ pc[c] = "queued" /\ IsNext(c)
  /\ waiters' = Tail(waiters)
  /\ Enters(c)
  /\ UNCHANGED <<conf, attempt, warmTask, monitor, session, worldVars>>

-----------------------------------------------------------------------------
(* How an exchange ends *)

Exchanges(c) == LoopIsFree /\ owner = c /\ pc[c] = "calling"

LeavesLock == owner' = Nobody /\ UNCHANGED <<waiters, warmTask, conf, loopVars, history>>

(* QuickBooks answered.  The SDK starts a closed one, with no UI. *)
Answered(c) ==
  /\ Exchanges(c)
  /\ LeavesLock
  /\ qb = "open" \/ (qb = "closed" /\ ~session)
  /\ qb' = "open"
  /\ session' = TRUE
  /\ Goes(c, "ok")
  /\ UNCHANGED <<attempt, windows>>

BugRetriesOnceMore(c) == IF attempt[c] <= MaxAttempts
                           THEN attempt' = [attempt EXCEPT ![c] = @ + 1] /\ Goes(c, "backoff")
                           ELSE Goes(c, "failed") /\ UNCHANGED attempt

Retries(c) == IF attempt[c] < MaxAttempts
                THEN attempt' = [attempt EXCEPT ![c] = @ + 1] /\ Goes(c, "backoff")
                ELSE Goes(c, "failed") /\ UNCHANGED attempt

(* launch_qb: if no QuickBooks is running and auto_launch_qb is on.  An    *)
(* executable that cannot be started is logged and no error.               *)
LaunchRemedy == IF qb = "closed" /\ conf.launch THEN qb' \in {"loading", "closed"}
                                                ELSE UNCHANGED qb

(* BeginSession could not start QuickBooks, or not reach the one that is   *)
(* loading.  The remedy follows with no await between; its sleep is part   *)
(* of the backoff.                                                         *)
NotStarted(c) ==
  /\ Exchanges(c)
  /\ LeavesLock
  /\ ~session /\ qb # "open"
  /\ IF attempt[c] < MaxAttempts THEN LaunchRemedy ELSE UNCHANGED qb
  /\ Retries(c)
  /\ UNCHANGED <<session, windows>>

(* Any other fault QuickBooks recovers from by itself: the worker has let  *)
(* go of the session, or is gone with it.                                  *)
Rejected(c) ==
  /\ Exchanges(c)
  /\ LeavesLock
  /\ session' = FALSE
  /\ Retries(c)
  /\ UNCHANGED worldVars

(* An error no retry helps against, or no answer within the timeout. *)
Fails(c) ==
  /\ Exchanges(c)
  /\ LeavesLock
  /\ session' = FALSE
  /\ Goes(c, "failed")
  /\ UNCHANGED <<attempt, worldVars>>

-----------------------------------------------------------------------------
(* The idle monitor *)

BugWatchesSession == LoopIsFree /\ monitor = "sleeping" /\ activity = "old" /\ session

FindsIdle == LoopIsFree /\ monitor = "sleeping" /\ activity = "old"

MonitorQueues ==
  /\ FindsIdle
  /\ ~LockIsFree
  /\ monitor' = "queued"
  /\ waiters' = Append(waiters, Monitor)
  /\ UNCHANGED <<conf, owner, pc, attempt, warmTask, activity, session, worldVars, history>>

(* Mutant: it closes what is idle, whoever uses it. *)
BugDoesNotLook ==
  /\ monitor' = IF conf.close THEN "closing" ELSE "sleeping"
  /\ missed' = FALSE

(* With auto_close_qb, it looks for windows of QuickBooks as soon as it    *)
(* has let go of the lock.  Windows may fail to list them, or to name the  *)
(* process of one: the code does not ask, and takes that for no windows.   *)
(* (DialogError is for machines without Windows, hence without QuickBooks.)*)
LooksForWindows ==
  \/ /\ ~conf.close \/ windows
     /\ monitor' = "sleeping"
     /\ UNCHANGED missed
  \/ /\ conf.close
     /\ monitor' = "closing"
     /\ missed' = windows

(* It kills the worker, with the lock, and makes _last_activity 0. *)
IdleRelease ==
  /\ \/ FindsIdle /\ LockIsFree /\ UNCHANGED waiters
     \/ LoopIsFree /\ monitor = "queued" /\ IsNext(Monitor) /\ waiters' = Tail(waiters)
  /\ session' = FALSE
  /\ activity' = "never"
  /\ LooksForWindows
  /\ opened' = FALSE
  /\ UNCHANGED <<conf, owner, pc, attempt, warmTask, worldVars, gaveUp>>

(* close_qb: Stop-Process -Force, which may fail; it is not tried again. *)
CloseQB ==
  /\ monitor = "closing"
  /\ monitor' = "sleeping"
  /\ opened' = FALSE
  /\ missed' = FALSE
  /\ \/ qb' = "closed" /\ windows' = FALSE /\ UNCHANGED gaveUp
     \/ qb # "closed" /\ gaveUp' = TRUE /\ UNCHANGED worldVars
  /\ UNCHANGED <<conf, callVars, activity, session>>

TimePasses ==
  /\ activity = "recent"
  /\ activity' = "old"
  /\ UNCHANGED <<conf, callVars, monitor, session, worldVars, history>>

-----------------------------------------------------------------------------
(* QuickBooks and the people at its screen *)

World == UNCHANGED <<conf, callVars, loopVars, session, missed, gaveUp>>

ShowsWindow == /\ windows' = TRUE
               /\ opened' = (monitor = "closing")
               /\ World

(* One that somebody has started, at the desk or with launch_qb, ends up   *)
(* with windows.                                                           *)
Loads == qb = "loading" /\ qb' = "open" /\ ShowsWindow

PersonStarts == qb = "closed" /\ qb' = "loading" /\ UNCHANGED <<windows, opened>> /\ World

PersonOpensWindow == qb = "open" /\ ~windows /\ UNCHANGED qb /\ ShowsWindow

(* It is closed, or crashes; the worker's session goes at the next call.   *)
Exits == /\ qb # "closed"
         /\ qb' = "closed" /\ windows' = FALSE
         /\ UNCHANGED opened /\ World

-----------------------------------------------------------------------------
CallStep(c) ==
  \/ FindsLockFree(c) \/ Queues(c) \/ GetsLock(c)
  \/ Answered(c) \/ NotStarted(c) \/ Rejected(c) \/ Fails(c)

MonitorStep == MonitorQueues \/ IdleRelease \/ CloseQB

Next ==
  \/ \E c \in Calls : CallStep(c) \/ WarmsInBackground(c)
  \/ MonitorStep \/ TimePasses
  \/ Loads \/ PersonStarts \/ PersonOpensWindow \/ Exits

Spec == Init /\ [][Next]_vars

(* The loop runs what can run, an exchange has a timeout, time passes and  *)
(* Stop-Process has one too.                                               *)
Fairness == /\ \A c \in Calls : WF_vars(pc[c] # "new" /\ CallStep(c))
            /\ WF_vars(MonitorStep)
            /\ WF_vars(TimePasses)

FairSpec == Spec /\ Fairness
-----------------------------------------------------------------------------
(* What must hold *)

(* While QuickBooks is being force-closed no call is in an exchange with   *)
(* it, and no session is open: the monitor takes the lock first, and does  *)
(* not await anything between giving it back and close_qb (session.py).    *)
NobodyCallsWhileClosing == monitor = "closing" => owner = Nobody /\ ~session

(* The windows of a QuickBooks that is being closed came up since the      *)
(* monitor looked, or its look failed to see them (qb_has_visible_windows  *)
(* before close_qb): how far "only does so when QuickBooks has no windows  *)
(* on screen" (README) is true.                                            *)
WindowsSeenAreSpared == monitor = "closing" /\ windows => opened \/ missed

(* With auto_close_qb, a QuickBooks without windows that the bridge has    *)
(* used and uses no more is closed in the end, unless windows come up, it  *)
(* is called again, or Stop-Process fails: the monitor has one try.        *)
Quiet == \A c \in Calls : pc[c] \notin Active
IdleQBIsClosed ==
  (conf.close /\ Quiet /\ activity # "never" /\ qb = "open" /\ ~windows)
    ~> (qb = "closed" \/ windows \/ ~Quiet \/ gaveUp)

-----------------------------------------------------------------------------
(* What the documentation says, and the code does not do *)

(* A call within idle_timeout keeps QuickBooks open (README, "call it      *)
(* inside stays_warm_for_seconds to keep QuickBooks open"): the monitor    *)
(* never sets about closing it when the last call is recent.               *)
CallsKeepQBOpen ==
  [][LoopIsFree /\ monitor' = "closing" => activity = "old"]_vars

(* One that has windows on screen is not force-closed, but for those that  *)
(* came up in the moment since the look ("leaving it alone, someone may be *)
(* using it", session.py): false, as a look that failed counts as none.    *)
WindowsOnScreenAreSpared == monitor = "closing" /\ windows => opened
=============================================================================
