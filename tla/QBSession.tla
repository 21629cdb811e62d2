------------------------------ MODULE QBSession ------------------------------
(***************************************************************************)
(* QBSessionManager (qb/session.py), the faults it retries (qb/retry.py)   *)
(* and the COM worker subprocess it talks to (qb/worker.py,                *)
(* qb/connection.py), as concurrent callers meet them.                     *)
(*                                                                         *)
(* Coroutines run on one event loop, so the code between two awaits is one *)
(* action; the worker, QuickBooks and the passing of time are not on the   *)
(* loop and step between any two actions.  Each element of Reqs is one     *)
(* call of execute.                                                        *)
(***************************************************************************)
EXTENDS Naturals, Sequences, SequencesExt

CONSTANTS Reqs,         \* calls of execute
          Writes,       \* the calls made without idempotent=True
          MaxAttempts,  \* max_attempts, at least 1
          Monitor,      \* the idle monitor task, as a waiter on the lock
          NoReq         \* no request: the lock is free, the worker has no job

ASSUME SessionAssumption == /\ Writes \subseteq Reqs
                            /\ MaxAttempts \in Nat \ {0}
                            /\ Monitor \notin Reqs
                            /\ NoReq \notin Reqs

VARIABLES
  (* the session manager *)
  life,      \* created, running, stopping or stopped; _running is "running"
  owner,     \* the request holding _lock across an await
  waiters,   \* the FIFO of coroutines waiting for _lock
  pc,        \* where each call is
  attempt,   \* the attempt each call is on
  monitor,   \* the idle monitor task
  activity,  \* _last_activity: 0, within idle_timeout, or older
  hasProc,   \* _proc is not None
  state,     \* _connection_state
  blocking,  \* _blocking_dialogs is not empty
  swept,     \* history: the calls that ran on_blocked themselves
  (* the worker subprocess *)
  wk,        \* the state of the process
  job,       \* the request it has read from stdin
  com,       \* QBConnection._session_open
  stdin,     \* requests written to the worker's stdin, not read by it
  stdout,    \* lines written to its stdout, not read by the session
  (* QuickBooks *)
  applied,   \* how often it has applied each write
  orphan     \* calls of each write whose worker can no longer tell the result

callVars    == <<owner, waiters, pc, attempt>>
monitorVars == <<monitor, activity>>
dialogVars  == <<blocking, swept>>
procVars    == <<hasProc, state>>
workerVars  == <<wk, job, com, stdin>>
qbVars      == <<applied, orphan>>
vars == <<life, callVars, monitorVars, dialogVars, procVars, workerVars, stdout, qbVars>>

-----------------------------------------------------------------------------
(* Faults: what classify makes of the text of an error. *)

Transient    == {"modal-dialog", "qb-not-started", "worker-gone", "qb-busy"}
Unrecognized == "unrecognized"

(* Where the remedy of a fault takes the retry loop.  Whether launch_qb    *)
(* starts QuickBooks, and its sleep, change nothing of the session's: they *)
(* are part of the backoff.                                                *)
Remedy == [f \in Transient |-> IF f = "modal-dialog" THEN "sweeping"
                               ELSE IF f = "worker-gone" THEN "restarting" ELSE "backoff"]

(* What a COM error can say when BeginSession, or ProcessRequest, fails. *)
ConnectFaults == {"modal-dialog", "qb-not-started", "qb-busy", Unrecognized}
RequestFaults == {"modal-dialog", "qb-busy", Unrecognized}

Ready            == [kind |-> "ready", req |-> NoReq, fault |-> Unrecognized]
OkLine(r)        == [kind |-> "ok", req |-> r, fault |-> Unrecognized]
ErrorLine(r, phase, f) == [kind |-> phase, req |-> r, fault |-> f]
Garbled(r)       == [kind |-> "garbled", req |-> r, fault |-> Unrecognized]

LineKinds == {"ready", "ok", "connect", "request", "garbled"}
Lines == [kind : LineKinds, req : Reqs \cup {NoReq}, fault : Transient \cup {Unrecognized}]

-----------------------------------------------------------------------------
Final  == {"refused", "ok", "error", "unavailable", "blocked"}
Active == {"queued", "starting", "reading", "sweeping", "restarting", "backoff"}

CallTyped ==
  /\ owner \in Reqs \cup {NoReq}
  /\ waiters \in Seq(Reqs \cup {Monitor})
  /\ pc \in [Reqs -> {"new"} \cup Active \cup Final]
  /\ attempt \in [Reqs -> 1..MaxAttempts]

LoopTyped ==
  /\ life \in {"created", "running", "stopping", "stopped"}
  /\ monitor \in {"off", "sleeping", "queued"}
  /\ activity \in {"never", "recent", "old"}

DialogTyped == blocking \in BOOLEAN /\ swept \in SUBSET Reqs

ProcTyped == hasProc \in BOOLEAN /\ state \in {"disconnected", "connected", "error"}

WorkerTyped ==
  /\ wk \in {"none", "booting", "idle", "connecting", "calling", "dead"}
  /\ job \in Reqs \cup {NoReq}
  /\ com \in BOOLEAN
  /\ stdin \in Seq(Reqs)
  /\ applied \in [Writes -> Nat]
  /\ orphan \in [Writes -> Nat]

(* Types; no call makes more than max_attempts attempts. *)
TypeOK == /\ CallTyped /\ LoopTyped /\ DialogTyped /\ ProcTyped /\ WorkerTyped
          /\ stdout \in Seq(Lines)

Init ==
  /\ life = "created"
  /\ owner = NoReq
  /\ waiters = <<>>
  /\ pc = [r \in Reqs |-> "new"]
  /\ attempt = [r \in Reqs |-> 1]
  /\ monitor = "off"
  /\ activity = "never"
  /\ hasProc = FALSE
  /\ state = "disconnected"
  /\ blocking = FALSE
  /\ swept = {}
  /\ wk = "none"
  /\ job = NoReq
  /\ com = FALSE
  /\ stdin = <<>>
  /\ stdout = <<>>
  /\ applied = [w \in Writes |-> 0]
  /\ orphan = [w \in Writes |-> 0]

-----------------------------------------------------------------------------
(* The worker process comes to an end, told to quit, killed or by itself:  *)
(* its COM session and what was in its stdin are gone.  QuickBooks runs in *)
(* a process of its own and may still finish a call it was given.          *)

Bump(count, r) == IF r \in Writes THEN [count EXCEPT ![r] = @ + 1] ELSE count

WorkerEnds ==
  /\ wk' = "dead"
  /\ job' = NoReq
  /\ com' = FALSE
  /\ stdin' = <<>>
  /\ orphan' = IF wk = "calling" THEN Bump(orphan, job) ELSE orphan
  /\ UNCHANGED applied

(* _kill_worker: quit, five seconds of grace, then kill.  It blocks the    *)
(* loop, so what the worker does in its grace is what it did just before.  *)
KillWorker ==
  /\ hasProc' = FALSE
  /\ state' = "disconnected"
  /\ IF hasProc THEN WorkerEnds ELSE UNCHANGED <<workerVars, qbVars>>

WorkerAlive == hasProc /\ wk # "dead"

-----------------------------------------------------------------------------
(* execute and its retry loop *)

(* start(), with an idle_timeout above 0. *)
Start ==
  /\ life = "created"
  /\ life' = "running"
  /\ monitor' = "sleeping"
  /\ UNCHANGED <<callVars, activity, dialogVars, procVars, workerVars, stdout, qbVars>>

Transits(r, to) == pc' = [pc EXCEPT ![r] = to]

(* _running is looked at here and nowhere else in execute. *)
Refuse(r) ==
  /\ pc[r] = "new"
  /\ life # "running"
  /\ Transits(r, "refused")
  /\ UNCHANGED <<life, owner, waiters, attempt, monitorVars, dialogVars, procVars,
                 workerVars, stdout, qbVars>>

(* asyncio.Lock: a coroutine that finds it free, with nobody waiting, goes *)
(* on at once; any other joins the end of the queue, and the first in the  *)
(* queue goes on when the lock is free.                                    *)
LockIsFree == owner = NoReq /\ waiters = <<>>

BugBarging(who) == waiters # <<>> /\ Head(waiters) = who

IsNext(who) == owner = NoReq /\ waiters # <<>> /\ Head(waiters) = who

(* _execute_once raised and let go of the lock, leaving q waiting for it:  *)
(* the except clause of execute, up to its next await.  The worker-gone    *)
(* remedy takes the lock to kill a worker that, when nobody is waiting,    *)
(* has just been killed.                                                   *)
BugRetryAnyWrite(r, reached, f) == f \in Transient

MayRetry(r, reached, f) == f \in Transient /\ ~(reached /\ r \in Writes)

BugOneMoreAttempt(r) == attempt[r] <= MaxAttempts

AttemptsLeft(r) == attempt[r] < MaxAttempts

Raise(r, q, reached, f) ==
  /\ owner' = NoReq
  /\ UNCHANGED dialogVars
  /\ \/ /\ ~MayRetry(r, reached, f)
        /\ Transits(r, "error")
        /\ waiters' = q
        /\ UNCHANGED attempt
     \/ /\ MayRetry(r, reached, f)
        /\ ~AttemptsLeft(r)
        /\ Transits(r, IF blocking THEN "blocked" ELSE "unavailable")
        /\ waiters' = q
        /\ UNCHANGED attempt
     \/ /\ MayRetry(r, reached, f)
        /\ AttemptsLeft(r)
        /\ attempt' = [attempt EXCEPT ![r] = @ + 1]
        /\ IF Remedy[f] = "restarting" /\ q = <<>>
             THEN Transits(r, "backoff")
             ELSE Transits(r, Remedy[f])
        /\ waiters' = IF Remedy[f] = "restarting" /\ q # <<>> THEN Append(q, r) ELSE q

(* The request goes down the pipe, or the worker has just died and the     *)
(* write fails: then nothing of it was seen by QuickBooks.                 *)
Write(r, q) ==
  /\ wk # "dead"
  /\ owner' = r
  /\ waiters' = q
  /\ Transits(r, "reading")
  /\ stdin' = Append(stdin, r)
  /\ UNCHANGED <<attempt, dialogVars, hasProc, wk, job, com, qbVars>>

PipeBreaks(r, q) == KillWorker /\ Raise(r, q, FALSE, "worker-gone")

(* _execute_once once it has the lock, with a live worker: no await before *)
(* that of the read.                                                       *)
EnterWarm(r, q) ==
  /\ WorkerAlive
  /\ \/ Write(r, q) /\ UNCHANGED state
     \/ PipeBreaks(r, q)
  /\ UNCHANGED stdout

(* ... and without one: _start_worker, up to its await of "ready".  Popen  *)
(* can fail with an OSError, which the retry loop does not catch.          *)
EnterCold(r, q) ==
  /\ ~WorkerAlive
  /\ owner' = r
  /\ Transits(r, "starting")
  /\ waiters' = q
  /\ hasProc' = TRUE
  /\ state' = "disconnected"
  /\ wk' = "booting" /\ job' = NoReq /\ com' = FALSE
  /\ stdin' = <<>> /\ stdout' = <<>>
  /\ UNCHANGED <<attempt, dialogVars, qbVars>>

SpawnFails(r, q) ==
  /\ ~WorkerAlive
  /\ KillWorker
  /\ Transits(r, "error")
  /\ waiters' = q
  /\ UNCHANGED <<owner, attempt, dialogVars, stdout>>

Enter(r, q) ==
  /\ EnterWarm(r, q) \/ EnterCold(r, q) \/ SpawnFails(r, q)
  /\ activity' = "recent"
  /\ UNCHANGED <<life, monitor>>

(* A call begins, or makes its next attempt when its backoff is over. *)
Arrives(r) == pc[r] = "backoff" \/ (pc[r] = "new" /\ life = "running")

FindsLockFree(r) == Arrives(r) /\ LockIsFree /\ Enter(r, <<>>)

Queues(r) ==
  /\ Arrives(r)
  /\ ~LockIsFree
  /\ Transits(r, "queued")
  /\ waiters' = Append(waiters, r)
  /\ UNCHANGED <<life, owner, attempt, monitorVars, dialogVars, procVars, workerVars,
                 stdout, qbVars>>

GetsLock(r) == pc[r] = "queued" /\ IsNext(r) /\ Enter(r, Tail(waiters))

WorkerReady(r) ==
  /\ pc[r] = "starting" /\ owner = r
  /\ hasProc
  /\ stdout # <<>>
  /\ stdout' = Tail(stdout)
  /\ \/ Write(r, waiters) /\ state' = "disconnected"
     \/ PipeBreaks(r, waiters)
  /\ UNCHANGED <<life, monitorVars>>

(* End of file before "ready", or stop() has taken _proc away meanwhile. *)
StartupFails(r) ==
  /\ pc[r] = "starting" /\ owner = r
  /\ IF stdout = <<>> THEN wk = "dead" ELSE ~hasProc
  /\ KillWorker
  /\ Raise(r, waiters, FALSE, Unrecognized)
  /\ UNCHANGED <<life, monitorVars, stdout>>

StartupTimesOut(r) ==
  /\ pc[r] = "starting" /\ owner = r
  /\ KillWorker
  /\ Raise(r, waiters, FALSE, "worker-gone")
  /\ UNCHANGED <<life, monitorVars, stdout>>

Reading(r) == pc[r] = "reading" /\ owner = r

HeadIs(kinds) == stdout # <<>> /\ Head(stdout).kind \in kinds

ReadOk(r) ==
  /\ Reading(r)
  /\ HeadIs({"ok"})
  /\ stdout' = Tail(stdout)
  /\ state' = "connected"
  /\ Transits(r, "ok")
  /\ owner' = NoReq
  /\ UNCHANGED <<life, waiters, attempt, monitorVars, dialogVars, hasProc, workerVars, qbVars>>

BugErrorKeepsState(r) ==
  /\ Reading(r)
  /\ HeadIs({"connect", "request"})
  /\ stdout' = Tail(stdout)
  /\ Raise(r, waiters, Head(stdout).kind # "connect", Head(stdout).fault)
  /\ UNCHANGED <<life, monitorVars, procVars, workerVars, qbVars>>

BugPhaseIgnored(r) ==
  /\ Reading(r)
  /\ HeadIs({"connect", "request"})
  /\ stdout' = Tail(stdout)
  /\ state' = "error"
  /\ Raise(r, waiters, FALSE, Head(stdout).fault)
  /\ UNCHANGED <<life, monitorVars, hasProc, workerVars, qbVars>>

ReadError(r) ==
  /\ Reading(r)
  /\ HeadIs({"connect", "request"})
  /\ stdout' = Tail(stdout)
  /\ state' = "error"
  /\ Raise(r, waiters, Head(stdout).kind # "connect", Head(stdout).fault)
  /\ UNCHANGED <<life, monitorVars, hasProc, workerVars, qbVars>>

(* A line cut short by the worker's death is not JSON; nothing is killed. *)
ReadGarbled(r) ==
  /\ Reading(r)
  /\ HeadIs({"garbled"})
  /\ stdout' = Tail(stdout)
  /\ Raise(r, waiters, TRUE, Unrecognized)
  /\ UNCHANGED <<life, monitorVars, procVars, workerVars, qbVars>>

ReadEof(r) ==
  /\ Reading(r)
  /\ stdout = <<>> /\ wk = "dead"
  /\ KillWorker
  /\ Raise(r, waiters, TRUE, "worker-gone")
  /\ UNCHANGED <<life, monitorVars, stdout>>

BugTimeoutKeepsWorker(r) ==
  /\ Reading(r)
  /\ Raise(r, waiters, TRUE, Unrecognized)
  /\ UNCHANGED <<life, monitorVars, procVars, workerVars, stdout, qbVars>>

BugReadWithoutTimeout(r) == FALSE

(* QBTimeoutError: no transient fault has its text. *)
ReadTimesOut(r) ==
  /\ Reading(r)
  /\ KillWorker
  /\ Raise(r, waiters, TRUE, Unrecognized)
  /\ UNCHANGED <<life, monitorVars, stdout>>

BugRestartsWithoutLock(r) ==
  /\ pc[r] = "restarting"
  /\ waiters' = SelectSeq(waiters, LAMBDA c : c # r)
  /\ KillWorker
  /\ Transits(r, "backoff")
  /\ UNCHANGED <<life, owner, attempt, monitorVars, dialogVars, stdout>>

(* The remedies. *)
RestartWorker(r) ==
  /\ pc[r] = "restarting" /\ IsNext(r)
  /\ waiters' = Tail(waiters)
  /\ KillWorker
  /\ Transits(r, "backoff")
  /\ UNCHANGED <<life, owner, attempt, monitorVars, dialogVars, stdout>>

Sweep(r) ==
  /\ pc[r] = "sweeping"
  /\ \/ blocking' \in BOOLEAN /\ Transits(r, "backoff")
     \/ UNCHANGED blocking /\ Transits(r, "error")   \* on_blocked raised
  /\ swept' = swept \cup {r}
  /\ UNCHANGED <<life, owner, waiters, attempt, monitorVars, procVars, workerVars, stdout, qbVars>>

-----------------------------------------------------------------------------
(* The idle monitor, and stop() *)

(* It finds the last activity too old without holding the lock, ... *)
MonitorFindsIdle == monitor = "sleeping" /\ life = "running" /\ activity = "old"

MonitorQueues ==
  /\ MonitorFindsIdle
  /\ ~LockIsFree
  /\ monitor' = "queued"
  /\ waiters' = Append(waiters, Monitor)
  /\ UNCHANGED <<life, owner, pc, attempt, activity, dialogVars, procVars, workerVars,
                 stdout, qbVars>>

BugIdleKeepsWorker ==
  /\ \/ MonitorFindsIdle /\ LockIsFree /\ UNCHANGED waiters
     \/ monitor = "queued" /\ IsNext(Monitor) /\ waiters' = Tail(waiters)
  /\ activity' = "never"
  /\ monitor' = "sleeping"
  /\ UNCHANGED <<life, owner, pc, attempt, dialogVars, procVars, workerVars, stdout, qbVars>>

(* ... and kills the worker when it has it. *)
IdleRelease ==
  /\ \/ MonitorFindsIdle /\ LockIsFree /\ UNCHANGED waiters
     \/ monitor = "queued" /\ IsNext(Monitor) /\ waiters' = Tail(waiters)
  /\ KillWorker
  /\ activity' = "never"
  /\ monitor' = "sleeping"
  /\ UNCHANGED <<life, owner, pc, attempt, dialogVars, stdout>>

(* stop() cancels the monitor, which leaves the queue, and waits for it. *)
StopBegins ==
  /\ life = "running"
  /\ life' = "stopping"
  /\ monitor' = "off"
  /\ IF monitor = "queued"
       THEN \E i \in DOMAIN waiters : /\ waiters[i] = Monitor
                                      /\ waiters' = RemoveAt(waiters, i)
       ELSE UNCHANGED waiters
  /\ UNCHANGED <<owner, pc, attempt, activity, dialogVars, procVars, workerVars, stdout, qbVars>>

(* ... and then kills the worker without taking the lock. *)
StopKills ==
  /\ life = "stopping"
  /\ life' = "stopped"
  /\ KillWorker
  /\ UNCHANGED <<callVars, monitorVars, dialogVars, stdout>>

(* idle_timeout seconds go by since _last_activity. *)
TimePasses ==
  /\ activity = "recent"
  /\ activity' = "old"
  /\ UNCHANGED <<life, callVars, monitor, dialogVars, procVars, workerVars, stdout, qbVars>>

-----------------------------------------------------------------------------
(* The worker *)

WorkerOnly == UNCHANGED <<life, callVars, monitorVars, dialogVars, procVars>>

WorkerBoots ==
  /\ wk = "booting"
  /\ wk' = "idle"
  /\ stdout' = Append(stdout, Ready)
  /\ UNCHANGED <<job, com, stdin, qbVars>> /\ WorkerOnly

WorkerReads ==
  /\ wk = "idle"
  /\ stdin # <<>>
  /\ job' = Head(stdin)
  /\ stdin' = Tail(stdin)
  /\ wk' = IF com THEN "calling" ELSE "connecting"
  /\ UNCHANGED <<com, stdout, qbVars>> /\ WorkerOnly

Connects ==
  /\ wk = "connecting"
  /\ com' = TRUE
  /\ wk' = "calling"
  /\ UNCHANGED <<job, stdin, stdout, qbVars>> /\ WorkerOnly

Responds(line) ==
  /\ stdout' = Append(stdout, line)
  /\ wk' = "idle"
  /\ job' = NoReq
  /\ UNCHANGED stdin

ConnectFails(f) ==
  /\ wk = "connecting"
  /\ com' = FALSE
  /\ Responds(ErrorLine(job, "connect", f))
  /\ UNCHANGED qbVars /\ WorkerOnly

RequestSucceeds ==
  /\ wk = "calling"
  /\ applied' = Bump(applied, job)
  /\ Responds(OkLine(job))
  /\ UNCHANGED <<com, orphan>> /\ WorkerOnly

(* Whether QuickBooks applied a request whose call failed is open. *)
RequestFails(f) ==
  /\ wk = "calling"
  /\ com' = FALSE
  /\ orphan' = Bump(orphan, job)
  /\ Responds(ErrorLine(job, "request", f))
  /\ UNCHANGED applied /\ WorkerOnly

(* The process dies by itself at any point, perhaps in the middle of the   *)
(* line that answers its job.                                              *)
WorkerDies ==
  /\ wk \notin {"none", "dead"}
  /\ WorkerEnds
  /\ \/ UNCHANGED stdout
     \/ job # NoReq /\ stdout' = Append(stdout, Garbled(job))
  /\ WorkerOnly

(* QuickBooks settles a call nobody waits for any more. *)
LateApply(w) ==
  /\ orphan[w] > 0
  /\ orphan' = [orphan EXCEPT ![w] = @ - 1]
  /\ applied' = [applied EXCEPT ![w] = @ + 1]
  /\ UNCHANGED <<workerVars, stdout>> /\ WorkerOnly

LateDrop(w) ==
  /\ orphan[w] > 0
  /\ orphan' = [orphan EXCEPT ![w] = @ - 1]
  /\ UNCHANGED <<workerVars, stdout, applied>> /\ WorkerOnly

-----------------------------------------------------------------------------
(* The steps of a call. *)
CallStep(r) ==
  \/ Refuse(r)
  \/ FindsLockFree(r) \/ Queues(r) \/ GetsLock(r)
  \/ WorkerReady(r) \/ StartupFails(r) \/ StartupTimesOut(r)
  \/ ReadOk(r) \/ ReadError(r) \/ ReadGarbled(r) \/ ReadEof(r) \/ ReadTimesOut(r)
  \/ RestartWorker(r) \/ Sweep(r)

MonitorStep == MonitorQueues \/ IdleRelease

WorkerStep ==
  \/ WorkerBoots \/ WorkerReads \/ Connects \/ RequestSucceeds \/ WorkerDies
  \/ \E f \in ConnectFaults : ConnectFails(f)
  \/ \E f \in RequestFaults : RequestFails(f)

(* Every call has ended and the manager is stopped: the process may exit. *)
Ended ==
  /\ life = "stopped"
  /\ \A r \in Reqs : pc[r] \in Final
  /\ UNCHANGED vars

Next ==
  \/ Start \/ StopBegins \/ StopKills \/ TimePasses \/ MonitorStep
  \/ \E r \in Reqs : CallStep(r)
  \/ WorkerStep
  \/ \E w \in Writes : LateApply(w) \/ LateDrop(w)
  \/ Ended

Spec == Init /\ [][Next]_vars

(* The event loop runs every coroutine that can run, every wait on the     *)
(* worker has a timeout, and time passes.  Nothing is assumed of the       *)
(* worker, of QuickBooks or of the callers.                                *)
Fairness == /\ \A r \in Reqs : WF_vars(pc[r] # "new" /\ CallStep(r))
            /\ WF_vars(MonitorStep)
            /\ WF_vars(TimePasses)
            /\ WF_vars(StopKills)

FairSpec == Spec /\ Fairness
-----------------------------------------------------------------------------
(* What must hold *)

(* No schedule of retries, worker deaths and timeouts makes QuickBooks     *)
(* apply a write twice, not even counting the calls it has not settled:    *)
(* the _reached_qb test of execute (session.py) and the phase the worker   *)
(* reports (worker.py).                                                    *)
WriteAppliedAtMostOnce == \A w \in Writes : applied[w] + orphan[w] <= 1

(* A write that ended with QBUnavailableError, which tells the caller to   *)
(* try again, was not applied and is not being applied.                    *)
UnavailableWriteUnseen ==
  \A w \in Writes : pc[w] \in {"unavailable", "blocked"} => applied[w] + orphan[w] = 0

(* A write that returned normally has been applied, by a call that is over. *)
ReturnedWriteApplied ==
  \A w \in Writes : pc[w] = "ok" => applied[w] = 1 /\ orphan[w] = 0

(* The worker and its pipes hold at most one exchange, and it is that of   *)
(* the request that holds the lock: a line left over from an earlier       *)
(* request would be read as the answer to the next.                        *)
InTransit == Len(stdin) + (IF job = NoReq THEN 0 ELSE 1) + Len(stdout)
OneExchange ==
  WorkerAlive => /\ InTransit <= 1
                 /\ owner = NoReq => InTransit = 0

(* What /status and warm_up report as "connected" is a worker with its COM *)
(* session open, whenever no request is changing that.                     *)
ConnectedMeansSession ==
  state = "connected" /\ owner = NoReq /\ WorkerAlive => com

(* A call returns the answer to its own request. *)
AnswerIsOwn ==
  [][\A r \in Reqs : pc[r] # "ok" /\ pc'[r] = "ok" => Head(stdout).req = r]_vars

(* A live worker is not killed in the middle of an exchange, but by the    *)
(* call that is waiting for it or by stop(): the idle monitor and the      *)
(* worker-gone remedy of other calls wait for the lock.                    *)
NoForeignKill ==
  [][WorkerAlive /\ ~hasProc' /\ owner # NoReq => life = "stopping" \/ owner' = NoReq]_vars

(* Every call of execute ends, whatever the worker and QuickBooks do. *)
EveryCallEnds == \A r \in Reqs : pc[r] \in Active ~> pc[r] \in Final

(* While the manager runs, a worker nobody uses is stopped in the end,     *)
(* behind whatever calls hold the lock, which releases the company file    *)
(* (session.py:294-307 and README.md, "killed after idle timeout").  The   *)
(* docstring of _idle_monitor has another release in mind: a disconnect    *)
(* that keeps "the subprocess alive for fast reconnect" (session.py:277).  *)
(* No code sends one; that the subprocess stays is what this refutes.      *)
Quiet == \A r \in Reqs : pc[r] \notin Active
ReleasesCompanyFile == (life = "running" /\ Quiet /\ hasProc) ~> (~hasProc \/ ~Quiet)

(* The session manager implements the service its callers rely on. *)
StatusOf(r) == IF pc[r] \in Active THEN "pending"
               ELSE IF pc[r] = "blocked" THEN "unavailable" ELSE pc[r]

Service == INSTANCE QBService WITH status <- [r \in Reqs |-> StatusOf(r)]

ImplementsService == Service!Spec

-----------------------------------------------------------------------------
(* Why it holds: the inductive invariant of QBSessionProofs. *)

(* The lock is held across an await exactly while a call waits for a line  *)
(* of the worker.                                                          *)
LockInv == \A r \in Reqs : pc[r] \in {"starting", "reading"} <=> owner = r

(* What is left of a worker that has ended, and what one is doing. *)
WorkerInv ==
  /\ ~hasProc => wk \in {"none", "dead"}
  /\ wk \in {"none", "dead"} => stdin = <<>> /\ ~com
  /\ job # NoReq <=> wk \in {"connecting", "calling"}
  /\ wk = "calling" => com

(* Where the one exchange there can be has got to. *)
IdleExchange == WorkerAlive => wk = "idle" /\ stdin = <<>> /\ stdout = <<>>

StartingExchange ==
  /\ stdin = <<>>
  /\ \/ wk \in {"booting", "dead"} /\ stdout = <<>>
     \/ wk \in {"idle", "dead"} /\ stdout = <<Ready>>

ReadingExchange(r) ==
  \/ wk = "idle" /\ stdin = <<r>> /\ stdout = <<>>
  \/ wk \in {"connecting", "calling"} /\ job = r /\ stdin = <<>> /\ stdout = <<>>
  \/ wk = "dead" /\ stdout = <<>>
  \/ /\ wk \in {"idle", "dead"} /\ stdin = <<>>
     /\ \E line \in Lines : /\ line.req = r /\ stdout = <<line>>
                            /\ line.kind # "ready"
                            /\ line.kind = "garbled" => wk = "dead"

ExchangeInv ==
  /\ owner = NoReq => IdleExchange
  /\ \A r \in Reqs : /\ pc[r] = "starting" => StartingExchange
                     /\ pc[r] = "reading" => ReadingExchange(r)

(* How much of a write QuickBooks can have seen, by where its call is. *)
Seen(w) == applied[w] + orphan[w]

WriteInv ==
  \A w \in Writes :
    /\ Seen(w) <= 1
    /\ pc[w] \notin {"reading", "ok", "error"} => Seen(w) = 0
    /\ pc[w] = "ok" => applied[w] = 1
    /\ pc[w] = "reading" /\ stdout = <<>> /\ wk # "dead" => Seen(w) = 0
    /\ pc[w] = "reading" /\ HeadIs({"connect"}) => Seen(w) = 0
    /\ pc[w] = "reading" /\ HeadIs({"ok"}) => applied[w] = 1

(* Why "connected" can be believed. *)
SessionInv ==
  /\ WorkerAlive /\ state = "connected" /\ (owner = NoReq \/ stdin # <<>>) => com
  /\ wk = "idle" /\ HeadIs({"ok"}) => com

IInv == LockInv /\ WorkerInv /\ ExchangeInv /\ WriteInv /\ SessionInv

-----------------------------------------------------------------------------
(* What the documentation says, and the code does not do *)

(* A call that fails is told of a dialog only a person can answer when its *)
(* own retries met one (session.py, the comment on blocked_by).            *)
BlockedByOwnDialog == \A r \in Reqs : pc[r] = "blocked" => r \in swept
=============================================================================
