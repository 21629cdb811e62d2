------------------------------ MODULE QBDialogs ------------------------------
(***************************************************************************)
(* DialogWatcher (qb/dialogs.py): the sweeps that click away QuickBooks'   *)
(* modal dialogs.  A sweep runs in a thread of its own: one that the       *)
(* polling loop starts, one for every retry of a call that a dialog blocked*)
(* (_sweep_dialogs in main.py), and clicks ordered through the API or the  *)
(* GUI, all on the same bookkeeping and without a lock.  One action is what*)
(* a thread does between two accesses of what it shares.                   *)
(*                                                                         *)
(* Time is counted in units of which no sweep takes more than Span, and    *)
(* kept as ages: of each entry since its time stamp, of each sweep since   *)
(* its "now".                                                              *)
(***************************************************************************)
EXTENDS Integers, FiniteSets, Functions

CONSTANTS Dialogs,        \* windows QuickBooks may show, each once
          Signatures,     \* title and text of a window
          Sig,            \* the signature of each window
          Recognized,     \* the signatures some rule matches
          Stubborn,       \* the windows that do not close when clicked
          Loop,           \* the thread of the polling loop
          Calls,          \* calls of execute that may run _sweep_dialogs
          People,         \* requests to dismiss a dialog by hand
          WarnInterval, RetryInterval, Span,
          NoDialog

ASSUME DialogAssumption ==
  /\ Sig \in [Dialogs -> Signatures]
  /\ Recognized \subseteq Signatures
  /\ Loop \notin Calls \cup People /\ Calls \cap People = {}
  /\ WarnInterval \in Nat \ {0} /\ RetryInterval \in Nat \ {0} /\ Span \in Nat \ {0}
  /\ NoDialog \notin Dialogs

Sweepers == {Loop} \cup Calls
Threads  == Sweepers \cup People

VARIABLES
  window,       \* absent, open or closed
  clicked,      \* the windows with a click in their queue
  running,      \* _running: the loop starts sweeps
  openDialogs,  \* open_dialogs
  lastError,    \* last_error is not None
  warned,       \* _warned: age of the entries, by signature
  failed,       \* _failed
  pc,           \* where each thread is
  found,        \* the windows its scan returned
  todo,         \* those it has not come to yet
  cur,          \* the window it is at
  since,        \* units of time since its "now"
  victims,      \* the entries _prune is about to delete
  titles        \* what the last _sweep_dialogs of each call returned

shared == <<openDialogs, lastError, warned, failed>>
local  == <<found, todo, cur, since, victims>>
vars   == <<window, clicked, running, shared, pc, local, titles>>

-----------------------------------------------------------------------------
(* Ages are counted no further: an entry this old is past its interval for *)
(* every sweep, since none takes more than Span.                           *)
Cap == Span + IF WarnInterval > RetryInterval THEN WarnInterval ELSE RetryInterval

Ages == UNION {[S -> 0..Cap] : S \in SUBSET Signatures}

Steps == {"idle", "scanned", "sweeping", "warning", "clicking", "waiting", "settling", "failing",
          "pruneWarned", "pruneFailed", "reporting", "raised"}

TypeOK ==
  /\ window \in [Dialogs -> {"absent", "open", "closed"}]
  /\ clicked \subseteq Dialogs
  /\ running \in BOOLEAN
  /\ openDialogs \subseteq Dialogs
  /\ lastError \in BOOLEAN
  /\ warned \in Ages /\ failed \in Ages
  /\ pc \in [Threads -> Steps]
  /\ found \in [Threads -> SUBSET Dialogs] /\ todo \in [Threads -> SUBSET Dialogs]
  /\ cur \in [Threads -> Dialogs \cup {NoDialog}]
  /\ since \in [Threads -> 0..Span]
  /\ victims \in [Threads -> SUBSET Signatures]
  /\ titles \in [Calls -> SUBSET Dialogs]

NoEntries == [g \in {} |-> 0]

Init ==
  /\ window = [d \in Dialogs |-> "absent"]
  /\ clicked = {}
  /\ running \in BOOLEAN       \* QBB_DIALOG_WATCH
  /\ openDialogs = {}
  /\ lastError = FALSE
  /\ warned = NoEntries /\ failed = NoEntries
  /\ pc = [t \in Threads |-> "idle"]
  /\ found = [t \in Threads |-> {}] /\ todo = [t \in Threads |-> {}]
  /\ cur = [t \in Threads |-> NoDialog]
  /\ since = [t \in Threads |-> 0]
  /\ victims = [t \in Threads |-> {}]
  /\ titles = [c \in Calls |-> {}]

-----------------------------------------------------------------------------
(* QuickBooks, the people at its screen, and time *)

Open == {d \in Dialogs : window[d] = "open"}

World == UNCHANGED <<running, shared, pc, local, titles>>

Appears(d) == /\ window[d] = "absent"
              /\ window' = [window EXCEPT ![d] = "open"]
              /\ UNCHANGED clicked /\ World

Closes(d) == /\ window[d] = "open"
             /\ window' = [window EXCEPT ![d] = "closed"]
             /\ clicked' = clicked \ {d}
             /\ World

Obeys(d) == d \in clicked \ Stubborn /\ Closes(d)

Older(dict) == [g \in DOMAIN dict |-> IF dict[g] < Cap THEN dict[g] + 1 ELSE Cap]

(* No unit of time passes between the comparison and the entry of a warning. *)
Tick == /\ \A t \in Threads : pc[t] # "idle" => since[t] < Span /\ pc[t] # "warning"
        /\ warned' = Older(warned) /\ failed' = Older(failed)
        /\ since' = [t \in Threads |-> IF pc[t] = "idle" THEN 0 ELSE since[t] + 1]
        /\ UNCHANGED <<window, clicked, running, openDialogs, lastError, pc, found, todo, cur,
                       victims, titles>>

-----------------------------------------------------------------------------
(* Dictionaries, and the threads *)

Put(dict, g, age) == [h \in DOMAIN dict \cup {g} |-> IF h = g THEN age ELSE dict[h]]
Pop(dict, g)      == Restrict(dict, DOMAIN dict \ {g})

Goes(t, to) == pc' = [pc EXCEPT ![t] = to]

Quiet == UNCHANGED <<window, clicked, running>>

Matches(d) == Sig[d] \in Recognized

(* find_dialogs, in the sweep of t; what it returns is not published yet. *)
Scan(t) ==
  /\ pc[t] = "idle"
  /\ t = Loop => running
  /\ found' = [found EXCEPT ![t] = Open]
  /\ since' = [since EXCEPT ![t] = 0]
  /\ Goes(t, "scanned")
  /\ Quiet /\ UNCHANGED <<shared, todo, cur, victims, titles>>

ScanFails(t) ==
  /\ pc[t] = "idle"
  /\ t = Loop => running
  /\ lastError' = IF t = Loop THEN TRUE ELSE lastError
  /\ Quiet /\ UNCHANGED <<openDialogs, warned, failed, pc, local, titles>>

Publish(t) ==
  /\ pc[t] = "scanned"
  /\ lastError' = FALSE
  /\ openDialogs' = found[t]
  /\ todo' = [todo EXCEPT ![t] = found[t]]
  /\ since' = [since EXCEPT ![t] = 0]
  /\ Goes(t, "sweeping")
  /\ Quiet /\ UNCHANGED <<warned, failed, found, cur, victims, titles>>

(* Has an entry been made less than interval ago, as t sees the time? *)
Fresh(t, dict, g, interval) == g \in DOMAIN dict /\ dict[g] - since[t] < interval

(* No rule matches: look whether it was warned about, then warn.  The time *)
(* is read anew for the comparison and the entry.                          *)
Warnable(d) == ~(Sig[d] \in DOMAIN warned /\ warned[Sig[d]] < WarnInterval)

Visit(t, d, to) ==
  /\ pc[t] = "sweeping"
  /\ d \in todo[t]
  /\ todo' = [todo EXCEPT ![t] = @ \ {d}]
  /\ cur' = [cur EXCEPT ![t] = IF to = "sweeping" THEN NoDialog ELSE d]
  /\ Goes(t, to)
  /\ Quiet /\ UNCHANGED <<shared, found, since, victims, titles>>

(* Mutant: the interval is compared the wrong way round. *)
BugWarnsOnlyAgain(t, d) == ~Matches(d) /\ Visit(t, d, IF Warnable(d) THEN "sweeping" ELSE "warning")

Looks(t, d) == ~Matches(d) /\ Visit(t, d, IF Warnable(d) THEN "warning" ELSE "sweeping")

Leaves(t, to) ==
  /\ cur' = [cur EXCEPT ![t] = NoDialog]
  /\ Goes(t, to)
  /\ UNCHANGED <<found, todo, since, victims>>

(* Mutant: the entry is made by window, where the others go by text. *)
BugWarnsByWindow(t) ==
  /\ pc[t] = "warning"
  /\ warned' = Put(warned, cur[t], 0)
  /\ Leaves(t, "sweeping")
  /\ Quiet /\ UNCHANGED <<openDialogs, lastError, failed, titles>>

Warns(t) ==
  /\ pc[t] = "warning"
  /\ warned' = Put(warned, Sig[cur[t]], 0)
  /\ Leaves(t, "sweeping")
  /\ Quiet /\ UNCHANGED <<openDialogs, lastError, failed, titles>>

(* Mutant: a dialog that failed once is never tried again. *)
BugNeverRetries(t, d) ==
  Matches(d) /\ Visit(t, d, IF Sig[d] \in DOMAIN failed THEN "sweeping" ELSE "clicking")

(* A rule matches: click, unless the last click failed a moment ago. *)
Approaches(t, d) ==
  Matches(d) /\ Visit(t, d, IF Fresh(t, failed, Sig[d], RetryInterval) THEN "sweeping" ELSE "clicking")

(* click_button: the click is queued, or the window is gone or Windows     *)
(* refuses it for now; then the window is seen to close, or is given up.   *)
Clicks(t) ==
  /\ pc[t] = "clicking"
  /\ cur[t] \in Open
  /\ clicked' = clicked \cup {cur[t]}
  /\ Goes(t, "waiting")
  /\ UNCHANGED <<window, running, shared, local, titles>>

ClickFails(t) ==
  /\ pc[t] = "clicking"
  /\ Goes(t, "failing")
  /\ Quiet /\ UNCHANGED <<shared, local, titles>>

SeesClosed(t) ==
  /\ pc[t] = "waiting"
  /\ cur[t] \notin Open
  /\ warned' = Pop(warned, Sig[cur[t]])
  /\ IF t \in People THEN Leaves(t, "idle") ELSE Goes(t, "settling") /\ UNCHANGED local
  /\ Quiet /\ UNCHANGED <<openDialogs, lastError, failed, titles>>

WaitsInVain(t) ==
  /\ pc[t] = "waiting"
  /\ cur[t] \in Open
  /\ Goes(t, "failing")
  /\ Quiet /\ UNCHANGED <<shared, local, titles>>

Settles(t) ==
  /\ pc[t] = "settling"
  /\ failed' = Pop(failed, Sig[cur[t]])
  /\ Leaves(t, "sweeping")
  /\ Quiet /\ UNCHANGED <<openDialogs, lastError, warned, titles>>

Fails(t) ==
  /\ pc[t] = "failing"
  /\ IF t \in People THEN Leaves(t, "idle") /\ UNCHANGED failed
                     ELSE Leaves(t, "sweeping") /\ failed' = Put(failed, Sig[cur[t]], since[t])
  /\ Quiet /\ UNCHANGED <<openDialogs, lastError, warned, titles>>

(* _prune: first the entries of _warned, then those of _failed. *)
Expired(t, dict, interval) ==
  {g \in DOMAIN dict : g \notin {Sig[d] : d \in found[t]} /\ dict[g] - since[t] >= interval}

Prunes(t, from, to, chosen) ==
  /\ pc[t] = from
  /\ (IF from = "sweeping" THEN todo[t] = {} ELSE victims[t] = {})
  /\ victims' = [victims EXCEPT ![t] = chosen]
  /\ Goes(t, to)
  /\ Quiet /\ UNCHANGED <<shared, found, todo, cur, since, titles>>

PrunesWarned(t) == Prunes(t, "sweeping", "pruneWarned", Expired(t, warned, WarnInterval))
BugKeepsFailed(t) == Prunes(t, "pruneWarned", "pruneFailed", {})  \* mutant: _failed is not pruned
PrunesFailed(t) == Prunes(t, "pruneWarned", "pruneFailed", Expired(t, failed, RetryInterval))

(* "del" of an entry that another thread has taken out is a KeyError. *)
Deletes(t, g, present) ==
  /\ g \in victims[t]
  /\ IF present THEN victims' = [victims EXCEPT ![t] = @ \ {g}] /\ UNCHANGED pc
                ELSE Goes(t, "raised") /\ UNCHANGED victims
  /\ Quiet /\ UNCHANGED <<openDialogs, lastError, found, todo, cur, since, titles>>

(* Mutant: whichever dictionary is pruned, the entry is deleted from _failed. *)
BugDeletesFromFailed(t, g) == /\ pc[t] = "pruneWarned"
                              /\ Deletes(t, g, g \in DOMAIN failed)
                              /\ failed' = Pop(failed, g)
                              /\ UNCHANGED warned

DeletesWarned(t, g) == /\ pc[t] = "pruneWarned"
                       /\ Deletes(t, g, g \in DOMAIN warned)
                       /\ warned' = Pop(warned, g)
                       /\ UNCHANGED failed

DeletesFailed(t, g) == /\ pc[t] = "pruneFailed"
                       /\ Deletes(t, g, g \in DOMAIN failed)
                       /\ failed' = Pop(failed, g)
                       /\ UNCHANGED warned

(* The sweep returns: the loop sleeps until it polls again, a call goes on *)
(* to _sweep_dialogs, back on the event loop.                              *)
Reset(t) == /\ found' = [found EXCEPT ![t] = {}] /\ todo' = [todo EXCEPT ![t] = {}]
            /\ cur' = [cur EXCEPT ![t] = NoDialog]
            /\ since' = [since EXCEPT ![t] = 0]
            /\ victims' = [victims EXCEPT ![t] = {}]

Ends(t) ==
  /\ pc[t] = "pruneFailed" /\ victims[t] = {}
  /\ IF t = Loop THEN Goes(t, "idle") /\ Reset(t) ELSE Goes(t, "reporting") /\ UNCHANGED local
  /\ Quiet /\ UNCHANGED <<shared, titles>>

Reports(c) ==
  /\ pc[c] = "reporting"
  /\ titles' = [titles EXCEPT ![c] = {d \in openDialogs : ~Matches(d)}]
  /\ Goes(c, "idle") /\ Reset(c)
  /\ Quiet /\ UNCHANGED shared

(* The loop notes the error and goes on; in a call it escapes from execute.*)
Raises(t) ==
  /\ pc[t] = "raised"
  /\ lastError' = IF t = Loop /\ running THEN TRUE ELSE lastError
  /\ Goes(t, "idle") /\ Reset(t)
  /\ Quiet /\ UNCHANGED <<openDialogs, warned, failed, titles>>

(* POST /dialogs/{hwnd}/dismiss, or the button of the GUI: the dialog is   *)
(* looked up, and then clicked in a thread.                                *)
Orders(p, d) ==
  /\ pc[p] = "idle"
  /\ d \in Open
  /\ cur' = [cur EXCEPT ![p] = d]
  /\ since' = [since EXCEPT ![p] = 0]
  /\ Goes(p, "clicking")
  /\ Quiet /\ UNCHANGED <<shared, found, todo, victims, titles>>

(* stop(): the loop ends, the thread it has started does not. *)
Stop == running /\ running' = FALSE /\ UNCHANGED <<window, clicked, shared, pc, local, titles>>

-----------------------------------------------------------------------------
Click(t) == Clicks(t) \/ ClickFails(t) \/ SeesClosed(t) \/ WaitsInVain(t) \/ Settles(t) \/ Fails(t)

Sweep(t) ==
  \/ Publish(t)
  \/ \E d \in Dialogs : Looks(t, d) \/ Approaches(t, d)
  \/ Warns(t)
  \/ PrunesWarned(t) \/ PrunesFailed(t)
  \/ \E g \in Signatures : DeletesWarned(t, g) \/ DeletesFailed(t, g)
  \/ Ends(t) \/ Raises(t)

Next ==
  \/ \E d \in Dialogs : Appears(d) \/ Closes(d) \/ Obeys(d)
  \/ Tick \/ Stop
  \/ \E t \in Sweepers : Scan(t) \/ ScanFails(t) \/ Sweep(t)
  \/ \E t \in Threads : Click(t)
  \/ \E c \in Calls : Reports(c)
  \/ \E p \in People, d \in Dialogs : Orders(p, d)

Spec == Init /\ [][Next]_vars

(* The threads run, time passes, the loop polls and its scans do not fail  *)
(* for ever, no more do all clicks on a window that would close, and such  *)
(* a window closes when a click has reached it.                            *)
Fairness ==
  /\ \A t \in Sweepers : WF_vars(Sweep(t))
  /\ \A t \in Threads : WF_vars(Click(t))
  /\ \A c \in Calls : WF_vars(Reports(c))
  /\ SF_vars(Scan(Loop))
  /\ \A d \in Dialogs \ Stubborn : SF_vars(\E t \in Threads : cur[t] = d /\ Clicks(t))
  /\ WF_vars(Tick)
  /\ \A d \in Dialogs : WF_vars(Obeys(d))

FairSpec == Spec /\ Fairness

-----------------------------------------------------------------------------
(* What must hold while the loop is the only one to sweep, or whoever does *)

(* A dialog that a rule matches and that closes when clicked goes away     *)
(* while the watcher runs, whatever fails on the way: the loop survives    *)
(* its errors, and the back-off of a failed click ends.  A stubborn window *)
(* of the same text is excepted: its failures hold the others back.        *)
Willing(d) == \A e \in Stubborn : Sig[e] # Sig[d]
RecognizedGoesAway ==
  \A d \in Dialogs : Willing(d) /\ Matches(d) /\ d \in Open ~> d \notin Open \/ ~running

(* A dialog nobody has a rule for is warned about, while it is up. *)
Unanswered(d) == ~Matches(d) /\ d \in Open
UnrecognizedIsWarned ==
  \A d \in Dialogs : Unanswered(d) ~> ~Unanswered(d) \/ Sig[d] \in DOMAIN warned \/ ~running

(* _prune: a signature that is gone is forgotten in the end (the entries   *)
(* would accumulate for the life of the process).                          *)
Up(g) == \E d \in Open : Sig[d] = g
GoneIsForgotten ==
  \A g \in Signatures : g \in DOMAIN failed \cup DOMAIN warned
                          ~> g \notin DOMAIN failed \cup DOMAIN warned \/ Up(g) \/ ~running

(* A sweep ends without an error of its own: _sweep_dialogs "returns the   *)
(* titles of any dialogs it could not dismiss" (session.py).               *)
SweepEndsWell == \A t \in Sweepers : pc[t] # "raised"

(* ... and names those that are up and need a person (main.py).            *)
Left(c) == found[c] \cap Open
NamesUnrecognized ==
  [][\A c \in Calls : pc[c] = "reporting" /\ pc'[c] = "idle"
                        => \A d \in Left(c) : Matches(d) \/ d \in titles'[c]]_vars
=============================================================================
