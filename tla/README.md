# A TLA+ model of the QuickBooks Desktop SDK bridge

The bridge (`src/src/qb_bridge`) puts an HTTP API in front of QuickBooks Desktop.
QuickBooks is reached through COM from one worker subprocess, by one request at a
time; around that there are retries, an idle timeout that gives the company file
back, and a watcher that clicks away the modal dialogs which block every request.
This directory holds TLA+ modules that model that core, the TLC runs that check
them on small instances, and theorems proved with TLAPS for any number of callers,
attempts, keys and records.

Run `tlc -workers 2 -config <cfg> <module>` for a run, and `tlapm` on
`QBLockProofs.tla`, `QBSessionProofs.tla`, `QBProcessProofs.tla`, `QBRecordsProofs.tla`,
`QBDialogsProofs.tla`, `QBKeysProofs.tla`, `QBPagesProofs.tla` and `QBSettingsProofs.tla` for the
proofs.
`PROJECT.json` lists the runs, the mutants that show each property can fail, the
source lines behind every definition, the hazards and the findings.

## 1. Inventory

Paths are relative to `src/src/qb_bridge`.

| Component | State it keeps | Operations | What is hard | What makes it correct |
|---|---|---|---|---|
| **Session manager** `qb/session.py`, `qb/retry.py` | `_running`, `_lock`, `_proc`, `_connection_state`, `_last_activity`, `_blocking_dialogs` | `start`, `stop`, `execute` (retry loop, remedies), `_idle_monitor`, `_start_worker`, `_kill_worker` | many coroutines on one lock and one pipe; timeouts that abandon a request QuickBooks goes on with; retries of writes; kills with and without the lock | a write is applied at most once and never after its caller was told that QuickBooks did not see it; an answer belongs to its request; every call ends; the worker is released when idle |
| **COM worker** `qb/worker.py`, `qb/connection.py` | the COM session, the request in hand | boot, `execute` (connect, then process), answer, quit | dies at any point, perhaps in the middle of a line | reports in which *phase* it failed: "connect" means that QuickBooks saw nothing |
| **Dialog watcher** `qb/dialogs.py` (`DialogWatcher`), `_sweep_dialogs` in `main.py`, `api/routes/dialogs.py`, `gui/router.py` | `open_dialogs`, `_warned`, `_failed`, `last_error`, `events` | polling loop, `sweep`, `dismiss`, `_note_unrecognized`, `_prune` | several threads sweep at once without a lock; windows come and go between the scan and the click; clicks are queued and may be ignored | recognized dialogs go away, others are warned about, bookkeeping is forgotten, a sweep does not fail |
| **Dialog rules** `qb/dialogs.py` (`DialogRule`, `load_rules`) | rules | parse, match | a rule that matches too much clicks the wrong button | first match wins; which dialogs that need a person a rule can match after all |
| **QuickBooks process** `qb/process.py`, the `launch_qb` remedy and `auto_close_qb` in `qb/session.py` | none of its own | find, launch, close | closing it while calls wait for it and people use it; one try, and then not until the next call | no call is in an exchange and no window was seen when QuickBooks is closed; one the bridge left idle is closed in the end |
| **Keys, permissions, IP filter** `auth/*`, `api/deps.py` | table `api_keys` | create, validate, update, revoke, delete; permission test | validation interleaved with revocation; permissions rewritten at start | a request passes only with an active key that allows entity, operation and address |
| **Database and settings** `database.py`, `settings_store.py`, `config.py` | tables `settings`, `audit_log`; one connection for all coroutines | `init_db`, `get_setting`, `set_setting`, `apply_db_settings` | a settings page saved in several commits; environment, database and default values | restarting changes nothing that was chosen; the environment wins |
| **CRUD routes** `api/routes/crud.py`, `api/strict.py` | none (iterators and edit sequences live in QuickBooks) | list, get, create, update, delete | combinations of parameters that qbXML rejects or ignores; records that change between the read and the update; writes that fail after they were made | no parameter is silently ignored, and the query says what was asked; the pages of an iterator leave out no record and repeat none; no update is lost, and what a client is told of its write is true |
| **Reports, company, discovery, status** `api/routes/*` | none | read | the date filter | as above |
| **Warm-up** `api/routes/connection.py` | `app.state.warm_task` | `POST` on the connection, waiting or in the background | races with the idle monitor | one background task at a time; QuickBooks stays open for who calls in time |
| **qbXML builder, parser, entities** `qb/xml_*.py`, `qb/entities.py` | none | build, parse | order of elements; one element or a list | order of the schema; errors raised; a record that is read and sent back keeps its elements |
| **Middleware, application** `api/middleware.py`, `main.py` | audit log | log, map errors, start and stop in order | exceptions that escape; order of shutdown | each failure has its status |
| **GUI** `gui/router.py` | the secret of its cookies; the password is in `settings` | login, settings, keys, dialogs | two first logins; saves in several commits | nobody is let in without the password; what was saved stays |
| **Report exports** `reports/*` | none | JSON, CSV, PDF | rows in rows, a header that shifts the places | no row or cell is lost, totals are bold |
| **Service, CLI, setup** | none | install and run | I/O | |

How they interact: a route calls `execute` of the session manager, which writes one
line to the worker's stdin and waits for one line of its stdout. A fault that says
that a dialog is up makes the manager call `on_blocked`, which is a sweep of the
dialog watcher in a thread, beside the sweeps of its polling loop. `/status` and
the warm-up route read `_connection_state` without the lock. `stop` is called once
at shutdown, after the watcher's.

## 2. Modules

| Module | What it is |
|---|---|
| `QBService` | what callers are promised: a write is applied at most once, an `unavailable` one never, an `ok` one for certain; an `error` leaves it open |
| `QBSession` | the session manager, the worker and QuickBooks; its invariants, liveness and the refinement of `QBService` |
| `QBSessionProofs` | the theorems about it, with the inductive invariant |
| `QBLockProofs` | lemmas about the queue of a fair lock, which the proofs about `QBSession` and `QBProcess` share |
| `QBProcess` | the QuickBooks process between the bridge and the people at its screen: calls and warm-ups, the launch remedy, the idle monitor with `auto_close_qb` |
| `QBProcessProofs` | the theorems about it |
| `QBRecords` | clients that create, read, update and delete records, QuickBooks' edit sequences, and the way of a record to JSON and back |
| `QBRecordsProofs` | the theorems about it, with the inductive invariant |
| `MCQBRecords` | model values and wishes for it |
| `QBDialogs` | the dialog watcher and the windows it deals with |
| `QBDialogsProofs` | the theorems about it and about `QBRules` |
| `QBRules` | which dialogs the rules recognize, and with which button, as operators |
| `MCQBDialogs` | model values for both, and the comparison of `QBRules` with the loops of the source |
| `QBKeys` | the API keys: requests, GUI, command line and restarts on one database |
| `QBKeysProofs` | the theorems about it and about `QBAccess` |
| `QBAccess` | what the permissions of a key grant, and which addresses are private, as operators |
| `MCQBKeys` | model values for both, and the comparison of `QBAccess` with its source's docs and tests |
| `QBSettings` | the settings, the password and the secret of the GUI: server starts, logins, saves and the setup wizard on one database |
| `QBSettingsProofs` | the theorems about it |
| `MCQBSettings` | model values and forms for it |
| `QBQuery` | from the parameters of a list or report request to the elements of the qbXML query, as operators |
| `QBPages` | clients that page through lists, over the retries of `execute` and the iterators of QuickBooks |
| `QBListing` | what a client that pages through a list is promised: one walk through the records, whatever fails meanwhile |
| `QBPagesProofs` | the theorems about `QBPages` and `QBQuery`, with the refinement of `QBListing` |
| `QBReports` | the reading of a report and its JSON, CSV and PDF, as operators |
| `MCQBPages` | model values and requests for it, and the comparison of `QBReports` with the documents it reads |

`QBSession` implements `QBService`, and `QBRecords` uses of a call only what `QBService`
promises; `QBPages` implements `QBListing`. `QBProcess` has the coarser grain: an exchange
of `QBSession` is there one stretch of time with the lock held, and one of four ends.
`QBPages` extends `QBQuery` and stands on what `QBSession` shows: an attempt is an exchange
of its own (`OneExchange`), its answer is its own (`AnswerIsOwn`). `QBDialogs` details what
`Sweep` of `QBSession` is, and `QBKeys` what comes before a route. `QBSettings` has the same
database with another table of it, and is a module beside `QBKeys`, not on top of it: of
each other's statements the two see only that somebody else executes and commits
(`OthersExecute`, `OthersCommit`).

### QBSession

*Grain.* Coroutines of one event loop run from one `await` to the next, so that is
one action: `FindsLockFree`/`GetsLock` take a call from the lock through
`_execute_once` up to the read of the worker's answer (or through `_start_worker`
up to the read of "ready"), `ReadOk`, `ReadError`, `ReadGarbled`, `ReadEof` and
`ReadTimesOut` from that read through the `except` clause of `execute` (`Raise`: is
the fault transient, was QuickBooks reached, are there attempts left, which remedy)
up to its next `await`. `Sweep` and `RestartWorker` are remedies, `backoff` the
sleep that follows. Worker, QuickBooks and time are not on the loop: `WorkerReads`,
`Connects`, `RequestSucceeds`, `RequestFails`, `WorkerDies`, `TimePasses` happen
between any two actions.

*The lock* is asyncio's: a coroutine that finds it free with nobody waiting goes on
without suspending, the others are served first come first served, and a released
lock that somebody waits for is nobody else's (`LockIsFree`, `IsNext`).

*State.* `life` is `_running` with the two halves of `stop`; `hasProc` is `_proc is
not None`; `state` is `_connection_state`; `blocking` is whether `_blocking_dialogs`
has an element; `activity` is `_last_activity` as 0, recent, or older than the idle
timeout. `stdin` and `stdout` are the pipes with request and answer lines as
records. `applied[w]` counts how often QuickBooks has applied the write `w`, and
`orphan[w]` the calls whose result nobody can learn any more, each of which
QuickBooks may still apply or drop (`LateApply`, `LateDrop`). `swept` is history:
which calls ran `on_blocked` themselves.

*Faults.* The texts of errors are the faults that `classify` makes of them. A
connect or a request may fail with any of the faults its error text can carry;
`launch_qb` and the sleeps are part of `backoff`, since they change nothing of the
session's state (`QBProcess` has what they change of QuickBooks).

*Kills.* `_kill_worker` blocks the event loop for its five seconds of grace, so
nothing of the session interleaves with it; what the worker does in its grace is
what it might have done just before.

*Idle release* is what the code does: it kills the worker (`IdleRelease`). The docstring of
`_idle_monitor` describes another one, see *Seen* in section 5.

*Not in it:* the text of an error as such: an answer that is no JSON is reported with its
text (`session.py:256-259`), and a startup error with the worker's stderr (`session.py:379`), so
that `classify` may by chance find a transient fault's phrase in either; in the model
the one is unrecognized (`ReadGarbled`) and the other of one class (`StartupFails`);
cancellation of a request by its client (uvicorn does not cancel
handlers of plain HTTP requests); `auto_close_qb` and the launch of QuickBooks
(`QBProcess`); the worker's stderr, a pipe that
nobody drains and that is read only after the worker has ended; `retry_count` and
`last_fault`, which only the dashboard shows; `ping` and `disconnect`, which nothing
sends.

### QBDialogs

*Grain.* A sweep runs in a thread, so an action is what a thread does between two
accesses to what it shares with the others: the scan, the publication of
`open_dialogs`, the test of `_warned` (`Looks`) and the entry (`Warns`), the test of
`_failed` (`Approaches`), the click, its outcome, the entry or removal afterwards,
the listing of old entries (`PrunesWarned`, `PrunesFailed`) and each deletion. `Loop`
is the polling loop's thread, `Calls` are calls of `execute` that run
`_sweep_dialogs`, `People` dismiss a dialog through the API or the GUI. An error
other than in a scan is the `KeyError` of a deletion.

*Time.* Entries hold ages instead of time stamps and each sweep how long ago its
`now` was; no sweep takes more than `Span` units, and ages are counted up to the
largest interval plus `Span`, beyond which no comparison can tell them apart. The
scan is one action although Windows enumerates window by window: a window that
appears or closes during it is one that did just before or after. The interval
between the test and the entry of a warning is less than a unit.

*Windows.* A window appears once, may close by itself or by a person at the screen,
and closes after a click unless it is `Stubborn`; the click may be refused, time
out, or find the window gone. Two windows of one text have one signature, and share
its entries as in the code.

*Not in it:* rules and text (a signature is `Recognized` or not; `MCQBDialogs` takes
`Recognized` from `QBRules`, by the assumption `RecognizedByRules`), the history of
events and `dismissed_count`, an unsynchronized counter that nothing reads.

### QBProcess

*Grain.* As in `QBSession`, a coroutine runs from one `await` to the next: a call comes to
the lock (`FindsLockFree`, `Queues`, `GetsLock`), and its exchange ends with the lock
given back (`Answered`, `NotStarted`, `Rejected`, `Fails`). The remedy `launch_qb`
follows without an `await` and is part of `NotStarted`. The idle monitor compares
(`FindsIdle`), perhaps queues (`MonitorQueues`), then kills the worker, gives the lock
back and looks for windows in one action (`IdleRelease`), because there is no `await` in
it. `close_qb` blocks the event loop while PowerShell runs: until `CloseQB`, no coroutine
does anything (`LoopIsFree`), but QuickBooks and the people at the screen do.

*State.* `qb` is the process, `windows` whether anything of it is on screen; one that the
SDK has started for the worker has no windows, one that a person or `launch_qb` starts
gets some (`Loads`). `session` is an open COM session. `warmTask` is `app.state.warm_task`.
History: `opened`, a window came up after the look; `missed`, the look did not see the
windows there were; `gaveUp`, `Stop-Process` failed.

*The look* (`LooksForWindows`) is false when Windows does not enumerate the windows, whose
result `qb_has_visible_windows` does not ask for (`dialogs.py:548`, other than `find_dialogs`
at 492), or does not name the process of one (`_process_name` returns "", `dialogs.py:412-419`).
The branch for `DialogError` is for machines without Windows, where there is no QuickBooks
to close, and is not in the model.

*Not in it:* what the calls ask (`QBSession`), and which name `Stop-Process` and
`is_qb_running` go by (see *Seen* below).

### QBRecords

*Grain.* A request is sent by a client through a route (`Posts`, `Puts`, `Deletes`), applied
or refused by QuickBooks (`Applies`, `Refuses`) and answered (`Answers`), or it ends in an
error (`Fails`, after which it may still be applied: `LateApplies`) or as unavailable
(`GivesUp`). These are the outcomes that `QBService` allows, with what each one means.
`Gets` is one action, as `execute` repeats it until it has an answer. Clients repeat what
they may: a create only when it was not seen.

*State.* `store` is what QuickBooks has of each record, with the EditSequence of its last
change; `base` the version a client has read; `req`, `reply` what is on its way. A
record's content has for each tag the elements with that tag, and whether elements of
different tags alternate (`mixed`), which `ElemToDict` drops and no `DictToXml` brings back.
The two are the recursions of the source on one level: an element with children counts as
one text. JSON values are texts, or numbers, booleans and the like (`Scalars`): `_dict_to_xml`
writes one that is alone by `str()` (so `true` becomes `True`), and leaves the element of one in
a list empty (`Written`).

*QuickBooks* refuses a Mod of another version than the present one, and a Mod or Del of a
record that is not there; it may refuse anything else too. A Mod replaces the elements of
the tags it has. That a create chooses an unused id is QuickBooks' too.

*Not in it:* where among the others a single element stands; the identity of a record after
it was deleted.

### QBRules, QBAccess and QBReports

Operators without state, checked when TLC starts the run of the module that extends them,
against definitions written another way: `RulesAsLoaded` against the source's dict in the
order of insertion and its two loops, over all files of up to three entries of a set of
rules and a faulty one; `PermissionsAsDocumented` and `RowsAreTheirOwn` against the docs at
the top of `permissions.py`; `PrivateAsDocumented` against RFC 1918 at and around every
boundary; `ReportsLoseNothing`, `TotalsAreBold`, `RowsAreLabelled` and `JsonKeepsLevels`
against the paths of a document's rows, over all documents of two elements of a set with
rows in rows, foreign tags and columns given twice. A regular expression is the set of
its alternatives, and a title or a text the set of the phrases in it, so that two
expressions that are not anchored can find the same dialog; a phrase between `^` and `$`
is a whole title (`IsTitle`). The rules and the dialogs for people are those of the source,
by their phrases. An address is its bytes; a value of a report is text or a number,
plain or not.

### QBKeys

*Grain.* The coroutines of the server share one SQLite connection, and each of their
statements and commits is awaited, so each is an action (`LooksUp`, `Touches`,
`Validates`, `Logs`, `Answers` of a call; `Creates`, `ShowsKey`, `Revokes`,
`Acknowledges` of the GUI). The command line and the setup wizard are processes of
their own with a statement, a commit and the end: one action, which waits while the
server's transaction is open.

*State.* `disk` is the file, `draft` what the connection sees, `dirty` whether it has a
transaction open. A commit writes all of `draft`, whoever executed it; a commit that
fails leaves it as it is, since nothing in the code rolls back; the end of the
process (`Ends`) resets it. `Starts` is `init_db`. A row of the table is its status, its
permissions and nothing else; a key is never deleted (`delete_key` has no caller).
`shown`, `gone` and `chosen` are what people have been told and have asked for,
`late` the calls that began when their key was gone, `allowed` what their keys have
granted since they began.

*Permissions* are abstract values, with the operations each one `Grants`; the code
needs of them only that `Admin` and `Read` exist and that the one grants what the
other does. `MCQBKeys` takes the columns the command line writes, and `Grants` from
`QBAccess` (`GrantsByPermissions`).

*Not in it:* settings and login (`QBSettings`), addresses (`QBAccess`); the names and the
hashes of keys (the hash of a key is the key).

### QBSettings

*Grain.* That of `QBKeys`: statements and commits on the shared connection are actions
of a login (`Enters` and `ReadsHash`, `SetsPassword`, `FirstLogsIn`) or of a save, which
is a statement (`Sets`) and a commit (`CommitsSet`) for each field of the Connection
page, in its order (`Page`), and then the answer (`Redirects`). Hashing blocks the event
loop and so belongs to the statement that follows. The start of the server is two
actions, one for each commit: `Starts` is `init_db`, `Configures` is
`apply_db_settings` with the secret of the cookies. Nobody else uses the connection
before the server serves. The setup wizard is another process.

*State.* `disk`, `draft` and `dirty` are those of `QBKeys`. A text of a setting is what the
table holds, `NotGiven` where there is no row; `Coerced` is what the text is read as for a
field of its kind, or `Unusable`. `log_level` is of no kind of its own: like a number it is
readable or not; that it is put in upper case, and a boolean stripped and put in lower case
before it is compared (`settings_store.py:49-63`), is left out. `running` is
`app.state.settings`, `given` what the environment sets. The hash of a password is the
password, and a cookie is the secret that signed it; that it was put into a browser and kept
there is `cookie`. History: `may`, what people may find in the table, which a save widens
when it begins and narrows when it is answered; `beside`, the saves that overlapped each
save; `was`, the passwords that were stored since somebody entered his.

*Not in it:* the age limit of cookies, and the page that only shows the settings; host
and port, which the start script reads.

### QBQuery and QBPages

*Parameters.* A request names the parameters it gives a value to (`given`) and those
whose value says nothing (`blank`: an empty string, or for `active` its default; an empty
`active` is a value, and becomes an empty `ActiveStatus`),
since the code tells apart a parameter that was sent from one that has a value.
What the values are does not matter to any check, except for the iterator's, which
is "none", "Start" or the id the client holds ("Held"). `Rejected` is all the
checks that answer 400, `Query` what is sent to QuickBooks: the elements in their
order and the iterator's mode. The two ends of `TxnDateRangeFilter` and of
`ReportPeriod` are elements of their own, so that one can be missing. The entity
table is in the constants: which entities are transactions, have a reference
number, an iterator, an `EntityFilter`. `max_returned` is always a number, so
`MaxReturned` always in a list query. `Schema` is qbXML's order for each kind of
entity, an assumption about QuickBooks written down from its reference, of which the
comments of `crud.py` and `xml_builder.py` name parts; the one order that the code keeps for
all entities is checked against it. In qbXML the two date filters of a transaction are
alternatives (`HasOneDateFilter`), which no order can mend.

*Grain.* `Asks` is the route up to `execute`. An attempt is one action
(`ConnectFails`, `Answers`, `Refuses`, `RequestFails`), since it holds the manager's
lock from the request to the answer; `Retries` is `execute`'s decision about it,
and anything may happen between two attempts. Fault texts are transient or not. A
failure after the session was opened leaves it closed: the worker closes it before
it answers (`worker.py:81`), and is killed after a timeout and dead in all other
cases.

*QuickBooks* is modelled from how the code uses it: an iterator belongs to the COM
session, moves on with every query that continues it, whether or not anybody reads
the answer, and is closed with its last page; an id that is not known, or was given
for another entity, is an error. The records a list has match its filters or not,
in the model they all do: `Size` records of each entity, which nobody changes while
they are paged. A client holds one id, the last it was given, and waits for its
answers: one that gives up on a page and goes on with its id loses that page, which
nothing in the bridge could prevent.

*Refinement.* `QBListing` has of all this only the records a client got (`got`) and what
it was told remains (`remaining`): a page begins anew or goes on where the last one
ended, and is not empty unless there is nothing. Sessions, cursors, attempts and
queries that were made again are stutters of it.

*Not in it:* records and their fields (`QBRecords`), formats of reports (`QBReports`), the
order in which QuickBooks lists.

## 3. Runs

Deadlock is checked in every run: `QBSession` may stop only when the manager is
stopped and all its calls have ended, `QBRecords` only when nothing is under way
(`Ended` of each).

| Run | Instance | Shows |
|---|---|---|
| `session_safety` | one write, one query, 3 attempts | what QuickBooks has seen of a write agrees with what its caller is told (`WriteAppliedAtMostOnce`, `UnavailableWriteUnseen`), `connected` can be believed (`ConnectedMeansSession`), an answer goes to who asked (`AnswerIsOwn`), no worker is killed under another call (`NoForeignKill`), and the whole refines `QBService` (`ImplementsService`); with fairness, every call ends (`EveryCallEnds`) and an unused worker is stopped (`ReleasesCompanyFile`) |
| `process_safety` | two calls, 3 attempts, the monitor, with every choice of `auto_close_qb` and `auto_launch_qb`, people at the screen | while QuickBooks is closed nobody calls it (`NobodyCallsWhileClosing`), one whose windows were seen is spared, so that only windows the look missed or that came up after it are closed with it (`WindowsSeenAreSpared`), and one left idle is closed in the end (`IdleQBIsClosed`) |
| `records_safety` | one create, one update and one delete, two records, four tags, two tries, people at the desk | what a client is told of its change is true (`OutcomeTrue`), an update changes only the version its client has read (`NoLostUpdate`), and just the fields it names, as asked but for list items that are no strings (`AppliedAsAsked`) |
| `dialogs_live` | the loop, three windows: willing, stubborn, unrecognized | no failed sweep (`SweepEndsWell`), and the three liveness properties: recognized dialogs go away, others are warned about, entries of those that are gone are forgotten |
| `dialogs_shared` | one window, the loop, a call and a person | the races of the three cost neither the dismissal (`RecognizedGoesAway`) nor the forgetting (`GoneIsForgotten`) |
| `keys_safety` | two keys, two calls with one of them, one page of the GUI, command line, restarts | what was told is on disk (`ToldIsOnDisk`), a revoked key is refused (`RevokedKeyRefused`), nothing is served that was not granted (`ServedIsAllowed`), answers are in the audit log (`AnsweredIsLogged`); `QBAccess` is as documented |
| `pages_safety` | three entities of three records, pages of one or two, two attempts; one client only pages, the other also sends every set of up to two parameters | through failures and retries, pages are those of one walk through the records, which leaves nothing out and repeats nothing, and `meta.remaining` is right (`ImplementsListing`), a first page is filtered by what was asked and nothing else (`FirstPageFiltered`), and queries fit the schema exactly when they do not ask for a time of change and a date at once (`FitsUnlessBothDates`); `QBReports` loses nothing |
| `settings_safety` | two people with two passwords, two saves of two forms with two fields of the page (and a field that is only seeded), an environment with and without a value, the wizard, restarts | what was saved and answered is in the file (`SavedIsOnDisk`) and is what the next start runs with, unless the environment says otherwise (`RunsAsSaved`), cookies outlive restarts (`CookiesStayValid`), who is let in knows a password that was stored (`LetInWithPassword`), and the first login stays the first (`FirstLoginIsOver`) |
| `open_claim` | violated | finding 1 |
| `sweep_claim` | violated | finding 2 |
| `admin_claim` | violated | finding 3 |
| `params_claim` | violated | finding 4 |

*Bounds.* Three attempts are the least with which a call can fail, be remedied, fail
otherwise and be given up; two callers and the idle monitor are enough for each to wait
behind another and for a queue whose order matters. Two writes differ in nothing but their
names, so one write and a query show what matters of each, and the proofs are for any
number. Nothing else is bounded: pipes and counters grow as far as the code lets them, which
the invariants show to be one. The intervals of the dialog watcher are one unit, as is the
longest sweep: an entry can then be fresh, expired, and expire during a sweep, which is all
the comparisons tell apart. In `process_safety` two calls are enough for one to wait behind
the other, with the monitor before, between or behind them; time, people and QuickBooks are
not bounded. In `records_safety` one intent of each kind meets the others and the people at
the desk, whose edits are bounded by `MaxSeq`; two records are enough for a change to hit
the wrong one, two tries for one request to be applied late while its repeat is under way.
The tags of the instance have one element, several, the same one twice, or none, and the
update gives a list with a number in it and a number alone, says null, and leaves one out. A
second update of a record is to the first what an edit at the desk is, which needs no
version. In `keys_safety` the two calls present one key, the other key is there for the
statements that must not touch the first; two calls and a page of the GUI are enough for one
to commit what another executed, and restarts and the command line are not bounded. In
`settings_safety` the two forms hold a text of each sort (usable, usable in other words than
the default's, empty, unusable), and two fields are enough for a save to be interrupted
between its commits and for two saves to cross. Each save happens once, logins and restarts
as often as they like. Symmetry over people, saves, passwords and secrets is sound: they are
told apart nowhere and no liveness is checked. Three records are the fewest with a first, a
middle and a last page, and with pages of different sizes; two clients are enough for one to
end the session whose iterator the other holds. A filter's element depends on no other
parameter but the iterator's, and the order of elements is a matter of pairs, so sets of two
parameters show all there is. Requests, failures and restarts of the session are not
bounded.

*Fairness.* `QBSession` and `QBProcess`: the event loop runs each coroutine that can run,
each wait on the worker has a timeout, and time passes (of `QBProcess` also: `Stop-Process`
has its timeout); nothing is assumed of worker, QuickBooks, people or callers. It does not
follow that a call ends soon: each one before it in the queue may use all of its timeout.
`QBDialogs`: threads run, time passes, the scans of the loop do not fail for ever, neither
do all clicks on a window that is not stubborn, and such a window closes when a click has
reached it. These two are strong fairness, because failures are what the loop's retries and
its back-off are for. Nothing is assumed of people.

## 4. Proofs

`QBSessionProofs` proves, for every set of calls and every `MaxAttempts`:

- `TypeCorrect`: `Spec => []TypeOK`, with the bound on attempts.
- `Inductive`: `Spec => []IInv`. `IInv` says who holds the lock (`LockInv`: exactly
  the call that waits for a line), what is left of a worker that has ended
  (`WorkerInv`), where the one exchange there can be has got to (`ExchangeInv`: in
  stdin, in the worker's hands, in stdout, or lost with the worker), how much of a
  write QuickBooks can have seen by where its call is (`WriteInv`), and why
  "connected" can be believed (`SessionInv`). None of the safety invariants is
  inductive by itself: that a write is not sent twice depends on the phase reported
  by a line that is still in the pipe, and on the line's being the call's own, which
  depends on the lock.
- `AtMostOnce`, `UnavailableUnseen`, `ReturnedApplied`, `AtMostOneExchange`,
  `ConnectedIsTrue`: the safety invariants, from `IInv`.
- `OwnAnswer`, `ForeignKillsNone`: the action properties, from `IInv`.
- `Implements`: `Spec => Service!Spec`. Each step maps to a step of `QBService` on at
  most one call's status (`CallMoves`, `OthersDoNotMove`), to QuickBooks applying a
  write, or to a stutter.

- `LockQueued`, `NobodyStuck`, `TurnsKept`: each call that waits for `_lock` is in its queue
  at one place and nobody else is; nobody waits while neither a call that holds the lock
  is at a wait with a timeout nor the first of the queue may go on; and a step puts no call behind
  more others than before. What is left of liveness to TLC is that turns are taken.
- `SomebodySwept`: a call is told that a dialog needs a person only after a sweep of
  some call. This is what remains true of `BlockedByOwnDialog`, which is not (section 5).

They rest on `SessionAssumption` (the writes are calls, at least one attempt is
made, the monitor and "nobody" are not calls) and on nothing else.

`QBProcessProofs` proves, for every set of calls and every `MaxAttempts`: `TypeCorrect`,
`NobodyCalls` and `WindowsSpared`. The second is inductive together with the types: the
monitor sets about closing only in `IdleRelease`, with the lock free and the session
closed by itself, and no coroutine moves until it has ended. `LockTaken`, `NobodyStuck` and
`TurnsKept` say of its lock, which the monitor queues for like a call, what they say of
that of `QBSession`; `QBLockProofs` has the lemmas for both (a queue of everybody once
stays one when somebody joins at its end or leaves it from any place). They rest on
`ProcessAssumption`.

`QBRecordsProofs` proves, for every set of intents, records, tags and values, and any number
of tries:

- `Inductive`: `Spec => []IInv`: the types; that each EditSequence belongs to one version of
  one record, so that a version which is still there is the one that was read
  (`base`, `req` and `reply` are of versions there have been); and how often a change can have
  been made, by where its request is and how many are late.
- `TypeCorrect`, `OutcomesTrue`: the invariants; `NoUpdateLost`, `UpdatesAsAsked`: the action
  properties, from `IInv` and the lemma `RoundTrip` (what is read and sent back has, tag by
  tag, the same elements, which alternate no more). `UpdatesAsAsked` says what a field
  becomes for every body: a list item that is no string comes out empty.
- `OneWinner`: of two updates made from the same version of a record only one is ever made,
  however often each is repeated and however late it is applied. `NoLostUpdate` says of
  one step that it changes the version its client has read; that no two steps can is a
  matter of whole behaviours: an EditSequence that is gone does not come back.

They rest on `RecordsAssumption` (the types of the constants, and that the records are
finitely many).

`QBDialogsProofs` proves of `QBDialogs`, for every set of windows, texts, rules, calls and
people, and every interval:

- `TypeCorrect`: the types, with `CurInv` (a thread that warns or clicks is at a window) as
  the strengthening, since what it enters is an entry for the text of that window;
- `LoneSweepEndsWell`: if nobody sweeps or clicks beside the loop, `SweepEndsWell`.
  `VictimInv` says that what `_prune` has yet to delete is in the dictionary. Here a person
  is one too many already: a dismissal pops the entry of the dialog it closes.

- `ClickedByRuleOrOrder`: whoever sweeps, a window is clicked only if a rule matches it or a
  person has ordered it. `AimInv` carries the rule's match from `match` over the races to
  the click;
- `BooksStayApart`: whoever sweeps, no text that a rule matches is in `_warned` and no
  other is in `_failed`.

`Calls = {}` and `People = {}` are hypotheses of the second: with two sweeps it fails
(`sweep_claim`, finding 2 below). All rest on `DialogAssumption`.

Of `QBRules` it proves, for every file of rules that can be read and every dialog: that no
two rules have one place (`PlacesDiffer`), so a recognized dialog is answered by
the one rule before all others that match, with a button this rule names
(`AnsweredByFirst`, for which the least place exists because places are natural
numbers), and that a dialog which needs a person is answered only by a rule of the
file, which has no fault then, or by the built-in one for updates, whose pattern is not
anchored, if its title has a phrase of both and its text one of that rule
(`PeopleKeepTheirs`).

`QBKeysProofs` proves, for every set of keys, calls, pages and permissions:

- `TypeCorrect`: `Spec => []TypeOK`.
- `Inductive`: `Spec => []IInv`. It rests on what the tables keep (`Kept`): a key that is
  there stays there, a revoked one stays revoked, a line of the log stays. `FileKept`
  shows that of every step of file and connection (but for the end of the process,
  which takes the connection back to the file) and that the connection is never
  behind the file. With it, `ToldInv` carries what an administrator executed until it
  is committed, `LogInv` the same for a line of the log, `LateInv` says that a key
  that is gone is no longer found valid, and `GrantInv` that neither file nor
  connection grants more than was chosen.
- `ToldKeysOnDisk`, `RevokedRefused`, `AllServedAllowed`, `AllAnsweredLogged`: the safety
  invariants, from `IInv`.
- `NothingUndone`: no step, crash or start takes a key or a line of the log out of the file
  or makes a revoked key active.
- `OnlyAdminsBecomeReaders`: a key has the permissions last chosen for it, unless these
  were an administrator's and have become a reader's. So finding 3 is all that
  `PermissionsAsChosen` is wrong about: no crash, failed commit or interleaving changes
  another key.

Of `QBAccess` it proves, for every address: an IPv4 address is private exactly when
it is loopback or of one of the three networks of RFC 1918 (`PrivateIPv4`), and its mapped
form exactly when the address is (`MappedAlike`).

Those about `QBKeys` rest on `KeyAssumption` (the types of the constants, calls are not pages, and
`Admin` grants what `Read` does, without which the upgrade in `init_db` could give a
key something).

`QBPagesProofs` proves, for every set of clients, entities and requests, every number
of records, page size and `MaxAttempts`:

- `TypeCorrect`: `Spec => []TypeOK`.
- `Inductive`: `Spec => []IInv`, the types with `CursorInv` and `PagesInOrder`. The
  second is not inductive alone: that a page goes on where the last one ended is
  what `CursorInv` says of an iterator that is still there, and that an iterator
  which moved without its page being delivered is not there any more is why a retry
  of it is harmless. `PageBounds` and `Joining` are the lemmas about one page and
  about sequences that go on where others end.
- `InOrder`, `CursorsFollow`: the last two, of every reachable state.
- `Implements`: `Spec => Listing!Spec`. An answer is a `FirstPage` or a `NextPage` of
  `QBListing`, and every other step a stutter, since only `Answers` gives a client pages.
- `FirstPagesFiltered`: the query of an accepted first page has the elements of its
  parameters and no others.
- `QueriesFit`: the elements of every query are those of its kind in the order of the schema,
  and it fits the schema exactly when it is not a first page that asks for both dates.
  `FiltersKept` is a concatenation of pieces of one element at most, each of which fits
  where it is.
- `LeftOutExactly`: the parameters that were accepted and that the query leaves out are
  exactly the filters of later pages and the parts of a report's period that finding
  4 is about. So `params_claim` shows all there is.

They rest on `PagesAssumption` and `QueryAssumption`, which say how the columns of the entity
table are related.

`QBSettingsProofs` proves, for every set of settings, forms, environments, people,
passwords and saves, and every page of fields:

- `TypeCorrect`: `Spec => []TypeOK`.
- `Inductive`: `Spec => []IInv`. `ConnectionInv` says that outside a transaction the
  connection sees the file, without which the wizard, which writes only then, would lose
  what others executed; `SecretInv`, that a secret is in the file before it signs
  anything and is never replaced; `PasswordInv`, that a stored password is never taken away
  and a login has seen every password that was stored since its entry; `TextInv`, that
  what the file and the connection hold was asked for or is a default; `SaveInv`, that
  saves under way know of each other and that each one's fields, as far as it has got,
  are there as it or one it met has them: in the connection from the statement on, in
  the file from the commit on, whoever commits. That is what makes the answer of a save
  (`Redirects`) true, which `SavedIsOnDisk` alone says nothing of beforehand.
- `SavedStays`, `CookiesOutliveRestarts`, `AllLetInWithPassword`, `FirstStays`: the safety
  invariants, from `IInv`; `StartsAsSaved`: the action property, from `TextInv`.
- `NothingForgotten`: no step, crash or start replaces the secret in the file, or takes
  the password or a setting out of it.

They rest on `SettingsAssumption` (the types of the constants, and that a missing row,
password or secret is none that there can be).

Only model-checked:

- the liveness properties (`EveryCallEnds`, `ReleasesCompanyFile`, `IdleQBIsClosed` and those of
  `QBDialogs`): fairness and `ENABLED` are out of the prover's reach;
- the assumptions of `MCQBDialogs`, `MCQBKeys` and `MCQBPages` that compare operators with
  their source written another way. The readers of `QBReports` are recursive, as the rows of
  a report are, so what they do with every document would take an induction that the
  installed provers cannot do; that `QBAccess` agrees with the docs of `permissions.py` is a
  matter of the finite tables there, which TLC goes through completely; IPv6 addresses that
  are no mapped IPv4 ones are checked at the boundaries of their two networks;
- `BlockedByOwnDialog`, `NamesUnrecognized`, `WindowsOnScreenAreSpared`, `ItemsArrive` and
  `OrderIsKept`, which are false (section 5).

Every safety invariant and action property that a passing run checks is a theorem, one of
them (`SweepEndsWell`) under the hypotheses above, which are those of its run.

## 5. Findings

1. `open_claim`: the idle monitor compares `idle_seconds` before it waits for the lock
   and not again after, so it kills the worker, and with `auto_close_qb` closes the
   QuickBooks, that a call has just used; the README says that calls inside
   `stays_warm_for_seconds` keep QuickBooks open. The same gap lets it close a QuickBooks
   that `launch_qb` has just started and that has no window yet.
2. `sweep_claim`: two sweeps prune one entry, and the second `del` is a `KeyError`; in a
   call it escapes from `execute`, so the request fails with an internal error
   instead of being retried.
3. `admin_claim`: `init_db` takes every key of the `admin` preset for one of an old default
   and makes it read-only, at every start of the server, so that the key of the setup
   wizard and those of `--preset admin` lose their rights at the next start.
4. `params_claim`: a report asked for with `to_date` and no `from_date`, or with a
   `date_macro` and dates, runs without them; a list query that continues an iterator
   runs without the filters sent with it. The README says that no parameter is
   silently ignored.

Seen while modelling, and not the subject of a run. Five of these are stated in the modules,
and TLC finds a counterexample to each when it is given as an invariant or property:

- `BlockedByOwnDialog` (`QBSession`): `_blocking_dialogs` is shared by all calls and never
  cleared, so a call that met no dialog is told that QuickBooks waits on one.
- `NamesUnrecognized` (`QBDialogs`): the titles a blocked call reports are read after its
  sweep from `open_dialogs`, which another sweep may have replaced by an older scan.
- `WindowsOnScreenAreSpared` (`QBProcess`): README.md:241-245 and the comment at `session.py:313`
  say that a QuickBooks with windows on screen is left alone. A look that fails to
  enumerate them (`dialogs.py:548`) or to name their process (`dialogs.py:412-419`) counts as
  one that found none, and QuickBooks is force-closed under whoever works in it.
- `ItemsArrive` (`QBRecords`): a number, a boolean or null in a list leaves its element empty
  (`xml_builder.py:78-82, 89-90`), though a number alone is written, and the update is answered
  as if all was well.
- `OrderIsKept` (`QBRecords`): a record that is read and sent back has its repeated
  elements grouped by tag (`xml_parser.py:74-88`).

Of the dialogs: sweeps that overlap warn twice about one dialog, and one that a person has
dismissed and that comes back is warned about at once (`dialogs.py:803` takes its entry
out); a dialog that a rule matches but that did not close is not among the titles
`_sweep_dialogs` returns; a window that closed by itself before the click is booked as one
that refused; `QBB_DIALOG_WATCH=false` stops the polling but not the sweeps of blocked
calls, which still click. The docstring of `load_rules` (`dialogs.py:293`) disables a
built-in rule by `{"name": ..., "enabled": false}`, which `rules_from_data` rejects for its
missing fields, and with it the whole file. A comment says of the dialogs of `NEEDS_HUMAN`
"These are never clicked" (`dialogs.py:230`): but a sweep tries rules first, so a broad rule
of the file clicks them, and so does the built-in one for updates where its phrase, which is
not anchored, is found in a title beside one of theirs (`BuiltinsLeavePeopleTheirs`,
`PeopleKeepTheirs`). A rules file that is not UTF-8 raises an error that neither
`load_rules` nor `from_settings` catches, and ends the start of the server.

Of session and process: a call that is past the `_running` test when `stop` kills the
worker starts another one, which nothing stops (an orderly shutdown lets the calls end
first). The docstring of
`_idle_monitor` (`session.py:275-279`) says that it "Sends a 'disconnect' command to the worker
(ending the QB session but keeping the subprocess alive for fast reconnect)"; it sends none
and kills the worker, as the comment at `session.py:294` and README.md:411 have it, so the
next call starts another one. `ReleasesCompanyFile` states the release of the code, and is
what its mutant refutes, in which the subprocess stays. `auto_close_qb` has one try, since
`_last_activity` is then 0: a window or a failed `Stop-Process` leave QuickBooks open until
the next call has come and gone.
`Stop-Process` goes by the name `QBW32` and `is_qb_running` by any name with `qbw32` in it, as
that of the default executable, `QBW32Pro.exe`. The warm-up route says
`started_quickbooks` also when somebody else has started it meanwhile, and a background
warm-up is not cancelled at shutdown. A stop of the Windows service that comes before
`self.server` is assigned (`svc.py:53`) is forgotten.

Of the records: an id in the body of an update replaces that of the path (`crud.py:310`;
`NoLostUpdate` holds all the same, as the EditSequence is of one record only); `null` and
`[]` leave a field as it is, and the answer says that all is well; `true` is written `True`;
a delete names no version; a request QuickBooks refuses is answered 502, as if
QuickBooks had failed.

Of the keys: `permissions.py` calls `{"*": ["admin"]}` the default and `api_keys.py:41` "full
admin", but it is read-only.

Of the lists: `modified_after` with `from_date` or `to_date` on a transaction sends both
`ModifiedDateRangeFilter` and `TxnDateRangeFilter` (`crud.py:183-206`), which are alternatives in
qbXML, so QuickBooks refuses what the route accepts (`FitsUnlessBothDates` has just this
exception). README.md:54 and `crud.py:64` say that `active` is ignored for transactions, but the
route answers 400 to it (`crud.py:104`), as `NotApplicable` has it and as README.md's "no
parameter is silently ignored" would have it.

Of the reports: CSV and PDF take a value for an amount of money if it looks like a number,
whatever its column: an invoice number 1042 is printed as $1,042.00. An unknown report is
answered 200 with `"ok": false`.

Of the settings: README.md:354-355 gives 120 seconds as the default of
`QBB_IDLE_TIMEOUT` and false as that of `QBB_AUTO_LAUNCH_QB`, which are the defaults of
`config.py`; but `init_db` writes 600 and true into the table before the table is read, so
the defaults of `config.py` are never reached for a setting that is seeded, and a
bridge with no configuration runs with 600 and true. Two people who log in first at the
same time are both let in, and the password of the later one stays; somebody else
may be let in with a password that is executed and not committed, which a crash
undoes. A save that crashes, fails or crosses another leaves a mixture of the two,
each field of it asked for by somebody.

## 6. What is left

*Planned*: that the outcomes of `QBRecords` are those `QBService` allows, as a refinement
with each try of an intent as a call, where so far the text of section 2 says so.
`late` and `effects` count the tries of an intent together, so this needs a history of
which of them was applied.

*Not modelled*, and why:

- the Windows service, the start script and the installer (`service/`, `start_server.py`,
  `install_task.py`): each runs one thing after another and keeps nothing; what they run is
  modelled;
- the questions of the setup wizard and the printing of the command line: only their
  statements on the tables matter to anybody else;
- the enumeration of windows through Win32, `is_elevated` and the history of dialog events:
  what Windows does is not in the source, and the history is only shown;
- the entity table (`qb/entities.py`) and the table of reports: data, of which each check
  takes the columns it depends on as constants;
- fonts, colours and widths of the PDF, wording of logs and pages: layout;
- the error handlers of `main.py`, which map an exception to a status: the models speak of the
  exceptions themselves.
