-------------------------------- MODULE QBKeys --------------------------------
(***************************************************************************)
(* The API keys of the bridge: the requests that present them              *)
(* (api/deps.py, auth/api_keys.py, api/middleware.py), the administrators  *)
(* who create and revoke them in the GUI (gui/router.py), the command line *)
(* and the setup wizard that do so from another process (cli.py, setup.py),*)
(* and the start of the server, which rewrites some (init_db).             *)
(*                                                                         *)
(* All coroutines of the server share one SQLite connection.  Every        *)
(* statement and every commit is awaited, so each is an action: a commit   *)
(* makes permanent what any of them has executed, and nothing is ever      *)
(* rolled back but by the end of the process.                              *)
(***************************************************************************)
EXTENDS FiniteSets

CONSTANTS Keys,    \* API keys, and the rows of their table
          Calls,   \* requests to /api/v1
          Admins,  \* requests to the pages of the GUI that change keys
          KeyOf,   \* the key each call presents
          Op,      \* the operation each call asks for
          Ops,
          Perms,   \* what the permissions column holds
          Admin,   \* {"*":["admin"]}
          Read,    \* {"*":["read"]}
          Grants   \* check_permission: the operations a permission allows

ASSUME KeyAssumption ==
  /\ KeyOf \in [Calls -> Keys] /\ Op \in [Calls -> Ops]
  /\ Calls \cap Admins = {}
  /\ {Admin, Read} \subseteq Perms
  /\ Grants \in [Perms -> SUBSET Ops]
  /\ Grants[Read] \subseteq Grants[Admin]

VARIABLES
  up,       \* the server runs
  disk,     \* the database file
  draft,    \* what the server's connection sees
  dirty,    \* the connection has a transaction open
  pc,       \* where each request is
  seen,     \* the permissions each call was validated with
  target,   \* the key each administrator's request is about
  shown,    \* history: keys whose plaintext somebody was given
  gone,     \* history: keys whose revocation was acknowledged
  chosen,   \* history: the permissions last asked for, by key
  late,     \* history: calls that began when their key was gone
  allowed   \* history: operations that permissions chosen for its key
            \* have granted since each call began

requests == <<pc, seen, target>>
history  == <<shown, gone, chosen, late, allowed>>
vars     == <<up, disk, draft, dirty, requests, history>>

-----------------------------------------------------------------------------
Contents == [status : [Keys -> {"absent", "active", "revoked"}],
             perm   : [Keys -> Perms],
             log    : SUBSET Calls]

CallSteps  == {"new", "looking", "touching", "committing", "serving", "logging", "logged",
               "answered", "unlogged", "lost"}
AdminSteps == {"new", "creating", "revoking", "acknowledged", "lost"}

TypeOK ==
  /\ up \in BOOLEAN /\ dirty \in BOOLEAN
  /\ disk \in Contents /\ draft \in Contents
  /\ pc \in [Calls \cup Admins -> CallSteps \cup AdminSteps]
  /\ seen \in [Calls -> Perms]
  /\ target \in [Admins -> Keys]
  /\ shown \subseteq Keys /\ gone \subseteq Keys
  /\ chosen \in [Keys -> Perms]
  /\ late \subseteq Calls
  /\ allowed \in [Calls -> SUBSET Ops]

Init ==
  /\ up = FALSE
  /\ disk = [status |-> [k \in Keys |-> "absent"], perm |-> [k \in Keys |-> Read], log |-> {}]
  /\ draft = disk
  /\ dirty = FALSE
  /\ pc = [t \in Calls \cup Admins |-> "new"]
  /\ seen = [c \in Calls |-> Read]
  /\ target \in [Admins -> Keys]
  /\ shown = {} /\ gone = {}
  /\ chosen = [k \in Keys |-> Read]
  /\ late = {}
  /\ allowed = [c \in Calls |-> {}]

-----------------------------------------------------------------------------
(* The connection *)

Goes(t, to) == pc' = [pc EXCEPT ![t] = to]

Executes(contents) == draft' = contents /\ dirty' = TRUE /\ UNCHANGED disk

Commits == disk' = draft /\ dirty' = FALSE /\ UNCHANGED draft

Inserted(db, k, p) == [db EXCEPT !.status[k] = "active", !.perm[k] = p]
BugRevoked(db, k)  == [db EXCEPT !.status[k] = "disabled"]  \* mutant: no such status
Revoked(db, k)     == [db EXCEPT !.status[k] = "revoked"]
Permitted(db, k, p) == [db EXCEPT !.perm[k] = p]
Logged(db, c)      == [db EXCEPT !.log = @ \cup {c}]

(* init_db: whoever has the permissions of an administrator is taken for a *)
(* key of the time when these were the default.                            *)
Migrated(db) ==
  [db EXCEPT !.perm = [k \in Keys |-> IF db.perm[k] = Admin THEN Read ELSE db.perm[k]]]

Starts ==
  /\ ~up
  /\ up' = TRUE
  /\ disk' = Migrated(disk) /\ draft' = Migrated(disk)
  /\ UNCHANGED <<dirty, requests, history>>

(* The process ends, orderly or not: what was not committed is gone. *)
InProgress(t) == pc[t] \notin {"new", "answered", "unlogged", "acknowledged", "lost"}

Ends ==
  /\ up
  /\ up' = FALSE
  /\ draft' = disk /\ dirty' = FALSE
  /\ pc' = [t \in DOMAIN pc |-> IF InProgress(t) THEN "lost" ELSE pc[t]]
  /\ UNCHANGED <<disk, seen, target, history>>

-----------------------------------------------------------------------------
(* A call: require_api_key with validate_key, require_permission, the      *)
(* route, and the line in the audit log.                                   *)

Arrives(c) ==
  /\ pc[c] = "new"
  /\ Goes(c, "looking")
  /\ late' = IF KeyOf[c] \in gone THEN late \cup {c} ELSE late
  /\ allowed' = [allowed EXCEPT ![c] = Grants[chosen[KeyOf[c]]]]
  /\ UNCHANGED <<up, disk, draft, dirty, seen, target, shown, gone, chosen>>

(* Mutants: a row is enough; the permission is not looked at. *)
BugValid(c)     == draft.status[KeyOf[c]] # "absent"
BugIsAllowed(c) == TRUE

Valid(c) == draft.status[KeyOf[c]] = "active"

LooksUp(c) ==
  /\ pc[c] = "looking"
  /\ IF Valid(c)
       THEN Goes(c, "touching") /\ seen' = [seen EXCEPT ![c] = draft.perm[KeyOf[c]]]
       ELSE Goes(c, "logging") /\ UNCHANGED seen        \* 401
  /\ UNCHANGED <<up, disk, draft, dirty, target, history>>

(* last_used_at, which nothing else depends on *)
Touches(c) ==
  /\ pc[c] = "touching"
  /\ Executes(draft)
  /\ Goes(c, "committing")
  /\ UNCHANGED <<up, seen, target, history>>

IsAllowed(c) == Op[c] \in Grants[seen[c]]

Validates(c) ==
  /\ pc[c] = "committing"
  /\ Commits
  /\ Goes(c, IF IsAllowed(c) THEN "serving" ELSE "logging")   \* 403
  /\ UNCHANGED <<up, seen, target, history>>

Serves(c) ==
  /\ pc[c] = "serving"
  /\ Goes(c, "logging")
  /\ UNCHANGED <<up, disk, draft, dirty, seen, target, history>>

Logs(c) ==
  /\ pc[c] = "logging"
  /\ Executes(Logged(draft, c))
  /\ Goes(c, "logged")
  /\ UNCHANGED <<up, seen, target, history>>

(* Mutant: the line is not committed. *)
BugAnswers(c) ==
  /\ pc[c] = "logged"
  /\ Goes(c, "answered")
  /\ UNCHANGED <<up, disk, draft, dirty, seen, target, history>>

Answers(c) ==
  /\ pc[c] = "logged"
  /\ Commits
  /\ Goes(c, "answered")
  /\ UNCHANGED <<up, seen, target, history>>

(* A statement or a commit fails, or the route raises what no handler      *)
(* inside the middleware turns into an answer: the client gets an internal *)
(* error or, when it is the log that cannot be written, its answer, and    *)
(* nothing is logged.  A failed commit leaves the transaction open.        *)
Fails(c) ==
  /\ pc[c] \in {"looking", "touching", "committing", "serving", "logging", "logged"}
  /\ Goes(c, "unlogged")
  /\ UNCHANGED <<up, disk, draft, dirty, seen, target, history>>

-----------------------------------------------------------------------------
(* The pages of the GUI *)

Absent(k) == draft.status[k] = "absent"

Choose(k, p) ==
  /\ chosen' = [chosen EXCEPT ![k] = p]
  /\ allowed' = [c \in Calls |-> IF KeyOf[c] = k THEN allowed[c] \cup Grants[p] ELSE allowed[c]]

Creates(a, k) ==
  /\ pc[a] = "new"
  /\ Absent(k)
  /\ Executes(Inserted(draft, k, Read))
  /\ target' = [target EXCEPT ![a] = k]
  /\ Goes(a, "creating")
  /\ Choose(k, Read)
  /\ UNCHANGED <<up, seen, shown, gone, late>>

ShowsKey(a) ==
  /\ pc[a] = "creating"
  /\ Commits
  /\ Goes(a, "acknowledged")
  /\ shown' = shown \cup {target[a]}
  /\ UNCHANGED <<up, seen, target, gone, chosen, late, allowed>>

Revokes(a, k) ==
  /\ pc[a] = "new"
  /\ ~Absent(k)
  /\ Executes(Revoked(draft, k))
  /\ target' = [target EXCEPT ![a] = k]
  /\ Goes(a, "revoking")
  /\ UNCHANGED <<up, seen, history>>

(* Mutant: the revocation is not committed. *)
BugAcknowledges(a) ==
  /\ pc[a] = "revoking"
  /\ Goes(a, "acknowledged")
  /\ gone' = gone \cup {target[a]}
  /\ UNCHANGED <<up, disk, draft, dirty, seen, target, shown, chosen, late, allowed>>

Acknowledges(a) ==
  /\ pc[a] = "revoking"
  /\ Commits
  /\ Goes(a, "acknowledged")
  /\ gone' = gone \cup {target[a]}
  /\ UNCHANGED <<up, seen, target, shown, chosen, late, allowed>>

CommitFails(a) ==
  /\ pc[a] \in {"creating", "revoking"}
  /\ Goes(a, "lost")
  /\ UNCHANGED <<up, disk, draft, dirty, seen, target, history>>

-----------------------------------------------------------------------------
(* The command line and the wizard, in a process of their own: a statement *)
(* and its commit, for which SQLite has them wait while the server has a   *)
(* transaction open.                                                       *)

Externally(contents) ==
  /\ ~dirty
  /\ disk' = contents /\ draft' = contents
  /\ UNCHANGED <<up, dirty, requests>>

CliCreates(k, p) ==
  /\ Absent(k)
  /\ Externally(Inserted(disk, k, p))
  /\ shown' = shown \cup {k}
  /\ Choose(k, p)
  /\ UNCHANGED <<gone, late>>

CliSetsPermissions(k, p) ==
  /\ ~Absent(k)
  /\ Externally(Permitted(disk, k, p))
  /\ Choose(k, p)
  /\ UNCHANGED <<shown, gone, late>>

CliRevokes(k) ==
  /\ ~Absent(k)
  /\ Externally(Revoked(disk, k))
  /\ gone' = gone \cup {k}
  /\ UNCHANGED <<shown, chosen, late, allowed>>

-----------------------------------------------------------------------------
Call(c) == \/ Arrives(c) \/ LooksUp(c) \/ Touches(c) \/ Validates(c) \/ Serves(c)
           \/ Logs(c) \/ Answers(c) \/ Fails(c)

Administer(a) == \/ \E k \in Keys : Creates(a, k) \/ Revokes(a, k)
                 \/ ShowsKey(a) \/ Acknowledges(a) \/ CommitFails(a)

Server == up /\ \/ \E c \in Calls : Call(c)
                \/ \E a \in Admins : Administer(a)

Cli(k) == CliRevokes(k) \/ \E p \in Perms : CliCreates(k, p) \/ CliSetsPermissions(k, p)

Next == \/ Starts \/ Ends \/ Server
        \/ \E k \in Keys : Cli(k)

Spec == Init /\ [][Next]_vars

-----------------------------------------------------------------------------
(* What somebody was told is in the file: a key that was shown works after *)
(* a crash, and a revocation that was acknowledged stays.                  *)
ToldIsOnDisk == /\ \A k \in shown : disk.status[k] # "absent"
                /\ \A k \in gone : disk.status[k] = "revoked"

(* A request that begins after the revocation of its key was acknowledged, *)
(* by the GUI or by the command line, before or after a restart, is not    *)
(* served.                                                                 *)
RevokedKeyRefused == \A c \in Calls : pc[c] = "serving" => c \notin late

(* A request is served only if somebody gave its key, before the request   *)
(* or in the course of it, permissions that allow it.                      *)
ServedIsAllowed == \A c \in Calls : pc[c] = "serving" => Op[c] \in allowed[c]

(* An answer that is neither an internal error nor of a time when the log  *)
(* could not be written is in the audit log, for good.                     *)
AnsweredIsLogged == \A c \in Calls : pc[c] = "answered" => c \in disk.log

-----------------------------------------------------------------------------
(* Why it holds: the inductive invariant of QBKeysProofs. *)

(* No key disappears, no revocation is undone and no line of the log is    *)
(* lost between one table and the next.                                    *)
Kept(old, new) ==
  /\ \A k \in Keys : /\ old.status[k] # "absent" => new.status[k] # "absent"
                     /\ old.status[k] = "revoked" => new.status[k] = "revoked"
  /\ old.log \subseteq new.log

ConnectionInv == /\ ~dirty => draft = disk
                 /\ ~up => ~dirty
                 /\ Kept(disk, draft)

ToldInv ==
  /\ ToldIsOnDisk
  /\ \A a \in Admins : /\ pc[a] = "creating" => draft.status[target[a]] # "absent"
                       /\ pc[a] = "revoking" => draft.status[target[a]] = "revoked"

LateInv ==
  \A c \in Calls : /\ c \in late => KeyOf[c] \in gone
                   /\ pc[c] \in {"touching", "committing", "serving"} => c \notin late

LogInv == \A c \in Calls : pc[c] = "logged" => c \in draft.log

(* No key grants more than was chosen for it (it may grant less: the       *)
(* server takes from administrators), which no call finds too late.        *)
Modest(db, want) ==
  \A k \in Keys : db.status[k] # "absent" => Grants[db.perm[k]] \subseteq Grants[want[k]]

GrantInv ==
  /\ Modest(disk, chosen) /\ Modest(draft, chosen)
  /\ \A c \in Calls :
       /\ pc[c] # "new" => Grants[chosen[KeyOf[c]]] \subseteq allowed[c]
       /\ pc[c] \in {"touching", "committing", "serving"} => Grants[seen[c]] \subseteq allowed[c]

IInv == /\ ConnectionInv /\ ToldInv /\ LateInv /\ GrantInv
        /\ LogInv /\ AnsweredIsLogged /\ ServedIsAllowed

-----------------------------------------------------------------------------
(* What the documentation says, and the code does not do *)

(* README: a key of preset "admin" may do everything.  A running server    *)
(* holds the permissions somebody chose.                                   *)
PermissionsAsChosen == up => \A k \in shown : disk.perm[k] = chosen[k]
===============================================================================
