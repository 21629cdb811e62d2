------------------------------ MODULE QBSettings ------------------------------
(***************************************************************************)
(* The settings of the bridge (database.py, settings_store.py, config.py): *)
(* the server that reads them when it starts (main.py), the pages of the   *)
(* GUI that change them (gui/router.py), the setup wizard in a process of  *)
(* its own (setup.py), and the password and the secret of the GUI, which   *)
(* are in the same table.                                                  *)
(*                                                                         *)
(* Statements and commits of the connection that all coroutines share are  *)
(* actions, as in QBKeys.  The start of the server has two commits, and is *)
(* two actions because nobody is served before its end.                    *)
(***************************************************************************)
EXTENDS Sequences, Naturals

CONSTANTS Fields,        \* the settings that apply_db_settings knows
          Page,          \* those of the Connection page, in its order
          Kind,          \* by field: "bool", "int" or "text"
          Seed, Default, \* by field: DEFAULT_SETTINGS, and the default of config.py
          Texts,         \* what the table may hold
          Numerals,      \* the texts that int() reads
          Environments,  \* by field: the value given explicitly, or NotGiven
          Forms,         \* what people save: by field of the page a text
          Saves,         \* requests that save the page
          People,        \* who may log in
          Passwords, Secrets,
          NotGiven, NoPassword, NoSecret

OnPage == {Page[i] : i \in DOMAIN Page}
Last   == 2 * Len(Page)

ASSUME SettingsAssumption ==
  /\ Page \in Seq(Fields)
  /\ Seed \in [Fields -> Texts] /\ NotGiven \notin Texts
  /\ Forms \subseteq [OnPage -> Texts]
  /\ NoPassword \notin Passwords /\ NoSecret \notin Secrets

VARIABLES
  phase,    \* the server: "down", "seeded", "serving"
  disk,     \* the table of settings in the file
  draft,    \* what the server's connection sees of it
  dirty,    \* the connection has a transaction open
  given,    \* the environment of the server
  running,  \* app.state.settings
  secret,   \* _SESSION_SECRET of gui/router.py
  step,     \* where each person's login is
  pw,       \* the password each person has entered
  cookie,   \* the secret that signed the cookie each person holds
  save,     \* where each save is
  at,       \* how many of its statements and commits have been executed
  form,     \* what it is to save
  was,      \* history: the passwords stored since each person's entry
  founded,  \* history: somebody was let in who had set the first password
  beside,   \* history: the saves each save has met
  may       \* history: by field, what people may find there

server  == <<phase, given, running, secret>>
table   == <<disk, draft, dirty>>
logins  == <<step, pw, cookie, was, founded>>
saves   == <<save, at, form, beside, may>>
vars    == <<server, table, logins, saves>>

Stored == [text     : [Fields -> Texts \cup {NotGiven}],
           password : Passwords \cup {NoPassword},
           secret   : Secrets \cup {NoSecret}]

TypeOK ==
  /\ phase \in {"down", "seeded", "serving"} /\ dirty \in BOOLEAN
  /\ disk \in Stored /\ draft \in Stored
  /\ secret \in Secrets \cup {NoSecret}
  /\ phase = "serving" => secret \in Secrets
  /\ given \in Environments
  /\ step \in [People -> {"out", "reading", "setting", "committing", "in"}]
  /\ pw \in [People -> Passwords \cup {NoPassword}]
  /\ cookie \in [People -> Secrets \cup {NoSecret}]
  /\ save \in [Saves -> {"new", "saving", "saved", "lost"}]
  /\ at \in [Saves -> 0..Last]
  /\ form \in [Saves -> Forms \cup {Seed}]
  /\ \A s \in Saves : save[s] # "new" => form[s] \in Forms
  /\ was \in [People -> SUBSET (Passwords \cup {NoPassword})]
  /\ founded \in BOOLEAN
  /\ beside \in [Saves -> SUBSET Saves]
  /\ may \in [Fields -> SUBSET (Texts \cup {NotGiven})]

Init ==
  /\ phase = "down" /\ dirty = FALSE
  /\ disk = [text |-> [f \in Fields |-> NotGiven], password |-> NoPassword, secret |-> NoSecret]
  /\ draft = disk
  /\ given \in Environments
  /\ running = Default
  /\ secret = NoSecret
  /\ step = [p \in People |-> "out"]
  /\ pw = [p \in People |-> NoPassword]
  /\ cookie = [p \in People |-> NoSecret]
  /\ save = [s \in Saves |-> "new"]
  /\ at = [s \in Saves |-> 0]
  /\ form = [s \in Saves |-> Seed]
  /\ was = [p \in People |-> {}]
  /\ founded = FALSE
  /\ beside = [s \in Saves |-> {}]
  /\ may = [f \in Fields |-> {NotGiven, Seed[f]}]

-----------------------------------------------------------------------------
(* The table *)

Executes(contents) == draft' = contents /\ dirty' = TRUE /\ UNCHANGED disk

Commits == disk' = draft /\ dirty' = FALSE /\ UNCHANGED draft

(* Another process, which waits while the server has a transaction open.   *)
Externally(contents) == ~dirty /\ disk' = contents /\ draft' = contents /\ UNCHANGED dirty

(* Mutants: defaults replace what is stored; a password does not.  *)
BugSeeded(db) == [db EXCEPT !.text = Seed]
BugWithPassword(db, w) == IF db.password = NoPassword THEN [db EXCEPT !.password = w] ELSE db

Seeded(db) ==
  [db EXCEPT !.text = [f \in Fields |-> IF db.text[f] = NotGiven THEN Seed[f] ELSE db.text[f]]]

WithText(db, f, t)  == [db EXCEPT !.text[f] = t]
WithPassword(db, w) == [db EXCEPT !.password = w]
WithSecret(db, s)   == [db EXCEPT !.secret = s]

-----------------------------------------------------------------------------
(* The start of the server *)

Unusable == "unusable"

True  == {"true", "1", "yes", "on"}
False == {"false", "0", "no", "off"}

Coerced(f, t) ==
  CASE Kind[f] = "bool" /\ t \in True  -> "true"
    [] Kind[f] = "bool" /\ t \in False -> "false"
    [] Kind[f] = "int" /\ t \in Numerals -> t
    [] Kind[f] = "text" -> t
    [] OTHER -> Unusable

Unset(f) == IF given[f] = NotGiven THEN Default[f] ELSE given[f]

(* Mutant: what is stored beats what is given. *)
BugApplied(f) ==
  LET t == draft.text[f]
  IN IF t = "" \/ Coerced(f, t) = Unusable THEN Unset(f) ELSE Coerced(f, t)

Applied(f) ==
  LET t == draft.text[f]
  IN IF t = "" \/ given[f] # NotGiven \/ Coerced(f, t) = Unusable
       THEN Unset(f)
       ELSE Coerced(f, t)

Starts(e) ==
  /\ phase = "down"
  /\ phase' = "seeded" /\ given' = e
  /\ disk' = Seeded(disk) /\ draft' = Seeded(disk)
  /\ UNCHANGED <<dirty, running, secret, logins, saves>>

(* Mutants: the secret is new each time; a new one is used only from the    *)
(* next start on.                                                          *)
BugKeepsSecret(s) ==
  secret' = s /\ disk' = WithSecret(disk, s) /\ draft' = disk'

BugUsesSecret(s) ==
  /\ secret' = draft.secret
  /\ disk' = IF draft.secret = NoSecret THEN WithSecret(disk, s) ELSE disk
  /\ draft' = disk'

(* One that was stored, or a new one that is stored before it is used. *)
KeepsSecret(s) ==
  /\ secret' = IF draft.secret = NoSecret THEN s ELSE draft.secret
  /\ disk' = WithSecret(disk, secret') /\ draft' = disk'

Configures ==
  /\ phase = "seeded"
  /\ phase' = "serving"
  /\ running' = [f \in Fields |-> Applied(f)]
  /\ \E s \in Secrets : KeepsSecret(s)
  /\ UNCHANGED <<dirty, given, logins, saves>>

Ends ==
  /\ phase # "down"
  /\ phase' = "down"
  /\ draft' = disk /\ dirty' = FALSE
  /\ running' = Default /\ secret' = NoSecret
  /\ step' = [p \in People |-> IF step[p] = "in" THEN "in" ELSE "out"]
  /\ pw' = [p \in People |-> IF step[p] = "in" THEN pw[p] ELSE NoPassword]
  /\ was' = [p \in People |-> IF step[p] = "in" THEN was[p] ELSE {}]
  /\ save' = [s \in Saves |-> IF save[s] = "saving" THEN "lost" ELSE save[s]]
  /\ at' = [s \in Saves |-> 0]
  /\ UNCHANGED <<disk, given, cookie, founded, form, beside, may>>

-----------------------------------------------------------------------------
(* Logging in *)

Goes(p, to) == step' = [step EXCEPT ![p] = to]

LetIn(p) == Goes(p, "in") /\ cookie' = [cookie EXCEPT ![p] = secret] /\ UNCHANGED <<pw, was>>

Leaves(p) ==
  /\ Goes(p, "out")
  /\ pw' = [pw EXCEPT ![p] = NoPassword] /\ was' = [was EXCEPT ![p] = {}]

Enters(p, w) ==
  /\ step[p] = "out"
  /\ Goes(p, "reading")
  /\ pw' = [pw EXCEPT ![p] = w]
  /\ was' = [was EXCEPT ![p] = {draft.password}]
  /\ UNCHANGED <<server, table, cookie, founded, saves>>

ReadsHash(p) ==
  /\ step[p] = "reading"
  /\ \/ draft.password = NoPassword /\ Goes(p, "setting") /\ UNCHANGED <<pw, cookie, was>>
     \/ draft.password = pw[p] /\ LetIn(p)
     \/ draft.password \notin {NoPassword, pw[p]} /\ Leaves(p) /\ UNCHANGED cookie
  /\ UNCHANGED <<server, table, founded, saves>>

PasswordIs(w) ==
  was' = [q \in People |-> IF step[q] \in {"out", "in"} THEN was[q] ELSE was[q] \cup {w}]

(* The first login sets the password, and goes on to compare with its own. *)
SetsPassword(p) ==
  /\ step[p] = "setting"
  /\ Executes(WithPassword(draft, pw[p]))
  /\ PasswordIs(draft'.password)
  /\ Goes(p, "committing")
  /\ UNCHANGED <<server, pw, cookie, founded, saves>>

(* Mutant: without the commit. *)
BugFirstLogsIn(p) ==
  /\ step[p] = "committing"
  /\ LetIn(p)
  /\ founded' = TRUE
  /\ UNCHANGED <<server, table, saves>>

FirstLogsIn(p) ==
  /\ step[p] = "committing"
  /\ Commits
  /\ LetIn(p)
  /\ founded' = TRUE
  /\ UNCHANGED <<server, saves>>

LoginFails(p) ==
  /\ step[p] \in {"reading", "setting", "committing"}
  /\ Leaves(p)
  /\ UNCHANGED <<server, table, cookie, founded, saves>>

LogsOut(p) ==
  /\ step[p] = "in"
  /\ Leaves(p)
  /\ cookie' = [cookie EXCEPT ![p] = NoSecret]
  /\ UNCHANGED <<server, table, founded, saves>>

-----------------------------------------------------------------------------
(* Saving the Connection page: a statement and a commit for each field *)

Saving == {s \in Saves : save[s] = "saving"}

Submits(s, texts) ==
  /\ save[s] = "new"
  /\ \E p \in People : cookie[p] = secret
  /\ save' = [save EXCEPT ![s] = "saving"]
  /\ form' = [form EXCEPT ![s] = texts]
  /\ beside' = [t \in Saves |-> IF t = s THEN Saving
                                ELSE IF t \in Saving THEN beside[t] \cup {s} ELSE beside[t]]
  /\ may' = [f \in Fields |-> IF f \in OnPage THEN may[f] \cup {texts[f]} ELSE may[f]]
  /\ UNCHANGED <<server, table, logins, at>>

Field(s) == Page[(at[s] \div 2) + 1]

Counts(s) == at' = [at EXCEPT ![s] = @ + 1]

Sets(s) ==
  /\ save[s] = "saving" /\ at[s] < Last /\ at[s] % 2 = 0
  /\ Executes(WithText(draft, Field(s), form[s][Field(s)]))
  /\ Counts(s)
  /\ UNCHANGED <<server, logins, save, form, beside, may>>

CommitsSet(s) ==
  /\ save[s] = "saving" /\ at[s] % 2 = 1
  /\ Commits
  /\ Counts(s)
  /\ UNCHANGED <<server, logins, save, form, beside, may>>

(* What a save has for a field, or others that it met. *)
Asked(s, f) == {form[t][f] : t \in {s} \cup beside[s]}

(* The answer: from now on only what was saved, or by others meanwhile.     *)
Redirects(s) ==
  /\ save[s] = "saving" /\ at[s] = Last
  /\ save' = [save EXCEPT ![s] = "saved"] /\ at' = [at EXCEPT ![s] = 0]
  /\ may' = [f \in Fields |-> IF f \in OnPage THEN Asked(s, f) ELSE may[f]]
  /\ UNCHANGED <<server, table, logins, form, beside>>

(* A statement or a commit fails, and nothing is rolled back. *)
SaveFails(s) ==
  /\ save[s] = "saving" /\ at[s] < Last
  /\ save' = [save EXCEPT ![s] = "lost"] /\ at' = [at EXCEPT ![s] = 0]
  /\ UNCHANGED <<server, table, logins, form, beside, may>>

(* Requests about keys and their log, on the same connection *)
OthersExecute == Executes(draft) /\ UNCHANGED <<server, logins, saves>>
OthersCommit  == Commits /\ UNCHANGED <<server, logins, saves>>

-----------------------------------------------------------------------------
(* The wizard *)

WizardSeeds == Externally(Seeded(disk)) /\ UNCHANGED <<server, logins, saves>>

WizardSetsPassword(w) ==
  /\ disk = Seeded(disk)
  /\ Externally(WithPassword(disk, w))
  /\ PasswordIs(w)
  /\ UNCHANGED <<server, step, pw, cookie, founded, saves>>

-----------------------------------------------------------------------------
Login(p) == \/ \E w \in Passwords : Enters(p, w)
            \/ ReadsHash(p) \/ SetsPassword(p) \/ FirstLogsIn(p) \/ LoginFails(p) \/ LogsOut(p)

Save(s) == \/ \E texts \in Forms : Submits(s, texts)
           \/ Sets(s) \/ CommitsSet(s) \/ Redirects(s) \/ SaveFails(s)

Serves == phase = "serving" /\ \/ \E p \in People : Login(p)
                               \/ \E s \in Saves : Save(s)
                               \/ OthersExecute \/ OthersCommit

Wizard == WizardSeeds \/ \E w \in Passwords : WizardSetsPassword(w)

Next == \/ \E e \in Environments : Starts(e)
        \/ Configures \/ Ends \/ Serves \/ Wizard

Spec == Init /\ [][Next]_vars

-----------------------------------------------------------------------------
(* What is in the file is what people may expect there: the last save that *)
(* was answered, or one beside it or after it, through failures of single  *)
(* statements, commits of others, crashes and restarts (database.py,       *)
(* gui/router.py).                                                         *)
SavedIsOnDisk == \A f \in Fields : disk.text[f] \in may[f]

(* "Explicit beats stored beats default" (settings_store.py), for what      *)
(* people saved before the start: what is unusable is as if not stored.     *)
Wanted(f, t) ==
  IF given[f] # NotGiven THEN given[f]
  ELSE IF t = "" \/ Coerced(f, t) = Unusable THEN Default[f]
  ELSE Coerced(f, t)

RunsAsSaved ==
  [][phase = "seeded" /\ phase' = "serving"
       => \A f \in Fields : running'[f] \in {Wanted(f, t) : t \in may[f] \ {NotGiven}}]_vars

(* Who is logged in stays so when the server is restarted, however it ended *)
(* (main.py:93).                                                           *)
CookiesStayValid == phase = "serving" => \A p \in People : cookie[p] \in {NoSecret, secret}

(* Nobody is let in with a password that was not the stored one at some     *)
(* time since it was entered, even when two set the first.                 *)
LetInWithPassword == \A p \in People : step[p] = "in" => pw[p] \in was[p]

(* Once somebody has been let in with the first password, there is one for  *)
(* good.  (Of others the code does not know: they may be let in with a     *)
(* password that is not committed yet, and lost when the server ends.)     *)
FirstLoginIsOver == founded => disk.password # NoPassword
===============================================================================
