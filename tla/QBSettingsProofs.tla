--------------------------- MODULE QBSettingsProofs ---------------------------
(***************************************************************************)
(* Proofs about QBSettings, for any settings, forms, people and saves.     *)
(***************************************************************************)
EXTENDS QBSettings, TLAPS

(* What the connection sees differs from the file only in a transaction. *)
ConnectionInv == (~dirty => draft = disk) /\ (phase # "serving" => ~dirty)

(* The secret is stored before it is used, and never replaced. *)
SecretInv ==
  /\ draft.secret = disk.secret
  /\ phase = "serving" => secret = disk.secret /\ secret # NoSecret
  /\ \A p \in People : cookie[p] \in {NoSecret, disk.secret}

(* A password that is stored is never taken away, and a login that has set *)
(* one goes on only after it was stored.                                   *)
PasswordInv ==
  /\ disk.password # NoPassword => draft.password # NoPassword
  /\ founded => disk.password # NoPassword
  /\ \A p \in People : /\ step[p] \in {"reading", "setting", "committing"}
                            => pw[p] # NoPassword /\ draft.password \in was[p]
                       /\ step[p] = "committing" => draft.password # NoPassword
                       /\ step[p] \in {"committing", "in"} => pw[p] \in was[p]

(* What is in the table was asked for, or is a default. *)
TextInv ==
  /\ \A f \in Fields : /\ disk.text[f] \in may[f] /\ draft.text[f] \in may[f]
                       /\ NotGiven \in {disk.text[f], draft.text[f]} => Seed[f] \in may[f]
  /\ phase # "down" => \A f \in Fields : disk.text[f] \in Texts /\ draft.text[f] \in Texts

(* Saves that are under way know of each other, and each one's fields are  *)
(* there as far as it has got.                                             *)
SaveInv ==
  /\ phase # "serving" => Saving = {}
  /\ \A s \in Saves : save[s] # "saving" => at[s] = 0
  /\ \A s, t \in Saves : t \in beside[s] => save[t] # "new"
  /\ \A s, t \in Saving : s # t => t \in beside[s]
  /\ \A s \in Saving, f \in OnPage : form[s][f] \in may[f]
  /\ \A s \in Saving, i \in DOMAIN Page :
       /\ 2 * i <= at[s] => disk.text[Page[i]] \in Asked(s, Page[i])
       /\ 2 * i <= at[s] + 1 => draft.text[Page[i]] \in Asked(s, Page[i])

IInv == TypeOK /\ ConnectionInv /\ SecretInv /\ PasswordInv /\ TextInv /\ SaveInv

-----------------------------------------------------------------------------
(* What the statements make of the table. *)
LEMMA Seeding ==
  ASSUME NEW db \in Stored
  PROVE  /\ Seeded(db) \in Stored
         /\ \A f \in Fields : /\ Seeded(db).text[f] \in Texts
                              /\ Seeded(db).text[f] = IF db.text[f] = NotGiven THEN Seed[f]
                                                      ELSE db.text[f]
         /\ Seeded(db).password = db.password /\ Seeded(db).secret = db.secret
BY SettingsAssumption DEF SettingsAssumption, Seeded, Stored

LEMMA Texting ==
  ASSUME NEW db \in Stored, NEW f \in Fields, NEW t \in Texts
  PROVE  /\ WithText(db, f, t) \in Stored
         /\ \A g \in Fields : WithText(db, f, t).text[g] = IF g = f THEN t ELSE db.text[g]
         /\ WithText(db, f, t).password = db.password /\ WithText(db, f, t).secret = db.secret
BY DEF WithText, Stored

LEMMA SettingPassword ==
  ASSUME NEW db \in Stored, NEW w \in Passwords \cup {NoPassword}
  PROVE  /\ WithPassword(db, w) \in Stored
         /\ WithPassword(db, w).password = w
         /\ WithPassword(db, w).text = db.text /\ WithPassword(db, w).secret = db.secret
BY DEF WithPassword, Stored

LEMMA SettingSecret ==
  ASSUME NEW db \in Stored, NEW s \in Secrets
  PROVE  /\ WithSecret(db, s) \in Stored
         /\ WithSecret(db, s).secret = s
         /\ WithSecret(db, s).text = db.text /\ WithSecret(db, s).password = db.password
BY DEF WithSecret, Stored

LEMMA LastIsEven == Last \in Nat /\ 0 \in 0..Last /\ Last % 2 = 0
<1>1. Len(Page) \in Nat
  BY SettingsAssumption DEF SettingsAssumption
<1> QED BY <1>1 DEF Last

(* A step of a save counts. *)
LEMMA Counting ==
  ASSUME TypeOK, NEW s \in Saves, Counts(s), at[s] < Last \/ at[s] % 2 = 1
  PROVE  at' \in [Saves -> 0..Last]
BY LastIsEven DEF TypeOK, Counts

(* The field of the page that a save sets next is a setting. *)
LEMMA FieldOnPage ==
  ASSUME TypeOK, NEW s \in Saves, save[s] = "saving", at[s] < Last, at[s] % 2 = 0
  PROVE  /\ (at[s] \div 2) + 1 \in DOMAIN Page
         /\ Field(s) = Page[(at[s] \div 2) + 1] /\ Field(s) \in OnPage /\ Field(s) \in Fields
         /\ form[s] \in Forms /\ form[s][Field(s)] \in Texts
<1>1. Page \in Seq(Fields)
  BY SettingsAssumption DEF SettingsAssumption
<1>2. at[s] \in Nat /\ Len(Page) \in Nat /\ at[s] < 2 * Len(Page)
  BY <1>1 DEF TypeOK, Last
<1>3. (at[s] \div 2) + 1 \in DOMAIN Page
  BY <1>1, <1>2
<1>4. Field(s) \in OnPage /\ Field(s) \in Fields
  BY <1>1, <1>3 DEF Field, OnPage
<1>5. form[s] \in Forms
  BY DEF TypeOK
<1> QED BY <1>3, <1>4, <1>5, SettingsAssumption DEF SettingsAssumption, Field

-----------------------------------------------------------------------------
(* Every reachable state of the server, the table, the logins and the saves *)
(* is well typed.                                                          *)
LEMMA InitTyped == Init => TypeOK
<1> SUFFICES ASSUME Init PROVE TypeOK
  OBVIOUS
<1>1. disk \in Stored /\ draft \in Stored
  BY DEF Init, Stored
<1>2. was \in [People -> SUBSET (Passwords \cup {NoPassword})]
  BY DEF Init
<1>3. may \in [Fields -> SUBSET (Texts \cup {NotGiven})]
  BY SettingsAssumption DEF Init, SettingsAssumption
<1>4. at \in [Saves -> 0..Last]
  BY LastIsEven DEF Init
<1>5. /\ form \in [Saves -> Forms \cup {Seed}] /\ beside \in [Saves -> SUBSET Saves]
      /\ save \in [Saves -> {"new", "saving", "saved", "lost"}]
      /\ \A s \in Saves : save[s] # "new" => form[s] \in Forms
  BY DEF Init
<1> QED BY <1>1, <1>2, <1>3, <1>4, <1>5 DEF Init, TypeOK

LEMMA NextTyped == TypeOK /\ [Next]_vars => TypeOK'
<1> SUFFICES ASSUME TypeOK, [Next]_vars PROVE TypeOK'
  OBVIOUS
<1> USE DEF TypeOK
<1>1. ASSUME NEW e \in Environments, Starts(e) PROVE TypeOK'
  BY <1>1, Seeding DEF Starts, logins, saves
<1>2. CASE Configures
  <2>1. PICK s \in Secrets : KeepsSecret(s)
    BY <1>2 DEF Configures
  <2>2. secret' \in Secrets
    BY <2>1, SettingsAssumption DEF KeepsSecret, SettingsAssumption, Stored
  <2> QED BY <1>2, <2>1, <2>2, SettingSecret DEF Configures, KeepsSecret, logins, saves
<1>3. CASE Ends
  <2>1. /\ step' \in [People -> {"out", "reading", "setting", "committing", "in"}]
        /\ pw' \in [People -> Passwords \cup {NoPassword}]
        /\ was' \in [People -> SUBSET (Passwords \cup {NoPassword})]
    BY <1>3 DEF Ends
  <2>2. /\ save' \in [Saves -> {"new", "saving", "saved", "lost"}]
        /\ at' \in [Saves -> 0..Last]
        /\ \A s \in Saves : save'[s] # "new" => form'[s] \in Forms
    BY <1>3, LastIsEven DEF Ends
  <2> QED BY <1>3, <2>1, <2>2 DEF Ends
<1>4. ASSUME phase = "serving", NEW p \in People, Login(p) PROVE TypeOK'
  <2> USE DEF Goes, Leaves, LetIn, server, table, saves
  <2>1. ASSUME NEW w \in Passwords, Enters(p, w) PROVE TypeOK'
    BY <2>1 DEF Enters, Stored
  <2>2. CASE ReadsHash(p)
    BY <2>2 DEF ReadsHash
  <2>3. CASE SetsPassword(p)
    <3>1. draft' \in Stored /\ draft'.password \in Passwords \cup {NoPassword}
      BY <2>3, SettingPassword DEF SetsPassword, Executes
    <3>2. was' \in [People -> SUBSET (Passwords \cup {NoPassword})]
      BY <2>3, <3>1 DEF SetsPassword, PasswordIs
    <3> QED BY <2>3, <3>1, <3>2 DEF SetsPassword, Executes
  <2>4. CASE FirstLogsIn(p)
    BY <2>4 DEF FirstLogsIn, Commits
  <2>5. CASE LoginFails(p)
    BY <2>5 DEF LoginFails
  <2>6. CASE LogsOut(p)
    BY <2>6 DEF LogsOut
  <2> QED BY <1>4, <2>1, <2>2, <2>3, <2>4, <2>5, <2>6 DEF Login
<1>5. ASSUME phase = "serving", NEW s \in Saves, Save(s) PROVE TypeOK'
  <2> USE DEF server, table, logins
  <2>1. ASSUME NEW texts \in Forms, Submits(s, texts) PROVE TypeOK'
    BY <2>1, SettingsAssumption DEF Submits, SettingsAssumption, Saving
  <2>2. CASE Sets(s)
    <3>1. draft' \in Stored
      BY <2>2, FieldOnPage, Texting DEF Sets, Executes
    <3> QED BY <2>2, <3>1, Counting DEF Sets, Executes
  <2>3. CASE CommitsSet(s)
    BY <2>3, Counting DEF CommitsSet, Commits
  <2>4. CASE Redirects(s)
    <3>1. may' \in [Fields -> SUBSET (Texts \cup {NotGiven})]
      <4>1. ASSUME NEW f \in OnPage, NEW t \in {s} \cup beside[s]
            PROVE  form[t][f] \in Texts
        <5>1. f \in Fields
          BY SettingsAssumption DEF SettingsAssumption, OnPage
        <5>2. form[t] \in Forms \cup {Seed}
          OBVIOUS
        <5> QED BY <5>1, <5>2, SettingsAssumption DEF SettingsAssumption
      <4> QED BY <2>4, <4>1 DEF Redirects, Asked
    <3> QED BY <2>4, <3>1, LastIsEven DEF Redirects
  <2>5. CASE SaveFails(s)
    BY <2>5, LastIsEven DEF SaveFails
  <2> QED BY <1>5, <2>1, <2>2, <2>3, <2>4, <2>5 DEF Save
<1>6. CASE OthersExecute \/ OthersCommit
  BY <1>6 DEF OthersExecute, OthersCommit, Executes, Commits, server, logins, saves
<1>7. CASE WizardSeeds
  BY <1>7, Seeding DEF WizardSeeds, Externally, server, logins, saves
<1>8. ASSUME NEW w \in Passwords, WizardSetsPassword(w) PROVE TypeOK'
  BY <1>8, SettingPassword DEF WizardSetsPassword, Externally, PasswordIs, server, saves
<1>9. CASE UNCHANGED vars
  BY <1>9 DEF vars, server, table, logins, saves
<1> QED BY <1>1, <1>2, <1>3, <1>4, <1>5, <1>6, <1>7, <1>8, <1>9 DEF Next, Serves, Wizard

(* Types, in every reachable state. *)
THEOREM TypeCorrect == Spec => []TypeOK
BY InitTyped, NextTyped, PTL DEF Spec

-----------------------------------------------------------------------------
(* The connection is behind or ahead of the file only in a transaction. *)
LEMMA ConnectionKept ==
  ASSUME TypeOK, ConnectionInv, [Next]_vars
  PROVE  ConnectionInv'
<1> USE DEF ConnectionInv, server
<1>1. ASSUME NEW e \in Environments, Starts(e) PROVE ConnectionInv'
  BY <1>1 DEF Starts
<1>2. CASE Configures
  BY <1>2 DEF Configures, KeepsSecret
<1>3. CASE Ends
  BY <1>3 DEF Ends
<1>4. ASSUME phase = "serving", NEW p \in People, Login(p) PROVE ConnectionInv'
  <2>1. UNCHANGED <<server, table>> \/ SetsPassword(p) \/ FirstLogsIn(p)
    BY <1>4 DEF Login, Enters, ReadsHash, LoginFails, LogsOut
  <2> QED BY <1>4, <2>1 DEF SetsPassword, FirstLogsIn, Executes, Commits, table
<1>5. ASSUME phase = "serving", NEW s \in Saves, Save(s) PROVE ConnectionInv'
  <2>1. UNCHANGED <<server, table>> \/ Sets(s) \/ CommitsSet(s)
    BY <1>5 DEF Save, Submits, Redirects, SaveFails
  <2> QED BY <1>5, <2>1 DEF Sets, CommitsSet, Executes, Commits, table
<1>6. CASE phase = "serving" /\ (OthersExecute \/ OthersCommit)
  BY <1>6 DEF OthersExecute, OthersCommit, Executes, Commits
<1>7. CASE Wizard
  BY <1>7 DEF Wizard, WizardSeeds, WizardSetsPassword, Externally
<1>8. CASE UNCHANGED vars
  BY <1>8 DEF vars, table
<1> QED BY <1>1, <1>2, <1>3, <1>4, <1>5, <1>6, <1>7, <1>8 DEF Next, Serves

(* A secret that was stored is the one that is used, in every process. *)
LEMMA SecretKept ==
  ASSUME TypeOK, SecretInv, [Next]_vars
  PROVE  SecretInv'
<1> USE DEF TypeOK, SecretInv
<1>1. ASSUME draft'.secret = draft.secret, disk'.secret = disk.secret, UNCHANGED <<phase, secret>>,
             \A p \in People : cookie'[p] \in {cookie[p], NoSecret, disk.secret}
      PROVE  SecretInv'
  BY <1>1
<1>2. ASSUME NEW e \in Environments, Starts(e) PROVE SecretInv'
  BY <1>2, Seeding DEF Starts, logins
<1>3. CASE Configures
  <2>1. PICK s \in Secrets : KeepsSecret(s)
    BY <1>3 DEF Configures
  <2>2. /\ secret' \in Secrets /\ NoSecret \notin Secrets
        /\ disk.secret # NoSecret => secret' = disk.secret
    BY <2>1, SettingsAssumption DEF KeepsSecret, SettingsAssumption, Stored
  <2>3. disk'.secret = secret' /\ draft'.secret = secret'
    BY <2>1, <2>2, SettingSecret DEF KeepsSecret
  <2> QED BY <1>3, <2>2, <2>3 DEF Configures, logins
<1>4. CASE Ends
  BY <1>4 DEF Ends
<1>5. ASSUME phase = "serving", NEW p \in People, Login(p) PROVE SecretInv'
  <2>1. draft'.secret = draft.secret /\ disk'.secret = disk.secret
    <3>1. UNCHANGED table \/ SetsPassword(p) \/ FirstLogsIn(p)
      BY <1>5 DEF Login, Enters, ReadsHash, LoginFails, LogsOut
    <3> QED BY <3>1, SettingPassword DEF SetsPassword, FirstLogsIn, Executes, Commits, table
  <2>2. UNCHANGED <<phase, secret>>
    BY <1>5 DEF Login, Enters, ReadsHash, SetsPassword, FirstLogsIn, LoginFails, LogsOut, server
  <2>3. cookie' = cookie \/ cookie' = [cookie EXCEPT ![p] = secret]
                         \/ cookie' = [cookie EXCEPT ![p] = NoSecret]
    BY <1>5 DEF Login, Enters, ReadsHash, SetsPassword, FirstLogsIn, LoginFails, LogsOut, LetIn
  <2> QED BY <1>1, <1>5, <2>1, <2>2, <2>3
<1>6. ASSUME NEW s \in Saves, Save(s) PROVE SecretInv'
  <2>1. UNCHANGED <<server, logins>>
    BY <1>6 DEF Save, Submits, Sets, CommitsSet, Redirects, SaveFails
  <2>2. UNCHANGED table \/ Sets(s) \/ CommitsSet(s)
    BY <1>6 DEF Save, Submits, Redirects, SaveFails
  <2>3. draft'.secret = draft.secret /\ disk'.secret = disk.secret
    BY <2>2, FieldOnPage, Texting DEF Sets, CommitsSet, Executes, Commits, table
  <2> QED BY <1>1, <2>1, <2>3 DEF server, logins
<1>7. CASE OthersExecute \/ OthersCommit
  BY <1>7, <1>1 DEF OthersExecute, OthersCommit, Executes, Commits, server, logins
<1>8. CASE WizardSeeds
  BY <1>8, <1>1, Seeding DEF WizardSeeds, Externally, server, logins
<1>9. ASSUME NEW w \in Passwords, WizardSetsPassword(w) PROVE SecretInv'
  BY <1>9, <1>1, SettingPassword DEF WizardSetsPassword, Externally, server
<1>10. CASE UNCHANGED vars
  BY <1>10, <1>1 DEF vars, server, table, logins
<1> QED BY <1>2, <1>3, <1>4, <1>5, <1>6, <1>7, <1>8, <1>9, <1>10 DEF Next, Serves, Wizard

-----------------------------------------------------------------------------
(* A password that is stored stays, and who goes on with one has seen it in *)
(* the table.                                                              *)
LEMMA PasswordKept ==
  ASSUME TypeOK, ConnectionInv, PasswordInv, [Next]_vars
  PROVE  PasswordInv'
<1> USE DEF TypeOK, ConnectionInv, PasswordInv
<1>1. ASSUME draft'.password = draft.password, UNCHANGED logins,
             disk'.password \in {disk.password, draft.password}
      PROVE  PasswordInv'
  BY <1>1 DEF logins
<1>2. ASSUME NEW e \in Environments, Starts(e) PROVE PasswordInv'
  BY <1>1, <1>2, Seeding DEF Starts
<1>3. CASE Configures
  <2>1. PICK s \in Secrets : KeepsSecret(s)
    BY <1>3 DEF Configures
  <2>2. secret' \in Secrets
    BY <2>1, SettingsAssumption DEF KeepsSecret, SettingsAssumption, Stored
  <2> QED BY <1>1, <1>3, <2>1, <2>2, SettingSecret DEF Configures, KeepsSecret
<1>4. CASE Ends
  <2>1. \A p \in People : step'[p] \in {"out", "in"}
    BY <1>4 DEF Ends
  <2>2. \A p \in People : step'[p] = "in" => pw'[p] \in was'[p]
    BY <1>4 DEF Ends
  <2> QED BY <1>4, <2>1, <2>2 DEF Ends
<1>5. ASSUME phase = "serving", NEW p \in People, Login(p) PROVE PasswordInv'
  <2> USE DEF Goes, Leaves, LetIn, table
  <2>1. ASSUME NEW w \in Passwords, Enters(p, w) PROVE PasswordInv'
    BY <2>1, SettingsAssumption DEF Enters, SettingsAssumption
  <2>2. CASE ReadsHash(p)
    BY <2>2 DEF ReadsHash
  <2>3. CASE SetsPassword(p)
    <3>1. draft'.password = pw[p] /\ pw[p] # NoPassword /\ disk' = disk
      BY <2>3, SettingPassword DEF SetsPassword, Executes
    <3>2. \A q \in People : was'[q] = IF step[q] \in {"out", "in"} THEN was[q]
                                      ELSE was[q] \cup {pw[p]}
      BY <2>3, <3>1 DEF SetsPassword, PasswordIs
    <3> QED BY <2>3, <3>1, <3>2 DEF SetsPassword
  <2>4. CASE FirstLogsIn(p)
    BY <2>4 DEF FirstLogsIn, Commits
  <2>5. CASE LoginFails(p)
    BY <2>5 DEF LoginFails
  <2>6. CASE LogsOut(p)
    BY <2>6 DEF LogsOut
  <2> QED BY <1>5, <2>1, <2>2, <2>3, <2>4, <2>5, <2>6 DEF Login
<1>6. ASSUME NEW s \in Saves, Save(s) PROVE PasswordInv'
  <2>1. UNCHANGED logins
    BY <1>6 DEF Save, Submits, Sets, CommitsSet, Redirects, SaveFails
  <2>2. UNCHANGED table \/ Sets(s) \/ CommitsSet(s)
    BY <1>6 DEF Save, Submits, Redirects, SaveFails
  <2>3. draft'.password = draft.password /\ disk'.password \in {disk.password, draft.password}
    BY <2>2, FieldOnPage, Texting DEF Sets, CommitsSet, Executes, Commits, table
  <2> QED BY <1>1, <2>1, <2>3
<1>7. CASE OthersExecute \/ OthersCommit
  BY <1>7, <1>1 DEF OthersExecute, OthersCommit, Executes, Commits
<1>8. CASE WizardSeeds
  BY <1>8, <1>1, Seeding DEF WizardSeeds, Externally
<1>9. ASSUME NEW w \in Passwords, WizardSetsPassword(w) PROVE PasswordInv'
  <2>1. draft'.password = w /\ disk'.password = w /\ w # NoPassword
    BY <1>9, SettingPassword, SettingsAssumption
       DEF WizardSetsPassword, Externally, SettingsAssumption
  <2>2. \A q \in People : was'[q] = IF step[q] \in {"out", "in"} THEN was[q]
                                    ELSE was[q] \cup {w}
    BY <1>9 DEF WizardSetsPassword, PasswordIs
  <2> QED BY <1>9, <2>1, <2>2 DEF WizardSetsPassword
<1>10. CASE UNCHANGED vars
  BY <1>10, <1>1 DEF vars, table
<1> QED BY <1>2, <1>3, <1>4, <1>5, <1>6, <1>7, <1>8, <1>9, <1>10 DEF Next, Serves, Wizard

-----------------------------------------------------------------------------
(* Steps that do not change what saves are about. *)
LEMMA TextKept ==
  ASSUME TypeOK, TextInv, SaveInv, phase' = phase, UNCHANGED saves,
         draft'.text = draft.text, disk'.text \in {disk.text, draft.text}
  PROVE  TextInv' /\ SaveInv'
<1> USE DEF saves, TypeOK
<1>1. TextInv'
  BY DEF TextInv
<1>2. Saving' = Saving /\ \A s \in Saves, f \in OnPage : Asked(s, f)' = Asked(s, f)
  BY DEF Saving, Asked
<1>3. ASSUME NEW s \in Saving, NEW i \in DOMAIN Page
      PROVE  /\ 2 * i <= at[s] => disk'.text[Page[i]] \in Asked(s, Page[i])
             /\ 2 * i <= at[s] + 1 => draft'.text[Page[i]] \in Asked(s, Page[i])
  <2>1. i \in Nat /\ at[s] \in Nat
    BY <1>3, SettingsAssumption, LastIsEven DEF SettingsAssumption, Saving
  <2> QED BY <1>3, <2>1 DEF SaveInv
<1>4. \A i \in DOMAIN Page : Page[i] \in OnPage
  BY DEF OnPage
<1> QED BY <1>1, <1>2, <1>3, <1>4 DEF SaveInv, Saving

(* When no save is under way, only the table matters. *)
LEMMA NoSaveKept ==
  ASSUME TypeOK, SaveInv, Saving' = {}, UNCHANGED <<form, beside, may>>,
         \A s \in Saves : at'[s] = 0,
         \A s \in Saves : save'[s] = "new" => save[s] = "new"
  PROVE  SaveInv'
BY DEF SaveInv, TypeOK

LEMMA SubmitKept ==
  ASSUME TypeOK, TypeOK', TextInv, SaveInv, phase = "serving",
         NEW s \in Saves, NEW texts \in Forms, Submits(s, texts)
  PROVE  TextInv' /\ SaveInv'
<1> USE DEF TypeOK
<1>1. /\ save[s] = "new" /\ save' = [save EXCEPT ![s] = "saving"]
      /\ form' = [form EXCEPT ![s] = texts] /\ at' = at /\ disk' = disk /\ draft' = draft
      /\ phase' = phase
      /\ may' = [f \in Fields |-> IF f \in OnPage THEN may[f] \cup {texts[f]} ELSE may[f]]
      /\ beside' = [t \in Saves |-> IF t = s THEN Saving
                                    ELSE IF t \in Saving THEN beside[t] \cup {s} ELSE beside[t]]
  BY DEF Submits, server, table
<1>2. Saving' = Saving \cup {s} /\ s \notin Saving /\ at[s] = 0 /\ Saving \subseteq Saves
  BY <1>1 DEF Saving, SaveInv
<1>3. TextInv'
  BY <1>1 DEF TextInv
<1>4. \A t, u \in Saves : u \in beside'[t] => save'[u] # "new"
  BY <1>1 DEF SaveInv, Saving
<1>5. \A t, u \in Saving' : t # u => u \in beside'[t]
  BY <1>1, <1>2 DEF SaveInv
<1>6. \A t \in Saving', f \in OnPage : form'[t][f] \in may'[f]
  <2>1. OnPage \subseteq Fields
    BY SettingsAssumption DEF SettingsAssumption, OnPage
  <2> QED BY <1>1, <1>2, <2>1 DEF SaveInv
<1>7. ASSUME NEW t \in Saving', NEW i \in DOMAIN Page
      PROVE  /\ 2 * i <= at'[t] => disk'.text[Page[i]] \in Asked(t, Page[i])'
             /\ 2 * i <= at'[t] + 1 => draft'.text[Page[i]] \in Asked(t, Page[i])'
  <2>1. CASE t = s
    <3>1. i \in Nat /\ i >= 1
      BY SettingsAssumption DEF SettingsAssumption
    <3> QED BY <1>1, <1>2, <2>1, <3>1
  <2>2. CASE t # s
    <3>1. t \in Saving /\ s \notin beside[t] /\ beside[t] \subseteq Saves
      BY <1>1, <1>2, <2>2 DEF SaveInv
    <3>2. \A u \in {t} \cup beside[t] : form'[u] = form[u] /\ u \in {t} \cup beside'[t]
      BY <1>1, <1>2, <2>2, <3>1
    <3>3. Asked(t, Page[i]) \subseteq Asked(t, Page[i])'
      BY <3>2 DEF Asked
    <3> QED BY <1>1, <3>1, <3>3 DEF SaveInv
  <2> QED BY <2>1, <2>2
<1>8. \A t \in Saves : save'[t] # "saving" => at'[t] = 0
  BY <1>1 DEF SaveInv
<1>9. phase' = "serving"
  BY <1>1
<1>10. SaveInv'
  BY <1>4, <1>5, <1>6, <1>7, <1>8, <1>9 DEF SaveInv
<1> QED BY <1>3, <1>10

LEMMA SetsKept ==
  ASSUME TypeOK, TypeOK', TextInv, SaveInv, phase = "serving", NEW s \in Saves, Sets(s)
  PROVE  TextInv' /\ SaveInv'
<1> USE DEF TypeOK
<1>1. /\ save[s] = "saving" /\ at[s] < Last /\ at[s] % 2 = 0 /\ disk' = disk
      /\ draft' = WithText(draft, Field(s), form[s][Field(s)])
      /\ at' = [at EXCEPT ![s] = @ + 1] /\ UNCHANGED <<phase, save, form, beside, may>>
  BY DEF Sets, Executes, Counts, server
<1>2. /\ (at[s] \div 2) + 1 \in DOMAIN Page /\ Field(s) = Page[(at[s] \div 2) + 1]
      /\ Field(s) \in OnPage /\ Field(s) \in Fields /\ form[s][Field(s)] \in Texts
  BY <1>1, FieldOnPage
<1>3. \A f \in Fields : draft'.text[f] = IF f = Field(s) THEN form[s][Field(s)]
                                         ELSE draft.text[f]
  BY <1>1, <1>2, Texting
<1>4. Saving' = Saving /\ s \in Saving /\ \A t \in Saves, f \in OnPage : Asked(t, f)' = Asked(t, f)
  BY <1>1 DEF Saving, Asked
<1>5. form[s][Field(s)] \in may[Field(s)]
  BY <1>2, <1>4 DEF SaveInv
<1>6. TextInv'
  <2>1. ASSUME NEW f \in Fields
        PROVE  /\ disk'.text[f] \in may'[f] /\ draft'.text[f] \in may'[f]
               /\ NotGiven \in {disk'.text[f], draft'.text[f]} => Seed[f] \in may'[f]
    <3>1. draft'.text[f] = draft.text[f] \/ (f = Field(s) /\ draft'.text[f] = form[s][Field(s)])
      BY <1>3
    <3>2. form[s][Field(s)] # NotGiven
      BY <1>2, SettingsAssumption DEF SettingsAssumption
    <3> QED BY <1>1, <1>5, <3>1, <3>2 DEF TextInv
  <2>2. \A f \in Fields : disk'.text[f] \in Texts /\ draft'.text[f] \in Texts
    BY <1>1, <1>2, <1>3 DEF TextInv
  <2> QED BY <2>1, <2>2 DEF TextInv
<1>7. ASSUME NEW t \in Saving, NEW i \in DOMAIN Page
      PROVE  /\ 2 * i <= at'[t] => disk'.text[Page[i]] \in Asked(t, Page[i])
             /\ 2 * i <= at'[t] + 1 => draft'.text[Page[i]] \in Asked(t, Page[i])
  <2>1. /\ t \in Saves /\ at[t] \in Nat /\ at[s] \in Nat /\ i \in Nat
        /\ Page[i] \in OnPage /\ Page[i] \in Fields
    BY <1>7, SettingsAssumption, LastIsEven DEF SettingsAssumption, Saving, OnPage
  <2>2. form[s][Field(s)] \in Asked(t, Field(s))
    <3>1. s \in {t} \cup beside[t]
      BY <1>4, <1>7 DEF SaveInv
    <3> QED BY <3>1 DEF Asked
  <2>3. CASE Page[i] = Field(s)
    <3>1. 2 * i <= at'[t] => 2 * i <= at[t]
      BY <1>1, <2>1
    <3> QED BY <1>1, <1>3, <1>7, <2>1, <2>2, <2>3, <3>1 DEF SaveInv
  <2>4. CASE Page[i] # Field(s)
    <3>1. 2 * i <= at'[t] => 2 * i <= at[t]
      BY <1>1, <2>1
    <3>2. 2 * i <= at'[t] + 1 => 2 * i <= at[t] + 1
      <4>1. i # (at[s] \div 2) + 1
        BY <1>2, <2>4
      <4> QED BY <1>1, <2>1, <4>1
    <3> QED BY <1>1, <1>3, <1>7, <2>1, <2>4, <3>1, <3>2 DEF SaveInv
  <2> QED BY <2>3, <2>4
<1>8. \A t \in Saves : save'[t] # "saving" => at'[t] = 0
  BY <1>1 DEF SaveInv
<1> QED BY <1>1, <1>4, <1>6, <1>7, <1>8 DEF SaveInv, OnPage

LEMMA CommitsSetKept ==
  ASSUME TypeOK, TextInv, SaveInv, phase = "serving", NEW s \in Saves, CommitsSet(s)
  PROVE  TextInv' /\ SaveInv'
<1> USE DEF TypeOK
<1>1. /\ save[s] = "saving" /\ at[s] % 2 = 1 /\ disk' = draft /\ draft' = draft
      /\ at' = [at EXCEPT ![s] = @ + 1] /\ UNCHANGED <<phase, save, form, beside, may>>
  BY DEF CommitsSet, Commits, Counts, server
<1>2. Saving' = Saving /\ s \in Saving /\ \A t \in Saves, f \in OnPage : Asked(t, f)' = Asked(t, f)
  BY <1>1 DEF Saving, Asked
<1>3. TextInv'
  BY <1>1 DEF TextInv
<1>4. ASSUME NEW t \in Saving, NEW i \in DOMAIN Page
      PROVE  /\ 2 * i <= at'[t] => disk'.text[Page[i]] \in Asked(t, Page[i])
             /\ 2 * i <= at'[t] + 1 => draft'.text[Page[i]] \in Asked(t, Page[i])
  <2>1. t \in Saves /\ at[t] \in Nat /\ at[s] \in Nat /\ i \in Nat
    BY <1>4, SettingsAssumption, LastIsEven DEF SettingsAssumption, Saving
  <2>2. 2 * i <= at'[t] + 1 => 2 * i <= at[t] + 1
    BY <1>1, <2>1
  <2> QED BY <1>1, <1>4, <2>1, <2>2 DEF SaveInv
<1>5. \A t \in Saves : save'[t] # "saving" => at'[t] = 0
  BY <1>1 DEF SaveInv
<1> QED BY <1>1, <1>2, <1>3, <1>4, <1>5 DEF SaveInv, OnPage

(* All fields of the page are as this save, or one that it met, has them.  *)
LEMMA RedirectKept ==
  ASSUME TypeOK, TextInv, SaveInv, phase = "serving", NEW s \in Saves, Redirects(s)
  PROVE  TextInv' /\ SaveInv'
<1> USE DEF TypeOK
<1>1. /\ save[s] = "saving" /\ at[s] = Last /\ save' = [save EXCEPT ![s] = "saved"]
      /\ at' = [at EXCEPT ![s] = 0]
      /\ may' = [f \in Fields |-> IF f \in OnPage THEN Asked(s, f) ELSE may[f]]
      /\ UNCHANGED <<phase, disk, draft, form, beside>>
  BY DEF Redirects, server, table
<1>2. /\ s \in Saving /\ Saving' = Saving \ {s} /\ Saving \subseteq Saves
      /\ \A t \in Saves, f \in OnPage : Asked(t, f)' = Asked(t, f)
  BY <1>1 DEF Saving, Asked
<1>3. ASSUME NEW f \in OnPage PROVE disk.text[f] \in Asked(s, f) /\ draft.text[f] \in Asked(s, f)
  <2>1. PICK i \in DOMAIN Page : f = Page[i]
    BY <1>3 DEF OnPage
  <2>2. i \in Nat /\ 2 * i <= at[s]
    BY <1>1, SettingsAssumption DEF SettingsAssumption, Last
  <2> QED BY <1>2, <2>1, <2>2 DEF SaveInv
<1>4. TextInv'
  <2>1. \A f \in Fields : disk.text[f] \in Texts /\ draft.text[f] \in Texts
    BY DEF TextInv
  <2> QED BY <1>1, <1>3, <2>1, SettingsAssumption DEF TextInv, SettingsAssumption
<1>5. ASSUME NEW t \in Saving', NEW f \in OnPage PROVE form'[t][f] \in may'[f]
  <2>1. t \in beside[s] /\ f \in Fields
    BY <1>2, <1>5, SettingsAssumption DEF SaveInv, SettingsAssumption, OnPage
  <2> QED BY <1>1, <2>1 DEF Asked
<1>6. \A t \in Saves : save'[t] # "saving" => at'[t] = 0
  BY <1>1 DEF SaveInv
<1>7. \A t \in Saving' : at'[t] = at[t]
  BY <1>1, <1>2
<1>8. \A t, u \in Saves : u \in beside'[t] => save'[u] # "new"
  BY <1>1 DEF SaveInv
<1>9. SaveInv'
  <2>1. \A t, u \in Saving' : t # u => u \in beside'[t]
    BY <1>1, <1>2 DEF SaveInv
  <2>2. ASSUME NEW t \in Saving', NEW i \in DOMAIN Page
        PROVE  /\ 2 * i <= at'[t] => disk'.text[Page[i]] \in Asked(t, Page[i])'
               /\ 2 * i <= at'[t] + 1 => draft'.text[Page[i]] \in Asked(t, Page[i])'
    BY <1>1, <1>2, <1>7, <2>2 DEF SaveInv, OnPage
  <2> QED BY <1>1, <1>5, <1>6, <1>8, <2>1, <2>2 DEF SaveInv
<1> QED BY <1>4, <1>9

LEMMA SaveFailsKept ==
  ASSUME TypeOK, TextInv, SaveInv, phase = "serving", NEW s \in Saves, SaveFails(s)
  PROVE  TextInv' /\ SaveInv'
<1> USE DEF TypeOK
<1>1. /\ save[s] = "saving" /\ save' = [save EXCEPT ![s] = "lost"] /\ at' = [at EXCEPT ![s] = 0]
      /\ UNCHANGED <<phase, disk, draft, form, beside, may>>
  BY DEF SaveFails, server, table
<1>2. /\ Saving' = Saving \ {s} /\ Saving \subseteq Saves
      /\ \A t \in Saves, f \in OnPage : Asked(t, f)' = Asked(t, f)
  BY <1>1 DEF Saving, Asked
<1>3. TextInv'
  BY <1>1 DEF TextInv
<1>4. \A t \in Saves : save'[t] # "saving" => at'[t] = 0
  BY <1>1 DEF SaveInv
<1>5. \A t \in Saving' : at'[t] = at[t]
  BY <1>1, <1>2
<1>6. \A t, u \in Saves : u \in beside'[t] => save'[u] # "new"
  BY <1>1 DEF SaveInv
<1>7. SaveInv'
  BY <1>1, <1>2, <1>4, <1>5, <1>6 DEF SaveInv, OnPage
<1> QED BY <1>3, <1>7

(* Every step keeps what is in the table among what was asked for. *)
LEMMA SavedKept ==
  ASSUME TypeOK, TypeOK', ConnectionInv, TextInv, SaveInv, [Next]_vars
  PROVE  TextInv' /\ SaveInv'
<1> USE DEF TypeOK
<1>1. ASSUME NEW e \in Environments, Starts(e) PROVE TextInv' /\ SaveInv'
  <2>1. /\ phase = "down" /\ draft' = Seeded(disk) /\ disk' = Seeded(disk) /\ UNCHANGED saves
    BY <1>1 DEF Starts
  <2>2. Saving = {} /\ Saving' = {} /\ \A s \in Saves : at[s] = 0
    BY <2>1 DEF SaveInv, Saving, saves
  <2>3. SaveInv'
    BY <2>1, <2>2, NoSaveKept DEF saves
  <2>4. TextInv'
    BY <2>1, Seeding, SettingsAssumption, ZenonT(40) DEF TextInv, saves, SettingsAssumption
  <2> QED BY <2>3, <2>4
<1>2. CASE Configures
  <2>1. PICK s \in Secrets : KeepsSecret(s)
    BY <1>2 DEF Configures
  <2>2. secret' \in Secrets
    BY <2>1, SettingsAssumption DEF KeepsSecret, SettingsAssumption, Stored
  <2>3. /\ phase = "seeded" /\ draft'.text = disk.text /\ disk'.text = disk.text /\ UNCHANGED saves
    BY <1>2, <2>1, <2>2, SettingSecret DEF Configures, KeepsSecret
  <2>4. Saving = {} /\ Saving' = {} /\ \A t \in Saves : at[t] = 0
    BY <2>3 DEF SaveInv, Saving, saves
  <2>5. SaveInv'
    BY <2>3, <2>4, NoSaveKept DEF saves
  <2> QED BY <2>3, <2>5 DEF TextInv, saves
<1>3. CASE Ends
  <2>1. Saving' = {} /\ \A s \in Saves : at'[s] = 0 /\ (save'[s] = "new" => save[s] = "new")
    BY <1>3 DEF Ends, Saving
  <2>2. UNCHANGED <<form, beside, may, disk>> /\ draft' = disk /\ phase' = "down"
    BY <1>3 DEF Ends
  <2>3. SaveInv'
    BY <2>1, <2>2, NoSaveKept
  <2> QED BY <2>2, <2>3 DEF TextInv
<1>4. ASSUME phase = "serving", NEW p \in People, Login(p) PROVE TextInv' /\ SaveInv'
  <2>1. phase' = phase /\ UNCHANGED saves
    BY <1>4 DEF Login, Enters, ReadsHash, SetsPassword, FirstLogsIn, LoginFails, LogsOut, server
  <2>2. UNCHANGED table \/ SetsPassword(p) \/ FirstLogsIn(p)
    BY <1>4 DEF Login, Enters, ReadsHash, LoginFails, LogsOut
  <2>3. draft'.text = draft.text /\ disk'.text \in {disk.text, draft.text}
    BY <2>2, SettingPassword DEF SetsPassword, FirstLogsIn, Executes, Commits, table
  <2> QED BY <2>1, <2>3, TextKept
<1>5. ASSUME phase = "serving", NEW s \in Saves, Save(s) PROVE TextInv' /\ SaveInv'
  BY <1>5, SubmitKept, SetsKept, CommitsSetKept, RedirectKept, SaveFailsKept DEF Save
<1>6. CASE OthersExecute \/ OthersCommit
  BY <1>6, TextKept DEF OthersExecute, OthersCommit, Executes, Commits, server
<1>7. CASE WizardSeeds
  <2>1. /\ draft = disk /\ phase' = phase /\ UNCHANGED saves
        /\ draft' = Seeded(disk) /\ disk' = Seeded(disk)
    BY <1>7 DEF WizardSeeds, Externally, ConnectionInv, server
  <2>2. CASE phase = "serving"
    <3>1. disk'.text = disk.text
      <4>1. \A f \in Fields : Seeded(disk).text[f] = disk.text[f]
        BY <2>2, Seeding, SettingsAssumption DEF TextInv, SettingsAssumption
      <4> QED BY <2>1, <4>1 DEF Stored
    <3> QED BY <2>1, <3>1, TextKept
  <2>3. CASE phase # "serving"
    <3>1. Saving = {} /\ Saving' = {} /\ \A s \in Saves : at[s] = 0
      BY <2>1, <2>3 DEF SaveInv, Saving, saves
    <3>2. SaveInv'
      BY <2>1, <3>1, NoSaveKept DEF saves
    <3>3. TextInv'
      BY <2>1, Seeding, SettingsAssumption, ZenonT(40) DEF TextInv, saves, SettingsAssumption
    <3> QED BY <3>2, <3>3
  <2> QED BY <2>2, <2>3
<1>8. ASSUME NEW w \in Passwords, WizardSetsPassword(w) PROVE TextInv' /\ SaveInv'
  <2>1. draft = disk /\ phase' = phase /\ UNCHANGED saves
    BY <1>8 DEF WizardSetsPassword, Externally, ConnectionInv, server
  <2>2. draft'.text = disk.text /\ disk'.text = disk.text
    BY <1>8, SettingPassword DEF WizardSetsPassword, Externally
  <2> QED BY <2>1, <2>2, TextKept
<1>9. CASE UNCHANGED vars
  BY <1>9, TextKept DEF vars, server, table
<1> QED BY <1>1, <1>2, <1>3, <1>4, <1>5, <1>6, <1>7, <1>8, <1>9 DEF Next, Serves, Wizard

-----------------------------------------------------------------------------
LEMMA InitInductive == Init => IInv
<1> SUFFICES ASSUME Init PROVE IInv
  OBVIOUS
<1>1. TypeOK
  BY InitTyped
<1>2. ConnectionInv /\ SecretInv /\ PasswordInv
  BY DEF Init, ConnectionInv, SecretInv, PasswordInv
<1>3. TextInv
  BY DEF Init, TextInv
<1>4. SaveInv
  <2>1. Saving = {} /\ \A s \in Saves : at[s] = 0 /\ beside[s] = {}
    BY DEF Init, Saving
  <2> QED BY <2>1 DEF SaveInv
<1> QED BY <1>1, <1>2, <1>3, <1>4 DEF IInv

LEMMA NextInductive == IInv /\ [Next]_vars => IInv'
BY NextTyped, ConnectionKept, SecretKept, PasswordKept, SavedKept DEF IInv

(* The inductive invariant. *)
THEOREM Inductive == Spec => []IInv
BY InitInductive, NextInductive, PTL DEF Spec

(* What is in the file was saved last, or is beside or after what was. *)
THEOREM SavedStays == Spec => []SavedIsOnDisk
<1>1. IInv => SavedIsOnDisk
  BY DEF IInv, TextInv, SavedIsOnDisk
<1> QED BY <1>1, Inductive, PTL

(* Cookies outlive every end of the server. *)
THEOREM CookiesOutliveRestarts == Spec => []CookiesStayValid
<1>1. IInv => CookiesStayValid
  BY DEF IInv, SecretInv, CookiesStayValid
<1> QED BY <1>1, Inductive, PTL

(* Nobody is let in with a password that was not stored. *)
THEOREM AllLetInWithPassword == Spec => []LetInWithPassword
<1>1. IInv => LetInWithPassword
  BY DEF IInv, PasswordInv, LetInWithPassword
<1> QED BY <1>1, Inductive, PTL

(* The first password that let somebody in is not lost. *)
THEOREM FirstStays == Spec => []FirstLoginIsOver
<1>1. IInv => FirstLoginIsOver
  BY DEF IInv, PasswordInv, FirstLoginIsOver
<1> QED BY <1>1, Inductive, PTL

(* A start applies what the table holds, which is what people saved. *)
THEOREM StartsAsSaved == Spec => RunsAsSaved
<1>1. ASSUME IInv, [Next]_vars, phase = "seeded", phase' = "serving", NEW f \in Fields
      PROVE  running'[f] \in {Wanted(f, t) : t \in may[f] \ {NotGiven}}
  <2>1. phase' = phase \/ Configures \/ Ends \/ \E e \in Environments : Starts(e)
    <3>1. ASSUME Serves PROVE phase' = phase
      BY <1>1, <3>1 DEF Serves
    <3>2. ASSUME Wizard PROVE phase' = phase
      BY <3>2 DEF Wizard, WizardSeeds, WizardSetsPassword, server
    <3>3. ASSUME UNCHANGED vars PROVE phase' = phase
      BY <3>3 DEF vars, server
    <3> QED BY <1>1, <3>1, <3>2, <3>3 DEF Next
  <2>2. Configures
    BY <1>1, <2>1 DEF Ends, Starts
  <2>3. running'[f] = Applied(f)
    BY <2>2 DEF Configures
  <2>4. Applied(f) = Wanted(f, draft.text[f])
    BY DEF Applied, Wanted, Unset
  <2>5. draft.text[f] \in may[f] \ {NotGiven}
    BY <1>1, SettingsAssumption DEF IInv, TextInv, SettingsAssumption
  <2> QED BY <2>3, <2>4, <2>5
<1>2. IInv /\ [Next]_vars
      => [phase = "seeded" /\ phase' = "serving"
            => \A f \in Fields : running'[f] \in {Wanted(f, t) : t \in may[f] \ {NotGiven}}]_vars
  BY <1>1
<1> QED BY <1>2, Inductive, PTL DEF Spec, RunsAsSaved

-----------------------------------------------------------------------------
(* From one state of the table to the next the secret stays what it is, and*)
(* neither the password nor a setting is taken away.                       *)
Remains(old, new) ==
  /\ old.secret # NoSecret => new.secret = old.secret
  /\ old.password # NoPassword => new.password # NoPassword
  /\ \A f \in Fields : old.text[f] # NotGiven => new.text[f] # NotGiven

LEMMA TableRemains ==
  ASSUME IInv, [Next]_vars
  PROVE  Remains(disk, disk')
<1> USE DEF Remains
<1>0. /\ disk \in Stored /\ draft \in Stored
      /\ NotGiven \notin Texts /\ NoPassword \notin Passwords /\ NoSecret \notin Secrets
  BY SettingsAssumption DEF IInv, TypeOK, SettingsAssumption
<1>1. CASE disk' = disk
  BY <1>1
<1>2. CASE disk' = draft /\ phase = "serving"
  BY <1>0, <1>2 DEF IInv, SecretInv, PasswordInv, TextInv
<1>3. CASE disk' = Seeded(disk)
  BY <1>0, <1>3, Seeding
<1>4. CASE Configures
  <2>1. PICK s \in Secrets : KeepsSecret(s)
    BY <1>4 DEF Configures
  <2>2. secret' \in Secrets /\ (disk.secret # NoSecret => secret' = disk.secret)
    BY <1>0, <2>1 DEF KeepsSecret, IInv, SecretInv, Stored
  <2>3. disk'.secret = secret' /\ disk'.text = disk.text /\ disk'.password = disk.password
    BY <1>0, <2>1, <2>2, SettingSecret DEF KeepsSecret
  <2> QED BY <2>2, <2>3
<1>5. ASSUME NEW w \in Passwords, WizardSetsPassword(w) PROVE Remains(disk, disk')
  BY <1>0, <1>5, SettingPassword DEF WizardSetsPassword, Externally
<1>6. ASSUME phase = "serving", NEW p \in People, Login(p) PROVE disk' \in {disk, draft}
  BY <1>6 DEF Login, Enters, ReadsHash, SetsPassword, FirstLogsIn, LoginFails, LogsOut, Executes,
     Commits, table
<1>7. ASSUME phase = "serving", NEW s \in Saves, Save(s) PROVE disk' \in {disk, draft}
  BY <1>7 DEF Save, Submits, Sets, CommitsSet, Redirects, SaveFails, Executes, Commits, table
<1>8. CASE Serves
  BY <1>1, <1>2, <1>6, <1>7, <1>8 DEF Serves, OthersExecute, OthersCommit, Executes, Commits
<1>9. CASE Wizard
  BY <1>3, <1>5, <1>9 DEF Wizard, WizardSeeds, Externally
<1>10. CASE (\E e \in Environments : Starts(e)) \/ Ends \/ UNCHANGED vars
  BY <1>1, <1>3, <1>10 DEF Starts, Ends, vars, table
<1> QED BY <1>4, <1>8, <1>9, <1>10 DEF Next

(* No step, no failed statement, no crash and no start replaces the secret *)
(* in the file, or takes away the password or a setting: what an           *)
(* administrator has set up is set up for good (database.py,               *)
(* gui/router.py and setup.py, who share the table).                       *)
THEOREM NothingForgotten == Spec => [][Remains(disk, disk')]_vars
<1>1. IInv /\ [Next]_vars => [Remains(disk, disk')]_vars
  BY TableRemains
<1> QED BY <1>1, Inductive, PTL DEF Spec
===============================================================================
