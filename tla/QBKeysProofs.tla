---------------------------- MODULE QBKeysProofs ----------------------------
(***************************************************************************)
(* Proofs about QBKeys, for any number of keys, calls and administrators,  *)
(* and about the addresses of QBAccess, for every address.                 *)
(***************************************************************************)
EXTENDS QBKeys, QBAccess, SequenceTheorems, TLAPS

(* What the statements make of the tables: types, what they keep, and how  *)
(* much their keys grant.                                                  *)
LEMMA Inserting ==
  ASSUME NEW db \in Contents, NEW k \in Keys, NEW p \in Perms, NEW want \in [Keys -> Perms]
  PROVE  /\ Inserted(db, k, p) \in Contents
         /\ Inserted(db, k, p).status[k] = "active"
         /\ db.status[k] = "absent" => Kept(db, Inserted(db, k, p))
         /\ Modest(db, want) => Modest(Inserted(db, k, p), [want EXCEPT ![k] = p])
BY DEF Inserted, Contents, Kept, Modest

LEMMA Revoking ==
  ASSUME NEW db \in Contents, NEW k \in Keys, NEW want \in [Keys -> Perms]
  PROVE  /\ Revoked(db, k) \in Contents
         /\ Revoked(db, k).status[k] = "revoked"
         /\ db.status[k] # "absent" =>
              /\ Kept(db, Revoked(db, k))
              /\ Modest(db, want) => Modest(Revoked(db, k), want)
BY DEF Revoked, Contents, Kept, Modest

LEMMA Permitting ==
  ASSUME NEW db \in Contents, NEW k \in Keys, NEW p \in Perms, NEW want \in [Keys -> Perms]
  PROVE  /\ Permitted(db, k, p) \in Contents
         /\ Kept(db, Permitted(db, k, p))
         /\ Modest(db, want) => Modest(Permitted(db, k, p), [want EXCEPT ![k] = p])
BY DEF Permitted, Contents, Kept, Modest

LEMMA Logging ==
  ASSUME NEW db \in Contents, NEW c \in Calls, NEW want \in [Keys -> Perms]
  PROVE  /\ Logged(db, c) \in Contents
         /\ c \in Logged(db, c).log
         /\ Kept(db, Logged(db, c))
         /\ Modest(db, want) => Modest(Logged(db, c), want)
BY DEF Logged, Contents, Kept, Modest

LEMMA Migrating ==
  ASSUME NEW db \in Contents, NEW want \in [Keys -> Perms]
  PROVE  /\ Migrated(db) \in Contents
         /\ Kept(db, Migrated(db))
         /\ Modest(db, want) => Modest(Migrated(db), want)
BY KeyAssumption DEF KeyAssumption, Migrated, Contents, Kept, Modest

LEMMA KeptTransitive ==
  ASSUME NEW a, NEW b, NEW c, Kept(a, b), Kept(b, c)
  PROVE  Kept(a, c)
BY DEF Kept

LEMMA KeptReflexive == \A a : Kept(a, a)
BY DEF Kept

-----------------------------------------------------------------------------
(* Every reachable state is well typed. *)
THEOREM TypeCorrect == Spec => []TypeOK
<1> USE KeyAssumption DEF KeyAssumption
<1>1. Init => TypeOK
  <2> SUFFICES ASSUME Init PROVE TypeOK
    OBVIOUS
  <2>1. disk \in Contents /\ draft \in Contents
    BY DEF Init, Contents
  <2>2. pc \in [Calls \cup Admins -> CallSteps \cup AdminSteps]
    BY DEF Init, CallSteps
  <2> QED
    BY <2>1, <2>2 DEF Init, TypeOK
<1>2. TypeOK /\ [Next]_vars => TypeOK'
  <2> SUFFICES ASSUME TypeOK, [Next]_vars PROVE TypeOK'
    OBVIOUS
  <2> USE DEF TypeOK
  <2>1. CASE Starts
    BY <2>1, Migrating DEF Starts, requests, history
  <2>2. CASE Ends
    BY <2>2 DEF Ends, history, InProgress, CallSteps
  <2>3. ASSUME NEW c \in Calls, up, Call(c) PROVE TypeOK'
    <3> USE DEF Goes, CallSteps, requests, history
    <3>1. CASE Arrives(c)
      BY <3>1 DEF Arrives
    <3>2. CASE LooksUp(c)
      BY <3>2 DEF LooksUp, Contents
    <3>3. CASE Touches(c)
      BY <3>3 DEF Touches, Executes
    <3>4. CASE Validates(c)
      BY <3>4 DEF Validates, Commits
    <3>5. CASE Serves(c)
      BY <3>5 DEF Serves
    <3>6. CASE Logs(c)
      BY <3>6, Logging DEF Logs, Executes
    <3>7. CASE Answers(c)
      BY <3>7 DEF Answers, Commits
    <3>8. CASE Fails(c)
      BY <3>8 DEF Fails
    <3> QED BY <2>3, <3>1, <3>2, <3>3, <3>4, <3>5, <3>6, <3>7, <3>8 DEF Call
  <2>4. ASSUME NEW a \in Admins, up, Administer(a) PROVE TypeOK'
    <3> USE DEF Goes, AdminSteps, history, Choose
    <3>1. ASSUME NEW k \in Keys, Creates(a, k) PROVE TypeOK'
      BY <3>1, Inserting DEF Creates, Executes
    <3>2. ASSUME NEW k \in Keys, Revokes(a, k) PROVE TypeOK'
      BY <3>2, Revoking DEF Revokes, Executes
    <3>3. CASE ShowsKey(a)
      BY <3>3 DEF ShowsKey, Commits
    <3>4. CASE Acknowledges(a)
      BY <3>4 DEF Acknowledges, Commits
    <3>5. CASE CommitFails(a)
      BY <3>5 DEF CommitFails
    <3> QED BY <2>4, <3>1, <3>2, <3>3, <3>4, <3>5 DEF Administer
  <2>5. ASSUME NEW k \in Keys, Cli(k) PROVE TypeOK'
    <3> USE DEF Externally, requests, Choose
    <3>1. CASE CliRevokes(k)
      BY <3>1, Revoking DEF CliRevokes
    <3>2. ASSUME NEW p \in Perms, CliCreates(k, p) PROVE TypeOK'
      BY <3>2, Inserting DEF CliCreates
    <3>3. ASSUME NEW p \in Perms, CliSetsPermissions(k, p) PROVE TypeOK'
      BY <3>3, Permitting DEF CliSetsPermissions
    <3> QED BY <2>5, <3>1, <3>2, <3>3 DEF Cli
  <2>6. CASE UNCHANGED vars
    BY <2>6 DEF vars, requests, history
  <2> QED BY <2>1, <2>2, <2>3, <2>4, <2>5, <2>6 DEF Next, Server
<1> QED BY <1>1, <1>2, PTL DEF Spec

-----------------------------------------------------------------------------
(* What is on disk stays there, what the connection sees stays until the   *)
(* process ends, and nothing the connection executes removes what the file *)
(* holds.                                                                  *)
LEMMA FileKept ==
  ASSUME TypeOK, ConnectionInv, [Next]_vars
  PROVE  /\ ConnectionInv'
         /\ Kept(disk, disk')
         /\ Ends \/ Kept(draft, draft')
<1> USE KeyAssumption, KeptReflexive DEF KeyAssumption, TypeOK, ConnectionInv
<1>1. CASE Starts
  BY <1>1, Migrating DEF Starts
<1>2. CASE Ends
  BY <1>2 DEF Ends
<1>3. ASSUME NEW contents, Executes(contents), Kept(draft, contents), up, up' = up
      PROVE  ConnectionInv' /\ Kept(disk, disk') /\ Kept(draft, draft')
  BY <1>3, KeptTransitive DEF Executes
<1>4. ASSUME Commits, up' = up
      PROVE  ConnectionInv' /\ Kept(disk, disk') /\ Kept(draft, draft')
  BY <1>4 DEF Commits
<1>5. ASSUME UNCHANGED <<up, disk, draft, dirty>>
      PROVE  ConnectionInv' /\ Kept(disk, disk') /\ Kept(draft, draft')
  BY <1>5
<1>6. ASSUME NEW contents, Externally(contents), Kept(disk, contents)
      PROVE  ConnectionInv' /\ Kept(disk, disk') /\ Kept(draft, draft')
  BY <1>6 DEF Externally
<1>7. ASSUME NEW c \in Calls, up, Call(c)
      PROVE  ConnectionInv' /\ Kept(disk, disk') /\ Kept(draft, draft')
  <2>1. CASE Arrives(c) \/ LooksUp(c) \/ Serves(c) \/ Fails(c)
    BY <2>1, <1>5 DEF Arrives, LooksUp, Serves, Fails
  <2>2. CASE Touches(c)
    BY <2>2, <1>3, <1>7 DEF Touches
  <2>3. CASE Validates(c) \/ Answers(c)
    BY <2>3, <1>4, <1>7 DEF Validates, Answers
  <2>4. CASE Logs(c)
    BY <2>4, <1>3, <1>7, Logging DEF Logs
  <2> QED BY <1>7, <2>1, <2>2, <2>3, <2>4 DEF Call
<1>8. ASSUME NEW a \in Admins, up, Administer(a)
      PROVE  ConnectionInv' /\ Kept(disk, disk') /\ Kept(draft, draft')
  <2>1. ASSUME NEW k \in Keys, Creates(a, k)
        PROVE  ConnectionInv' /\ Kept(disk, disk') /\ Kept(draft, draft')
    BY <2>1, <1>3, <1>8, Inserting DEF Creates, Absent
  <2>2. ASSUME NEW k \in Keys, Revokes(a, k)
        PROVE  ConnectionInv' /\ Kept(disk, disk') /\ Kept(draft, draft')
    BY <2>2, <1>3, <1>8, Revoking DEF Revokes, Absent
  <2>3. CASE ShowsKey(a) \/ Acknowledges(a)
    BY <2>3, <1>4, <1>8 DEF ShowsKey, Acknowledges
  <2>4. CASE CommitFails(a)
    BY <2>4, <1>5 DEF CommitFails
  <2> QED BY <1>8, <2>1, <2>2, <2>3, <2>4 DEF Administer
<1>9. ASSUME NEW k \in Keys, Cli(k)
      PROVE  ConnectionInv' /\ Kept(disk, disk') /\ Kept(draft, draft')
  <2>1. CASE CliRevokes(k)
    BY <2>1, <1>6, Revoking DEF CliRevokes, Absent, Externally
  <2>2. ASSUME NEW p \in Perms, CliCreates(k, p)
        PROVE  ConnectionInv' /\ Kept(disk, disk') /\ Kept(draft, draft')
    BY <2>2, <1>6, Inserting DEF CliCreates, Absent, Externally
  <2>3. ASSUME NEW p \in Perms, CliSetsPermissions(k, p)
        PROVE  ConnectionInv' /\ Kept(disk, disk') /\ Kept(draft, draft')
    BY <2>3, <1>6, Permitting DEF CliSetsPermissions
  <2> QED BY <1>9, <2>1, <2>2, <2>3 DEF Cli
<1>10. CASE UNCHANGED vars
  BY <1>10, <1>5 DEF vars
<1> QED BY <1>1, <1>2, <1>7, <1>8, <1>9, <1>10 DEF Next, Server
-----------------------------------------------------------------------------
(* What was told is kept, for it was committed after it was executed. *)
LEMMA ToldKept ==
  ASSUME TypeOK, ConnectionInv, ToldInv, [Next]_vars
  PROVE  ToldInv'
<1> USE KeyAssumption DEF KeyAssumption, TypeOK, ToldInv, ToldIsOnDisk, Kept
<1>1. CASE Ends
  BY <1>1, FileKept DEF Ends, InProgress, history
<1>2. ASSUME Kept(disk, disk'), Kept(draft, draft'), UNCHANGED <<shown, gone, target>>,
             \A a \in Admins : pc'[a] = pc[a] \/ pc'[a] \notin {"creating", "revoking"}
      PROVE  ToldInv'
  BY <1>2
<1>3. CASE ~Ends /\ (Starts \/ UNCHANGED vars)
  BY <1>3, <1>2, FileKept DEF Starts, requests, history, vars
<1>4. ASSUME ~Ends, NEW c \in Calls, Call(c) PROVE ToldInv'
  <2>1. UNCHANGED <<shown, gone, target>>
    BY <1>4 DEF Call, Arrives, LooksUp, Touches, Validates, Serves, Logs, Answers, Fails, history
  <2>2. \A a \in Admins : pc'[a] = pc[a]
    BY <1>4 DEF Call, Arrives, LooksUp, Touches, Validates, Serves, Logs, Answers, Fails, Goes
  <2> QED BY <1>2, <1>4, <2>1, <2>2, FileKept
<1>5. ASSUME ~Ends, NEW a \in Admins, Administer(a) PROVE ToldInv'
  <2> USE FileKept, <1>5 DEF Goes, history
  <2>1. ASSUME NEW k \in Keys, Creates(a, k) PROVE ToldInv'
    <3>1. draft'.status[k] = "active"
      BY <2>1, Inserting DEF Creates, Executes
    <3> QED BY <2>1, <3>1 DEF Creates, Executes
  <2>2. ASSUME NEW k \in Keys, Revokes(a, k) PROVE ToldInv'
    BY <2>2, Revoking DEF Revokes, Executes
  <2>3. CASE ShowsKey(a)
    BY <2>3 DEF ShowsKey, Commits
  <2>4. CASE Acknowledges(a)
    BY <2>4 DEF Acknowledges, Commits
  <2>5. CASE CommitFails(a)
    BY <2>5, <1>2 DEF CommitFails
  <2> QED BY <2>1, <2>2, <2>3, <2>4, <2>5 DEF Administer
<1>6. ASSUME ~Ends, NEW k \in Keys, Cli(k) PROVE ToldInv'
  <2> USE FileKept, <1>6 DEF Externally, requests
  <2>1. CASE CliRevokes(k)
    BY <2>1, Revoking DEF CliRevokes
  <2>2. ASSUME NEW p \in Perms, CliCreates(k, p) PROVE ToldInv'
    BY <2>2, Inserting, ZenonT(40) DEF CliCreates
  <2>3. ASSUME NEW p \in Perms, CliSetsPermissions(k, p) PROVE ToldInv'
    BY <2>3, <1>2 DEF CliSetsPermissions
  <2> QED BY <2>1, <2>2, <2>3 DEF Cli
<1> QED BY <1>1, <1>3, <1>4, <1>5, <1>6 DEF Next, Server

(* A key that is gone is revoked on disk, hence for the connection too, and *)
(* a call that presents it does not get past its lookup.                   *)
LEMMA LateRefused ==
  ASSUME TypeOK, ConnectionInv, ToldInv, LateInv, [Next]_vars
  PROVE  LateInv'
<1> USE KeyAssumption DEF KeyAssumption, TypeOK, LateInv, Goes
<1>1. ASSUME UNCHANGED late, gone \subseteq gone',
             \A c \in Calls : pc'[c] = pc[c] \/ pc'[c] \notin {"touching", "committing", "serving"}
      PROVE  LateInv'
  BY <1>1
<1>2. CASE Starts \/ Ends \/ UNCHANGED vars
  BY <1>2, <1>1 DEF Starts, Ends, InProgress, history, requests, vars
<1>3. ASSUME NEW c \in Calls, Call(c) PROVE LateInv'
  <2>1. CASE Arrives(c)
    BY <2>1 DEF Arrives
  <2>2. CASE LooksUp(c)
    <3>1. Valid(c) => c \notin late
      BY DEF Valid, ToldInv, ToldIsOnDisk, ConnectionInv, Kept
    <3> QED BY <2>2, <3>1 DEF LooksUp, history
  <2>3. CASE Touches(c)
    BY <2>3 DEF Touches, history
  <2>4. CASE Validates(c)
    BY <2>4 DEF Validates, history
  <2>5. CASE Serves(c) \/ Logs(c) \/ Answers(c) \/ Fails(c)
    BY <2>5, <1>1 DEF Serves, Logs, Answers, Fails, history
  <2> QED BY <1>3, <2>1, <2>2, <2>3, <2>4, <2>5 DEF Call
<1>4. ASSUME NEW a \in Admins, Administer(a) PROVE LateInv'
  <2>1. \A c \in Calls : pc'[c] = pc[c]
    BY <1>4 DEF Administer, Creates, Revokes, ShowsKey, Acknowledges, CommitFails
  <2>2. UNCHANGED late /\ gone \subseteq gone'
    BY <1>4 DEF Administer, Creates, Revokes, ShowsKey, Acknowledges, CommitFails, history
  <2> QED BY <1>1, <2>1, <2>2
<1>5. ASSUME NEW k \in Keys, Cli(k) PROVE LateInv'
  BY <1>5, <1>1 DEF Cli, CliRevokes, CliCreates, CliSetsPermissions, Externally, requests
<1> QED BY <1>2, <1>3, <1>4, <1>5 DEF Next, Server

(* A line of the log is executed, then committed, before the answer. *)
LEMMA LogKept ==
  ASSUME TypeOK, ConnectionInv, LogInv, AnsweredIsLogged, [Next]_vars
  PROVE  LogInv' /\ AnsweredIsLogged'
<1> USE KeyAssumption DEF KeyAssumption, TypeOK, LogInv, AnsweredIsLogged, Goes, Kept
<1>1. CASE Ends
  BY <1>1, FileKept DEF Ends, InProgress
<1>2. ASSUME Kept(disk, disk'), Kept(draft, draft'),
             \A c \in Calls : pc'[c] = pc[c] \/ pc'[c] \notin {"logged", "answered"}
      PROVE  LogInv' /\ AnsweredIsLogged'
  BY <1>2
<1>3. CASE ~Ends /\ (Starts \/ UNCHANGED vars)
  BY <1>3, <1>2, FileKept DEF Starts, requests, vars
<1>4. ASSUME ~Ends, NEW c \in Calls, Call(c) PROVE LogInv' /\ AnsweredIsLogged'
  <2> USE FileKept, <1>4
  <2>1. CASE Logs(c)
    BY <2>1, Logging DEF Logs, Executes
  <2>2. CASE Answers(c)
    BY <2>2 DEF Answers, Commits
  <2>3. CASE ~Logs(c) /\ ~Answers(c)
    <3>1. \A d \in Calls : pc'[d] = pc[d] \/ pc'[d] \notin {"logged", "answered"}
      BY <2>3 DEF Call, Arrives, LooksUp, Touches, Validates, Serves, Fails
    <3> QED BY <1>2, <3>1
  <2> QED BY <2>1, <2>2, <2>3
<1>5. ASSUME ~Ends, NEW a \in Admins, Administer(a) PROVE LogInv' /\ AnsweredIsLogged'
  <2>1. \A c \in Calls : pc'[c] = pc[c]
    BY <1>5 DEF Administer, Creates, Revokes, ShowsKey, Acknowledges, CommitFails
  <2> QED BY <1>2, <1>5, <2>1, FileKept
<1>6. ASSUME ~Ends, NEW k \in Keys, Cli(k) PROVE LogInv' /\ AnsweredIsLogged'
  <2>1. UNCHANGED pc
    BY <1>6 DEF Cli, CliRevokes, CliCreates, CliSetsPermissions, Externally, requests
  <2> QED BY <1>2, <1>6, <2>1, FileKept
<1> QED BY <1>1, <1>3, <1>4, <1>5, <1>6 DEF Next, Server
-----------------------------------------------------------------------------
(* No statement gives a key more than was chosen for it, and what a call   *)
(* was validated with is among what was chosen since it began.             *)
LEMMA GrantsKept ==
  ASSUME TypeOK, ConnectionInv, GrantInv, ServedIsAllowed, [Next]_vars
  PROVE  GrantInv' /\ ServedIsAllowed'
<1> USE KeyAssumption DEF KeyAssumption, TypeOK, GrantInv, ServedIsAllowed, Goes
<1>1. ASSUME NEW want \in [Keys -> Perms], Modest(disk, want), Modest(draft, want)
      PROVE  /\ Commits => Modest(disk', want) /\ Modest(draft', want)
             /\ Executes(draft) => Modest(disk', want) /\ Modest(draft', want)
  BY <1>1 DEF Commits, Executes
<1>2. ASSUME UNCHANGED <<chosen, allowed, seen>>, Modest(disk', chosen), Modest(draft', chosen),
             \A c \in Calls :
               pc'[c] = pc[c] \/ (pc[c] # "new" /\ pc'[c] \in {"logging", "logged", "answered",
                                                              "unlogged", "lost"})
      PROVE  GrantInv' /\ ServedIsAllowed'
  BY <1>2
<1>3. ASSUME NEW k \in Keys, NEW p \in Perms, Choose(k, p), UNCHANGED seen,
             Modest(disk', chosen'), Modest(draft', chosen'),
             \A c \in Calls : pc'[c] = pc[c]
      PROVE  GrantInv' /\ ServedIsAllowed'
  <2>1. \A c \in Calls : /\ allowed[c] \subseteq allowed'[c]
                         /\ KeyOf[c] = k => Grants[p] \subseteq allowed'[c]
                         /\ chosen'[KeyOf[c]] = IF KeyOf[c] = k THEN p ELSE chosen[KeyOf[c]]
    BY <1>3 DEF Choose
  <2> QED BY <1>3, <2>1
<1>4. CASE Starts
  BY <1>4, <1>2, Migrating DEF Starts, requests, history
<1>5. CASE Ends
  BY <1>5, <1>2 DEF Ends, InProgress, history
<1>6. ASSUME NEW c \in Calls, Call(c) PROVE GrantInv' /\ ServedIsAllowed'
  <2>1. CASE Arrives(c)
    BY <2>1 DEF Arrives
  <2>2. CASE LooksUp(c)
    <3>1. Valid(c) => Grants[draft.perm[KeyOf[c]]] \subseteq allowed[c]
      BY <2>2 DEF LooksUp, Valid, Modest
    <3> QED BY <2>2, <3>1 DEF LooksUp, history
  <2>3. CASE Touches(c)
    BY <2>3, <1>1 DEF Touches, history
  <2>4. CASE Validates(c)
    BY <2>4, <1>1 DEF Validates, IsAllowed, history
  <2>5. CASE Serves(c) \/ Fails(c)
    BY <2>5, <1>2 DEF Serves, Fails, history
  <2>6. CASE Logs(c)
    BY <2>6, <1>2, Logging DEF Logs, Executes, history
  <2>7. CASE Answers(c)
    BY <2>7, <1>1, <1>2 DEF Answers, history
  <2> QED BY <1>6, <2>1, <2>2, <2>3, <2>4, <2>5, <2>6, <2>7 DEF Call
<1>7. ASSUME NEW a \in Admins, Administer(a) PROVE GrantInv' /\ ServedIsAllowed'
  <2>1. ASSUME NEW k \in Keys, Creates(a, k) PROVE GrantInv' /\ ServedIsAllowed'
    <3>1. Modest(draft', chosen')
      BY <2>1, Inserting DEF Creates, Executes, Choose
    <3>2. Modest(disk', chosen')
      BY <2>1 DEF Creates, Executes, Choose, Absent, ConnectionInv, Kept, Modest
    <3> QED BY <2>1, <3>1, <3>2, <1>3 DEF Creates
  <2>2. ASSUME NEW k \in Keys, Revokes(a, k) PROVE GrantInv' /\ ServedIsAllowed'
    BY <2>2, <1>2, Revoking DEF Revokes, Executes, Absent, history
  <2>3. CASE ShowsKey(a)
    BY <2>3, <1>1, <1>2 DEF ShowsKey
  <2>4. CASE Acknowledges(a)
    BY <2>4, <1>1, <1>2 DEF Acknowledges
  <2>5. CASE CommitFails(a)
    BY <2>5, <1>2 DEF CommitFails, history
  <2> QED BY <1>7, <2>1, <2>2, <2>3, <2>4, <2>5 DEF Administer
<1>8. ASSUME NEW k \in Keys, Cli(k) PROVE GrantInv' /\ ServedIsAllowed'
  <2> USE DEF Externally, requests
  <2>1. CASE CliRevokes(k)
    BY <2>1, <1>2, Revoking DEF CliRevokes, Absent, ConnectionInv
  <2>2. ASSUME NEW p \in Perms, CliCreates(k, p) PROVE GrantInv' /\ ServedIsAllowed'
    <3>1. Modest(disk', chosen') /\ Modest(draft', chosen')
      BY <2>2, Inserting DEF CliCreates, Choose
    <3> QED BY <2>2, <3>1, <1>3 DEF CliCreates
  <2>3. ASSUME NEW p \in Perms, CliSetsPermissions(k, p) PROVE GrantInv' /\ ServedIsAllowed'
    <3>1. Modest(disk', chosen') /\ Modest(draft', chosen')
      BY <2>3, Permitting DEF CliSetsPermissions, Choose
    <3> QED BY <2>3, <3>1, <1>3 DEF CliSetsPermissions
  <2> QED BY <1>8, <2>1, <2>2, <2>3 DEF Cli
<1>9. CASE UNCHANGED vars
  BY <1>9, <1>2 DEF vars, requests, history
<1> QED BY <1>4, <1>5, <1>6, <1>7, <1>8, <1>9 DEF Next, Server

-----------------------------------------------------------------------------
(* The invariant: tables that only grow, and what each request and each    *)
(* administrator may conclude from them.                                   *)
THEOREM Inductive == Spec => []IInv
<1>1. Init => IInv
  <2> USE KeyAssumption DEF KeyAssumption, Init
  <2>1. Init => ConnectionInv
    BY KeptReflexive DEF ConnectionInv
  <2>2. Init => GrantInv
    BY DEF GrantInv, Modest
  <2>3. Init => ToldInv /\ LateInv /\ LogInv /\ AnsweredIsLogged /\ ServedIsAllowed
    BY DEF ToldInv, ToldIsOnDisk, LateInv, LogInv, AnsweredIsLogged, ServedIsAllowed
  <2> QED BY <2>1, <2>2, <2>3 DEF IInv
<1>2. TypeOK /\ IInv /\ [Next]_vars => IInv'
  BY FileKept, ToldKept, LateRefused, LogKept, GrantsKept DEF IInv
<1> QED BY <1>1, <1>2, TypeCorrect, PTL DEF Spec

(* What the administrator was told of a key survives every crash. *)
THEOREM ToldKeysOnDisk == Spec => []ToldIsOnDisk
BY Inductive, PTL DEF IInv, ToldInv

(* No request that began after the revocation was acknowledged is served. *)
THEOREM RevokedRefused == Spec => []RevokedKeyRefused
<1>1. LateInv => RevokedKeyRefused
  BY DEF LateInv, RevokedKeyRefused
<1> QED BY <1>1, Inductive, PTL DEF IInv

(* No request is served that permissions chosen for its key do not allow. *)
THEOREM AllServedAllowed == Spec => []ServedIsAllowed
BY Inductive, PTL DEF IInv

(* Every answer that is said to be logged is in the file. *)
THEOREM AllAnsweredLogged == Spec => []AnsweredIsLogged
BY Inductive, PTL DEF IInv

(* No step of the server, of the GUI, of the command line, no crash and no *)
(* start undoes a revocation that is in the file, or removes a key or a    *)
(* line of the audit log (auth/api_keys.py never deletes a row).           *)
THEOREM NothingUndone == Spec => [][Kept(disk, disk')]_vars
<1>1. TypeOK /\ ConnectionInv /\ [Next]_vars => [Kept(disk, disk')]_vars
  BY FileKept
<1> QED BY <1>1, TypeCorrect, Inductive, PTL DEF Spec, IInv

-----------------------------------------------------------------------------
(* What becomes of the permissions somebody chose *)

(* Each key has in these tables the permissions last asked for, or is a    *)
(* reader that was to be an administrator.                                 *)
OnlyAdminsLost(db, want) ==
  \A k \in Keys : db.status[k] # "absent" =>
    db.perm[k] = want[k] \/ (want[k] = Admin /\ db.perm[k] = Read)

LEMMA MigrationLosesOnlyAdmins ==
  ASSUME NEW db \in Contents, NEW want \in [Keys -> Perms], OnlyAdminsLost(db, want)
  PROVE  OnlyAdminsLost(Migrated(db), want)
BY DEF OnlyAdminsLost, Migrated, Contents

LostInv == OnlyAdminsLost(disk, chosen) /\ OnlyAdminsLost(draft, chosen)

LEMMA LostStep ==
  ASSUME TypeOK, ConnectionInv, LostInv, [Next]_vars
  PROVE  LostInv'
<1> USE KeyAssumption DEF KeyAssumption, TypeOK, LostInv
<1>1. ASSUME UNCHANGED chosen, disk' \in {disk, draft}, draft' \in {disk, draft}
      PROVE  LostInv'
  BY <1>1
<1>2. CASE Starts
  BY <1>2, MigrationLosesOnlyAdmins DEF Starts, history
<1>3. CASE Ends
  BY <1>3, <1>1 DEF Ends, history
<1>4. ASSUME NEW c \in Calls, Call(c) PROVE LostInv'
  <2>1. CASE Logs(c)
    <3>1. OnlyAdminsLost(Logged(draft, c), chosen)
      BY DEF OnlyAdminsLost, Logged, Contents
    <3> QED BY <2>1, <3>1 DEF Logs, Executes, history
  <2>2. CASE ~Logs(c)
    BY <1>1, <1>4, <2>2 DEF Call, Arrives, LooksUp, Touches, Validates, Serves, Answers, Fails,
       Executes, Commits, history
  <2> QED BY <2>1, <2>2
<1>5. ASSUME NEW a \in Admins, Administer(a) PROVE LostInv'
  <2>1. ASSUME NEW k \in Keys, Creates(a, k) PROVE LostInv'
    <3>1. disk.status[k] = "absent"
      BY <2>1 DEF Creates, Absent, ConnectionInv, Kept
    <3>2. OnlyAdminsLost(Inserted(draft, k, Read), [chosen EXCEPT ![k] = Read])
      BY DEF OnlyAdminsLost, Inserted, Contents
    <3>3. OnlyAdminsLost(disk, [chosen EXCEPT ![k] = Read])
      BY <3>1 DEF OnlyAdminsLost
    <3> QED BY <2>1, <3>2, <3>3 DEF Creates, Executes, Choose
  <2>2. ASSUME NEW k \in Keys, Revokes(a, k) PROVE LostInv'
    <3>1. OnlyAdminsLost(Revoked(draft, k), chosen)
      BY <2>2 DEF Revokes, Absent, OnlyAdminsLost, Revoked, Contents
    <3> QED BY <2>2, <3>1 DEF Revokes, Executes, history
  <2>3. CASE ShowsKey(a) \/ Acknowledges(a) \/ CommitFails(a)
    BY <1>1, <2>3 DEF ShowsKey, Acknowledges, CommitFails, Commits, history
  <2> QED BY <1>5, <2>1, <2>2, <2>3 DEF Administer
<1>6. ASSUME NEW k \in Keys, Cli(k) PROVE LostInv'
  <2>1. CASE CliRevokes(k)
    <3>1. disk.status[k] # "absent"
      BY <2>1 DEF CliRevokes, Externally, Absent, ConnectionInv
    <3>2. OnlyAdminsLost(Revoked(disk, k), chosen)
      BY <3>1 DEF OnlyAdminsLost, Revoked, Contents
    <3> QED BY <2>1, <3>2 DEF CliRevokes, Externally
  <2>2. ASSUME NEW p \in Perms, CliCreates(k, p) PROVE LostInv'
    <3>1. OnlyAdminsLost(Inserted(disk, k, p), [chosen EXCEPT ![k] = p])
      BY DEF OnlyAdminsLost, Inserted, Contents
    <3> QED BY <2>2, <3>1 DEF CliCreates, Externally, Choose
  <2>3. ASSUME NEW p \in Perms, CliSetsPermissions(k, p) PROVE LostInv'
    <3>1. OnlyAdminsLost(Permitted(disk, k, p), [chosen EXCEPT ![k] = p])
      BY DEF OnlyAdminsLost, Permitted, Contents
    <3> QED BY <2>3, <3>1 DEF CliSetsPermissions, Externally, Choose
  <2> QED BY <1>6, <2>1, <2>2, <2>3 DEF Cli
<1>7. CASE UNCHANGED vars
  BY <1>7, <1>1 DEF vars, history
<1> QED BY <1>2, <1>3, <1>4, <1>5, <1>6, <1>7 DEF Next, Server

(* The permissions of a key are those last asked for, through every crash, *)
(* failed commit and restart, unless these were an administrator's, which  *)
(* a start of the server may have turned into a reader's (init_db): that   *)
(* is all that PermissionsAsChosen is wrong about.                         *)
THEOREM OnlyAdminsBecomeReaders == Spec => []OnlyAdminsLost(disk, chosen)
<1>1. Init => LostInv
  BY DEF Init, LostInv, OnlyAdminsLost
<1>2. TypeOK /\ ConnectionInv /\ LostInv /\ [Next]_vars => LostInv'
  BY LostStep
<1>3. LostInv => OnlyAdminsLost(disk, chosen)
  BY DEF LostInv
<1> QED BY <1>1, <1>2, <1>3, TypeCorrect, Inductive, PTL DEF Spec, IInv

-----------------------------------------------------------------------------
(* Addresses (QBAccess) *)

Bytes == 0..255
IPv4(v) == v \in Seq(Bytes) /\ Len(v) = 4

Private4(v) == \/ v[1] \in {10, 127}
               \/ v[1] = 172 /\ v[2] \in 16..31
               \/ v[1] = 192 /\ v[2] = 168

LEMMA BytesAreNat == \A b \in Bytes : b \in Nat
BY DEF Bytes

LEMMA InNetwork4 ==
  ASSUME NEW v, IPv4(v)
  PROVE  /\ InNetwork(v, Network(<<10, 0, 0, 0>>, 8)) <=> v[1] = 10
         /\ InNetwork(v, Network(<<127, 0, 0, 0>>, 8)) <=> v[1] = 127
         /\ InNetwork(v, Network(<<192, 168, 0, 0>>, 16)) <=> v[1] = 192 /\ v[2] = 168
         /\ InNetwork(v, Network(<<172, 16, 0, 0>>, 12)) <=> v[1] = 172 /\ v[2] \in 16..31
<1> USE DEF IPv4
<1>0. v[1] \in Bytes /\ v[2] \in Bytes
  BY ElementOfSeq
<1>1. InNetwork(v, Network(<<10, 0, 0, 0>>, 8)) <=> v[1] = 10
  BY <1>0 DEF InNetwork, Network
<1>2. InNetwork(v, Network(<<127, 0, 0, 0>>, 8)) <=> v[1] = 127
  BY <1>0 DEF InNetwork, Network
<1>3. InNetwork(v, Network(<<192, 168, 0, 0>>, 16)) <=> v[1] = 192 /\ v[2] = 168
  BY <1>0 DEF InNetwork, Network
<1>4. InNetwork(v, Network(<<172, 16, 0, 0>>, 12)) <=> v[1] = 172 /\ v[2] \in 16..31
  <2> DEFINE net == Network(<<172, 16, 0, 0>>, 12)
  <2>1. net.bits \div 8 = 1 /\ net.bits % 8 = 4 /\ 2 ^ (8 - (net.bits % 8)) = 16
    <3>1. 12 \div 8 = 1 /\ 12 % 8 = 4 /\ 8 - 4 = 4 /\ 2 ^ 4 = 16
      OBVIOUS
    <3> QED BY <3>1 DEF Network
  <2>2. Len(net.bytes) = 4 /\ net.bytes[1] = 172 /\ net.bytes[2] = 16
    BY DEF Network
  <2>3. v[2] \div 16 = 16 \div 16 <=> v[2] \in 16..31
    <3>1. \A b \in Nat : b \div 16 = 16 \div 16 <=> b \in 16..31
      OBVIOUS
    <3>2. v[2] \in Nat
      BY <1>0, BytesAreNat
    <3> QED BY <3>1, <3>2
  <2> HIDE DEF net
  <2>4. InNetwork(v, net) <=> v[1] = 172 /\ v[2] \div 16 = 16 \div 16
    BY <2>1, <2>2 DEF InNetwork
  <2> QED BY <2>3, <2>4 DEF net
<1> QED BY <1>1, <1>2, <1>3, <1>4

LEMMA ZerosLen ==
  ASSUME NEW n \in Nat PROVE Zeros(n) \in Seq({0}) /\ Len(Zeros(n)) = n
BY IsASeq DEF Zeros

(* An IPv4 address is taken for private exactly when it is loopback or of  *)
(* one of the three networks of RFC 1918 (PRIVATE_NETWORKS of              *)
(* auth/ip_filter.py).                                                     *)
THEOREM PrivateIPv4 ==
  ASSUME NEW v, IPv4(v)
  PROVE  IsPrivateIP(v) <=> Private4(v)
<1>1. Unwrap(v) = v
  BY DEF Unwrap, IPv4
<1>2. Len(Zeros(15) \o <<1>>) = 16 /\ Len(<<252>> \o Zeros(15)) = 16
  BY ZerosLen
<1>3. /\ ~InNetwork(v, Network(Zeros(15) \o <<1>>, 128))
      /\ ~InNetwork(v, Network(<<252>> \o Zeros(15), 7))
  BY <1>2 DEF InNetwork, Network, IPv4
<1> QED BY <1>1, <1>3, InNetwork4 DEF IsPrivateIP, PRIVATE_NETWORKS, Private4

Apart(s, t, m, n) ==
  /\ Len(s \o t) = m + n
  /\ SubSeq(s \o t, 1, m) = s /\ SubSeq(s \o t, m + 1, m + n) = t

LEMMA Following ==
  ASSUME NEW u, NEW m \in Nat \ {0}, NEW n \in Nat \ {0},
         \A i \in m + 1 .. m + n : u[i] \in Nat
  PROVE  /\ SubSeq(u, m + 1, m + n) \in Seq(Nat)
         /\ Len(SubSeq(u, m + 1, m + n)) = n
         /\ \A i \in 1 .. n : SubSeq(u, m + 1, m + n)[i] = u[m + i]
<1>1. PICK a \in Int, b \in Int : a = m + 1 /\ b = m + n
  OBVIOUS
<1>2. /\ SubSeq(u, a, b) \in Seq(Nat)
      /\ Len(SubSeq(u, a, b)) = IF a <= b THEN b - a + 1 ELSE 0
      /\ \A i \in 1 .. b - a + 1 : SubSeq(u, a, b)[i] = u[a + i - 1]
  BY <1>1, SubSeqProperties
<1>3. a <= b /\ b - a + 1 = n
  BY <1>1
<1>4. \A i \in 1 .. n : a + i - 1 = m + i
  BY <1>1
<1>5. \A i \in 1 .. n : SubSeq(u, a, b)[i] = u[m + i]
  BY <1>2, <1>3, <1>4
<1> QED BY <1>1, <1>2, <1>3, <1>5

LEMMA TakenApart ==
  ASSUME NEW s \in Seq(Nat), NEW t \in Seq(Nat), NEW m \in Nat \ {0}, NEW n \in Nat \ {0},
         Len(s) = m, Len(t) = n
  PROVE  Apart(s, t, m, n)
<1>1. s \o t \in Seq(Nat) /\ Len(s \o t) = m + n
  BY SMTT(30)
<1>2. SubSeq(s \o t, 1, m) = s
  <2>1. SubSeq(s \o t, 1, m) = SubSeq(s, 1, m)
    BY SubSeqOfConcat1
  <2> QED BY <2>1, SubSeqFull
<1>3. SubSeq(s \o t, m + 1, m + n) = t
  <2>1. \A i \in 1..n : (s \o t)[m + i] = t[i]
    OBVIOUS
  <2>2. \A i \in m + 1 .. m + n : (s \o t)[i] \in Nat
    BY <1>1
  <2>3. /\ SubSeq(s \o t, m + 1, m + n) \in Seq(Nat)
        /\ Len(SubSeq(s \o t, m + 1, m + n)) = n
        /\ \A i \in 1 .. n : SubSeq(s \o t, m + 1, m + n)[i] = (s \o t)[m + i]
    BY <2>2, Following, SMTT(30)
  <2> QED BY <2>1, <2>3, SeqEqual
<1> QED BY <1>1, <1>2, <1>3 DEF Apart

(* ... and the form in which a dual-stack socket presents an IPv4 address  *)
(* is taken for what the address is taken for (_unwrap of ip_filter.py).   *)
THEOREM MappedAlike ==
  ASSUME NEW v, IPv4(v)
  PROVE  IsPrivateIP(Mapped(v)) <=> IsPrivateIP(v)
<1>1. Unwrap(v) = v
  BY DEF Unwrap, IPv4
<1>2. PICK head : head = Zeros(10) \o <<255, 255>>
  OBVIOUS
<1>3. PICK m \in Nat \ {0}, n \in Nat \ {0} : m = 12 /\ n = 4
  OBVIOUS
<1>4. head \in Seq(Nat) /\ Len(head) = m
  BY <1>2, <1>3, ZerosLen
<1>5. v \in Seq(Nat) /\ Len(v) = n
  <2>1. Bytes \subseteq Nat
    BY BytesAreNat
  <2> QED BY <1>3, <2>1, SeqMonotonic DEF IPv4
<1>6. Mapped(v) = head \o v
  BY <1>2 DEF Mapped
<1>7. Apart(head, v, m, n)
  BY <1>4, <1>5, TakenApart
<1>8. m = 12 /\ m + 1 = 13 /\ m + n = 16
  BY <1>3
<1>9. Unwrap(Mapped(v)) = v
  BY <1>2, <1>6, <1>7, <1>8, ZenonT(40) DEF Unwrap, Apart
<1> QED BY <1>1, <1>9 DEF IsPrivateIP
===============================================================================
