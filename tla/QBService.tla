------------------------------ MODULE QBService ------------------------------
(***************************************************************************)
(* What QBSessionManager.execute promises its callers, with no worker, no  *)
(* lock and no retry in sight: a call is submitted once and ends once; the *)
(* company file is changed at most once on behalf of a write; a write      *)
(* that returned has been applied; and a write that ended with             *)
(* QBUnavailableError (a 503 with Retry-After) was never applied and never *)
(* will be, so the caller may submit it again.  A write that ended with    *)
(* any other error may still be applied later: QuickBooks keeps working on *)
(* a request whose worker is gone.                                         *)
(***************************************************************************)
EXTENDS Naturals

CONSTANTS Reqs,     \* calls of execute
          Writes    \* those of them made without idempotent=True

VARIABLES status,   \* what the caller of each request knows: new, refused,
                    \* pending, ok, error or unavailable
          applied   \* how often QuickBooks has applied each write

vars == <<status, applied>>

Init == /\ status = [r \in Reqs |-> "new"]
        /\ applied = [w \in Writes |-> 0]

Move(r, from, to) == /\ status[r] \in from
                     /\ status' = [status EXCEPT ![r] = to]
                     /\ UNCHANGED applied

Open == {"new", "pending"}   \* a call can fail before it has to wait

Refuse(r) == Move(r, {"new"}, "refused")
Submit(r) == Move(r, {"new"}, "pending")
Fail(r)   == Move(r, Open, "error")
Answer(r) == /\ r \in Writes => applied[r] = 1
             /\ Move(r, {"pending"}, "ok")
GiveUp(r) == /\ r \in Writes => applied[r] = 0
             /\ Move(r, Open, "unavailable")

Apply(w) == /\ status[w] \in {"pending", "error"}
            /\ applied[w] = 0
            /\ applied' = [applied EXCEPT ![w] = 1]
            /\ UNCHANGED status

Next == \/ \E r \in Reqs : Refuse(r) \/ Submit(r) \/ Fail(r) \/ Answer(r) \/ GiveUp(r)
        \/ \E w \in Writes : Apply(w)

Spec == Init /\ [][Next]_vars
=============================================================================
