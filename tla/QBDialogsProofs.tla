--------------------------- MODULE QBDialogsProofs ---------------------------
(***************************************************************************)
(* Theorems about QBDialogs, for any windows, texts, calls, people and     *)
(* intervals: its types, what the polling loop does as long as it is the   *)
(* only one to sweep (that this fails with others is what the run          *)
(* sweep_claim shows), and what all sweeps click.  And theorems about      *)
(* QBRules, for every file of rules and every dialog.                      *)
(***************************************************************************)
EXTENDS QBDialogs, QBRules, WellFoundedInduction, TLAPS

(* A thread that warns or clicks is at a window. *)
AtWindow == {"warning", "clicking", "waiting", "settling", "failing"}

CurInv == \A t \in Threads : pc[t] \in AtWindow => cur[t] \in Dialogs

IInv == TypeOK /\ CurInv

-----------------------------------------------------------------------------
(* Dictionaries *)

LEMMA CapType == Cap \in Nat /\ Span \in 0..Cap /\ 0 \in 0..Cap
BY DialogAssumption DEF Cap, DialogAssumption

LEMMA AgesAre ==
  ASSUME NEW dict
  PROVE  dict \in Ages <=> DOMAIN dict \subseteq Signatures /\ dict \in [DOMAIN dict -> 0..Cap]
<1>1. ASSUME dict \in Ages PROVE DOMAIN dict \subseteq Signatures /\ dict \in [DOMAIN dict -> 0..Cap]
  BY <1>1 DEF Ages
<1>2. ASSUME DOMAIN dict \subseteq Signatures, dict \in [DOMAIN dict -> 0..Cap] PROVE dict \in Ages
  BY <1>2 DEF Ages
<1> QED BY <1>1, <1>2

LEMMA PutType ==
  ASSUME NEW dict \in Ages, NEW g \in Signatures, NEW age \in 0..Cap
  PROVE  Put(dict, g, age) \in Ages
<1>1. DOMAIN dict \subseteq Signatures /\ dict \in [DOMAIN dict -> 0..Cap]
  BY AgesAre
<1>2. Put(dict, g, age) \in [DOMAIN dict \cup {g} -> 0..Cap]
  BY <1>1 DEF Put
<1> QED BY <1>1, <1>2, AgesAre

LEMMA PopIs ==
  ASSUME NEW dict \in Ages, NEW g
  PROVE  Pop(dict, g) \in Ages /\ DOMAIN Pop(dict, g) = DOMAIN dict \ {g}
<1>1. DOMAIN dict \subseteq Signatures /\ dict \in [DOMAIN dict -> 0..Cap]
  BY AgesAre
<1>2. Pop(dict, g) \in [DOMAIN dict \ {g} -> 0..Cap]
  BY <1>1 DEF Pop, Restrict
<1> QED BY <1>1, <1>2, AgesAre

LEMMA OlderIs ==
  ASSUME NEW dict \in Ages
  PROVE  Older(dict) \in Ages /\ DOMAIN Older(dict) = DOMAIN dict
<1>1. DOMAIN dict \subseteq Signatures /\ dict \in [DOMAIN dict -> 0..Cap]
  BY AgesAre
<1>2. Older(dict) \in [DOMAIN dict -> 0..Cap]
  BY <1>1, CapType DEF Older
<1> QED BY <1>1, <1>2, AgesAre

LEMMA NoEntriesType == NoEntries \in Ages
<1>1. NoEntries \in [{} -> 0..Cap]
  BY DEF NoEntries
<1> QED BY <1>1, AgesAre

-----------------------------------------------------------------------------
(* Types *)

LEMMA InitIInv == Init => IInv
<1> SUFFICES ASSUME Init PROVE IInv
  OBVIOUS
<1> USE DialogAssumption, NoEntriesType DEF DialogAssumption
<1>1. TypeOK
  <2>1. window \in [Dialogs -> {"absent", "open", "closed"}] /\ clicked \subseteq Dialogs /\ running \in BOOLEAN
    BY DEF Init
  <2>2. openDialogs \subseteq Dialogs /\ lastError \in BOOLEAN /\ warned \in Ages /\ failed \in Ages
    BY DEF Init
  <2>3. /\ pc \in [Threads -> Steps]
        /\ cur \in [Threads -> Dialogs \cup {NoDialog}]
        /\ since \in [Threads -> 0..Span]
    BY DEF Init, Steps
  <2>4. /\ found \in [Threads -> SUBSET Dialogs] /\ todo \in [Threads -> SUBSET Dialogs]
        /\ victims \in [Threads -> SUBSET Signatures]
        /\ titles \in [Calls -> SUBSET Dialogs]
    BY DEF Init
  <2> QED BY <2>1, <2>2, <2>3, <2>4 DEF TypeOK
<1>2. CurInv
  BY DEF Init, CurInv, AtWindow
<1> QED BY <1>1, <1>2 DEF IInv

(* What the environment and the clock do. *)
LEMMA WorldType ==
  ASSUME IInv, NEW d \in Dialogs, Appears(d) \/ Closes(d) \/ Obeys(d)
  PROVE  IInv'
<1> USE DEF IInv
<1>1. UNCHANGED <<openDialogs, lastError, warned, failed, pc, found, todo, cur, since, victims, titles>>
  BY DEF Appears, Closes, Obeys, World, shared, local
<1>2. /\ window' \in [Dialogs -> {"absent", "open", "closed"}]
      /\ clicked' \subseteq Dialogs
      /\ running' \in BOOLEAN
  BY DEF Appears, Closes, Obeys, World, TypeOK
<1>3. TypeOK'
  BY <1>1, <1>2 DEF TypeOK
<1>4. CurInv'
  BY <1>1 DEF CurInv
<1> QED BY <1>3, <1>4

LEMMA TickType == ASSUME IInv, Tick PROVE IInv'
<1> USE DEF IInv
<1>1. warned' \in Ages /\ failed' \in Ages
  BY OlderIs DEF Tick, TypeOK
<1>2. since' \in [Threads -> 0..Span]
  BY DialogAssumption DEF Tick, TypeOK, DialogAssumption
<1>3. TypeOK'
  BY <1>1, <1>2 DEF Tick, TypeOK
<1>4. CurInv'
  BY DEF Tick, CurInv
<1> QED BY <1>3, <1>4

-----------------------------------------------------------------------------
(* What a thread may have done after a step of its own: its place is one   *)
(* of the places there are, and it is at a window if that takes one.       *)
Local == /\ pc' \in [Threads -> Steps]
         /\ found' \in [Threads -> SUBSET Dialogs] /\ todo' \in [Threads -> SUBSET Dialogs]
         /\ cur' \in [Threads -> Dialogs \cup {NoDialog}]
         /\ since' \in [Threads -> 0..Span]
         /\ victims' \in [Threads -> SUBSET Signatures]

Shared == /\ clicked' \subseteq Dialogs
          /\ openDialogs' \subseteq Dialogs
          /\ lastError' \in BOOLEAN
          /\ warned' \in Ages /\ failed' \in Ages

LEMMA ThreadIInv ==
  ASSUME IInv, Local, Shared, UNCHANGED <<window, running>>,
         titles' \in [Calls -> SUBSET Dialogs],
         NEW t \in Threads,
         \A u \in Threads \ {t} : pc'[u] = pc[u] /\ cur'[u] = cur[u],
         pc'[t] \in AtWindow => cur'[t] \in Dialogs
  PROVE  IInv'
<1>1. TypeOK'
  BY DEF IInv, TypeOK, Local, Shared
<1>2. CurInv'
  BY DEF IInv, CurInv
<1> QED BY <1>1, <1>2 DEF IInv

LEMMA ScanType ==
  ASSUME IInv, NEW t \in Sweepers, Scan(t) \/ ScanFails(t) \/ Publish(t)
  PROVE  IInv'
<1> USE DialogAssumption DEF IInv, DialogAssumption
<1>0. t \in Threads
  BY DEF Threads
<1>1. Local
  <2>1. CASE Scan(t)
    <3>1. Open \in SUBSET Dialogs
      BY DEF Open
    <3> QED BY <1>0, <2>1, <3>1 DEF Scan, Goes, TypeOK, Local, Steps
  <2>2. CASE ScanFails(t)
    BY <2>2 DEF ScanFails, local, TypeOK, Local
  <2>3. CASE Publish(t)
    BY <1>0, <2>3 DEF Publish, Goes, TypeOK, Local, Steps
  <2> QED BY <2>1, <2>2, <2>3
<1>2. Shared /\ UNCHANGED <<window, running, titles>>
  BY <1>0 DEF Scan, ScanFails, Publish, Quiet, shared, TypeOK, Shared
<1>3. /\ \A u \in Threads \ {t} : pc'[u] = pc[u] /\ cur'[u] = cur[u]
      /\ pc'[t] \in AtWindow => cur'[t] \in Dialogs
  BY <1>0 DEF Scan, ScanFails, Publish, Goes, Quiet, shared, local, TypeOK, CurInv, AtWindow
<1> QED BY <1>0, <1>1, <1>2, <1>3, ThreadIInv DEF TypeOK

LEMMA VisitType ==
  ASSUME IInv, NEW t \in Threads, NEW d \in Dialogs,
         NEW to \in {"sweeping", "warning", "clicking"}, Visit(t, d, to)
  PROVE  IInv'
<1> USE DEF IInv
<1>1. Local
  BY DEF Visit, Goes, TypeOK, Local, Steps
<1>2. Shared /\ UNCHANGED <<window, running, titles>>
  BY DEF Visit, Quiet, shared, TypeOK, Shared
<1>3. /\ \A u \in Threads \ {t} : pc'[u] = pc[u] /\ cur'[u] = cur[u]
      /\ pc'[t] \in AtWindow => cur'[t] \in Dialogs
  BY DEF Visit, Goes, TypeOK, AtWindow
<1> QED BY <1>1, <1>2, <1>3, ThreadIInv DEF TypeOK

LEMMA LookType ==
  ASSUME IInv, NEW t \in Threads, NEW d \in Dialogs, Looks(t, d) \/ Approaches(t, d)
  PROVE  IInv'
<1>1. CASE Looks(t, d)
  BY <1>1, VisitType DEF Looks
<1>2. CASE Approaches(t, d)
  BY <1>2, VisitType DEF Approaches
<1> QED BY <1>1, <1>2

LEMMA WarnType == ASSUME IInv, NEW t \in Threads, Warns(t) PROVE IInv'
<1> USE DEF IInv
<1>1. Local /\ pc'[t] = "sweeping"
  BY DEF Warns, Leaves, Goes, TypeOK, Local, Steps
<1>2. cur[t] \in Dialogs
  BY DEF Warns, CurInv, AtWindow
<1>3. warned' \in Ages
  BY <1>2, PutType, CapType, DialogAssumption DEF Warns, TypeOK, DialogAssumption
<1>4. Shared /\ UNCHANGED <<window, running, titles>>
  BY <1>3 DEF Warns, Quiet, TypeOK, Shared
<1>5. \A u \in Threads \ {t} : pc'[u] = pc[u] /\ cur'[u] = cur[u]
  BY DEF Warns, Leaves, Goes, TypeOK
<1> QED BY <1>1, <1>4, <1>5, ThreadIInv DEF TypeOK, AtWindow

LEMMA ClickType == ASSUME IInv, NEW t \in Threads, Click(t) PROVE IInv'
<1> USE DEF IInv
<1>1. /\ Local
      /\ \A u \in Threads \ {t} : pc'[u] = pc[u] /\ cur'[u] = cur[u]
      /\ pc'[t] \in AtWindow => pc[t] \in AtWindow /\ cur'[t] = cur[t]
  <2>1. CASE Clicks(t) \/ ClickFails(t) \/ WaitsInVain(t)
    BY <2>1 DEF Clicks, ClickFails, WaitsInVain, Goes, local, TypeOK, Local, Steps, AtWindow
  <2>2. CASE SeesClosed(t)
    BY <2>2 DEF SeesClosed, Leaves, Goes, local, TypeOK, Local, Steps, AtWindow
  <2>3. CASE Settles(t)
    BY <2>3 DEF Settles, Leaves, Goes, TypeOK, Local, Steps, AtWindow
  <2>4. CASE Fails(t)
    BY <2>4 DEF Fails, Leaves, Goes, TypeOK, Local, Steps, AtWindow
  <2> QED BY <2>1, <2>2, <2>3, <2>4 DEF Click
<1>2. pc[t] \in AtWindow => cur[t] \in Dialogs
  BY DEF CurInv
<1>3. Shared /\ UNCHANGED <<window, running, titles>>
  <2>1. CASE Clicks(t)
    BY <2>1, <1>2 DEF Clicks, shared, TypeOK, Shared, Open
  <2>2. CASE ClickFails(t) \/ WaitsInVain(t)
    BY <2>2 DEF ClickFails, WaitsInVain, Quiet, shared, TypeOK, Shared
  <2>3. CASE SeesClosed(t)
    BY <2>3, PopIs DEF SeesClosed, Quiet, TypeOK, Shared
  <2>4. CASE Settles(t)
    BY <2>4, PopIs DEF Settles, Quiet, TypeOK, Shared
  <2>5. CASE Fails(t)
    <3>1. Sig[cur[t]] \in Signatures /\ since[t] \in 0..Cap
      BY <2>5, <1>2, CapType, DialogAssumption DEF Fails, AtWindow, TypeOK, DialogAssumption
    <3>2. failed' \in Ages
      BY <2>5, <3>1, PutType DEF Fails, TypeOK
    <3> QED BY <2>5, <3>2 DEF Fails, Quiet, TypeOK, Shared
  <2> QED BY <2>1, <2>2, <2>3, <2>4, <2>5 DEF Click
<1> QED BY <1>1, <1>2, <1>3, ThreadIInv DEF TypeOK

LEMMA PruneType ==
  ASSUME IInv, NEW t \in Threads, PrunesWarned(t) \/ PrunesFailed(t)
  PROVE  IInv'
<1> USE DEF IInv
<1>1. PICK from \in {"sweeping", "pruneWarned"}, to \in {"pruneWarned", "pruneFailed"},
           chosen \in SUBSET Signatures : Prunes(t, from, to, chosen)
  <2>1. \A dict \in Ages, n \in {WarnInterval, RetryInterval} : Expired(t, dict, n) \in SUBSET Signatures
    BY AgesAre DEF Expired
  <2> QED BY <2>1 DEF PrunesWarned, PrunesFailed, TypeOK
<1>2. /\ Local
      /\ \A u \in Threads \ {t} : pc'[u] = pc[u] /\ cur'[u] = cur[u]
      /\ pc'[t] \notin AtWindow
  BY <1>1 DEF Prunes, Goes, TypeOK, Local, Steps, AtWindow
<1>3. Shared /\ UNCHANGED <<window, running, titles>>
  BY <1>1 DEF Prunes, Quiet, shared, TypeOK, Shared
<1> QED BY <1>2, <1>3, ThreadIInv DEF TypeOK

LEMMA DeleteType ==
  ASSUME IInv, NEW t \in Threads, NEW g \in Signatures, DeletesWarned(t, g) \/ DeletesFailed(t, g)
  PROVE  IInv'
<1> USE DEF IInv
<1>1. PICK present \in BOOLEAN : Deletes(t, g, present)
  <2>1. Deletes(t, g, g \in DOMAIN warned) \/ Deletes(t, g, g \in DOMAIN failed)
    BY DEF DeletesWarned, DeletesFailed
  <2>2. (g \in DOMAIN warned) \in BOOLEAN /\ (g \in DOMAIN failed) \in BOOLEAN
    OBVIOUS
  <2> QED BY <2>1, <2>2
<1>2. pc[t] \in {"pruneWarned", "pruneFailed"}
  BY DEF DeletesWarned, DeletesFailed
<1>3. /\ Local
      /\ \A u \in Threads \ {t} : pc'[u] = pc[u] /\ cur'[u] = cur[u]
      /\ pc'[t] \notin AtWindow
  BY <1>1, <1>2 DEF Deletes, Goes, TypeOK, Local, Steps, AtWindow
<1>4. warned' \in Ages /\ failed' \in Ages
  <2>1. warned \in Ages /\ failed \in Ages
    BY DEF TypeOK
  <2>2. warned' \in {warned, Pop(warned, g)} /\ failed' \in {failed, Pop(failed, g)}
    BY DEF DeletesWarned, DeletesFailed
  <2> QED BY <2>1, <2>2, PopIs
<1>5. Shared /\ UNCHANGED <<window, running, titles>>
  BY <1>1, <1>4 DEF Deletes, Quiet, TypeOK, Shared
<1> QED BY <1>3, <1>5, ThreadIInv DEF TypeOK

LEMMA EndType ==
  ASSUME IInv, NEW t \in Threads, Ends(t) \/ Raises(t) \/ (t \in Calls /\ Reports(t))
  PROVE  IInv'
<1> USE DialogAssumption DEF IInv, DialogAssumption
<1>1. /\ Local
      /\ \A u \in Threads \ {t} : pc'[u] = pc[u] /\ cur'[u] = cur[u]
      /\ pc'[t] \notin AtWindow
  <2>1. CASE Goes(t, "idle") /\ Reset(t)
    BY <2>1 DEF Goes, Reset, TypeOK, Local, Steps, AtWindow
  <2>2. CASE Goes(t, "reporting") /\ UNCHANGED local
    BY <2>2 DEF Goes, local, TypeOK, Local, Steps, AtWindow
  <2> QED BY <2>1, <2>2 DEF Ends, Raises, Reports
<1>2. Shared /\ UNCHANGED <<window, running>> /\ titles' \in [Calls -> SUBSET Dialogs]
  <2>1. CASE Ends(t)
    BY <2>1 DEF Ends, Quiet, shared, TypeOK, Shared
  <2>2. CASE Raises(t)
    BY <2>2 DEF Raises, Quiet, TypeOK, Shared
  <2>3. CASE t \in Calls /\ Reports(t)
    <3>1. {d \in openDialogs : ~Matches(d)} \in SUBSET Dialogs
      BY DEF TypeOK
    <3> QED BY <2>3, <3>1 DEF Reports, Quiet, shared, TypeOK, Shared
  <2> QED BY <2>1, <2>2, <2>3
<1> QED BY <1>1, <1>2, ThreadIInv

LEMMA OrderType == ASSUME IInv, NEW p \in People, NEW d \in Dialogs, Orders(p, d) PROVE IInv'
<1> USE DialogAssumption DEF IInv, DialogAssumption
<1>0. p \in Threads
  BY DEF Threads
<1>1. /\ Local
      /\ \A u \in Threads \ {p} : pc'[u] = pc[u] /\ cur'[u] = cur[u]
      /\ cur'[p] \in Dialogs
  BY <1>0 DEF Orders, Goes, TypeOK, Local, Steps
<1>2. Shared /\ UNCHANGED <<window, running, titles>>
  BY DEF Orders, Quiet, shared, TypeOK, Shared
<1> QED BY <1>0, <1>1, <1>2, ThreadIInv DEF TypeOK

LEMMA SweepType == ASSUME IInv, NEW t \in Sweepers, Sweep(t) PROVE IInv'
<1>0. t \in Threads
  BY DEF Threads
<1>1. CASE Publish(t)
  BY <1>1, ScanType
<1>2. CASE \E d \in Dialogs : Looks(t, d) \/ Approaches(t, d)
  BY <1>0, <1>2, LookType
<1>3. CASE Warns(t)
  BY <1>0, <1>3, WarnType
<1>4. CASE PrunesWarned(t) \/ PrunesFailed(t)
  BY <1>0, <1>4, PruneType
<1>5. CASE \E g \in Signatures : DeletesWarned(t, g) \/ DeletesFailed(t, g)
  BY <1>0, <1>5, DeleteType
<1>6. CASE Ends(t) \/ Raises(t)
  BY <1>0, <1>6, EndType
<1> QED BY <1>1, <1>2, <1>3, <1>4, <1>5, <1>6 DEF Sweep

LEMMA NextIInv == IInv /\ [Next]_vars => IInv'
<1> SUFFICES ASSUME IInv, [Next]_vars PROVE IInv'
  OBVIOUS
<1>1. CASE \E d \in Dialogs : Appears(d) \/ Closes(d) \/ Obeys(d)
  BY <1>1, WorldType
<1>2. CASE Tick
  BY <1>2, TickType
<1>3. CASE Stop
  <2>1. UNCHANGED <<window, clicked, shared, pc, local, titles>> /\ running' \in BOOLEAN
    BY <1>3 DEF Stop
  <2> QED BY <2>1 DEF IInv, TypeOK, CurInv, shared, local
<1>4. CASE \E t \in Sweepers : Scan(t) \/ ScanFails(t) \/ Sweep(t)
  BY <1>4, ScanType, SweepType
<1>5. CASE \E t \in Threads : Click(t)
  BY <1>5, ClickType
<1>6. CASE \E c \in Calls : Reports(c)
  BY <1>6, EndType DEF Threads, Sweepers
<1>7. CASE \E p \in People, d \in Dialogs : Orders(p, d)
  BY <1>7, OrderType
<1>8. CASE UNCHANGED vars
  BY <1>8 DEF vars, shared, local, IInv, TypeOK, CurInv
<1> QED BY <1>1, <1>2, <1>3, <1>4, <1>5, <1>6, <1>7, <1>8 DEF Next

(* The bookkeeping keeps its types: the ages stay within the intervals, and*)
(* whatever is entered, popped and deleted by however many threads, the    *)
(* dictionaries are about texts of windows.                                *)
THEOREM TypeCorrect == Spec => []TypeOK
<1>1. IInv => TypeOK
  BY DEF IInv
<1> QED BY <1>1, InitIInv, NextIInv, PTL DEF Spec

(* The same, with the window each thread is at. *)
LEMMA IInvHolds == Spec => []IInv
BY InitIInv, NextIInv, PTL DEF Spec

-----------------------------------------------------------------------------
(* A sweep that is alone finds in the dictionaries what it has chosen.     *)
VictimInv ==
  /\ pc[Loop] = "pruneWarned" => victims[Loop] \subseteq DOMAIN warned
  /\ pc[Loop] = "pruneFailed" => victims[Loop] \subseteq DOMAIN failed
  /\ pc[Loop] # "raised"

LEMMA VictimStep ==
  ASSUME Calls = {}, People = {}, IInv, VictimInv, [Next]_vars
  PROVE  VictimInv'
<1> USE DEF IInv
<1>0. Sweepers = {Loop} /\ Threads = {Loop}
  BY DEF Sweepers, Threads
<1>1. CASE \E d \in Dialogs : Appears(d) \/ Closes(d) \/ Obeys(d)
  BY <1>1 DEF Appears, Closes, Obeys, World, shared, local, VictimInv
<1>2. CASE Tick
  BY <1>2, OlderIs DEF Tick, VictimInv, TypeOK
<1>3. CASE Stop \/ UNCHANGED vars
  BY <1>3 DEF Stop, vars, shared, local, VictimInv
<1>4. CASE \E t \in Sweepers : Scan(t) \/ ScanFails(t) \/ Sweep(t)
  <2>1. CASE ScanFails(Loop)
    BY <2>1 DEF ScanFails, local, VictimInv
  <2>2. CASE Scan(Loop) \/ Publish(Loop) \/ Warns(Loop)
    BY <1>0, <2>2 DEF Scan, Publish, Warns, Leaves, Goes, TypeOK, VictimInv
  <2>3. CASE \E d \in Dialogs : Looks(Loop, d) \/ Approaches(Loop, d)
    BY <1>0, <2>3 DEF Looks, Approaches, Visit, Goes, TypeOK, VictimInv
  <2>4. CASE PrunesWarned(Loop)
    BY <1>0, <2>4 DEF PrunesWarned, Prunes, Goes, Expired, shared, TypeOK, VictimInv
  <2>5. CASE PrunesFailed(Loop)
    BY <1>0, <2>5 DEF PrunesFailed, Prunes, Goes, Expired, shared, TypeOK, VictimInv
  <2>6. CASE \E g \in Signatures : DeletesWarned(Loop, g)
    <3>1. PICK g \in Signatures : DeletesWarned(Loop, g)
      BY <2>6
    <3>2. g \in DOMAIN warned
      BY <3>1 DEF DeletesWarned, Deletes, VictimInv
    <3>3. pc[Loop] = "pruneWarned" /\ UNCHANGED pc /\ victims'[Loop] = victims[Loop] \ {g}
      BY <1>0, <3>1, <3>2 DEF DeletesWarned, Deletes, TypeOK
    <3>4. DOMAIN warned' = DOMAIN warned \ {g}
      BY <3>1, PopIs DEF DeletesWarned, TypeOK
    <3> QED BY <3>3, <3>4 DEF VictimInv
  <2>7. CASE \E g \in Signatures : DeletesFailed(Loop, g)
    <3>1. PICK g \in Signatures : DeletesFailed(Loop, g)
      BY <2>7
    <3>2. g \in DOMAIN failed
      BY <3>1 DEF DeletesFailed, Deletes, VictimInv
    <3>3. pc[Loop] = "pruneFailed" /\ UNCHANGED pc /\ victims'[Loop] = victims[Loop] \ {g}
      BY <1>0, <3>1, <3>2 DEF DeletesFailed, Deletes, TypeOK
    <3>4. DOMAIN failed' = DOMAIN failed \ {g}
      BY <3>1, PopIs DEF DeletesFailed, TypeOK
    <3> QED BY <3>3, <3>4 DEF VictimInv
  <2>8. CASE Ends(Loop) \/ Raises(Loop)
    BY <1>0, <2>8 DEF Ends, Raises, Goes, TypeOK, VictimInv
  <2> QED BY <1>0, <1>4, <2>1, <2>2, <2>3, <2>4, <2>5, <2>6, <2>7, <2>8 DEF Sweep
<1>5. CASE \E t \in Threads : Click(t)
  BY <1>0, <1>5 DEF Click, Clicks, ClickFails, SeesClosed, WaitsInVain, Settles, Fails, Leaves, Goes,
                    TypeOK, VictimInv
<1> QED BY <1>0, <1>1, <1>2, <1>3, <1>4, <1>5 DEF Next

(* A sweep that is alone ends without an error of its own: every entry it  *)
(* has chosen to delete is still there when it comes to it, over any number*)
(* of sweeps.                                                              *)
THEOREM LoneSweepEndsWell ==
  ASSUME Calls = {}, People = {}
  PROVE  Spec => []SweepEndsWell
<1>1. Init => VictimInv
  BY DialogAssumption DEF Init, VictimInv, Threads, Sweepers, DialogAssumption
<1>2. IInv /\ VictimInv /\ [Next]_vars => VictimInv'
  BY VictimStep
<1>3. VictimInv => SweepEndsWell
  BY DEF VictimInv, SweepEndsWell, Sweepers
<1> QED BY <1>1, <1>2, <1>3, IInvHolds, PTL DEF Spec

-----------------------------------------------------------------------------
(* What sweeps click, and what they keep books of, whoever else sweeps     *)

(* A sweep warns about a window no rule matches, and clicks others. *)
AimInv ==
  \A t \in Sweepers :
    /\ pc[t] \in {"clicking", "waiting", "settling", "failing"} => Matches(cur[t])
    /\ pc[t] = "warning" => ~Matches(cur[t])

BooksApart == DOMAIN warned \cap Recognized = {} /\ DOMAIN failed \subseteq Recognized

(* A step that leaves the aims of all other threads alone. *)
LEMMA AimsOfOthers ==
  ASSUME AimInv, NEW t \in Threads,
         \A u \in Sweepers \ {t} : pc'[u] = pc[u] /\ cur'[u] = cur[u],
         t \in Sweepers => \/ pc'[t] \notin AtWindow
                           \/ pc'[t] \in {"clicking", "waiting", "settling", "failing"}
                              /\ Matches(cur'[t])
                           \/ pc'[t] = "warning" /\ ~Matches(cur'[t])
  PROVE  AimInv'
<1>1. Sweepers' = Sweepers /\ \A d : Matches(d)' <=> Matches(d)
  BY DEF Sweepers, Matches
<1> QED BY DEF AimInv, AtWindow, Matches, Sweepers

LEMMA AimStep ==
  ASSUME IInv, AimInv, [Next]_vars
  PROVE  AimInv'
<1> USE DialogAssumption DEF IInv, DialogAssumption
<1>0. /\ TypeOK /\ Sweepers \subseteq Threads
      /\ \A p \in People : p \notin Sweepers /\ p \in Threads
  BY DEF Sweepers, Threads
<1>1. CASE UNCHANGED <<pc, cur>>
  BY <1>1 DEF AimInv, Matches, Sweepers
<1>2. ASSUME NEW t \in Sweepers, Scan(t) \/ Publish(t) \/ Warns(t) PROVE AimInv'
  <2>1. \A u \in Sweepers \ {t} : pc'[u] = pc[u] /\ cur'[u] = cur[u]
    BY <1>0, <1>2 DEF Scan, Publish, Warns, Leaves, Goes, TypeOK
  <2>2. pc'[t] \notin AtWindow
    BY <1>0, <1>2 DEF Scan, Publish, Warns, Leaves, Goes, TypeOK, AtWindow
  <2> QED BY <1>0, <2>1, <2>2, AimsOfOthers
<1>3. ASSUME NEW t \in Sweepers, NEW d \in Dialogs, Looks(t, d) \/ Approaches(t, d) PROVE AimInv'
  <2>1. \A u \in Sweepers \ {t} : pc'[u] = pc[u] /\ cur'[u] = cur[u]
    BY <1>0, <1>3 DEF Looks, Approaches, Visit, Goes, TypeOK
  <2>2. CASE Looks(t, d)
    <3>1. pc'[t] = "sweeping" \/ (pc'[t] = "warning" /\ cur'[t] = d /\ ~Matches(d))
      BY <1>0, <2>2 DEF Looks, Visit, Goes, TypeOK
    <3> QED BY <1>0, <2>1, <3>1, AimsOfOthers DEF AtWindow
  <2>3. CASE Approaches(t, d)
    <3>1. pc'[t] = "sweeping" \/ (pc'[t] = "clicking" /\ cur'[t] = d /\ Matches(d))
      BY <1>0, <2>3 DEF Approaches, Visit, Goes, TypeOK
    <3> QED BY <1>0, <2>1, <3>1, AimsOfOthers DEF AtWindow
  <2> QED BY <1>3, <2>2, <2>3
<1>4. ASSUME NEW t \in Sweepers, PrunesWarned(t) \/ PrunesFailed(t) \/ Ends(t) \/ Raises(t)
      PROVE  AimInv'
  <2>1. \A u \in Sweepers \ {t} : pc'[u] = pc[u] /\ cur'[u] = cur[u]
    BY <1>0, <1>4 DEF PrunesWarned, PrunesFailed, Prunes, Ends, Raises, Reset, Goes, local, TypeOK
  <2>2. pc'[t] \notin AtWindow
    BY <1>0, <1>4 DEF PrunesWarned, PrunesFailed, Prunes, Ends, Raises, Goes, TypeOK, AtWindow
  <2> QED BY <1>0, <2>1, <2>2, AimsOfOthers
<1>5. ASSUME NEW t \in Sweepers, NEW g \in Signatures, DeletesWarned(t, g) \/ DeletesFailed(t, g)
      PROVE  AimInv'
  <2>1. \A u \in Sweepers \ {t} : pc'[u] = pc[u] /\ cur'[u] = cur[u]
    BY <1>0, <1>5 DEF DeletesWarned, DeletesFailed, Deletes, Goes, TypeOK
  <2>2. pc'[t] \notin AtWindow
    BY <1>0, <1>5 DEF DeletesWarned, DeletesFailed, Deletes, Goes, TypeOK, AtWindow
  <2> QED BY <1>0, <2>1, <2>2, AimsOfOthers
<1>6. ASSUME NEW t \in Threads, Click(t) PROVE AimInv'
  <2>1. \A u \in Sweepers \ {t} : pc'[u] = pc[u] /\ cur'[u] = cur[u]
    BY <1>0, <1>6 DEF Click, Clicks, ClickFails, SeesClosed, WaitsInVain, Settles, Fails, Leaves,
                      Goes, local, TypeOK
  <2>2. /\ pc[t] \in {"clicking", "waiting", "settling", "failing"}
        /\ \/ pc'[t] \notin AtWindow
           \/ pc'[t] \in {"waiting", "settling", "failing"} /\ cur'[t] = cur[t]
    BY <1>0, <1>6 DEF Click, Clicks, ClickFails, SeesClosed, WaitsInVain, Settles, Fails, Leaves,
                      Goes, local, TypeOK, AtWindow
  <2>3. t \in Sweepers => Matches(cur[t])
    BY <2>2 DEF AimInv
  <2> QED BY <1>0, <2>1, <2>2, <2>3, AimsOfOthers
<1>7. ASSUME NEW c \in Calls, Reports(c) PROVE AimInv'
  <2>0. c \in Sweepers
    BY DEF Sweepers
  <2>1. \A u \in Sweepers \ {c} : pc'[u] = pc[u] /\ cur'[u] = cur[u]
    BY <1>0, <1>7 DEF Reports, Reset, Goes, TypeOK
  <2>2. pc'[c] \notin AtWindow
    BY <1>0, <1>7, <2>0 DEF Reports, Goes, TypeOK, AtWindow
  <2> QED BY <1>0, <2>0, <2>1, <2>2, AimsOfOthers
<1>8. ASSUME NEW p \in People, NEW d \in Dialogs, Orders(p, d) PROVE AimInv'
  <2>1. \A u \in Sweepers \ {p} : pc'[u] = pc[u] /\ cur'[u] = cur[u]
    BY <1>0, <1>8 DEF Orders, Goes, TypeOK
  <2> QED BY <1>0, <2>1, AimsOfOthers
<1>9. ASSUME NEW t \in Sweepers, Sweep(t) PROVE AimInv'
  BY <1>2, <1>3, <1>4, <1>5, <1>9 DEF Sweep
<1>10. ASSUME NEW t \in Sweepers, ScanFails(t) PROVE AimInv'
  BY <1>1, <1>10 DEF ScanFails, local
<1>11. CASE \/ \E d \in Dialogs : Appears(d) \/ Closes(d) \/ Obeys(d)
            \/ Tick \/ Stop \/ UNCHANGED vars
  BY <1>1, <1>11 DEF Appears, Closes, Obeys, World, Tick, Stop, vars, local
<1> QED BY <1>2, <1>6, <1>7, <1>8, <1>9, <1>10, <1>11 DEF Next

LEMMA BooksStep ==
  ASSUME IInv, AimInv, BooksApart, [Next]_vars
  PROVE  BooksApart'
<1> USE DialogAssumption DEF IInv, DialogAssumption
<1>0. /\ warned \in Ages /\ failed \in Ages
      /\ \A t \in Threads : t \in Sweepers \/ t \in People
  BY DEF TypeOK, Sweepers, Threads
<1>1. ASSUME DOMAIN warned' \subseteq DOMAIN warned, DOMAIN failed' \subseteq DOMAIN failed
      PROVE  BooksApart'
  BY <1>1 DEF BooksApart
<1>2. ASSUME NEW g \in Signatures,
             \/ ~(g \in Recognized) /\ warned' = Put(warned, g, 0) /\ UNCHANGED failed
             \/ g \in Recognized /\ (\E n : failed' = Put(failed, g, n)) /\ UNCHANGED warned
      PROVE  BooksApart'
  BY <1>2 DEF BooksApart, Put
<1>3. ASSUME NEW t \in Sweepers, Warns(t) PROVE BooksApart'
  <2>1. cur[t] \in Dialogs /\ ~Matches(cur[t])
    BY <1>3 DEF Warns, AimInv, CurInv, AtWindow, Threads
  <2> QED BY <1>2, <1>3, <2>1 DEF Warns, Matches
<1>4. ASSUME NEW t \in Threads, Click(t) PROVE BooksApart'
  <2>1. CASE Clicks(t) \/ ClickFails(t) \/ WaitsInVain(t)
    BY <1>1, <2>1 DEF Clicks, ClickFails, WaitsInVain, shared
  <2>2. CASE SeesClosed(t)
    BY <1>0, <1>1, <2>2, PopIs DEF SeesClosed
  <2>3. CASE Settles(t)
    BY <1>0, <1>1, <2>3, PopIs DEF Settles
  <2>4. CASE Fails(t) /\ t \in People
    BY <1>1, <2>4 DEF Fails
  <2>5. CASE Fails(t) /\ t \in Sweepers /\ t \notin People
    <3>1. cur[t] \in Dialogs /\ Matches(cur[t])
      BY <2>5 DEF Fails, AimInv, CurInv, AtWindow
    <3> QED BY <1>2, <2>5, <3>1 DEF Fails, Matches
  <2> QED BY <1>0, <1>4, <2>1, <2>2, <2>3, <2>4, <2>5 DEF Click
<1>5. ASSUME NEW t \in Sweepers, NEW g \in Signatures, DeletesWarned(t, g) \/ DeletesFailed(t, g)
      PROVE  BooksApart'
  BY <1>0, <1>1, <1>5, PopIs DEF DeletesWarned, DeletesFailed
<1>6. CASE Tick
  BY <1>0, <1>1, <1>6, OlderIs DEF Tick
<1>7. ASSUME UNCHANGED <<warned, failed>> PROVE BooksApart'
  BY <1>1, <1>7
<1>8. CASE \/ \E d \in Dialogs : Appears(d) \/ Closes(d) \/ Obeys(d)
           \/ Stop \/ UNCHANGED vars
           \/ \E t \in Sweepers : Scan(t) \/ ScanFails(t) \/ Publish(t)
           \/ \E c \in Calls : Reports(c)
           \/ \E p \in People, d \in Dialogs : Orders(p, d)
  BY <1>7, <1>8 DEF Appears, Closes, Obeys, World, Stop, vars, shared, Scan, ScanFails, Publish,
     Reports, Orders
<1>9. ASSUME NEW t \in Sweepers,
             \/ \E d \in Dialogs : Looks(t, d) \/ Approaches(t, d)
             \/ PrunesWarned(t) \/ PrunesFailed(t) \/ Ends(t) \/ Raises(t)
      PROVE  BooksApart'
  BY <1>7, <1>9 DEF Looks, Approaches, Visit, PrunesWarned, PrunesFailed, Prunes, Ends, Raises,
     shared
<1>10. ASSUME NEW t \in Sweepers, Sweep(t) PROVE BooksApart'
  BY <1>3, <1>5, <1>8, <1>9, <1>10 DEF Sweep
<1> QED BY <1>4, <1>6, <1>8, <1>10 DEF Next

LEMMA AimsHold == Spec => [](IInv /\ AimInv /\ BooksApart)
<1>1. Init => AimInv /\ BooksApart
  BY DEF Init, AimInv, BooksApart, Threads, Sweepers, NoEntries
<1>2. IInv /\ AimInv /\ BooksApart /\ [Next]_vars => AimInv' /\ BooksApart'
  BY AimStep, BooksStep
<1> QED BY <1>1, <1>2, IInvHolds, PTL DEF Spec

(* Only a dialog that a rule matches is clicked, unless a person has       *)
(* ordered it: however sweeps of the loop and of calls interleave, a thread*)
(* clicks the window its own rule has matched (sweep of qb/dialogs.py).    *)
ByRuleOrOrder(d) == Matches(d) \/ \E p \in People : pc[p] = "clicking" /\ cur[p] = d

THEOREM ClickedByRuleOrOrder == Spec => [][\A d \in clicked' \ clicked : ByRuleOrOrder(d)]_vars
<1>1. ASSUME AimInv, [Next]_vars, NEW d \in clicked' \ clicked PROVE ByRuleOrOrder(d)
  <2>1. PICK t \in Threads : Clicks(t)
    BY <1>1 DEF Next, Appears, Closes, Obeys, World, Tick, Stop, vars, Scan, ScanFails, Sweep,
       Publish, Looks, Approaches, Visit, Warns, PrunesWarned, PrunesFailed, Prunes, DeletesWarned,
       DeletesFailed, Deletes, Ends, Raises, Click, ClickFails, SeesClosed, WaitsInVain, Settles,
       Fails, Reports, Orders, Quiet
  <2>2. pc[t] = "clicking" /\ cur[t] = d
    BY <1>1, <2>1 DEF Clicks
  <2>3. t \in Sweepers \/ t \in People
    BY DEF Threads
  <2> QED BY <1>1, <2>2, <2>3 DEF AimInv, ByRuleOrOrder
<1>2. AimInv /\ [Next]_vars => [\A d \in clicked' \ clicked : ByRuleOrOrder(d)]_vars
  BY <1>1
<1> QED BY <1>2, AimsHold, PTL DEF Spec

(* A text that a rule matches is never in the book of warnings, and only   *)
(* such texts are in the book of failed clicks, whoever sweeps and whoever *)
(* dismisses dialogs meanwhile: a click that a person has ordered enters   *)
(* nothing (dismiss of qb/dialogs.py), and no text is in both.             *)
THEOREM BooksStayApart == Spec => []BooksApart
BY AimsHold, PTL

-----------------------------------------------------------------------------
(* The rules (QBRules) *)

(* What load_rules may find where the file is to be. *)
IsFile(file) ==
  \/ file \in {Absent, Unreadable}
  \/ file.is = "array" /\ \E n \in Nat : DOMAIN file.entries = 1..n

LEMMA BuiltinNames ==
  /\ DOMAIN BUILTIN_RULES = 1..3 /\ Len(BUILTIN_RULES) = 3
  /\ \A a, b \in 1..3 : BUILTIN_RULES[a].name = BUILTIN_RULES[b].name => a = b
<1>1. DOMAIN BUILTIN_RULES = 1..3 /\ Len(BUILTIN_RULES) = 3
  BY DEF BUILTIN_RULES
<1>2. /\ BUILTIN_RULES[1].name = "backup-failed"
      /\ BUILTIN_RULES[2].name = "backup-succeeded"
      /\ BUILTIN_RULES[3].name = "update-available"
  BY DEF BUILTIN_RULES, Rule
<1>3. \A b \in 1..3 : b = 1 \/ b = 2 \/ b = 3
  OBVIOUS
<1> QED BY <1>1, <1>2, <1>3

(* What is taken of a file: rules with names of their own.                 *)
LEMMA CustomIs ==
  ASSUME NEW file, IsFile(file)
  PROVE  /\ \E n \in Nat : DOMAIN Custom(file) = 1..n
         /\ \A i, j \in DOMAIN Custom(file) : Custom(file)[i].name = Custom(file)[j].name => i = j
<1>1. CASE file.is = "absent" \/ IsRejected(file)
  BY <1>1 DEF Custom
<1>2. CASE file.is # "absent" /\ ~IsRejected(file)
  <2>1. Custom(file) = file.entries /\ file \notin {Absent, Unreadable}
    BY <1>2 DEF Custom, Absent, Unreadable, IsRejected
  <2>2. file.is = "array" /\ \E n \in Nat : DOMAIN file.entries = 1..n
    BY <2>1 DEF IsFile
  <2>3. IsRulesData(file.entries)
    BY <1>2, <2>2 DEF IsRejected
  <2> QED BY <2>1, <2>2, <2>3 DEF IsRulesData, NameAt
<1> QED BY <1>1, <1>2

LEMMA PlaceIs ==
  ASSUME NEW file, IsFile(file), NEW i \in DOMAIN Custom(file)
  PROVE  \/ /\ Place(Custom(file), i) \in 1..3
            /\ BUILTIN_RULES[Place(Custom(file), i)].name = Custom(file)[i].name
         \/ /\ i \in Nat /\ Place(Custom(file), i) = 3 + i /\ i > 0
<1>1. i \in Nat /\ i > 0
  BY CustomIs
<1>2. CASE Named(BUILTIN_RULES, Custom(file)[i].name)
  BY <1>2, BuiltinNames DEF Place, Named
<1>3. CASE ~Named(BUILTIN_RULES, Custom(file)[i].name)
  BY <1>1, <1>3, BuiltinNames DEF Place
<1> QED BY <1>2, <1>3

(* No two rules have the same place, whatever a file says: "the first rule *)
(* that matches" is one (load_rules, and match, of qb/dialogs.py).         *)
THEOREM PlacesDiffer ==
  ASSUME NEW file, IsFile(file), NEW r \in Rules(file), NEW s \in Rules(file), r.place = s.place
  PROVE  r = s
<1> DEFINE custom == Custom(file)
           Stays(x) == \E b \in 1..3 : /\ x = [place |-> b, rule |-> BUILTIN_RULES[b]]
                                       /\ ~Named(custom, BUILTIN_RULES[b].name)
           Comes(x) == \E i \in DOMAIN custom : x = [place |-> Place(custom, i), rule |-> custom[i]]
<1>1. \A x \in Rules(file) : Stays(x) \/ Comes(x)
  BY BuiltinNames DEF Rules
<1>2. ASSUME NEW x, NEW y, Stays(x), Comes(y) PROVE x.place # y.place
  <2>1. PICK b \in 1..3 : /\ x = [place |-> b, rule |-> BUILTIN_RULES[b]]
                          /\ ~Named(custom, BUILTIN_RULES[b].name)
    BY <1>2
  <2>2. PICK i \in DOMAIN custom : y = [place |-> Place(custom, i), rule |-> custom[i]]
    BY <1>2
  <2>3. custom[i].name # BUILTIN_RULES[b].name
    BY <2>1 DEF Named
  <2>4. Place(custom, i) # b
    BY <2>1, <2>3, PlaceIs
  <2> QED BY <2>1, <2>2, <2>4
<1>3. ASSUME NEW x, NEW y, Stays(x), Stays(y), x.place = y.place PROVE x = y
  BY <1>3
<1>4. ASSUME NEW x, NEW y, Comes(x), Comes(y), x.place = y.place PROVE x = y
  <2>1. PICK i \in DOMAIN custom : x = [place |-> Place(custom, i), rule |-> custom[i]]
    BY <1>4
  <2>2. PICK j \in DOMAIN custom : y = [place |-> Place(custom, j), rule |-> custom[j]]
    BY <1>4
  <2>3. Place(custom, i) = Place(custom, j)
    BY <1>4, <2>1, <2>2
  <2>4. i = j \/ custom[i].name = custom[j].name
    BY <2>3, PlaceIs
  <2>5. i = j
    BY <2>4, CustomIs
  <2> QED BY <2>1, <2>2, <2>5
<1> HIDE DEF Stays, Comes
<1> QED BY <1>1, <1>2, <1>3, <1>4

LEMMA PlacesAreNat == ASSUME NEW file, IsFile(file), NEW r \in Rules(file) PROVE r.place \in Nat
<1>1. CASE \E b \in 1..3 : r.place = b
  BY <1>1
<1>2. CASE \E i \in DOMAIN Custom(file) : r.place = Place(Custom(file), i)
  BY <1>2, PlaceIs
<1> QED BY <1>1, <1>2, BuiltinNames DEF Rules

LEMMA LeastOf ==
  ASSUME NEW T, T \subseteq Nat, T # {}
  PROVE  \E x \in T : \A y \in T : x <= y
<1>1. PICK x \in T : \A y \in T : ~(<<y, x>> \in OpToRel(<, Nat))
  BY NatLessThanWellFounded, WFMin
<1>2. \A y \in T : ~(y < x)
  BY <1>1 DEF OpToRel
<1> QED BY <1>2

(* A dialog is answered by the one rule that matches it before all others, *)
(* and with the first of its buttons that this rule names.                 *)
THEOREM AnsweredByFirst ==
  ASSUME NEW file, IsFile(file), NEW dialog, DOMAIN dialog.buttons \subseteq Nat,
         IsRecognized(file, dialog)
  PROVE  /\ RuleFor(file, dialog) \in RulesFor(file, dialog)
         /\ \A s \in RulesFor(file, dialog) \ {RuleFor(file, dialog)} :
              RuleFor(file, dialog).place < s.place
         /\ dialog.buttons[ButtonFor(file, dialog)] \in RuleFor(file, dialog).rule.button
<1> DEFINE may == RulesFor(file, dialog)
           places == {r.place : r \in may}
<1>1. may # {} /\ may \subseteq Rules(file)
  BY DEF IsRecognized, RulesFor
<1>2. places \subseteq Nat /\ places # {}
  BY <1>1, PlacesAreNat
<1>3. PICK n \in places : \A m \in places : n <= m
  BY <1>2, LeastOf
<1>4. \E r \in may : \A s \in may : r.place <= s.place
  BY <1>3
<1> DEFINE first == RuleFor(file, dialog)
<1>5. first \in may /\ \A s \in may : first.place <= s.place
  BY <1>4 DEF RuleFor
<1> HIDE DEF first
<1>6. \A s \in may \ {first} : first.place < s.place
  BY <1>1, <1>5, PlacesDiffer, PlacesAreNat
<1> DEFINE labels == Clickable(first.rule, dialog)
<1>7. labels # {} /\ labels \subseteq Nat
  BY <1>5 DEF RulesFor, Clickable
<1>8. PICK k \in labels : \A j \in labels : k <= j
  BY <1>7, LeastOf
<1>9. ButtonFor(file, dialog) \in labels
  BY <1>8 DEF ButtonFor, first
<1> QED BY <1>5, <1>6, <1>9 DEF first, Clickable

(* "These are never clicked" (dialogs.py, of what only a person can answer) *)
(* is true as far as a title keeps the two apart: for every file, a rule   *)
(* that answers such a dialog is one of the file, of which none counts if  *)
(* anything in it is wrong, or that of the update reminder, whose pattern  *)
(* is not anchored, in a title that has its phrase beside one of a login   *)
(* or of no open company.                                                  *)
THEOREM PeopleKeepTheirs ==
  ASSUME NEW file, NEW dialog, NeedsHuman(dialog), IsTitle(dialog.title),
         NEW r \in RulesFor(file, dialog)
  PROVE  \/ ~IsRejected(file) /\ \E i \in DOMAIN Custom(file) : r.rule = Custom(file)[i]
         \/ /\ r.rule = BUILTIN_RULES[3]
            /\ "QuickBooks Update" \in dialog.title
            /\ {"Enter the password", "You must log in", "Open a Company"} \cap dialog.title # {}
            /\ {"update available", "install update"} \cap dialog.text # {}
<1>1. r \in Rules(file) /\ Clickable(r.rule, dialog) # {}
  BY DEF RulesFor
<1>2. CASE \E i \in DOMAIN Custom(file) : r.rule = Custom(file)[i]
  <2>1. ~IsRejected(file)
    BY <1>2 DEF Custom
  <2> QED BY <1>2, <2>1
<1>3. ASSUME NEW b \in 1..3, r.rule = BUILTIN_RULES[b]
      PROVE  /\ b = 3
             /\ "QuickBooks Update" \in dialog.title
             /\ {"Enter the password", "You must log in", "Open a Company"} \cap dialog.title # {}
             /\ {"update available", "install update"} \cap dialog.text # {}
  <2>1. PICK h \in NEEDS_HUMAN : h \in dialog.title
    BY DEF NeedsHuman, Finds
  <2>2. PICK p \in BUILTIN_RULES[b].title : p \in dialog.title
    BY <1>1, <1>3 DEF Clickable, Finds
  <2>3. /\ BUILTIN_RULES[1].title = {"^QuickBooks Backup$"}
        /\ BUILTIN_RULES[2].title = {"^QuickBooks Backup$", "^QuickBooks Information$"}
        /\ BUILTIN_RULES[3].title = {"QuickBooks Update"}
        /\ BUILTIN_RULES[3].body = {"update available", "install update"}
    BY DEF BUILTIN_RULES, Rule
  <2>4. b = 1 \/ b = 2 \/ b = 3
    OBVIOUS
  <2>5. p \in {"^QuickBooks Backup$", "^QuickBooks Information$", "QuickBooks Update"}
    BY <2>2, <2>3, <2>4
  <2>6. p # h
    BY <2>5 DEF NEEDS_HUMAN
  <2>7. p \notin Whole /\ h \notin Whole
    BY <2>1, <2>2, <2>6 DEF IsTitle
  <2>8. p = "QuickBooks Update"
    BY <2>5, <2>7 DEF Whole
  <2>9. b = 3
    BY <2>2, <2>3, <2>4, <2>8
  <2>10. h \in {"Enter the password", "You must log in", "Open a Company"}
    BY <2>1, <2>7 DEF NEEDS_HUMAN, Whole
  <2>11. BUILTIN_RULES[3].body # Anything
    BY AnythingAssumption, BuiltinNames
  <2>12. BUILTIN_RULES[3].body \cap dialog.text # {}
    BY <1>1, <1>3, <2>9, <2>11 DEF Clickable, Finds
  <2> QED BY <2>1, <2>2, <2>3, <2>8, <2>9, <2>10, <2>12
<1>4. \/ \E b \in 1..3 : r.rule = BUILTIN_RULES[b]
      \/ \E i \in DOMAIN Custom(file) : r.rule = Custom(file)[i]
  BY <1>1, BuiltinNames DEF Rules
<1> QED BY <1>2, <1>3, <1>4
=============================================================================
