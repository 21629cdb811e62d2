----------------------------- MODULE MCQBDialogs -----------------------------
(***************************************************************************)
(* QBDialogs for TLC.  Of its windows backup is for a built-in rule, trial *)
(* for one of the file, and nothing may answer login.  QBRules, which says *)
(* so, is compared here with the loops of the source.                      *)
(***************************************************************************)
EXTENDS QBDialogs, QBRules

CONSTANTS backup, trial, login

Window(title, text, buttons) == [title |-> title, text |-> text, buttons |-> buttons]

Texts == [backup |-> Window({"^QuickBooks Backup$"}, {"backup failed"}, <<"OK">>),
          trial  |-> Window({"QuickBooks Trial"}, {"days left"}, <<"Buy", "Not now">>),
          login  |-> Window({"^QuickBooks Login$"}, {}, <<"OK", "Cancel">>)]

TrialRule == Rule("trial", {"QuickBooks Trial"}, Anything, {"Not now"})

MCSig == [d \in Dialogs |-> IF d = login THEN "login" ELSE IF d = trial THEN "trial" ELSE "backup"]

ASSUME RecognizedByRules ==
  Recognized = {g \in Signatures : IsRecognized(File(<<TrialRule>>), Texts[g])}

-----------------------------------------------------------------------------
(* load_rules as the source does it, with a dict by name in the order of   *)
(* insertion, and match as its loops find a rule and a button.             *)
RECURSIVE Updated(_, _)
Updated(dict, rules) ==
  IF rules = <<>> THEN dict
  ELSE LET r == Head(rules)
       IN  Updated(IF Named(dict, r.name)
                     THEN [i \in DOMAIN dict |-> IF dict[i].name = r.name THEN r ELSE dict[i]]
                     ELSE Append(dict, r),
                   Tail(rules))

Found(rules, dialog) ==
  LET Clicks1(label, r) == /\ r.enabled /\ \E p \in r.title : p \in dialog.title
                           /\ r.body = Anything \/ \E p \in r.body : p \in dialog.text
                           /\ label \in r.button
      Matches1(r) == \E i \in DOMAIN dialog.buttons : Clicks1(dialog.buttons[i], r)
      hits == SelectSeq(rules, Matches1)
      Label(label) == Clicks1(label, hits[1])
  IN  IF hits = <<>> THEN <<>> ELSE <<hits[1], SelectSeq(dialog.buttons, Label)[1]>>

Off(rule) == [rule EXCEPT !.enabled = FALSE]

SomeRules == {TrialRule, Off(BUILTIN_RULES[1]),
              Rule("backup-succeeded", {"^QuickBooks Backup$"}, Anything, {"Cancel", "OK"}),
              Rule("anything", {"^QuickBooks Backup$", "QuickBooks Trial", "^QuickBooks Login$"},
                   Anything, {"OK", "Buy", "Not now"})}

SomeFiles == {Absent, Unreadable}
             \cup {File(s) : s \in UNION {[1..n -> SomeRules \cup {Fault}] : n \in 0..3}}

(* Also a text in which two rules find their phrase, and titles in which   *)
(* a built-in rule and NEEDS_HUMAN do.                                     *)
SomeDialogs == {Texts[g] : g \in DOMAIN Texts}
               \cup {Window({"^QuickBooks Backup$"}, t, b) :
                       t \in SUBSET {"backup failed", "backup completed"},
                       b \in {<<>>, <<"Cancel", "OK">>}}
               \cup {Window({"QuickBooks Update"} \cup h, {"update available"}, <<"OK", "Later">>) :
                       h \in {{}, {"Open a Company"}}}

ASSUME RulesAsLoaded ==
  \A file \in SomeFiles, dialog \in SomeDialogs :
    LET hit == Found(Updated(BUILTIN_RULES, Custom(file)), dialog)
    IN  IF hit = <<>> THEN ~IsRecognized(file, dialog)
        ELSE /\ IsRecognized(file, dialog)
             /\ RuleFor(file, dialog).rule = hit[1]
             /\ dialog.buttons[ButtonFor(file, dialog)] = hit[2]

(* A file with anything wrong in it changes nothing. *)
ASSUME FaultyFilesAreIgnored ==
  \A file \in SomeFiles : IsRejected(file) => Rules(file) = Rules(Absent)

(* A built-in rule answers what only a person can where a title has the    *)
(* phrases of both, which no title of the update reminder needs to have.   *)
ASSUME BuiltinsLeavePeopleTheirs ==
  \A dialog \in SomeDialogs :
    /\ IsTitle(dialog.title)
    /\ NeedsHuman(dialog) /\ IsRecognized(Absent, dialog)
         => /\ RuleFor(Absent, dialog).rule.name = "update-available"
            /\ dialog.title = {"QuickBooks Update", "Open a Company"}
=============================================================================
