------------------------------- MODULE QBRules -------------------------------
(***************************************************************************)
(* The rules that say which of QuickBooks' dialogs the bridge may answer,  *)
(* and with which button (qb/dialogs.py): the built-in ones, those of the  *)
(* file dialog_rules.json, and the first that matches a dialog.            *)
(*                                                                         *)
(* The title and the text of a dialog are the sets of the phrases that are *)
(* found in them, a regular expression the set of its alternatives, and a  *)
(* label of a button is found by an expression whose member it is.         *)
(***************************************************************************)
EXTENDS Naturals, Sequences, FiniteSets

CONSTANT Anything   \* the pattern of a rule that gives no body

Rule(name, title, body, button) ==
  [name |-> name, title |-> title, body |-> body, button |-> button, enabled |-> TRUE]

Finds(pattern, text) == pattern \cap text # {}

(* A phrase between ^ and $ is all there is of a title it is found in. *)
Whole == {"^QuickBooks Backup$", "^QuickBooks Information$", "^QuickBooks Login$",
          "^No Company Open$"}
IsTitle(phrases) == \A p \in Whole \cap phrases : phrases = {p}

(* Each concerns dialogs that report, or may be postponed. *)
BUILTIN_RULES ==
  <<Rule("backup-failed", {"^QuickBooks Backup$"}, {"backup failed"}, {"OK"}),
    Rule("backup-succeeded", {"^QuickBooks Backup$", "^QuickBooks Information$"},
         {"backup completed"}, {"OK"}),
    Rule("update-available", {"QuickBooks Update"}, {"update available", "install update"},
         {"Install Later", "Later", "Remind me later", "No Thanks"})>>

ASSUME AnythingAssumption == \A b \in DOMAIN BUILTIN_RULES : BUILTIN_RULES[b].body # Anything

(* Titles that only a person can answer. *)
NEEDS_HUMAN == {"^QuickBooks Login$", "Enter the password", "You must log in",
                "^No Company Open$", "Open a Company"}
NeedsHuman(dialog) == Finds(NEEDS_HUMAN, dialog.title)

-----------------------------------------------------------------------------
(* The file *)

(* An entry that is no object, has an unknown field or lacks a required    *)
(* one, and a rule without a name or whose regex does not compile, have a  *)
(* fault; other entries are rules.                                         *)
Fault == [fault |-> TRUE]
IsRule(entry) == entry # Fault

NameAt(entries, i) == entries[i].name

(* rules_from_data *)
IsRulesData(entries) ==
  /\ \A i \in DOMAIN entries : IsRule(entries[i])
  /\ \A i, j \in DOMAIN entries : NameAt(entries, i) = NameAt(entries, j) => i = j

(* A file is absent, cannot be read as an array, or has entries. *)
Absent     == [is |-> "absent"]
Unreadable == [is |-> "unreadable"]
File(entries) == [is |-> "array", entries |-> entries]

IsRejected(file) ==
  file.is = "unreadable" \/ (file.is = "array" /\ ~IsRulesData(file.entries))

(* load_rules, and from_settings: of a file that is rejected no rule is    *)
(* taken.                                                                  *)
Custom(file) == IF file.is = "absent" \/ IsRejected(file) THEN <<>> ELSE file.entries

Named(rules, name) == \E i \in DOMAIN rules : rules[i].name = name

(* A rule of the file that has the name of a built-in one takes its place, *)
(* the others come after, in their order.                                  *)
Place(custom, i) ==
  IF Named(BUILTIN_RULES, custom[i].name)
    THEN CHOOSE b \in DOMAIN BUILTIN_RULES : BUILTIN_RULES[b].name = custom[i].name
    ELSE Len(BUILTIN_RULES) + i

Rules(file) ==
  LET custom == Custom(file)
  IN  {[place |-> b, rule |-> BUILTIN_RULES[b]] :
         b \in {x \in DOMAIN BUILTIN_RULES : ~Named(custom, BUILTIN_RULES[x].name)}}
      \cup {[place |-> Place(custom, i), rule |-> custom[i]] : i \in DOMAIN custom}

-----------------------------------------------------------------------------
(* Matching *)

(* The buttons of a dialog that a rule would have clicked. *)
Clickable(rule, dialog) ==
  {i \in DOMAIN dialog.buttons :
     /\ rule.enabled
     /\ Finds(rule.title, dialog.title)
     /\ rule.body = Anything \/ Finds(rule.body, dialog.text)
     /\ dialog.buttons[i] \in rule.button}

RulesFor(file, dialog) == {r \in Rules(file) : Clickable(r.rule, dialog) # {}}

IsRecognized(file, dialog) == RulesFor(file, dialog) # {}

(* The first rule, and of that the first button. *)
RuleFor(file, dialog) ==
  CHOOSE r \in RulesFor(file, dialog) :
    \A s \in RulesFor(file, dialog) : r.place <= s.place

ButtonFor(file, dialog) ==
  LET may == Clickable(RuleFor(file, dialog).rule, dialog)
  IN  CHOOSE i \in may : \A j \in may : i <= j

(* _note_unrecognized *)
NoteFor(dialog) == IF NeedsHuman(dialog) THEN "needs_human" ELSE "unrecognized"
===============================================================================
