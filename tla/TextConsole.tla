----------------------------- MODULE TextConsole -----------------------------
(***************************************************************************)
(* The keys of the terminal interface (tui/app.rs): one key may type a     *)
(* letter, edit an access rule, or stop the server, and four flags tell    *)
(* which.  The interface keeps indices and copies (the cursor, the rule    *)
(* being edited, the rows of the settings) of a configuration that is      *)
(* reloaded in other threads.  An edit is made in a clone, which is saved  *)
(* to the disk before it is stored: a reload may come in between.  Texts   *)
(* are values of a small set; what is typed between two other keys is one  *)
(* step.                                                                   *)
(***************************************************************************)
EXTENDS Integers, Sequences, SequencesExt

CONSTANTS Rules,        \* texts of an access rule
          FirstRules,   \* the rules of the configuration at the start
          FirstText,    \* ... and the value of its settings
          Texts,        \* texts of a setting's value; "bad" does not parse
          MaxRules,     \* bound: rules in the configuration
          MaxCursor,    \* bound: how far the cursor of the rules is moved
          MaxElsewhere  \* bound: reloads

ASSUME ConsoleAssumption ==
  /\ FirstRules \in Seq(Rules) /\ FirstRules # <<>>
  /\ FirstText \in Texts \ {"bad"}
  /\ MaxCursor \in Nat \ {0}

Tabs   == {"Config", "Acl", "other"}
Rows   == <<"port", "root">>    \* a setting that has an arm in apply_config_edit, and the
                                \* one that has none
Nothing == "nothing"

VARIABLES tuiConfig,    \* AppState.config: [rules, port, root]
          rows,         \* config_items: the value shown in every row
          tab, server,
          filterActive, \* a text for the filter is being typed
          editing,      \* acl_edit_mode: [kind, at, rule]
          setting,      \* config_editing with its buffer: [row, text]
          configScroll, aclScroll, showHelp, quit,
          elsewhere,    \* reloads so far
          saving,       \* an edit is on its way to the disk: the thread takes no key
          clone,        \* ... the configuration it stores then
          overtaken,    \* history: a reload came since the clone was taken
          opened,       \* history: the rule that was opened, if nothing moved it since
          fresh         \* history: rows that should show the running value

modeVars   == <<filterActive, editing, setting, showHelp>>
savingVars == <<saving, clone, overtaken>>
consoleVars == <<tuiConfig, rows, tab, server, configScroll, aclScroll,
                 quit, elsewhere, opened, fresh, modeVars, savingVars>>

NotEditing == [kind |-> "none", at |-> 0, rule |-> Nothing]

NoSetting == [row |-> 0, text |-> Nothing]

NoClone == [rules |-> <<>>, port |-> Nothing, root |-> Nothing]

RowsOf(c) == [r \in {"port", "root"} |-> c[r]]

ConsoleInit ==
  /\ tuiConfig = [rules |-> FirstRules, port |-> FirstText, root |-> FirstText]
  /\ rows = RowsOf(tuiConfig)
  /\ tab = "other" /\ server = "Running"
  /\ filterActive = FALSE /\ editing = NotEditing
  /\ setting = NoSetting /\ configScroll = 1 /\ aclScroll = 1
  /\ showHelp = FALSE /\ quit = FALSE
  /\ elsewhere = 0 /\ opened = Nothing /\ fresh = {"port", "root"}
  /\ saving = FALSE /\ clone = NoClone /\ overtaken = FALSE

-----------------------------------------------------------------------------
\* handle_key asks the flags in this order
Typing    == filterActive
InRule    == ~filterActive /\ editing.kind # "none"
InSetting == ~filterActive /\ editing.kind = "none" /\ setting.row # 0
InHelp    == ~filterActive /\ editing.kind = "none" /\ setting.row = 0 /\ showHelp

\* A slip: commands also while the help or a setting is shown
MutCommands == ~filterActive /\ editing.kind = "none"

Commands  == ~filterActive /\ editing.kind = "none" /\ setting.row = 0 /\ ~showHelp

On(name) == tab = name

-----------------------------------------------------------------------------
(***************************************************************************)
(* Changes of the running configuration: what the clone becomes            *)
(***************************************************************************)
Begin == saving' = TRUE /\ overtaken' = FALSE

\* A slip: the row is counted from the rows that are shown
MutSaveRule(at, rule) ==
  clone' = [tuiConfig EXCEPT !.rules =
                  IF at > 0 /\ at < Len(@) THEN [@ EXCEPT ![at + 1] = rule] ELSE Append(@, rule)]

\* save_acl_rule; at = 0 for a new rule.  A rule that is gone is added again.
SaveRule(at, rule) ==
  clone' = [tuiConfig EXCEPT !.rules =
                  IF at \in 1 .. Len(@) THEN [@ EXCEPT ![at] = rule] ELSE Append(@, rule)]

\* delete_acl_rule, of a rule that is there
DeleteRule(at) ==
  clone' = [tuiConfig EXCEPT !.rules = RemoveAt(@, at)]

\* apply_config_edit: one setting of a clone; a text that does not parse, and
\* the root, change nothing
ApplyEdit(row, text) ==
  clone' = IF row = "port" /\ text # "bad" THEN [tuiConfig EXCEPT !.port = text]
           ELSE tuiConfig

\* The end of the three: saved or not (the error is dropped), the clone is
\* stored, and what was edited is closed
TuiStore ==
  /\ saving
  /\ tuiConfig' = clone
  /\ saving' = FALSE /\ clone' = NoClone /\ overtaken' = FALSE
  /\ editing' = NotEditing /\ setting' = NoSetting /\ opened' = Nothing
  /\ fresh' = fresh \cup (IF setting.row # 0 /\ Rows[setting.row] = "port"
                              /\ setting.text # "bad"
                           THEN {"port"} ELSE {})
  /\ UNCHANGED <<rows, tab, server, configScroll, aclScroll, quit, elsewhere,
                 filterActive, showHelp>>

-----------------------------------------------------------------------------
(***************************************************************************)
(* Keys, by the flag that takes them                                       *)
(***************************************************************************)
FilterKey ==
  /\ Typing
  /\ \/ filterActive' = FALSE          \* Esc, Enter
     \/ UNCHANGED filterActive      \* a letter, Backspace
  /\ UNCHANGED <<savingVars, tuiConfig, rows, tab, server, configScroll, aclScroll, quit,
                 elsewhere, opened, fresh, editing, setting, showHelp>>

RuleKey ==
  /\ InRule
  /\ \/ editing' = NotEditing /\ opened' = Nothing /\ UNCHANGED savingVars      \* Esc
     \/ \E r \in Rules :              \* letters, Backspace, in the field that Tab chose
          editing' = [editing EXCEPT !.rule = r] /\ UNCHANGED <<opened, savingVars>>
     \/ /\ editing.at \in DOMAIN tuiConfig.rules \/ Len(tuiConfig.rules) < MaxRules
        /\ Begin /\ SaveRule(editing.at, editing.rule)               \* Enter
        /\ UNCHANGED <<editing, opened>>
  /\ UNCHANGED <<tuiConfig, rows, tab, server, configScroll, aclScroll, quit,
                 elsewhere, fresh, filterActive, setting, showHelp>>

SettingKey ==
  LET row == Rows[setting.row]
  IN  /\ InSetting
      /\ \/ setting' = NoSetting /\ UNCHANGED <<rows, fresh, savingVars>>    \* Esc
         \/ \E text \in Texts : setting' = [setting EXCEPT !.text = text]
            /\ UNCHANGED <<rows, fresh, savingVars>>
         \/ /\ rows' = [rows EXCEPT ![row] = setting.text]                         \* Enter
            /\ Begin /\ ApplyEdit(row, setting.text)
            /\ fresh' = fresh \ {row} /\ UNCHANGED setting
      /\ UNCHANGED <<tuiConfig, tab, server, configScroll, aclScroll, quit, elsewhere,
                     opened, filterActive, editing, showHelp>>

HelpKey ==
  /\ InHelp /\ showHelp' = FALSE
  /\ UNCHANGED <<savingVars, tuiConfig, rows, tab, server, configScroll, aclScroll, quit,
                 elsewhere, opened, fresh, filterActive, editing, setting>>

\* Quit, help, filter.  The text of the filter only chooses what is drawn.
ModeKey ==
  /\ Commands
  /\ \/ quit' = TRUE /\ UNCHANGED <<showHelp, filterActive>>
     \/ showHelp' = TRUE /\ UNCHANGED <<quit, filterActive>>
     \/ filterActive' = TRUE /\ UNCHANGED <<quit, showHelp>>
  /\ UNCHANGED <<savingVars, tuiConfig, rows, tab, server, configScroll, aclScroll, elsewhere,
                 opened, fresh, editing, setting>>

\* Start or stop; while the server is on its way nothing happens
ServerKey ==
  /\ Commands /\ server \in {"Running", "Stopped"}
  /\ server' = IF server = "Running" THEN "Stopped" ELSE "Running"
  /\ UNCHANGED <<savingVars, tuiConfig, rows, tab, configScroll, aclScroll, quit,
                 elsewhere, opened, fresh, modeVars>>

\* "r" reads the rows again, not the file
RefreshKey ==
  /\ Commands
  /\ rows' = RowsOf(tuiConfig) /\ fresh' = {"port", "root"}
  /\ UNCHANGED <<savingVars, tuiConfig, tab, server, configScroll, aclScroll, quit,
                 elsewhere, opened, modeVars>>

TabKey ==
  /\ Commands
  /\ tab' \in Tabs      \* by its digit, or the next or the last one
  /\ UNCHANGED <<savingVars, tuiConfig, rows, server, configScroll, aclScroll, quit,
                 elsewhere, opened, fresh, modeVars>>

\* scroll_up, scroll_down: the cursor of the rules may leave the list.  The
\* keys scroll like commands, the wheel of the mouse in every mode.
Scroll ==
  /\ \/ /\ On("Config") /\ UNCHANGED aclScroll
        /\ \/ configScroll > 1 /\ configScroll' = configScroll - 1
           \/ configScroll < Len(Rows) /\ configScroll' = configScroll + 1
     \/ /\ On("Acl") /\ UNCHANGED configScroll
        /\ \/ aclScroll > 1 /\ aclScroll' = aclScroll - 1
           \/ aclScroll < MaxCursor /\ aclScroll' = aclScroll + 1
  /\ UNCHANGED <<tuiConfig, rows, tab, server, quit, elsewhere, opened, fresh,
                 modeVars, savingVars>>

\* handle_enter on the settings
OpenSetting ==
  /\ Commands /\ On("Config") /\ configScroll <= Len(Rows)
  /\ setting' = [row |-> configScroll, text |-> rows[Rows[configScroll]]]
  /\ UNCHANGED <<savingVars, tuiConfig, rows, tab, server, configScroll, aclScroll, quit, elsewhere,
                 opened, fresh, filterActive, editing, showHelp>>

AddKey ==
  /\ Commands /\ On("Acl")
  /\ editing' = [kind |-> "adding", at |-> 0, rule |-> Nothing]
  /\ UNCHANGED <<savingVars, tuiConfig, rows, tab, server, configScroll, aclScroll, quit,
                 elsewhere, opened, fresh, filterActive, setting, showHelp>>

EditKey ==
  /\ Commands /\ On("Acl") /\ aclScroll <= Len(tuiConfig.rules)
  /\ editing' = [kind |-> "editing", at |-> aclScroll, rule |-> tuiConfig.rules[aclScroll]]
  /\ opened' = tuiConfig.rules[aclScroll]
  /\ UNCHANGED <<savingVars, tuiConfig, rows, tab, server, configScroll, aclScroll, quit,
                 elsewhere, fresh, filterActive, setting, showHelp>>

\* The rule under the cursor, also when the filter does not show it
DeleteKey ==
  /\ Commands /\ On("Acl")
  /\ IF aclScroll \in DOMAIN tuiConfig.rules THEN Begin /\ DeleteRule(aclScroll)
     ELSE UNCHANGED savingVars
  /\ aclScroll' = IF aclScroll > 1 THEN aclScroll - 1 ELSE aclScroll
  /\ UNCHANGED <<tuiConfig, rows, tab, server, configScroll, quit, elsewhere, opened,
                 fresh, modeVars>>

\* A reload in another thread, also while an edit is saved
TuiReload(c) ==
  /\ elsewhere < MaxElsewhere /\ elsewhere' = elsewhere + 1
  /\ tuiConfig' = c /\ opened' = Nothing
  /\ fresh' = {r \in fresh : c[r] = rows[r]}
  /\ overtaken' = saving
  /\ UNCHANGED <<rows, tab, server, configScroll, aclScroll, quit, modeVars, saving,
                 clone>>

Key ==
  /\ ~quit /\ ~saving
  /\ \/ FilterKey \/ RuleKey \/ SettingKey \/ HelpKey
     \/ ModeKey \/ ServerKey \/ RefreshKey \/ TabKey \/ Scroll
     \/ OpenSetting \/ AddKey \/ EditKey \/ DeleteKey

ConsoleNext ==
  \/ Key \/ TuiStore
  \/ \E rules \in {FirstRules, Tail(FirstRules)}, t \in Texts \ {"bad"} :
       TuiReload([rules |-> rules, port |-> t, root |-> t])

ConsoleSpec == ConsoleInit /\ [][ConsoleNext]_consoleVars

-----------------------------------------------------------------------------
ConsoleTypeOK ==
  /\ \A i \in DOMAIN tuiConfig.rules : tuiConfig.rules[i] \in Rules \cup {Nothing}
  /\ tuiConfig.port \in Texts \ {"bad"}
  /\ tab \in Tabs /\ aclScroll \in 1 .. MaxCursor
  /\ configScroll \in DOMAIN Rows /\ setting.row \in DOMAIN Rows \cup {0}

\* At most one of the four flags is set, so the order in which handle_key asks
\* them does not matter: no edit is hidden behind another one.
OneMode ==
  \A p, q \in 1 .. 4 :
    LET flag == <<filterActive, editing.kind # "none", setting.row # 0, showHelp>>
    IN  flag[p] /\ flag[q] => p = q

\* A letter that is typed is no command: while something is typed, edited or
\* shown over the rest, no key quits, stops the server or deletes a rule.
\* Only a reload may take rules away, or an edit that takes such a reload back.
TypingIsHarmless ==
  [][filterActive \/ editing.kind # "none" \/ setting.row # 0 \/ showHelp
       => /\ quit' = quit /\ server' = server
          /\ elsewhere' = elsewhere /\ ~overtaken
               => Len(tuiConfig'.rules) >= Len(tuiConfig.rules)]_consoleVars

\* Saving an edited rule replaces the rule that was opened, and leaves all the
\* others where they are; only when the rules were reloaded in between (opened
\* is Nothing then) may another one be overwritten, or what was reloaded while
\* the edit was saved be taken back.
EditReplacesItsRule ==
  [][opened # Nothing /\ tuiConfig'.rules # tuiConfig.rules /\ elsewhere' = elsewhere
       => /\ tuiConfig.rules[editing.at] = opened
          /\ tuiConfig'.rules = [tuiConfig.rules EXCEPT ![editing.at] = editing.rule]
    ]_consoleVars

\* An edit takes nothing else back: what was reloaded since the rows were read
\* or the rule was opened stays, and only a reload that comes while the edit
\* is saved to the disk, between the clone and the store, is lost.
OthersStay ==
  [][elsewhere' = elsewhere /\ ~overtaken
       => /\ tuiConfig'.root = tuiConfig.root
          /\ setting.row = 0 => tuiConfig'.port = tuiConfig.port
          /\ setting.row # 0
               => /\ tuiConfig'.rules = tuiConfig.rules
                  /\ Rows[setting.row] # "port" => tuiConfig' = tuiConfig]_consoleVars

\* A row shows the value the server runs with, unless it was reloaded since the
\* rows were read, or the row was given a text that did not reach it (or not
\* yet).
RowsAreTrue == \A r \in fresh : rows[r] = tuiConfig[r]

\* A key is taken by the one mode that is on, and by no command behind it.
KeysAreSafe == []ConsoleTypeOK /\ []OneMode /\ TypingIsHarmless

\* An edit changes the rule or the setting that was opened and nothing else,
\* unless a reload comes between its clone and its store, and the rows show
\* what came of it.
EditsAreExact == EditReplacesItsRule /\ OthersStay /\ []RowsAreTrue
=============================================================================
