-------------------------------- MODULE Forms --------------------------------
(***************************************************************************)
(* The two forms of the graphical interface that change the configuration: *)
(* the settings (gui/tabs/config_tab.rs) and the access rules              *)
(* (gui/tabs/acl_tab.rs).  A form is a copy that was filled when the       *)
(* window opened; Apply writes all of it into a clone of the running       *)
(* configuration, saves the clone to the disk and only then stores it.     *)
(* Other threads reload the configuration meanwhile.                       *)
(***************************************************************************)
EXTENDS Integers, Sequences, SequencesExt, FiniteSets, Lists

CONSTANTS FormFields,   \* settings the form shows
          Inputs,       \* texts of a field; "bad" does not parse
          FirstInput,   \* what every setting says at the start
          Sources,      \* addresses of a rule; "bad" is none
          FirstSources, \* the rules at the start
          MaxSources,   \* bound: rules in the form
          Modes,        \* disabled, whitelist, blacklist
          FirstMode,
          Reloaded,     \* bound: the setting that a reload changes
          MaxReloads    \* bound: reloads

ASSUME FormsAssumption ==
  /\ FirstInput \in Inputs \ {"bad"} /\ MaxSources \in Nat
  /\ FirstSources \in Seq(Sources) /\ Len(FirstSources) <= MaxSources
  /\ FirstMode \in Modes /\ Reloaded \in FormFields

VARIABLES guiConfig,    \* AppState.config: [settings, rules, mode]
          form,         \* ConfigState: the text of every field
          formDirty,
          list,         \* AclState.rules: [source, enabled]
          listMode,     \* AclState.mode
          listDirty,
          applying,     \* the form whose clone is on its way to the disk, or "none":
                        \* the window takes no click then
          toApply,      \* ... the clone it stores then
          crossed,      \* history: a reload came since the clone was taken
          reloads,
          typed,        \* history: fields that were typed since the form was filled
          moved,        \* history: settings that changed elsewhere since then
          movedRules    \* history: rules or mode changed elsewhere since the list was filled

settingsVars == <<form, formDirty, typed, moved>>
rulesVars    == <<list, listMode, listDirty, movedRules>>
applyVars    == <<applying, toApply, crossed>>
formsVars    == <<guiConfig, reloads, settingsVars, rulesVars, applyVars>>

\* The default of every setting, and of a file that is imported
Fresh(text) == [s \in FormFields |-> text]

Enabled(rules) == [i \in DOMAIN rules |-> [source |-> rules[i], enabled |-> TRUE]]

\* A slip: the switch is not looked at
MutToConfig(rules) == [i \in DOMAIN rules |-> rules[i].source]

\* AclState::to_config: a rule that is switched off is not stored at all
ToConfig(rules) ==
  LET on == Select(rules, {r \in ToSet(rules) : r.enabled})
  IN  [i \in DOMAIN on |-> on[i].source]

NothingToApply == [settings |-> Fresh(FirstInput), rules |-> <<>>, mode |-> FirstMode]

FormsInit ==
  /\ guiConfig = [settings |-> Fresh(FirstInput), rules |-> FirstSources, mode |-> FirstMode]
  /\ form = guiConfig.settings /\ formDirty = FALSE
  /\ list = Enabled(guiConfig.rules) /\ listMode = FirstMode /\ listDirty = FALSE
  /\ applying = "none" /\ toApply = NothingToApply /\ crossed = FALSE
  /\ reloads = 0 /\ typed = {} /\ moved = {} /\ movedRules = FALSE

-----------------------------------------------------------------------------
(***************************************************************************)
(* The settings                                                            *)
(***************************************************************************)
TypeInto(s, text) ==
  /\ text # form[s]
  /\ form' = [form EXCEPT ![s] = text] /\ formDirty' = TRUE
  /\ typed' = typed \cup {s}
  /\ UNCHANGED <<guiConfig, reloads, moved, rulesVars, applyVars>>

\* The clone that Apply of a form makes
BeginApply(which, c) ==
  /\ applying' = which /\ toApply' = c /\ crossed' = FALSE
  /\ UNCHANGED <<guiConfig, reloads, settingsVars, rulesVars>>

Applied == applying' = "none" /\ toApply' = NothingToApply /\ crossed' = FALSE

\* Apply: the first field that does not parse ends it
ApplyForm ==
  /\ formDirty /\ \A s \in FormFields : form[s] # "bad"
  /\ BeginApply("form", [guiConfig EXCEPT !.settings = form])

\* ... the clone is saved, or is not, and stored
StoreForm ==
  /\ applying = "form"
  /\ guiConfig' = toApply
  /\ formDirty' = FALSE /\ typed' = {} /\ moved' = {}
  /\ Applied
  /\ UNCHANGED <<form, reloads, rulesVars>>

\* The fields are filled again: with the running configuration, or with one
\* that is not applied yet
FillForm(settings, dirty) ==
  /\ form' = settings /\ formDirty' = dirty
  /\ typed' = (IF dirty THEN FormFields ELSE {}) /\ moved' = {}
  /\ UNCHANGED <<guiConfig, reloads, rulesVars, applyVars>>

\* A slip: the mark is taken off, the texts stay
MutResetForm ==
  /\ formDirty' = FALSE /\ typed' = {} /\ moved' = {}
  /\ UNCHANGED <<guiConfig, form, reloads, rulesVars, applyVars>>

ResetForm == FillForm(guiConfig.settings, FALSE)

DefaultsOrImport(text) == FillForm(Fresh(text), TRUE)

-----------------------------------------------------------------------------
(***************************************************************************)
(* The access rules                                                        *)
(***************************************************************************)
ChangeList(rules) ==
  /\ list' = rules /\ listDirty' = TRUE
  /\ UNCHANGED <<guiConfig, reloads, settingsVars, movedRules, listMode, applyVars>>

\* The default of the list, for addresses that no rule names
ChooseMode(mode) ==
  /\ mode # listMode /\ listMode' = mode /\ listDirty' = TRUE
  /\ UNCHANGED <<guiConfig, reloads, settingsVars, movedRules, list, applyVars>>

\* A row of the list: its text (also one that is no address), its switch, its
\* buttons; only one of them is clicked in a frame
EditRow(i) ==
  /\ i \in DOMAIN list
  /\ \/ \E source \in Sources \ {list[i].source} : ChangeList([list EXCEPT ![i].source = source])
     \/ ChangeList([list EXCEPT ![i].enabled = ~@])
     \/ i > 1 /\ ChangeList([list EXCEPT ![i] = list[i - 1], ![i - 1] = list[i]])
     \/ i < Len(list) /\ ChangeList([list EXCEPT ![i] = list[i + 1], ![i + 1] = list[i]])
     \/ ChangeList(RemoveAt(list, i))

\* A new rule must have an address
AddRow(source) ==
  /\ source # "bad" /\ Len(list) < MaxSources
  /\ ChangeList(Append(list, [source |-> source, enabled |-> TRUE]))

ApplyList ==
  /\ listDirty
  /\ BeginApply("list", [guiConfig EXCEPT !.rules = ToConfig(list), !.mode = listMode])

StoreList ==
  /\ applying = "list"
  /\ guiConfig' = toApply
  /\ listDirty' = FALSE /\ movedRules' = FALSE
  /\ Applied
  /\ UNCHANGED <<list, listMode, reloads, settingsVars>>

ResetList ==
  /\ list' = Enabled(guiConfig.rules) /\ listMode' = guiConfig.mode
  /\ listDirty' = FALSE /\ movedRules' = FALSE
  /\ UNCHANGED <<guiConfig, reloads, settingsVars, applyVars>>

\* A reload elsewhere: neither form learns of it, nor does a clone that is on
\* its way
GuiReload(s, text, rules, mode) ==
  /\ reloads < MaxReloads /\ reloads' = reloads + 1
  /\ guiConfig' = [settings |-> [guiConfig.settings EXCEPT ![s] = text], rules |-> rules,
                   mode |-> mode]
  /\ moved' = moved \cup {t \in FormFields : guiConfig'.settings[t] # guiConfig.settings[t]}
  /\ movedRules' = (movedRules \/ rules # guiConfig.rules \/ mode # guiConfig.mode)
  /\ crossed' = (applying # "none")
  /\ UNCHANGED <<form, formDirty, typed, list, listMode, listDirty, applying, toApply>>

Click ==
  /\ applying = "none"
  /\ \/ \E s \in FormFields, text \in Inputs : TypeInto(s, text)
     \/ ApplyForm \/ ResetForm
     \/ \E text \in Inputs \ {"bad"} : DefaultsOrImport(text)
     \/ \E i \in 1 .. MaxSources : EditRow(i)
     \/ \E source \in Sources : AddRow(source)
     \/ \E mode \in Modes : ChooseMode(mode)
     \/ ApplyList \/ ResetList

FormsNext ==
  \/ Click \/ StoreForm \/ StoreList
  \/ \E text \in Inputs \ {"bad"} :
       \/ GuiReload(Reloaded, text, guiConfig.rules, guiConfig.mode)
       \/ GuiReload(Reloaded, text, FirstSources, FirstMode)

FormsSpec == FormsInit /\ [][FormsNext]_formsVars

-----------------------------------------------------------------------------
FormsTypeOK ==
  /\ \A s \in FormFields : form[s] \in Inputs /\ guiConfig.settings[s] \in Inputs \ {"bad"}
  /\ Len(list) <= MaxSources /\ Len(guiConfig.rules) <= MaxSources
  /\ guiConfig.mode \in Modes /\ listMode \in Modes
  /\ \A i \in DOMAIN list : list[i].source \in Sources /\ list[i].enabled \in BOOLEAN

\* A form without unsaved changes shows what the server runs with, setting by
\* setting, except those that changed elsewhere since it was filled.
CleanFormIsTrue ==
  ~formDirty => \A s \in FormFields \ moved : form[s] = guiConfig.settings[s]

CleanListIsTrue ==
  ~listDirty /\ ~movedRules => ToConfig(list) = guiConfig.rules /\ listMode = guiConfig.mode

\* Applying the form changes the fields that were typed; the only others it
\* changes are those it takes back because they changed elsewhere.  Applying
\* the list takes settings back too, those that are reloaded between its clone
\* and its store, and nothing else changes them.
ApplyIsWhatWasTyped ==
  [][reloads' = reloads
       => \A s \in FormFields : guiConfig'.settings[s] # guiConfig.settings[s]
            => /\ s \in typed \cup moved
               /\ ~crossed => applying = "form" /\ \A t \in FormFields : form[t] # "bad"
    ]_formsVars

\* The forms do not undo each other: no click changes both the settings and
\* the rules, unless a reload came between the clone and the store and is taken
\* back; and unsaved changes of one form survive everything that is done in the
\* other.
FormsApart ==
  [][reloads' = reloads
       => /\ ~crossed /\ guiConfig'.settings # guiConfig.settings
               => guiConfig'.rules = guiConfig.rules /\ guiConfig'.mode = guiConfig.mode
          /\ settingsVars' # settingsVars => rulesVars' = rulesVars
          /\ guiConfig' # guiConfig
               => settingsVars' = settingsVars \/ rulesVars' = rulesVars]_formsVars

\* What is applied is the list, in its order and with its default: what is
\* denied first there is denied first by the server.
AppliedInOrder ==
  [][reloads' = reloads /\ applying = "list" /\ applying' = "none"
       => /\ Len(guiConfig'.rules) <= Len(list) /\ guiConfig'.mode = listMode
          /\ \A i \in DOMAIN guiConfig'.rules :
               \E k \in i .. Len(list) :
                 /\ list[k].enabled /\ list[k].source = guiConfig'.rules[i]
                 /\ Cardinality({j \in 1 .. k : list[j].enabled}) = i]_formsVars

\* A form without changes shows the running configuration.
FormsAreTrue == FormsTypeOK /\ CleanFormIsTrue /\ CleanListIsTrue

\* Applying a form changes what was changed in it and nothing else, but for
\* what was reloaded since the form was filled or while it was being saved.
FormsApply == ApplyIsWhatWasTyped /\ FormsApart /\ AppliedInOrder
=============================================================================
