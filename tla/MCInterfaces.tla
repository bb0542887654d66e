---------------------------- MODULE MCInterfaces ----------------------------
(***************************************************************************)
(* One run for everything that changes the configuration: the store and    *)
(* its reloads, the keys of the terminal, or the forms of the window.  kind *)
(* says which of the three a behaviour is about; the other two stay as they *)
(* begin.                                                                  *)
(***************************************************************************)
EXTENDS MCConfiguration, TextConsole, Forms

VARIABLE kind

allVars == <<kind, configurationVars, consoleVars, formsVars>>

TwoRules   == <<"r1", "r2">>
\* A rule whose address was spoilt by an edit stays in the list
TwoSources == <<"s1", "bad">>

InterfacesInit ==
  /\ kind \in {"store", "keys", "forms"}
  /\ ConfigurationInit /\ ConsoleInit /\ FormsInit
  /\ kind # "store" => config["port"] = 1

InterfacesNext ==
  /\ UNCHANGED kind
  /\ \/ kind = "store" /\ ConfigurationNext /\ UNCHANGED <<consoleVars, formsVars>>
     \/ kind = "keys" /\ ConsoleNext /\ UNCHANGED <<configurationVars, formsVars>>
     \/ kind = "forms" /\ FormsNext /\ UNCHANGED <<configurationVars, consoleVars>>

StoreGoesOn ==
  kind = "store" /\ GoesOn /\ UNCHANGED <<kind, consoleVars, formsVars>>

InterfacesSpec ==
  InterfacesInit /\ [][InterfacesNext]_allVars /\ WF_allVars(StoreGoesOn)
=============================================================================
