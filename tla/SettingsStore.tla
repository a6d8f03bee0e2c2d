--------------------------- MODULE SettingsStore ---------------------------
(***************************************************************************)
(* What the settings file promises to those who save and load it: a save   *)
(* happens at one instant, in which what the dialog edits replaces what    *)
(* was there and what it does not edit stays as it is at that instant, or  *)
(* it does not happen at all.  At every moment a load returns the settings *)
(* the last save, or the last editor, left.                                *)
(***************************************************************************)
EXTENDS Integers

CONSTANTS
    Win32,         \* dialogs that edit size and mode
    Qt,            \* dialogs that edit everything
    Config,        \* what a load returns
    Unset, Free,   \* the mode a dialog does not know, and what it is saved as
    Nothing        \* not a configuration

VARIABLES
    settings,      \* what a load returns
    wanted,        \* what each dialog is about to save
    editions       \* how often something other than a dialog changed the file

vars == <<settings, wanted, editions>>
Dialogs == Win32 \cup Qt

Init ==
    /\ settings \in Config
    /\ wanted = [d \in Dialogs |-> Nothing]
    /\ editions = 0

Edit ==
    /\ editions' = editions + 1
    /\ settings' \in Config
    /\ UNCHANGED wanted

Ask(d) ==
    /\ wanted[d] = Nothing
    /\ wanted'[d] \in Config /\ wanted' = [wanted EXCEPT ![d] = wanted'[d]]
    /\ UNCHANGED <<settings, editions>>

\* The settings with those dialog d edits replaced.
Edited(d) ==
    IF d \in Qt THEN wanted[d]
    ELSE [settings EXCEPT !.size = wanted[d].size, !.mode = wanted[d].mode]
Told(c) == [c EXCEPT !.mode = IF @ = Unset THEN Free ELSE @]

Done(d) == wanted[d] # Nothing /\ wanted' = [wanted EXCEPT ![d] = Nothing]

Commit(d) ==
    /\ Done(d)
    /\ settings' = Told(Edited(d))
    /\ UNCHANGED editions

\* The save failed, or its process was killed.
GiveUp(d) == Done(d) /\ UNCHANGED <<settings, editions>>

Next == Edit \/ \E d \in Dialogs : Ask(d) \/ Commit(d) \/ GiveUp(d)

Spec == Init /\ [][Next]_vars
=============================================================================
