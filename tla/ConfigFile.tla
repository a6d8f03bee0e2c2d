----------------------------- MODULE ConfigFile -----------------------------
(***************************************************************************)
(* The settings file (src/src/config.c) and the two dialogs that edit it:  *)
(* the driver's built-in one (src/src/control_panel.c), which edits size   *)
(* and mode, and the Qt panel (src/gui/SettingsDialog.cpp), which edits    *)
(* everything.  Each watches the file by a fingerprint and reloads what    *)
(* another program wrote.                                                  *)
(*                                                                         *)
(* An inode is kept apart from the names that refer to it: a save creates  *)
(* or truncates the one temporary name all savers share, writes, and       *)
(* renames.  A reader's load is one action, it reads one block of one file.*)
(* The device stands for all settings only the Qt panel edits.             *)
(***************************************************************************)
EXTENDS Integers

CONSTANTS
    Win32,       \* built-in dialogs, one for each host
    Qt,          \* Qt panels
    Inodes,      \* inodes of the file system
    Times,       \* what a fingerprint tells apart: modification time and length
    Sizes, ChosenModes, Devices, \* what a user picks
    Editions,    \* texts an editor may leave in the file
    Races,       \* whether the file may change while another dialog saves or opens,
                 \* and twice within the resolution of a fingerprint
    Faulty,      \* dialogs whose saves may fail
    MaxSaves,    \* bound: saves
    MaxChanges   \* bound: changes by an editor

Free == 0
Fixed == 1
Wireless == 3
Modes == {Free, Fixed, Wireless}
Unset == -1        \* the parser's sentinel, the same as a text without the key

DefaultSize == 1024
FollowDefault == "" \* no device is chosen

ValidSizes == {16, 32, 64, 128, 256, 512, 1024, 2048, 4096, 8192}

Dialogs == Win32 \cup Qt
\* A tail left of an older text is not whole, nor is an empty file.
Text == [size : Nat, mode : Int, fixed : BOOLEAN, follow : BOOLEAN,
         device : Devices \cup {FollowDefault}, whole : BOOLEAN]
Config == [size : ValidSizes, mode : Modes \cup {Unset}, device : Devices \cup {FollowDefault}]

ASSUME FileAssumption ==
    /\ Win32 \cap Qt = {}
    /\ Faulty \subseteq Dialogs /\ Races \in BOOLEAN
    /\ Inodes \subseteq Nat \ {0} /\ Times \subseteq Nat \ {0}
    /\ Sizes \subseteq ValidSizes /\ ChosenModes \subseteq Modes
    /\ Editions \subseteq {t \in Text : t.whole}
    /\ MaxSaves \in Nat /\ MaxChanges \in Nat

\* The file system.
VARIABLES
    path, tmp,      \* inodes of config.ini and config.ini.tmp, 0: no such file
    disk,           \* texts and modification times of the inodes
    saves, changes
fileVars == <<path, tmp, disk, saves, changes>>

\* The dialogs.
VARIABLES
    pc,
    shown,       \* contents of the controls
    dirty,       \* the user edited something
    dropped,     \* combo_dropped
    fp,          \* fp, m_cfgFp
    saving,      \* the configuration a save writes
    fd           \* the inode it has open
controlVars == <<shown, dirty, dropped, saving>>
dialogVars == <<pc, controlVars, fp, fd>>
vars == <<fileVars, dialogVars>>

\* A dialog that opens has loaded, but takes its fingerprint next.
Saving == {"create", "write", "rename", "stamp"}
Window == {"opening"} \cup Saving

TypeOK ==
    /\ path \in {0} \cup Inodes /\ tmp \in {0} \cup Inodes
    /\ disk \in [Inodes -> [text : Text, time : {0} \cup Times]]
    /\ saves \in 0 .. MaxSaves /\ changes \in 0 .. MaxChanges
    /\ pc \in [Dialogs -> {"closed", "idle", "refresh"} \cup Window]
    /\ shown \in [Dialogs -> Config] /\ saving \in [Dialogs -> Config]
    /\ dirty \in [Dialogs -> BOOLEAN] /\ dropped \in [Dialogs -> BOOLEAN]
    /\ fp \in [Dialogs -> {0} \cup Times]
    /\ fd \in [Dialogs -> {0} \cup Inodes]

-----------------------------------------------------------------------------
(* Loading and saving (config.c).                                           *)

set_defaults == [size |-> DefaultSize, mode |-> Fixed, device |-> FollowDefault]

\* A text without a mode keeps the meaning of the older booleans.
migrated(t) ==
    IF t.mode >= 0 THEN t.mode
    ELSE IF t.follow THEN Wireless ELSE IF t.fixed THEN Fixed ELSE Free

(* Mutant of parse: sizes are not validated. *)
MutParse(t) ==
    [size   |-> t.size,
     mode   |-> IF migrated(t) \in Modes THEN migrated(t) ELSE Fixed,
     device |-> t.device]
parse(t) ==
    [size   |-> IF t.size \in ValidSizes THEN t.size ELSE DefaultSize,
     mode   |-> IF migrated(t) \in Modes THEN migrated(t) ELSE Fixed,
     device |-> t.device]

\* Without a file the sentinel stays in the defaults.
pipeasio_config_load ==
    IF path = 0 THEN [set_defaults EXCEPT !.mode = Unset] ELSE parse(disk[path].text)

\* What a save writes: the booleans mirror the mode.
apply_mode(c) ==
    [size |-> c.size, mode |-> c.mode, device |-> c.device,
     fixed |-> c.mode = Fixed, follow |-> c.mode = Wireless, whole |-> TRUE]

\* A text without any key.
Blank == [size |-> DefaultSize, mode |-> Unset, device |-> FollowDefault,
          fixed |-> TRUE, follow |-> FALSE, whole |-> FALSE]

\* A text written over another: its keys, and perhaps a tail of the other's.
Overlay(new, old) ==
    {new} \cup IF old.whole THEN {[new EXCEPT !.device = old.device, !.whole = FALSE]} ELSE {}

-----------------------------------------------------------------------------
(* The file system.                                                         *)

Unused == Inodes \ ({path, tmp} \cup {fd[d] : d \in Dialogs})
Least(S) == {x \in S : \A y \in S : x <= y}
NewInode == Least(Unused)

cp_config_fingerprint == IF path = 0 THEN 0 ELSE disk[path].time

\* A time no dialog remembers; with Races perhaps the file's own.
NewTime ==
    Least(Times \ ({fp[d] : d \in Dialogs} \cup {disk[i].time : i \in Inodes}))
        \cup IF Races THEN {cp_config_fingerprint} \ {0} ELSE {}

\* The disk after inode i has got a text, and after inode i has lost its name.
Stored(i, t) == {[disk EXCEPT ![i] = [text |-> t, time |-> n]] : n \in NewTime}
NoFile == [text |-> Blank, time |-> 0]
Discarded(f, i) == [j \in Inodes |-> IF j = i THEN NoFile ELSE f[j]]

\* Whether d may begin a save, or open, with another dialog about to.
Apart(d) == Races \/ \A e \in Dialogs \ {d} : pc[e] \notin Window

Goto(d, l) == pc' = [pc EXCEPT ![d] = l]

Init ==
    /\ path \in {0} \cup Least(Inodes) /\ tmp = 0
    /\ \E t \in Editions, n \in Least(Times) :
          disk = [i \in Inodes |-> IF i = path THEN [text |-> t, time |-> n] ELSE NoFile]
    /\ saves = 0 /\ changes = 0
    /\ pc = [d \in Dialogs |-> "closed"]
    /\ shown = [d \in Dialogs |-> set_defaults] /\ saving = shown
    /\ dirty = [d \in Dialogs |-> FALSE] /\ dropped = [d \in Dialogs |-> FALSE]
    /\ fp = [d \in Dialogs |-> 0] /\ fd = [d \in Dialogs |-> 0]

\* An editor puts another file in place, or the user removes it.
Edition ==
    /\ changes < MaxChanges /\ changes' = changes + 1
    /\ Races \/ \A d \in Dialogs : pc[d] \notin Window
    /\ \/ \E t \in Editions, i \in NewInode :
            path' = i /\ disk' \in {Discarded(f, path) : f \in Stored(i, t)}
       \/ path' = 0 /\ disk' = Discarded(disk, path)
    /\ UNCHANGED <<tmp, saves, dialogVars>>

-----------------------------------------------------------------------------
(* A dialog: opening, the user, the watch timer.                            *)

\* Qt shows an unknown mode as the default.
applyConfig(d, c) ==
    [shown EXCEPT ![d] = IF d \in Qt /\ c.mode = Unset THEN [c EXCEPT !.mode = Fixed] ELSE c]

Open(d) ==
    /\ pc[d] = "closed" /\ Apart(d)
    /\ shown' = applyConfig(d, pipeasio_config_load)
    /\ Goto(d, "opening")
    /\ UNCHANGED <<fileVars, dirty, dropped, fp, saving, fd>>

OpenStamp(d) ==
    /\ pc[d] = "opening"
    /\ fp' = [fp EXCEPT ![d] = cp_config_fingerprint]
    /\ Goto(d, "idle")
    /\ UNCHANGED <<fileVars, controlVars, fd>>

Controls(d, c, edit) ==
    /\ pc[d] = "idle"
    /\ shown' = [shown EXCEPT ![d] = c] /\ dirty' = [dirty EXCEPT ![d] = @ \/ edit]
    /\ UNCHANGED <<fileVars, pc, dropped, saving, fp, fd>>

\* The user picks a size, a mode, or in the Qt panel a device.
Pick(d) ==
    \/ \E n \in Sizes : Controls(d, [shown[d] EXCEPT !.size = n], TRUE)
    \/ \E m \in ChosenModes : Controls(d, [shown[d] EXCEPT !.mode = m], TRUE)
    \/ d \in Qt /\ \E v \in Devices : Controls(d, [shown[d] EXCEPT !.device = v], TRUE)

onRestoreDefaults(d) == d \in Qt /\ Controls(d, set_defaults, TRUE)

\* The chosen device left the graph: the list is built again without it, and
\* that does not count as an edit.
refreshDevices(d) == d \in Qt /\ Controls(d, [shown[d] EXCEPT !.device = FollowDefault], FALSE)

DropDown(d) ==
    /\ d \in Win32 /\ pc[d] = "idle"
    /\ dropped' = [dropped EXCEPT ![d] = ~ @]
    /\ UNCHANGED <<fileVars, pc, shown, dirty, saving, fp, fd>>

(* Mutant of WatchTimer: the fingerprint is taken although the list is open. *)
MutWatchTimer(d) ==
    /\ pc[d] = "idle" /\ ~ dirty[d]
    /\ cp_config_fingerprint # fp[d]
    /\ d \in Win32 => cp_config_fingerprint # 0
    /\ fp' = [fp EXCEPT ![d] = cp_config_fingerprint]
    /\ Goto(d, IF dropped[d] THEN "idle" ELSE "refresh")
    /\ UNCHANGED <<fileVars, controlVars, fd>>
\* WM_TIMER and onCfgWatch.  The Qt panel stores the fingerprint after the load,
\* but it is the one compared here.
WatchTimer(d) ==
    /\ pc[d] = "idle" /\ ~ dirty[d] /\ ~ dropped[d]
    /\ cp_config_fingerprint # fp[d]
    /\ d \in Win32 => cp_config_fingerprint # 0
    /\ fp' = [fp EXCEPT ![d] = cp_config_fingerprint]
    /\ Goto(d, "refresh")
    /\ UNCHANGED <<fileVars, controlVars, fd>>

Reload(d) ==
    /\ pc[d] = "refresh"
    /\ shown' = applyConfig(d, pipeasio_config_load)
    /\ Goto(d, "idle")
    /\ UNCHANGED <<fileVars, dirty, dropped, saving, fp, fd>>

\* The dialog and its state are gone, and so are those of a process killed.
Vanish(d) ==
    /\ pc' = [pc EXCEPT ![d] = "closed"]
    /\ shown' = [shown EXCEPT ![d] = set_defaults] /\ saving' = [saving EXCEPT ![d] = set_defaults]
    /\ dirty' = [dirty EXCEPT ![d] = FALSE] /\ dropped' = [dropped EXCEPT ![d] = FALSE]
    /\ fp' = [fp EXCEPT ![d] = 0] /\ fd' = [fd EXCEPT ![d] = 0]

Close(d) == pc[d] = "idle" /\ Vanish(d) /\ UNCHANGED fileVars

-----------------------------------------------------------------------------
(* A save: Apply, OK.                                                       *)

\* The built-in dialog puts size and mode into a fresh copy of the settings.
(* Mutant of merged: the copy is the one loaded before. *)
MutMerged(d) == shown[d]
merged(d) ==
    IF d \in Qt THEN shown[d]
    ELSE [pipeasio_config_load EXCEPT !.size = shown[d].size, !.mode = shown[d].mode]

Apply(d) ==
    /\ pc[d] = "idle" /\ Apart(d) /\ shown[d].size \in ValidSizes
    /\ saves < MaxSaves /\ saves' = saves + 1
    /\ saving' = [saving EXCEPT ![d] = merged(d)]
    /\ Goto(d, "create")
    /\ UNCHANGED <<path, tmp, disk, changes, shown, dirty, dropped, fp, fd>>

\* fopen "w": another saver's temporary file is truncated and shared.
Create(d) ==
    /\ pc[d] = "create"
    /\ \E i \in IF tmp = 0 THEN NewInode ELSE {tmp} :
         /\ tmp' = i /\ fd' = [fd EXCEPT ![d] = i]
         /\ disk' \in Stored(i, Blank)
    /\ Goto(d, "write")
    /\ UNCHANGED <<path, saves, changes, controlVars, fp>>

\* The text fits the buffer: fclose writes it all, from the file's start.
Write(d) ==
    /\ pc[d] = "write"
    /\ \E t \in Overlay(apply_mode(saving[d]), disk[fd[d]].text) : disk' \in Stored(fd[d], t)
    /\ fd' = [fd EXCEPT ![d] = 0]
    /\ Goto(d, "rename")
    /\ UNCHANGED <<path, tmp, saves, changes, controlVars, fp>>

Rename(d) ==
    /\ pc[d] = "rename" /\ tmp # 0
    /\ path' = tmp /\ tmp' = 0 /\ disk' = Discarded(disk, path)
    /\ Goto(d, "stamp")
    /\ UNCHANGED <<saves, changes, controlVars, fp, fd>>

(* Mutant of Failed: the result of the save is ignored by both. *)
MutFailed(d) == Goto(d, "stamp")
\* The built-in dialog keeps the edits of a save that failed, Qt goes on.
Failed(d) == Goto(d, IF d \in Qt THEN "stamp" ELSE "idle")

\* The directory or the temporary file cannot be created.
CreateFails(d) ==
    /\ d \in Faulty /\ pc[d] = "create"
    /\ Failed(d)
    /\ UNCHANGED <<fileVars, controlVars, fp, fd>>

(* Mutant of WriteFails: the result of fclose is ignored. *)
MutWriteFails(d) ==
    /\ d \in Faulty /\ pc[d] = "write"
    /\ fd' = [fd EXCEPT ![d] = 0] /\ Goto(d, "rename")
    /\ UNCHANGED <<fileVars, controlVars, fp>>
\* The disk is full, or the temporary file is gone.
WriteFails(d) ==
    /\ \/ d \in Faulty /\ pc[d] \in {"write", "rename"}
       \/ pc[d] = "rename" /\ tmp = 0
    /\ tmp' = 0 /\ disk' = Discarded(disk, tmp) /\ fd' = [fd EXCEPT ![d] = 0]
    /\ Failed(d)
    /\ UNCHANGED <<path, saves, changes, controlVars, fp>>

Stay(d) ==
    /\ fp' = [fp EXCEPT ![d] = cp_config_fingerprint]
    /\ dirty' = [dirty EXCEPT ![d] = FALSE]
    /\ shown' = [shown EXCEPT ![d] = IF d \in Qt THEN @ ELSE saving[d]]
    /\ saving' = [saving EXCEPT ![d] = set_defaults]
    /\ Goto(d, "idle")
    /\ UNCHANGED <<dropped, fd>>

\* Apply goes on with the dialog, OK closes it.
SaveStamp(d) ==
    /\ pc[d] = "stamp"
    /\ \/ Stay(d)
       \/ d \in Win32 /\ Vanish(d)
    /\ UNCHANGED fileVars

\* The host, or the panel, is killed in the middle of a save.
Crash(d) == pc[d] \in Saving /\ Vanish(d) /\ UNCHANGED fileVars

-----------------------------------------------------------------------------
Timer(d) == WatchTimer(d) \/ Reload(d)
Save(d) ==
    \/ Create(d) \/ Write(d) \/ Rename(d) \/ CreateFails(d) \/ WriteFails(d) \/ SaveStamp(d)
User(d) ==
    \/ Open(d) \/ Pick(d) \/ onRestoreDefaults(d) \/ DropDown(d) \/ Apply(d) \/ Close(d)

Next ==
    \/ Edition
    \/ \E d \in Dialogs :
         User(d) \/ OpenStamp(d) \/ refreshDevices(d) \/ Timer(d) \/ Save(d) \/ Crash(d)

\* A dialog's timer fires, and what it began it ends.
Fairness == \A d \in Dialogs : WF_vars(OpenStamp(d)) /\ WF_vars(Timer(d)) /\ WF_vars(Save(d))

Spec == Init /\ [][Next]_vars
FairSpec == Spec /\ Fairness

-----------------------------------------------------------------------------
(* Properties.                                                              *)

\* A reader of config.ini (the driver's watcher, a dialog) never meets an empty
\* or half-written file: whichever step of a save fails, wherever its process
\* is killed, and whatever temporary file that leaves to the next saver.
NeverTorn == path # 0 => disk[path].text.whole

\* A fingerprint vouches for what is shown: a dialog without edits that finds
\* the fingerprint it remembers shows the file, up to a device that has left and
\* the mode a built-in dialog opened without a file does not know.
AtRest(d) == pc[d] = "idle" /\ ~ dirty[d]
ShowsFile(d) ==
    LET c == applyConfig(d, pipeasio_config_load)[d]
    IN  /\ shown[d].size = c.size
        /\ shown[d].mode \in {c.mode, Unset}
        /\ shown[d].device \in {c.device} \cup IF d \in Qt THEN {FollowDefault} ELSE {}
FingerprintVouches ==
    \A d \in Dialogs :
        AtRest(d) /\ path # 0 /\ fp[d] = cp_config_fingerprint => ShowsFile(d)

\* Wherever it fails or is killed, a save is one change of the settings at one
\* instant, its rename, or none: between its steps a load returns the old ones,
\* and what the built-in dialog does not edit stays as it is in the file by then.
NoSave == [size |-> 0]
Asked == [d \in Dialogs |-> IF pc[d] \in Saving \ {"stamp"} THEN saving[d] ELSE NoSave]
Store == INSTANCE SettingsStore WITH
    settings <- pipeasio_config_load, wanted <- Asked, editions <- changes, Nothing <- NoSave
SavesAtomic == Store!Spec

\* A dialog left alone without edits comes to show the file and goes on to.
InSync ==
    \A d \in Dialogs :
        <>[](AtRest(d) /\ ~ dropped[d] /\ path # 0) => <>[]ShowsFile(d)
=============================================================================
