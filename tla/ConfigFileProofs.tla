-------------------------- MODULE ConfigFileProofs --------------------------
(***************************************************************************)
(* Proofs about ConfigFile.  Type correctness holds whatever the constants *)
(* are; the safety properties hold when the dialogs' saves and openings    *)
(* keep apart (Races = FALSE), the last one when the Qt panel's saves      *)
(* succeed, which it takes for granted.                                    *)
(***************************************************************************)
EXTENDS ConfigFile, TLAPS

-----------------------------------------------------------------------------
(* Loading and saving.                                                      *)

\* The parser returns a valid configuration, whatever the text says.
LEMMA ParseType ==
  ASSUME NEW t \in Text
  PROVE  parse(t) \in [size : ValidSizes, mode : Modes, device : Devices \cup {FollowDefault}]
  BY DEF parse, Text, migrated, Modes, Free, Fixed, Wireless, ValidSizes, DefaultSize

LEMMA DefaultsType == set_defaults \in Config
  BY DEF set_defaults, Config, ValidSizes, DefaultSize, Modes, Fixed

LEMMA LoadType == TypeOK => pipeasio_config_load \in Config
  <1> SUFFICES ASSUME TypeOK PROVE pipeasio_config_load \in Config
    OBVIOUS
  <1>1. CASE path = 0
    BY <1>1, DefaultsType DEF pipeasio_config_load, Config, set_defaults
  <1>2. CASE path # 0
    <2>1. disk[path].text \in Text
      BY <1>2 DEF TypeOK
    <2> QED
      BY <1>2, <2>1, ParseType DEF pipeasio_config_load, Config
  <1> QED
    BY <1>1, <1>2

LEMMA ApplyModeType == ASSUME NEW c \in Config PROVE apply_mode(c) \in Text /\ apply_mode(c).whole
  BY DEF apply_mode, Config, Text, ValidSizes, Modes, Free, Fixed, Wireless, Unset

\* What is saved is loaded again, but for the mode a dialog does not know.
LEMMA RoundTrip ==
  ASSUME NEW c \in Config
  PROVE  /\ parse(apply_mode(c)).size = c.size
         /\ parse(apply_mode(c)).device = c.device
         /\ c.mode \in {parse(apply_mode(c)).mode, Unset}
  BY DEF parse, apply_mode, migrated, Config, Modes, Free, Fixed, Wireless, Unset

LEMMA BlankType == Blank \in Text /\ ~ Blank.whole
  BY DEF Blank, Text, DefaultSize, Unset

LEMMA EditType ==
  ASSUME NEW c \in Config
  PROVE  /\ \A n \in ValidSizes : [c EXCEPT !.size = n] \in Config
         /\ \A m \in Modes \cup {Unset} : [c EXCEPT !.mode = m] \in Config
         /\ \A v \in Devices \cup {FollowDefault} : [c EXCEPT !.device = v] \in Config
<1>1. \A n \in ValidSizes : [c EXCEPT !.size = n] \in Config
  BY DEF Config
<1>2. \A m \in Modes \cup {Unset} : [c EXCEPT !.mode = m] \in Config
  BY DEF Config
<1>3. \A v \in Devices \cup {FollowDefault} : [c EXCEPT !.device = v] \in Config
  BY DEF Config
<1> QED
  BY <1>1, <1>2, <1>3

\* A text over one that is not whole stands as it is.
LEMMA OverlayWhole == ASSUME NEW new, NEW old, ~ old.whole PROVE Overlay(new, old) = {new}
  BY DEF Overlay

LEMMA OverlayType ==
  ASSUME NEW new \in Text, NEW old \in Text
  PROVE  Overlay(new, old) \subseteq Text
  BY DEF Overlay, Text

-----------------------------------------------------------------------------
(* The file system.                                                         *)

LEMMA NewTimes == NewTime \subseteq Times \cup ({cp_config_fingerprint} \ {0})
  BY FileAssumption DEF NewTime, Least

\* A time that is given is one no dialog remembers and no inode has.
LEMMA NewTimeFresh ==
  ASSUME ~ Races, NEW n \in NewTime
  PROVE  /\ n \in Times /\ n # 0
         /\ \A d \in Dialogs : fp[d] # n
         /\ \A i \in Inodes : disk[i].time # n
  BY FileAssumption DEF NewTime, Least

\* Storing a text changes one inode.
LEMMA StoredDisk ==
  ASSUME TypeOK, NEW i \in Inodes, NEW t \in Text, NEW f \in Stored(i, t)
  PROVE  /\ f \in [Inodes -> [text : Text, time : {0} \cup Times]]
         /\ f[i].text = t /\ f[i].time \in NewTime
         /\ \A j \in Inodes \ {i} : f[j] = disk[j]
  <1>1. cp_config_fingerprint \in {0} \cup Times
    BY DEF TypeOK, cp_config_fingerprint
  <1>2. NewTime \subseteq {0} \cup Times
    BY <1>1, NewTimes
  <1> QED
    BY <1>2 DEF Stored, TypeOK

LEMMA DiscardedDisk ==
  ASSUME NEW f \in [Inodes -> [text : Text, time : {0} \cup Times]], NEW i
  PROVE  /\ Discarded(f, i) \in [Inodes -> [text : Text, time : {0} \cup Times]]
         /\ \A j \in Inodes \ {i} : Discarded(f, i)[j] = f[j]
  BY BlankType DEF Discarded, NoFile

LEMMA NewInodes == ASSUME NEW i \in NewInode PROVE i \in Inodes /\ i # path /\ i # tmp /\ i # 0
  BY FileAssumption DEF NewInode, Least, Unused

-----------------------------------------------------------------------------
(* Types.                                                                   *)

LEMMA InitType == Init => TypeOK
<1> SUFFICES ASSUME Init PROVE TypeOK
  OBVIOUS
<1>1. path \in {0} \cup Inodes /\ tmp \in {0} \cup Inodes /\ saves = 0 /\ changes = 0
  BY DEF Init, Least
<1>2. disk \in [Inodes -> [text : Text, time : {0} \cup Times]]
  BY FileAssumption, BlankType DEF Init, Least, NoFile
<1>3. 0 \in 0 .. MaxSaves /\ 0 \in 0 .. MaxChanges
  BY FileAssumption
<1> QED
  BY <1>1, <1>2, <1>3, DefaultsType DEF Init, TypeOK

\* The actions of the user and of the watch timer.
LEMMA UserType == ASSUME TypeOK, NEW d \in Dialogs,
                         User(d) \/ OpenStamp(d) \/ refreshDevices(d) \/ Timer(d)
                  PROVE  TypeOK'
<1> USE DEF TypeOK, fileVars, controlVars, dialogVars, Goto, Window, Saving
<1>1. pipeasio_config_load \in Config
  BY LoadType
<1>2. cp_config_fingerprint \in {0} \cup Times
  BY DEF cp_config_fingerprint
<1>3. applyConfig(d, pipeasio_config_load) \in [Dialogs -> Config]
  BY <1>1 DEF applyConfig, Config, Modes
<1>4. ASSUME NEW c \in Config, NEW e \in BOOLEAN, Controls(d, c, e) PROVE TypeOK'
  BY <1>4 DEF Controls
<1>5. CASE Open(d)
  BY <1>5, <1>3 DEF Open
<1>6. CASE OpenStamp(d)
  BY <1>6, <1>2 DEF OpenStamp
<1>7. CASE Pick(d)
  <2>0. shown[d] \in Config
    OBVIOUS
  <2>1. \A n \in Sizes : [shown[d] EXCEPT !.size = n] \in Config
    BY <2>0, EditType, FileAssumption
  <2>2. \A m \in ChosenModes : [shown[d] EXCEPT !.mode = m] \in Config
    BY <2>0, EditType, FileAssumption
  <2>3. \A v \in Devices : [shown[d] EXCEPT !.device = v] \in Config
    BY <2>0, EditType
  <2> QED
    BY <1>7, <1>4, <2>1, <2>2, <2>3 DEF Pick
<1>8. CASE onRestoreDefaults(d)
  BY <1>8, <1>4, DefaultsType DEF onRestoreDefaults
<1>9. CASE refreshDevices(d)
  <2>1. shown[d] \in Config /\ [shown[d] EXCEPT !.device = FollowDefault] \in Config
    BY EditType
  <2> QED
    BY <1>9, <1>4, <2>1 DEF refreshDevices
<1>10. CASE DropDown(d)
  BY <1>10 DEF DropDown
<1>11. CASE WatchTimer(d)
  BY <1>11, <1>2 DEF WatchTimer
<1>12. CASE Reload(d)
  BY <1>12, <1>3 DEF Reload
<1>13. CASE Close(d)
  BY <1>13, DefaultsType DEF Close, Vanish
<1>14. CASE Apply(d)
  <2>1. merged(d) \in Config
    BY <1>1 DEF merged, Config
  <2>2. saves + 1 \in 0 .. MaxSaves
    BY <1>14, FileAssumption DEF Apply
  <2> QED
    BY <1>14, <2>1, <2>2 DEF Apply
<1> QED
  BY <1>5, <1>6, <1>7, <1>8, <1>9, <1>10, <1>11, <1>12, <1>13, <1>14 DEF User, Timer

\* The steps of a save.
LEMMA SaveType == ASSUME TypeOK, NEW d \in Dialogs, Save(d) \/ Crash(d) PROVE TypeOK'
<1> USE DEF TypeOK, fileVars, controlVars, dialogVars, Goto, Window, Saving
<1>1. CASE Create(d)
  <2>1. PICK i \in IF tmp = 0 THEN NewInode ELSE {tmp} :
          tmp' = i /\ fd' = [fd EXCEPT ![d] = i] /\ disk' \in Stored(i, Blank)
    BY <1>1 DEF Create
  <2>2. i \in Inodes
    BY <2>1, NewInodes
  <2>3. disk' \in [Inodes -> [text : Text, time : {0} \cup Times]]
    BY <2>1, <2>2, StoredDisk, BlankType
  <2> QED
    BY <1>1, <2>1, <2>2, <2>3 DEF Create
<1>2. CASE Write(d)
  <2>1. fd[d] \in {0} \cup Inodes /\ apply_mode(saving[d]) \in Text
    BY ApplyModeType
  <2>2. CASE fd[d] \in Inodes
    <3>1. Overlay(apply_mode(saving[d]), disk[fd[d]].text) \subseteq Text
      BY <2>1, <2>2, OverlayType
    <3>2. disk' \in [Inodes -> [text : Text, time : {0} \cup Times]]
      BY <1>2, <2>2, <3>1, StoredDisk DEF Write
    <3> QED
      BY <1>2, <3>2 DEF Write
  <2>3. CASE fd[d] \notin Inodes
    <3>1. disk' \in [Inodes -> [text : Text, time : {0} \cup Times]]
      BY <1>2, <2>3 DEF Write, Stored
    <3> QED
      BY <1>2, <3>1 DEF Write
  <2> QED
    BY <2>2, <2>3
<1>3. CASE Rename(d)
  BY <1>3, DiscardedDisk DEF Rename
<1>4. CASE CreateFails(d)
  BY <1>4 DEF CreateFails, Failed
<1>5. CASE WriteFails(d)
  BY <1>5, DiscardedDisk DEF WriteFails, Failed
<1>6. CASE SaveStamp(d)
  <2>1. cp_config_fingerprint \in {0} \cup Times
    BY DEF cp_config_fingerprint
  <2>2. CASE Stay(d) /\ UNCHANGED fileVars
    <3>1. shown' \in [Dialogs -> Config] /\ saving' \in [Dialogs -> Config]
      BY <2>2, DefaultsType DEF Stay
    <3> QED
      BY <2>1, <2>2, <3>1 DEF Stay
  <2>3. CASE Vanish(d) /\ UNCHANGED fileVars
    BY <2>3, DefaultsType DEF Vanish
  <2> QED
    BY <1>6, <2>2, <2>3 DEF SaveStamp
<1>7. CASE Crash(d)
  BY <1>7, DefaultsType DEF Crash, Vanish
<1> QED
  BY <1>1, <1>2, <1>3, <1>4, <1>5, <1>6, <1>7 DEF Save

LEMMA EditionType == TypeOK /\ Edition => TypeOK'
<1> SUFFICES ASSUME TypeOK, Edition PROVE TypeOK'
  OBVIOUS
<1> USE DEF TypeOK, dialogVars, controlVars
<1>1. changes' \in 0 .. MaxChanges
  BY FileAssumption DEF Edition
<1>2. CASE \E t \in Editions, i \in NewInode :
             path' = i /\ disk' \in {Discarded(f, path) : f \in Stored(i, t)}
  <2>1. PICK t \in Editions, i \in NewInode :
             path' = i /\ disk' \in {Discarded(f, path) : f \in Stored(i, t)}
    BY <1>2
  <2>2. t \in Text /\ i \in Inodes
    BY FileAssumption, NewInodes
  <2> PICK f \in Stored(i, t) : disk' = Discarded(f, path)
    BY <2>1
  <2>3. f \in [Inodes -> [text : Text, time : {0} \cup Times]]
    BY <2>2, StoredDisk
  <2>4. disk' \in [Inodes -> [text : Text, time : {0} \cup Times]]
    BY <2>3, DiscardedDisk
  <2> QED
    BY <1>1, <2>4, <2>1, <2>2, <2>3 DEF Edition
<1>3. CASE path' = 0 /\ disk' = Discarded(disk, path)
  BY <1>1, <1>3, DiscardedDisk DEF Edition
<1> QED
  BY <1>2, <1>3 DEF Edition

LEMMA TypeStep == TypeOK /\ [Next]_vars => TypeOK'
<1> SUFFICES ASSUME TypeOK, [Next]_vars PROVE TypeOK'
  OBVIOUS
<1>1. CASE UNCHANGED vars
  BY <1>1 DEF TypeOK, vars, fileVars, dialogVars, controlVars
<1> QED
  BY <1>1, UserType, SaveType, EditionType DEF Next

\* Every reachable state is well typed: what is parsed, merged and written is a
\* valid configuration, whoever wrote the file before (config.c, validate).
THEOREM TypeCorrect == Spec => []TypeOK
  BY InitType, TypeStep, PTL DEF Spec

-----------------------------------------------------------------------------
(* Dialogs keep apart.                                                      *)

Act(e) == User(e) \/ OpenStamp(e) \/ refreshDevices(e) \/ Timer(e) \/ Save(e) \/ Crash(e)

\* What belongs to a dialog alone.
Own(d) == <<pc[d], shown[d], dirty[d], fp[d], saving[d], fd[d]>>

\* Steps that touch the files, and what the others leave.
FileStep(e) == Create(e) \/ Write(e) \/ Rename(e) \/ WriteFails(e)
Files == <<path, tmp, disk>>

\* At most one dialog opens or saves.
Alone == \A d, e \in Dialogs : d # e => ~ (pc[d] \in Window /\ pc[e] \in Window)

LEMMA OwnKept == ASSUME TypeOK, NEW e \in Dialogs, NEW d \in Dialogs \ {e}, Act(e)
                 PROVE  Own(d)' = Own(d)
<1> USE DEF TypeOK, Own, controlVars, Goto
<1>1. CASE User(e)
  <2>1. CASE Open(e)
    BY <2>1 DEF Open, applyConfig
  <2>2. CASE Pick(e) \/ onRestoreDefaults(e)
    BY <2>2 DEF Pick, onRestoreDefaults, Controls
  <2>3. CASE DropDown(e) \/ Apply(e)
    BY <2>3 DEF DropDown, Apply
  <2>4. CASE Close(e)
    BY <2>4 DEF Close, Vanish
  <2> QED
    BY <1>1, <2>1, <2>2, <2>3, <2>4 DEF User
<1>2. CASE OpenStamp(e) \/ refreshDevices(e)
  BY <1>2 DEF OpenStamp, refreshDevices, Controls
<1>3. CASE Timer(e)
  BY <1>3 DEF Timer, WatchTimer, Reload, applyConfig
<1>4. CASE Save(e)
  <2>1. CASE Create(e) \/ Write(e) \/ Rename(e)
    BY <2>1 DEF Create, Write, Rename
  <2>2. CASE CreateFails(e) \/ WriteFails(e)
    BY <2>2 DEF CreateFails, WriteFails, Failed
  <2>3. CASE SaveStamp(e)
    BY <2>3 DEF SaveStamp, Stay, Vanish
  <2> QED
    BY <1>4, <2>1, <2>2, <2>3 DEF Save
<1>5. CASE Crash(e)
  BY <1>5 DEF Crash, Vanish
<1> QED
  BY <1>1, <1>2, <1>3, <1>4, <1>5 DEF Act

LEMMA FilesKept == ASSUME NEW e \in Dialogs, Act(e) PROVE FileStep(e) \/ UNCHANGED Files
<1> USE DEF Files, fileVars
<1>1. CASE User(e)
  BY <1>1 DEF User, Open, Pick, onRestoreDefaults, Controls, DropDown, Apply, Close
<1>2. CASE OpenStamp(e) \/ refreshDevices(e) \/ Timer(e) \/ Crash(e)
  BY <1>2 DEF OpenStamp, refreshDevices, Controls, Timer, WatchTimer, Reload, Crash
<1>3. CASE Save(e)
  BY <1>3 DEF Save, FileStep, CreateFails, SaveStamp
<1> QED
  BY <1>1, <1>2, <1>3 DEF Act

LEMMA FileStepPhase == ASSUME NEW e \in Dialogs, FileStep(e) PROVE pc[e] \in Window
  BY DEF FileStep, Create, Write, Rename, WriteFails, Window, Saving

\* How a dialog gets where it is, other than by a step that touches the files.
LEMMA Phase ==
  ASSUME TypeOK, NEW e \in Dialogs, Act(e)
  PROVE  /\ pc'[e] \in Window => pc[e] \in Window \/ Open(e) \/ Apply(e)
         /\ pc'[e] = "opening" => Open(e)
         /\ pc'[e] = "create" => Apply(e)
         /\ pc'[e] = "write" => Create(e)
         /\ pc'[e] = "rename" => Write(e)
         /\ pc'[e] = "stamp" => Rename(e) \/ CreateFails(e) \/ WriteFails(e)
<1> USE DEF TypeOK, Window, Saving, Goto, dialogVars, controlVars
<1>1. CASE Open(e) \/ Apply(e)
  BY <1>1 DEF Open, Apply
<1>2. CASE Pick(e) \/ onRestoreDefaults(e) \/ DropDown(e) \/ refreshDevices(e)
  BY <1>2 DEF Pick, onRestoreDefaults, DropDown, refreshDevices, Controls
<1>3. CASE Close(e) \/ Crash(e)
  BY <1>3 DEF Close, Crash, Vanish
<1>4. CASE OpenStamp(e) \/ Timer(e)
  BY <1>4 DEF OpenStamp, Timer, WatchTimer, Reload
<1>5. CASE Create(e) \/ Write(e) \/ Rename(e)
  BY <1>5 DEF Create, Write, Rename
<1>6. CASE CreateFails(e) \/ WriteFails(e)
  BY <1>6 DEF CreateFails, WriteFails, Failed
<1>7. CASE SaveStamp(e)
  BY <1>7 DEF SaveStamp, Stay, Vanish
<1> QED
  BY <1>1, <1>2, <1>3, <1>4, <1>5, <1>6, <1>7 DEF Act, User, Save

LEMMA AloneStep == ASSUME ~ Races PROVE TypeOK /\ Alone /\ [Next]_vars => Alone'
<1> SUFFICES ASSUME TypeOK, Alone, [Next]_vars PROVE Alone'
  OBVIOUS
<1>1. CASE UNCHANGED vars \/ Edition
  BY <1>1 DEF Alone, vars, dialogVars, Edition
<1>2. ASSUME NEW e \in Dialogs, Act(e) PROVE Alone'
  <2>1. \A d \in Dialogs \ {e} : pc'[d] = pc[d]
    BY <1>2, OwnKept DEF Own
  <2>2. pc'[e] \in Window => \A d \in Dialogs \ {e} : pc[d] \notin Window
    BY <1>2, Phase DEF Open, Apply, Apart, Alone
  <2> QED
    BY <2>1, <2>2 DEF Alone, Window, Saving
<1> QED
  BY <1>1, <1>2 DEF Next, Act

-----------------------------------------------------------------------------
(* No reader meets a torn file.                                             *)

\* The temporary file is not config.ini, and stays where its saver left it.
Names ==
    /\ path # 0 => path # tmp
    /\ \A d \in Dialogs :
         /\ pc[d] = "write" => fd[d] = tmp
         /\ pc[d] \in {"write", "rename"} => tmp # 0

\* It holds nothing while it is open, and then what was to be saved.
Contents ==
    \A d \in Dialogs :
        /\ pc[d] = "write" => ~ disk[tmp].text.whole
        /\ pc[d] = "rename" => disk[tmp].text = apply_mode(saving[d])

\* What a save of the built-in dialog is about to write agrees with the file.
Agreed ==
    \A d \in Win32 :
        pc[d] \in {"create", "write", "rename"} => saving[d].device = pipeasio_config_load.device

SafeInv == TypeOK /\ Alone /\ Names /\ Contents /\ NeverTorn /\ Agreed

LEMMA InitSafe == Init => SafeInv
<1> SUFFICES ASSUME Init PROVE SafeInv
  OBVIOUS
<1>1. TypeOK
  BY InitType
<1>2. \A d \in Dialogs : pc[d] = "closed"
  BY DEF Init
<1>3. Alone /\ Names /\ Contents /\ Agreed
  BY <1>2 DEF Init, Alone, Names, Contents, Agreed, Window, Saving, Dialogs
<1>4. NeverTorn
  <2>1. path # 0 => disk[path].text \in Editions
    BY DEF Init, Least
  <2> QED
    BY <2>1, FileAssumption DEF NeverTorn
<1> QED
  BY <1>1, <1>3, <1>4 DEF SafeInv

\* Where the file is the same, so is what is loaded.
LEMMA SameLoad ==
  ASSUME path' = path, path # 0 => disk'[path] = disk[path]
  PROVE  pipeasio_config_load' = pipeasio_config_load
  BY DEF pipeasio_config_load

\* An editor waits for windows to be over: no dialog is in the middle of anything.
LEMMA EditionSafe ==
  ASSUME ~ Races, SafeInv, Edition
  PROVE  Names' /\ Contents' /\ NeverTorn' /\ Agreed'
<1>1. \A d \in Dialogs : pc[d] \notin Window
  BY DEF Edition
<1>2. \A d \in Dialogs : pc'[d] = pc[d] /\ pc'[d] \notin {"create", "write", "rename"}
  BY <1>1 DEF Edition, dialogVars, Window, Saving
<1>3. Contents' /\ Agreed'
  BY <1>2 DEF Contents, Agreed, Dialogs
<1>4. CASE \E t \in Editions, i \in NewInode :
             path' = i /\ disk' \in {Discarded(f, path) : f \in Stored(i, t)}
  <2>1. PICK t \in Editions, i \in NewInode :
             path' = i /\ disk' \in {Discarded(f, path) : f \in Stored(i, t)}
    BY <1>4
  <2>2. t \in Text /\ t.whole /\ i \in Inodes /\ i # path /\ i # tmp
    BY FileAssumption, NewInodes
  <2> PICK f \in Stored(i, t) : disk' = Discarded(f, path)
    BY <2>1
  <2>3. f[i].text = t /\ f \in [Inodes -> [text : Text, time : {0} \cup Times]]
    BY <2>2, StoredDisk DEF SafeInv
  <2>4. disk'[i] = f[i]
    BY <2>2, <2>3, DiscardedDisk
  <2> QED
    BY <1>2, <1>3, <2>1, <2>2, <2>3, <2>4 DEF Names, NeverTorn, Edition
<1>5. CASE path' = 0 /\ disk' = Discarded(disk, path)
  BY <1>2, <1>3, <1>5 DEF Names, NeverTorn, Edition
<1> QED
  BY <1>4, <1>5 DEF Edition

\* A step that leaves the files alone.
LEMMA QuietSafe ==
  ASSUME SafeInv, NEW e \in Dialogs, Act(e), ~ FileStep(e), UNCHANGED Files
  PROVE  Names' /\ Contents' /\ NeverTorn' /\ Agreed'
<1> USE DEF SafeInv, Files
<1>1. \A d \in Dialogs \ {e} : pc'[d] = pc[d] /\ fd'[d] = fd[d] /\ saving'[d] = saving[d]
  BY OwnKept DEF Own
<1>2. pc'[e] \notin {"write", "rename"}
  BY Phase DEF FileStep
<1>3. Names' /\ Contents' /\ NeverTorn'
  BY <1>1, <1>2 DEF Names, Contents, NeverTorn
<1>4. pipeasio_config_load' = pipeasio_config_load
  BY SameLoad
<1>5. CASE Apply(e)
  <2>1. saving'[e] = merged(e)
    BY <1>5 DEF Apply, TypeOK
  <2>2. e \in Win32 => e \notin Qt
    BY FileAssumption
  <2>3. pipeasio_config_load \in Config
    BY LoadType
  <2>4. e \in Win32 => merged(e).device = pipeasio_config_load.device
    BY <2>2, <2>3 DEF merged, Config
  <2>5. Agreed'
    BY <1>1, <1>2, <1>4, <2>1, <2>4 DEF Agreed, Dialogs
  <2> QED
    BY <1>3, <2>5
<1>6. CASE pc'[e] # "create"
  <2>1. Agreed'
    BY <1>1, <1>2, <1>4, <1>6 DEF Agreed, Dialogs
  <2> QED
    BY <1>3, <2>1
<1> QED
  BY <1>5, <1>6, Phase

\* A step of a save: the others are not in the middle of anything.
LEMMA FileStepSafe ==
  ASSUME ~ Races, SafeInv, NEW e \in Dialogs, Act(e), FileStep(e)
  PROVE  Names' /\ Contents' /\ NeverTorn' /\ Agreed'
<1> USE DEF SafeInv
<1>1. \A d \in Dialogs \ {e} : pc'[d] = pc[d] /\ pc'[d] \notin {"create", "write", "rename"}
  <2>1. \A d \in Dialogs \ {e} : pc'[d] = pc[d]
    BY OwnKept DEF Own
  <2>2. \A d \in Dialogs \ {e} : pc[d] \notin Window
    BY FileStepPhase DEF Alone
  <2> QED
    BY <2>1, <2>2 DEF Window, Saving
<1>2. CASE Create(e)
  <2>1. PICK i \in IF tmp = 0 THEN NewInode ELSE {tmp} : 
               tmp' = i /\ fd' = [fd EXCEPT ![e] = i] /\ disk' \in Stored(i, Blank)
    BY <1>2 DEF Create
  <2>2. i \in Inodes /\ i # path /\ i # 0
    BY <2>1, NewInodes, FileAssumption DEF TypeOK, Names
  <2>3. disk'[i].text = Blank /\ \A j \in Inodes \ {i} : disk'[j] = disk[j]
    BY <2>1, <2>2, StoredDisk, BlankType
  <2>4. path' = path /\ pc'[e] = "write" /\ fd'[e] = i /\ saving' = saving
    BY <1>2, <2>1 DEF Create, Goto, TypeOK, controlVars
  <2>5. Names' /\ Contents' /\ NeverTorn'
    BY <1>1, <2>1, <2>2, <2>3, <2>4, BlankType DEF Names, Contents, NeverTorn, TypeOK
  <2>6. pipeasio_config_load' = pipeasio_config_load
    BY <2>2, <2>3, <2>4, SameLoad DEF TypeOK
  <2>7. Agreed'
    BY <1>1, <1>2, <2>4, <2>6 DEF Agreed, Create, Dialogs
  <2> QED
    BY <2>5, <2>7
<1>3. CASE Write(e)
  <2>1. fd[e] = tmp /\ tmp \in Inodes /\ tmp # path /\ ~ disk[tmp].text.whole
    BY <1>3 DEF Write, Names, Contents, TypeOK
  <2>2. saving[e] \in Config
    BY DEF TypeOK
  <2>3. disk' \in Stored(tmp, apply_mode(saving[e]))
    BY <1>3, <2>1, OverlayWhole DEF Write
  <2>4. disk'[tmp].text = apply_mode(saving[e]) /\ \A j \in Inodes \ {tmp} : disk'[j] = disk[j]
    BY <2>1, <2>2, <2>3, StoredDisk, ApplyModeType
  <2>5. path' = path /\ tmp' = tmp /\ pc'[e] = "rename" /\ saving' = saving /\ pc[e] = "write"
    BY <1>3 DEF Write, Goto, TypeOK, controlVars
  <2>6. Names' /\ Contents' /\ NeverTorn'
    BY <1>1, <2>1, <2>4, <2>5 DEF Names, Contents, NeverTorn, TypeOK
  <2>7. pipeasio_config_load' = pipeasio_config_load
    BY <2>1, <2>4, <2>5, SameLoad DEF TypeOK
  <2>8. Agreed'
    BY <1>1, <2>5, <2>7 DEF Agreed, Dialogs
  <2> QED
    BY <2>6, <2>8
<1>4. CASE Rename(e)
  <2>1. path' = tmp /\ tmp' = 0 /\ tmp \in Inodes /\ tmp # path /\ pc[e] = "rename"
    BY <1>4 DEF Rename, Names, TypeOK
  <2>2. disk'[tmp] = disk[tmp]
    BY <1>4, <2>1, DiscardedDisk DEF Rename, TypeOK
  <2>3. disk[tmp].text = apply_mode(saving[e]) /\ saving[e] \in Config
    BY <2>1 DEF Contents, TypeOK
  <2>4. pc'[e] = "stamp"
    BY <1>4 DEF Rename, Goto, TypeOK
  <2> QED
    BY <1>1, <2>1, <2>2, <2>3, <2>4, ApplyModeType, FileAssumption
    DEF Names, Contents, NeverTorn, Agreed, Dialogs
<1>5. CASE WriteFails(e)
  <2>1. path' = path /\ tmp' = 0 /\ pc'[e] \notin {"create", "write", "rename"}
    BY <1>5 DEF WriteFails, Failed, Goto, TypeOK
  <2>2. path # 0 => disk'[path] = disk[path]
    BY <1>5, DiscardedDisk DEF WriteFails, Names, TypeOK
  <2> QED
    BY <1>1, <2>1, <2>2 DEF Names, Contents, NeverTorn, Agreed, Dialogs
<1> QED
  BY <1>2, <1>3, <1>4, <1>5 DEF FileStep

LEMMA SafeStep == ASSUME ~ Races PROVE SafeInv /\ [Next]_vars => SafeInv'
<1> SUFFICES ASSUME SafeInv, [Next]_vars PROVE SafeInv'
  OBVIOUS
<1>1. TypeOK' /\ Alone'
  BY TypeStep, AloneStep DEF SafeInv
<1>2. CASE UNCHANGED vars
  <2>1. pipeasio_config_load' = pipeasio_config_load
    BY <1>2, SameLoad DEF vars, fileVars
  <2> QED
    BY <1>1, <1>2, <2>1 DEF SafeInv, Names, Contents, NeverTorn, Agreed, vars, fileVars, dialogVars,
                            controlVars
<1>3. CASE Edition
  BY <1>1, <1>3, EditionSafe DEF SafeInv
<1>4. ASSUME NEW e \in Dialogs, Act(e) PROVE SafeInv'
  BY <1>1, <1>4, FilesKept, QuietSafe, FileStepSafe DEF SafeInv
<1> QED
  BY <1>2, <1>3, <1>4 DEF Next, Act

LEMMA SafeAlways == ASSUME ~ Races PROVE Spec => []SafeInv
<1>1. Init => SafeInv
  BY InitSafe
<1>2. SafeInv /\ [Next]_vars => SafeInv'
  BY SafeStep
<1> QED
  BY <1>1, <1>2, PTL DEF Spec

\* A reader of config.ini never meets an empty or half-written file, if no two
\* saves overlap (config.c:259, pipeasio_config.h:146).
THEOREM SettingsWhole == ASSUME ~ Races PROVE Spec => []NeverTorn
<1>1. SafeInv => NeverTorn
  BY DEF SafeInv
<1> QED
  BY <1>1, SafeAlways, PTL

-----------------------------------------------------------------------------
(* A save is one change of the settings or none.                            *)

\* A save of the built-in dialog keeps the settings it does not edit as they are
\* in the file, whoever changed them since it was opened.
Lands(d) == pc[d] = "rename" /\ path' # path
OthersKept ==
    [][\A d \in Win32 : Lands(d) => pipeasio_config_load'.device = pipeasio_config_load.device]_vars

LEMMA LandingKeeps ==
  ASSUME ~ Races, SafeInv, Next, NEW d \in Win32, Lands(d)
  PROVE  pipeasio_config_load'.device = pipeasio_config_load.device
<1> USE DEF SafeInv
<1>1. d \in Dialogs /\ pc[d] \in Window
  BY DEF Dialogs, Lands, Window, Saving
<1>2. ~ Edition
  BY <1>1 DEF Edition
<1>3. PICK e \in Dialogs : Act(e)
  BY <1>2 DEF Next, Act
<1>4. FileStep(e)
  BY <1>3, FilesKept DEF Lands, Files
<1>5. e = d
  BY <1>1, <1>4, FileStepPhase DEF Alone
<1>6. Rename(d)
  BY <1>4, <1>5 DEF FileStep, Lands, Create, Write, WriteFails
<1>7. tmp \in Inodes /\ tmp # path /\ path' = tmp /\ tmp # 0
  BY <1>6 DEF Rename, Names, TypeOK
<1>8. disk'[tmp] = disk[tmp]
  BY <1>6, <1>7, DiscardedDisk DEF Rename, TypeOK
<1>9. disk[tmp].text = apply_mode(saving[d]) /\ saving[d] \in Config
  BY <1>1 DEF Contents, TypeOK, Lands
<1>10. pipeasio_config_load' = parse(apply_mode(saving[d]))
  BY <1>7, <1>8, <1>9 DEF pipeasio_config_load
<1>11. saving[d].device = pipeasio_config_load.device
  BY DEF Agreed, Lands
<1> QED
  BY <1>9, <1>10, <1>11, RoundTrip

\* A save of the built-in dialog keeps the settings it does not edit, as they are
\* when it lands (control_panel.c:196, "fields we don't edit are preserved").
THEOREM OthersSettingsKept == ASSUME ~ Races PROVE Spec => OthersKept
<1>1. SafeInv /\ [Next]_vars =>
        [\A d \in Win32 : Lands(d) => pipeasio_config_load'.device = pipeasio_config_load.device]_vars
  BY LandingKeeps
<1> QED
  BY <1>1, SafeAlways, PTL DEF Spec, OthersKept

LEMMA LoadTypeNext == TypeOK' => pipeasio_config_load' \in Config
<1> SUFFICES ASSUME TypeOK' PROVE pipeasio_config_load' \in Config
  OBVIOUS
<1>1. CASE path' = 0
  BY <1>1, DefaultsType DEF pipeasio_config_load, Config, set_defaults
<1>2. CASE path' # 0
  <2>1. disk'[path'].text \in Text
    BY <1>2 DEF TypeOK
  <2> QED
    BY <1>2, <2>1, ParseType DEF pipeasio_config_load, Config
<1> QED
  BY <1>1, <1>2

\* A configuration saved and loaded again is the same, but for an unknown mode.
LEMMA LoadedAgain ==
  ASSUME NEW c \in Config
  PROVE  parse(apply_mode(c)) = [c EXCEPT !.mode = IF @ = Unset THEN Free ELSE @]
<1>1. c = [size |-> c.size, mode |-> c.mode, device |-> c.device]
  BY DEF Config
<1>2. parse(apply_mode(c)) = [size |-> c.size, mode |-> IF c.mode = Unset THEN Free ELSE c.mode,
                              device |-> c.device]
  <2>1. c.size \in ValidSizes /\ c.mode \in Modes \cup {Unset}
    BY DEF Config
  <2>2. /\ apply_mode(c).size = c.size /\ apply_mode(c).device = c.device
        /\ migrated(apply_mode(c)) = IF c.mode = Unset THEN Free ELSE c.mode
    <3>1. /\ apply_mode(c).size = c.size /\ apply_mode(c).device = c.device
          /\ apply_mode(c).mode = c.mode
      BY DEF apply_mode
    <3>2. CASE c.mode = Unset
      <4>1. ~ apply_mode(c).fixed /\ ~ apply_mode(c).follow
        <5>1. c.mode # Fixed /\ c.mode # Wireless
          BY <3>2 DEF Unset, Fixed, Wireless
        <5>2. apply_mode(c).fixed = (c.mode = Fixed)
          BY Zenon DEF apply_mode
        <5>3. apply_mode(c).follow = (c.mode = Wireless)
          BY Zenon DEF apply_mode
        <5> QED
          BY <5>1, <5>2, <5>3, Zenon
      <4> QED
        BY <3>1, <3>2, <4>1 DEF migrated, Unset
    <3>3. CASE c.mode \in Modes
      BY <3>1, <3>3 DEF migrated, Modes, Free, Fixed, Wireless, Unset
    <3> QED
      BY <2>1, <3>2, <3>3
  <2>3. migrated(apply_mode(c)) \in Modes
    BY <2>1, <2>2 DEF Modes
  <2> QED
    BY <2>1, <2>2, <2>3 DEF parse
<1> QED
  BY <1>1, <1>2

LEMMA AskedOthers ==
  ASSUME TypeOK, NEW e \in Dialogs, Act(e)
  PROVE  Asked' = [Asked EXCEPT ![e] = Asked'[e]]
<1>1. \A d \in Dialogs \ {e} : pc'[d] = pc[d] /\ saving'[d] = saving[d]
  BY OwnKept DEF Own
<1> QED
  BY <1>1 DEF Asked

LEMMA AskedIs ==
  ASSUME TypeOK, NEW e \in Dialogs
  PROVE  /\ pc[e] \in {"create", "write", "rename"} => Asked[e] = saving[e] /\ Asked[e] # NoSave
         /\ pc[e] \notin {"create", "write", "rename"} => Asked[e] = NoSave
         /\ pc'[e] \in {"create", "write", "rename"} => Asked'[e] = saving'[e]
         /\ pc'[e] \notin {"create", "write", "rename"} => Asked'[e] = NoSave
<1>1. saving[e].size # 0
  BY DEF TypeOK, Config, ValidSizes
<1>2. NoSave.size = 0
  BY DEF NoSave
<1>3. Saving \ {"stamp"} = {"create", "write", "rename"}
  BY DEF Saving
<1> QED
  BY <1>1, <1>2, <1>3 DEF Asked

LEMMA ChangesKept == ASSUME NEW e \in Dialogs, Act(e) PROVE changes' = changes
<1>1. CASE User(e)
  BY <1>1 DEF User, Open, Pick, onRestoreDefaults, Controls, DropDown, Apply, Close, fileVars
<1>2. CASE OpenStamp(e) \/ refreshDevices(e) \/ Timer(e) \/ Crash(e)
  BY <1>2 DEF OpenStamp, refreshDevices, Controls, Timer, WatchTimer, Reload, Crash, fileVars
<1>3. CASE Save(e)
  BY <1>3 DEF Save, Create, Write, Rename, CreateFails, WriteFails, SaveStamp, fileVars
<1> QED
  BY <1>1, <1>2, <1>3 DEF Act

\* Steps that leave the files alone: asking, giving up, and those not seen.
LEMMA QuietStore ==
  ASSUME SafeInv, TypeOK', NEW e \in Dialogs, Act(e), ~ FileStep(e), UNCHANGED Files
  PROVE  Store!Next \/ UNCHANGED Store!vars
<1> USE DEF SafeInv
<1>1. pipeasio_config_load' = pipeasio_config_load /\ changes' = changes
  BY SameLoad, ChangesKept DEF Files
<1>2. Asked' = [Asked EXCEPT ![e] = Asked'[e]]
  BY AskedOthers
<1>3. pc'[e] \notin {"write", "rename"} /\ (pc'[e] = "create" => Apply(e))
  BY Phase DEF FileStep
<1>4. CASE Apply(e)
  <2>1. pc[e] = "idle" /\ pc'[e] = "create" /\ saving'[e] \in Config
    BY <1>4 DEF Apply, Goto, TypeOK
  <2>2. Asked[e] = NoSave /\ Asked'[e] \in Config
    BY <2>1, AskedIs
  <2>3. Store!Ask(e)
    BY <1>1, <1>2, <2>2 DEF Store!Ask
  <2> QED
    BY <2>3 DEF Store!Next, Store!Dialogs, Dialogs
<1>5. CASE pc'[e] # "create" /\ pc[e] \in {"create", "write", "rename"}
  <2>1. Asked[e] # NoSave /\ Asked'[e] = NoSave
    BY <1>3, <1>5, AskedIs
  <2>2. Store!GiveUp(e)
    BY <1>1, <1>2, <2>1 DEF Store!GiveUp, Store!Done
  <2> QED
    BY <2>2 DEF Store!Next, Store!Dialogs, Dialogs
<1>6. CASE pc'[e] # "create" /\ pc[e] \notin {"create", "write", "rename"}
  <2>1. Asked'[e] = Asked[e]
    BY <1>3, <1>6, AskedIs
  <2>2. Asked' = Asked
    BY <1>2, <2>1 DEF Asked
  <2> QED
    BY <1>1, <2>2 DEF Store!vars
<1> QED
  BY <1>3, <1>4, <1>5, <1>6

\* Steps of a save: the rename is the one that counts.
LEMMA FileStepStore ==
  ASSUME ~ Races, SafeInv, NEW e \in Dialogs, Act(e), FileStep(e)
  PROVE  Store!Next \/ UNCHANGED Store!vars
<1> USE DEF SafeInv
<1>1. changes' = changes /\ Asked' = [Asked EXCEPT ![e] = Asked'[e]]
  BY ChangesKept, AskedOthers
<1>2. CASE Create(e) \/ Write(e)
  <2>1. /\ pc[e] \in {"create", "write"} /\ pc'[e] \in {"write", "rename"}
        /\ saving' = saving /\ path' = path
    BY <1>2 DEF Create, Write, Goto, TypeOK, controlVars
  <2>2. Asked' = Asked
    BY <1>1, <2>1, AskedIs DEF Asked
  <2>3. path # 0 => disk'[path] = disk[path]
    <3>1. CASE Create(e)
      <4>1. PICK i \in IF tmp = 0 THEN NewInode ELSE {tmp} : disk' \in Stored(i, Blank)
        BY <3>1 DEF Create
      <4>2. i \in Inodes /\ i # path
        BY <4>1, NewInodes, FileAssumption DEF TypeOK, Names
      <4> QED
        BY <4>1, <4>2, StoredDisk, BlankType DEF TypeOK
    <3>2. CASE Write(e)
      <4>1. fd[e] = tmp /\ tmp \in Inodes /\ tmp # path /\ ~ disk[tmp].text.whole
        BY <3>2 DEF Write, Names, Contents, TypeOK
      <4>2. disk' \in Stored(tmp, apply_mode(saving[e])) /\ saving[e] \in Config
        BY <3>2, <4>1, OverlayWhole DEF Write, TypeOK
      <4> QED
        BY <4>1, <4>2, StoredDisk, ApplyModeType DEF TypeOK
    <3> QED
      BY <1>2, <3>1, <3>2
  <2>4. pipeasio_config_load' = pipeasio_config_load
    BY <2>1, <2>3, SameLoad
  <2> QED
    BY <1>1, <2>2, <2>4 DEF Store!vars
<1>3. CASE Rename(e)
  <2>1. path' = tmp /\ tmp \in Inodes /\ tmp # path /\ tmp # 0 /\ pc[e] = "rename" /\ pc'[e] = "stamp"
    BY <1>3 DEF Rename, Names, Goto, TypeOK
  <2>2. disk'[tmp] = disk[tmp]
    BY <1>3, <2>1, DiscardedDisk DEF Rename, TypeOK
  <2>3. disk[tmp].text = apply_mode(saving[e]) /\ saving[e] \in Config
    BY <2>1 DEF Contents, TypeOK
  <2>4. pipeasio_config_load' = parse(apply_mode(saving[e]))
    BY <2>1, <2>2, <2>3 DEF pipeasio_config_load
  <2>5. Asked[e] = saving[e] /\ Asked[e] # NoSave /\ Asked'[e] = NoSave
    BY <2>1, AskedIs
  <2>6. Store!Edited(e) = saving[e]
    <3>1. CASE e \in Qt
      BY <2>5, <3>1 DEF Store!Edited
    <3>2. CASE e \notin Qt
      <4>1. saving[e].device = pipeasio_config_load.device /\ pipeasio_config_load \in Config
        BY <2>1, <3>2, LoadType DEF Agreed, Dialogs
      <4>2. [pipeasio_config_load EXCEPT !.size = saving[e].size, !.mode = saving[e].mode]
              = saving[e]
        BY <2>3, <4>1 DEF Config
      <4> QED
        BY <2>5, <3>2, <4>2 DEF Store!Edited
    <3> QED
      BY <3>1, <3>2
  <2>7. pipeasio_config_load' = Store!Told(Store!Edited(e))
    BY <2>3, <2>4, <2>6, LoadedAgain DEF Store!Told
  <2>8. Store!Commit(e)
    BY <1>1, <2>5, <2>7 DEF Store!Commit, Store!Done
  <2> QED
    BY <2>8 DEF Store!Next, Store!Dialogs, Dialogs
<1>4. CASE WriteFails(e)
  <2>1. path' = path /\ pc[e] \in {"write", "rename"} /\ pc'[e] \notin {"create", "write", "rename"}
    BY <1>4 DEF WriteFails, Failed, Goto, TypeOK
  <2>2. path # 0 => disk'[path] = disk[path]
    BY <1>4, DiscardedDisk DEF WriteFails, Names, TypeOK
  <2>3. pipeasio_config_load' = pipeasio_config_load
    BY <2>1, <2>2, SameLoad
  <2>4. Asked[e] # NoSave /\ Asked'[e] = NoSave
    BY <2>1, AskedIs
  <2>5. Store!GiveUp(e)
    BY <1>1, <2>3, <2>4 DEF Store!GiveUp, Store!Done
  <2> QED
    BY <2>5 DEF Store!Next, Store!Dialogs, Dialogs
<1> QED
  BY <1>2, <1>3, <1>4 DEF FileStep

LEMMA StoreStep ==
  ASSUME ~ Races
  PROVE  SafeInv /\ TypeOK' /\ [Next]_vars => [Store!Next]_(Store!vars)
<1> SUFFICES ASSUME SafeInv, TypeOK', [Next]_vars PROVE Store!Next \/ UNCHANGED Store!vars
  OBVIOUS
<1>1. CASE UNCHANGED vars
  <2>1. pipeasio_config_load' = pipeasio_config_load /\ Asked' = Asked /\ changes' = changes
    BY <1>1, SameLoad DEF vars, fileVars, dialogVars, controlVars, Asked
  <2> QED
    BY <2>1 DEF Store!vars
<1>2. CASE Edition
  <2>1. Asked' = Asked /\ changes' = changes + 1
    BY <1>2 DEF Edition, dialogVars, controlVars, Asked
  <2>2. Store!Edit
    BY <2>1, LoadTypeNext DEF Store!Edit
  <2> QED
    BY <2>2 DEF Store!Next
<1>3. ASSUME NEW e \in Dialogs, Act(e) PROVE Store!Next \/ UNCHANGED Store!vars
  BY <1>3, FilesKept, QuietStore, FileStepStore
<1> QED
  BY <1>1, <1>2, <1>3 DEF Next, Act

\* The file and its savers implement SettingsStore, if no two saves overlap:
\* whatever fails or is killed in between, a save takes effect at its rename, as
\* a whole and on the settings as they are by then, or not at all.
THEOREM SavesAreAtomic == ASSUME ~ Races PROVE Spec => SavesAtomic
<1>1. Init => Store!Init
  <2> SUFFICES ASSUME Init PROVE Store!Init
    OBVIOUS
  <2>1. Asked = [d \in Store!Dialogs |-> NoSave]
    BY DEF Init, Asked, Saving, Store!Dialogs, Dialogs
  <2>2. pipeasio_config_load \in Config /\ changes = 0
    BY InitType, LoadType DEF Init
  <2> QED
    BY <2>1, <2>2 DEF Store!Init
<1>2. SafeInv /\ SafeInv' /\ [Next]_vars => [Store!Next]_(Store!vars)
  BY StoreStep DEF SafeInv
<1> QED
  BY <1>1, <1>2, SafeAlways, PTL DEF Spec, SavesAtomic, Store!Spec

-----------------------------------------------------------------------------
(* A fingerprint vouches for what is shown.                                 *)

\* The time of the temporary file is still unknown to every dialog.
Fresh ==
    tmp # 0 => /\ disk[tmp].time # 0
               /\ \A d \in Dialogs : fp[d] # disk[tmp].time
               /\ path # 0 => disk[path].time # disk[tmp].time

\* d remembers the file that is there, and would go back to showing it.
Watching(d) ==
    /\ pc[d] \in {"idle", "create", "write", "rename"} /\ ~ dirty[d]
    /\ path # 0 /\ fp[d] = disk[path].time

VouchAt(d) ==
    /\ pc[d] = "opening" /\ path # 0 => ShowsFile(d)
    /\ Watching(d) => ShowsFile(d)
    /\ pc[d] = "stamp" => path # 0 /\ disk[path].text = apply_mode(saving[d])
    /\ d \in Qt /\ pc[d] \in Saving => saving[d] = shown[d]

VouchInv == SafeInv /\ Fresh /\ \A d \in Dialogs : VouchAt(d)

\* What a dialog shows of a configuration.
LEMMA Displayed ==
  ASSUME TypeOK, NEW d \in Dialogs, NEW c
  PROVE  /\ applyConfig(d, c)[d] = IF d \in Qt /\ c.mode = Unset THEN [c EXCEPT !.mode = Fixed] ELSE c
         /\ \A e \in Dialogs \ {d} : applyConfig(d, c)[e] = shown[e]
  BY DEF applyConfig, TypeOK

\* Whether a dialog shows the file depends on its controls and on the file.
LEMMA SameShown ==
  ASSUME TypeOK, TypeOK', NEW d \in Dialogs, shown'[d] = shown[d],
         pipeasio_config_load' = pipeasio_config_load
  PROVE  ShowsFile(d)' <=> ShowsFile(d)
  BY Displayed DEF ShowsFile, applyConfig, TypeOK

\* Loading shows the file.
LEMMA LoadShows ==
  ASSUME TypeOK, TypeOK', NEW d \in Dialogs, pipeasio_config_load' = pipeasio_config_load,
         shown' = applyConfig(d, pipeasio_config_load)
  PROVE  ShowsFile(d)'
<1>1. shown'[d] = applyConfig(d, pipeasio_config_load)'[d]
  BY DEF applyConfig, TypeOK
<1> QED
  BY <1>1 DEF ShowsFile

\* A dialog that has written what it shows, or takes over what it has written.
LEMMA SavedShows ==
  ASSUME TypeOK', NEW d \in Dialogs, NEW c \in Config, shown'[d] = c, path # 0,
         disk[path].text = apply_mode(c), pipeasio_config_load' = pipeasio_config_load
  PROVE  ShowsFile(d)'
<1>1. pipeasio_config_load' = parse(apply_mode(c))
  BY DEF pipeasio_config_load
<1>2. parse(apply_mode(c)) \in [size : ValidSizes, mode : Modes, device : Devices \cup {FollowDefault}]
  BY ParseType, ApplyModeType
<1>3. parse(apply_mode(c)).mode # Unset
  BY <1>2 DEF Modes, Free, Fixed, Wireless, Unset
<1>4. applyConfig(d, pipeasio_config_load)'[d] = parse(apply_mode(c))
  BY <1>1, <1>3 DEF applyConfig, TypeOK
<1> QED
  BY <1>4, RoundTrip DEF ShowsFile

LEMMA InitVouch == Init => VouchInv
<1> SUFFICES ASSUME Init PROVE VouchInv
  OBVIOUS
<1>1. SafeInv
  BY InitSafe
<1>2. \A d \in Dialogs : pc[d] = "closed"
  BY DEF Init
<1>3. tmp = 0
  BY DEF Init
<1> QED
  BY <1>1, <1>2, <1>3 DEF VouchInv, Fresh, VouchAt, Watching, Saving

\* A dialog of which nothing changes, the file neither.
LEMMA VouchKept ==
  ASSUME TypeOK, TypeOK', NEW d \in Dialogs, VouchAt(d), Own(d)' = Own(d),
         path' = path, path # 0 => disk'[path] = disk[path]
  PROVE  VouchAt(d)'
<1>1. pipeasio_config_load' = pipeasio_config_load
  BY SameLoad
<1>2. ShowsFile(d)' <=> ShowsFile(d)
  BY <1>1, SameShown DEF Own
<1> QED
  BY <1>2 DEF VouchAt, Watching, Own

\* The two files are two inodes.
LEMMA TwoFiles ==
  ASSUME TypeOK, Names
  PROVE  /\ tmp # 0 => tmp \in Inodes \ {path}
         /\ path # 0 => path \in Inodes \ {tmp}
         /\ disk \in [Inodes -> [text : Text, time : {0} \cup Times]]
  BY DEF TypeOK, Names

LEMMA EditionVouch ==
  ASSUME ~ Races, VouchInv, TypeOK', Edition
  PROVE  Fresh' /\ \A d \in Dialogs : VouchAt(d)'
<1> USE DEF VouchInv, SafeInv
<1>1. \A d \in Dialogs : pc'[d] = pc[d] /\ pc'[d] \notin Window /\ fp'[d] = fp[d]
  BY DEF Edition, dialogVars
<1>2. tmp' = tmp
  BY DEF Edition
<1>3. CASE \E t \in Editions, i \in NewInode :
             path' = i /\ disk' \in {Discarded(f, path) : f \in Stored(i, t)}
  <2>1. PICK t \in Editions, i \in NewInode :
             path' = i /\ disk' \in {Discarded(f, path) : f \in Stored(i, t)}
    BY <1>3
  <2>2. t \in Text /\ i \in Inodes /\ i # path /\ i # tmp
    BY FileAssumption, NewInodes
  <2> PICK f \in Stored(i, t) : disk' = Discarded(f, path)
    BY <2>1
  <2>3. /\ f \in [Inodes -> [text : Text, time : {0} \cup Times]]
        /\ f[i].time \in NewTime
        /\ \A j \in Inodes \ {i} : f[j] = disk[j]
    BY <2>2, StoredDisk
  <2>4. disk'[i] = f[i] /\ (tmp # 0 => disk'[tmp] = disk[tmp])
    BY <2>2, <2>3, DiscardedDisk, TwoFiles
  <2>5. /\ \A d \in Dialogs : fp[d] # disk'[i].time
        /\ \A j \in Inodes : disk[j].time # disk'[i].time
    BY <2>3, <2>4, NewTimeFresh
  <2>6. Fresh'
    BY <1>1, <1>2, <2>1, <2>4, <2>5 DEF Fresh, TypeOK
  <2>7. \A d \in Dialogs : ~ Watching(d)'
    BY <1>1, <2>1, <2>5 DEF Watching
  <2> QED
    BY <1>1, <2>6, <2>7 DEF VouchAt, Window, Saving
<1>4. CASE path' = 0 /\ disk' = Discarded(disk, path)
  <2>1. tmp # 0 => disk'[tmp] = disk[tmp]
    BY <1>4, DiscardedDisk, TwoFiles
  <2> QED
    BY <1>1, <1>2, <1>4, <2>1 DEF Fresh, VouchAt, Watching, Window, Saving
<1> QED
  BY <1>3, <1>4 DEF Edition

\* A step of a save: it shows in the file only when the save ends.
LEMMA FileStepVouch ==
  ASSUME ~ Races, Faulty \subseteq Win32, VouchInv, TypeOK', NEW e \in Dialogs, Act(e), FileStep(e)
  PROVE  Fresh' /\ \A d \in Dialogs : VouchAt(d)'
<1> USE DEF VouchInv, SafeInv
<1>1. \A d \in Dialogs \ {e} : Own(d)' = Own(d) /\ pc[d] \notin Window
  BY OwnKept, FileStepPhase DEF Alone
<1>2. fp' = fp /\ shown' = shown /\ dirty' = dirty /\ saving' = saving
  BY DEF FileStep, Create, Write, Rename, WriteFails, controlVars
<1>3. ASSUME path' = path, path # 0 => disk'[path] = disk[path]
      PROVE  /\ \A d \in Dialogs \ {e} : VouchAt(d)'
             /\ ShowsFile(e)' <=> ShowsFile(e)
  BY <1>1, <1>2, <1>3, VouchKept, SameLoad, SameShown
<1>4. CASE Create(e)
  <2>1. PICK i \in IF tmp = 0 THEN NewInode ELSE {tmp} : tmp' = i /\ disk' \in Stored(i, Blank)
    BY <1>4 DEF Create
  <2>2. i \in Inodes /\ i # path /\ i # 0
    BY <2>1, NewInodes, FileAssumption DEF TypeOK, Names
  <2>3. disk'[i].time \in NewTime /\ \A j \in Inodes \ {i} : disk'[j] = disk[j]
    BY <2>1, <2>2, StoredDisk, BlankType
  <2>4. /\ path' = path /\ (path # 0 => disk'[path] = disk[path])
        /\ pc'[e] = "write" /\ pc[e] = "create"
    BY <1>4, <2>2, <2>3 DEF Create, Goto, TypeOK
  <2>5. Fresh'
    BY <1>2, <2>1, <2>2, <2>3, <2>4, NewTimeFresh DEF Fresh, TypeOK
  <2>6. VouchAt(e)'
    BY <1>2, <1>3, <2>4 DEF VouchAt, Watching, Saving
  <2> QED
    BY <1>3, <2>4, <2>5, <2>6
<1>5. CASE Write(e)
  <2>1. fd[e] = tmp /\ tmp \in Inodes /\ tmp # path /\ tmp # 0 /\ ~ disk[tmp].text.whole
    BY <1>5 DEF Write, Names, Contents, TypeOK
  <2>2. disk' \in Stored(tmp, apply_mode(saving[e])) /\ apply_mode(saving[e]) \in Text
    BY <1>5, <2>1, OverlayWhole, ApplyModeType DEF Write, TypeOK
  <2>3. disk'[tmp].time \in NewTime /\ \A j \in Inodes \ {tmp} : disk'[j] = disk[j]
    BY <2>1, <2>2, StoredDisk
  <2>4. /\ path' = path /\ (path # 0 => disk'[path] = disk[path])
        /\ tmp' = tmp /\ pc'[e] = "rename" /\ pc[e] = "write"
    BY <1>5, <2>1, <2>3 DEF Write, Goto, TypeOK
  <2>5. Fresh'
    BY <1>2, <2>1, <2>3, <2>4, NewTimeFresh DEF Fresh, TypeOK
  <2>6. VouchAt(e)'
    BY <1>2, <1>3, <2>4 DEF VouchAt, Watching, Saving
  <2> QED
    BY <1>3, <2>4, <2>5, <2>6
<1>6. CASE Rename(e)
  <2>1. path' = tmp /\ tmp' = 0 /\ tmp \in Inodes /\ tmp # path /\ tmp # 0 /\ pc[e] = "rename"
    BY <1>6 DEF Rename, TypeOK, Names
  <2>2. disk'[tmp] = disk[tmp]
    BY <1>6, <2>1, DiscardedDisk DEF Rename, TypeOK
  <2>3. pc'[e] = "stamp"
    BY <1>6 DEF Rename, Goto, TypeOK
  <2>4. \A d \in Dialogs : ~ Watching(d)'
    BY <1>2, <2>1, <2>2 DEF Watching, Fresh
  <2>5. VouchAt(e)'
    BY <1>2, <2>1, <2>2, <2>3, <2>4 DEF VouchAt, Contents, Saving
  <2>6. \A d \in Dialogs \ {e} : VouchAt(d)'
    BY <1>1, <2>4 DEF VouchAt, Own, Window, Saving
  <2> QED
    BY <2>1, <2>5, <2>6 DEF Fresh
<1>7. CASE WriteFails(e)
  <2>1. e \in Win32 /\ e \notin Qt
    BY <1>7, FileAssumption DEF WriteFails, Names
  <2>2. path' = path /\ tmp' = 0 /\ pc'[e] = "idle" /\ pc[e] \in {"write", "rename"}
    BY <1>7, <2>1 DEF WriteFails, Failed, Goto, TypeOK
  <2>3. path # 0 => disk'[path] = disk[path]
    <3>1. disk' = Discarded(disk, tmp)
      BY <1>7 DEF WriteFails
    <3> QED
      BY <3>1, DiscardedDisk, TwoFiles
  <2>4. VouchAt(e)'
    BY <1>2, <1>3, <2>1, <2>2, <2>3 DEF VouchAt, Watching
  <2> QED
    BY <1>3, <2>2, <2>3, <2>4 DEF Fresh
<1> QED
  BY <1>4, <1>5, <1>6, <1>7 DEF FileStep

\* A step that leaves the files alone.
LEMMA QuietVouch ==
  ASSUME Faulty \subseteq Win32, VouchInv, TypeOK', NEW e \in Dialogs, Act(e),
         ~ FileStep(e), UNCHANGED Files
  PROVE  Fresh' /\ \A d \in Dialogs : VouchAt(d)'
<1> USE DEF VouchInv, SafeInv
<1>1. path' = path /\ tmp' = tmp /\ disk' = disk
  BY DEF Files
<1>2. pipeasio_config_load' = pipeasio_config_load
  BY <1>1, SameLoad
<1>3. \A d \in Dialogs \ {e} : Own(d)' = Own(d) /\ VouchAt(d)'
  BY <1>1, OwnKept, VouchKept
<1>4. pc'[e] \notin {"write", "rename"}
  BY Phase DEF FileStep
<1> USE DEF Goto, dialogVars, controlVars
<1>5. fp'[e] \in {fp[e], cp_config_fingerprint, 0}
  <2>1. CASE User(e)
    BY <2>1 DEF User, Open, Pick, onRestoreDefaults, Controls, DropDown, Apply, Close, Vanish, TypeOK
  <2>2. CASE OpenStamp(e) \/ refreshDevices(e) \/ Timer(e) \/ Crash(e)
    BY <2>2 DEF OpenStamp, refreshDevices, Controls, Timer, WatchTimer, Reload, Crash, Vanish, TypeOK
  <2>3. CASE Save(e)
    BY <2>3 DEF Save, FileStep, CreateFails, SaveStamp, Stay, Vanish, TypeOK
  <2> QED
    BY <2>1, <2>2, <2>3 DEF Act
<1>6. Fresh'
  BY <1>1, <1>3, <1>5 DEF Fresh, Own, cp_config_fingerprint
<1>7. CASE Open(e)
  <2>1. ShowsFile(e)' /\ pc'[e] = "opening"
    BY <1>2, <1>7, LoadShows DEF Open, TypeOK
  <2> QED
    BY <1>3, <1>6, <2>1 DEF VouchAt, Watching, Saving
<1>8. CASE OpenStamp(e)
  <2>1. pc[e] = "opening" /\ pc'[e] = "idle" /\ shown' = shown
    BY <1>8 DEF OpenStamp, TypeOK
  <2>2. ShowsFile(e)' <=> ShowsFile(e)
    BY <1>2, <2>1, SameShown
  <2> QED
    BY <1>1, <1>3, <1>6, <2>1, <2>2 DEF VouchAt, Watching, Saving
<1>9. CASE Pick(e) \/ onRestoreDefaults(e)
  <2>1. pc'[e] = "idle" /\ dirty'[e]
    BY <1>9 DEF Pick, onRestoreDefaults, Controls, TypeOK
  <2> QED
    BY <1>3, <1>6, <2>1 DEF VouchAt, Watching, Saving
<1>10. CASE refreshDevices(e)
  <2>1. /\ e \in Qt /\ pc[e] = "idle" /\ pc'[e] = "idle" /\ dirty'[e] = dirty[e] /\ fp' = fp
        /\ shown' = [shown EXCEPT ![e] = [@ EXCEPT !.device = FollowDefault]]
    BY <1>10 DEF refreshDevices, Controls, TypeOK
  <2>2. ShowsFile(e) => ShowsFile(e)'
    <3>1. shown'[e] = [shown[e] EXCEPT !.device = FollowDefault] /\ shown[e] \in Config
      BY <2>1 DEF TypeOK
    <3>2. applyConfig(e, pipeasio_config_load)'[e] = applyConfig(e, pipeasio_config_load)[e]
      BY <1>2, <2>1 DEF applyConfig, TypeOK
    <3> QED
      BY <2>1, <3>1, <3>2 DEF ShowsFile, Config
  <2> QED
    BY <1>1, <1>3, <1>6, <2>1, <2>2 DEF VouchAt, Watching, Saving
<1>11. CASE DropDown(e) \/ Apply(e) \/ CreateFails(e)
  <2>1. /\ shown' = shown /\ dirty' = dirty /\ fp' = fp /\ pc[e] \in {"idle", "create"}
        /\ pc'[e] \in {"idle", "create"}
    BY <1>11, FileAssumption DEF DropDown, Apply, CreateFails, Failed, TypeOK
  <2>2. ShowsFile(e)' <=> ShowsFile(e)
    BY <1>2, <2>1, SameShown
  <2>3. e \in Qt /\ pc'[e] = "create" => saving'[e] = shown'[e]
    <3>1. pc'[e] = "create" => Apply(e)
      BY Phase
    <3> QED
      BY <3>1 DEF Apply, merged, TypeOK
  <2> QED
    BY <1>1, <1>3, <1>6, <2>1, <2>2, <2>3 DEF VouchAt, Watching, Saving
<1>12. CASE WatchTimer(e)
  <2>1. pc'[e] = "refresh"
    BY <1>12 DEF WatchTimer, TypeOK
  <2> QED
    BY <1>3, <1>6, <2>1 DEF VouchAt, Watching, Saving
<1>13. CASE Reload(e)
  <2>1. ShowsFile(e)' /\ pc'[e] = "idle"
    BY <1>2, <1>13, LoadShows DEF Reload, TypeOK
  <2> QED
    BY <1>3, <1>6, <2>1 DEF VouchAt, Watching, Saving
<1>14. CASE Vanish(e)
  <2>1. pc'[e] = "closed"
    BY <1>14 DEF Vanish, TypeOK
  <2> QED
    BY <1>3, <1>6, <2>1 DEF VouchAt, Watching, Saving
<1>15. CASE pc[e] = "stamp" /\ Stay(e)
  <2>1. pc'[e] = "idle" /\ path # 0 /\ disk[path].text = apply_mode(saving[e])
    BY <1>15 DEF Stay, VouchAt, TypeOK
  <2>2. shown'[e] = saving[e] /\ saving[e] \in Config
    BY <1>15 DEF Stay, VouchAt, Saving, TypeOK
  <2>3. ShowsFile(e)'
    BY <1>2, <2>1, <2>2, SavedShows
  <2> QED
    BY <1>3, <1>6, <2>1, <2>3 DEF VouchAt, Watching, Saving
<1> QED
  BY <1>7, <1>8, <1>9, <1>10, <1>11, <1>12, <1>13, <1>14, <1>15
  DEF Act, User, Timer, Save, FileStep, Close, Crash, SaveStamp

LEMMA VouchStep ==
  ASSUME ~ Races, Faulty \subseteq Win32
  PROVE  VouchInv /\ [Next]_vars => VouchInv'
<1> SUFFICES ASSUME VouchInv, [Next]_vars PROVE VouchInv'
  OBVIOUS
<1> USE DEF VouchInv
<1>1. SafeInv' /\ TypeOK'
  BY SafeStep DEF SafeInv
<1>2. CASE UNCHANGED vars
  <2>1. \A d \in Dialogs : VouchAt(d)'
    BY <1>1, <1>2, VouchKept DEF SafeInv, Own, vars, fileVars, dialogVars, controlVars
  <2> QED
    BY <1>1, <1>2, <2>1 DEF Fresh, vars, fileVars, dialogVars
<1>3. CASE Edition
  BY <1>1, <1>3, EditionVouch
<1>4. ASSUME NEW e \in Dialogs, Act(e) PROVE VouchInv'
  BY <1>1, <1>4, FilesKept, QuietVouch, FileStepVouch
<1> QED
  BY <1>2, <1>3, <1>4 DEF Next, Act

\* A dialog without edits that finds the fingerprint it remembers shows the file:
\* a refresh that is not due would change nothing (control_panel.c:302, the
\* comparison in WM_TIMER; SettingsDialog.cpp, onCfgWatch).
THEOREM FingerprintsVouch ==
  ASSUME ~ Races, Faulty \subseteq Win32
  PROVE  Spec => []FingerprintVouches
<1>1. Init => VouchInv
  BY InitVouch
<1>2. VouchInv /\ [Next]_vars => VouchInv'
  BY VouchStep
<1>3. VouchInv => FingerprintVouches
  BY DEF VouchInv, VouchAt, Watching, FingerprintVouches, AtRest, cp_config_fingerprint
<1> QED
  BY <1>1, <1>2, <1>3, PTL DEF Spec
=============================================================================
