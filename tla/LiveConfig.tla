----------------------------- MODULE LiveConfig -----------------------------
(***************************************************************************)
(* Live reconfiguration (src/src/asio.c, src/src/audio.c): the settings    *)
(* panel saves config.ini, the watcher thread notices, stages the new      *)
(* settings and asks the host for a reset, the host disposes its buffers,  *)
(* asks GetBufferSize and creates buffers again, and CreateBuffers commits *)
(* what was staged.  In Wireless mode the same path settles the buffer     *)
(* size to the quantum the device dictates; a change of the default device *)
(* takes it too.                                                           *)
(*                                                                         *)
(* The settings kept are the ones the negotiation tells apart: the buffer  *)
(* mode, the preferred size and the pinned rate (0: none).  Environment    *)
(* overrides are unset, devices are followed, and the watcher's thread and *)
(* the life of the object are module ConfigWatch.                          *)
(***************************************************************************)
EXTENDS Integers

CONSTANTS
    Sizes,       \* buffer sizes, and quanta a device may dictate
    Rates,       \* sample rates of the graph
    DefaultRate, \* AUDIO_DEFAULT_SAMPLE_RATE
    Configs,     \* settings a user saves
    MaxChanges   \* bound: saves, and changes of device, quantum and rate

Mode == {"free", "fixed", "wireless"}

ASSUME ConfigAssumption ==
    /\ Sizes \subseteq Nat \ {0} /\ Rates \subseteq Nat \ {0} /\ DefaultRate \in Rates
    /\ Configs \subseteq [mode : Mode, size : Sizes, rate : {0} \cup Rates]
    /\ MaxChanges \in Nat

None == [mode |-> "none"]   \* config_pending is false: nothing is staged

\* The world: the file, the device and the graph.
VARIABLES
    file,            \* what config.ini holds
    deviceQuantum,   \* quantum of the device when it drives the graph
    graphRate,       \* rate of the graph when it is not pinned
    changes          \* changes of the three so far

\* The driver and its backend.
VARIABLES
    driverState,     \* host_driver_state
    fields,          \* live-tunable fields of IPipeASIOImpl and audio_client
    staged,          \* staged_cfg while config_pending, else None
    curSize,         \* host_current_buffersize
    followerQuantum, \* follower_quantum
    hostRate,        \* host_sample_rate
    clientSize,      \* audio_client.buffer_size (0: the backend's default)
    clientRate,      \* audio_client.sample_rate
    observed,        \* audio_client.observed_quantum
    defaultChanged   \* audio_client.default_changed

\* The watcher of the current buffers.
VARIABLES
    watchPc,         \* where it is in config_watch_proc ("off": no watcher)
    unseen,          \* stat of the file differs from the one it remembers
    lastCfg,         \* last_cfg
    lastReset,       \* last_reset_quantum
    reset            \* reset

\* The host.
VARIABLES
    offer,           \* size it last took from GetBufferSize, 0: none
    offerIdle,       \* it asked since buffers last were disposed (auxiliary)
    resetAsked,      \* it was asked for a reset and has not disposed since
    restarting       \* it has disposed for a reset and will start again

worldVars  == <<file, deviceQuantum, graphRate, changes>>
clientVars == <<clientSize, clientRate, observed, defaultChanged>>
cfgVars    == <<fields, staged, curSize, followerQuantum>>
watchVars  == <<watchPc, unseen, lastCfg, lastReset, reset>>
hostVars   == <<offer, offerIdle, resetAsked, restarting>>
vars == <<worldVars, driverState, cfgVars, hostRate, clientVars, watchVars, hostVars>>

TypeOK ==
    /\ file \in Configs /\ deviceQuantum \in Sizes /\ graphRate \in Rates
    /\ changes \in 0 .. MaxChanges
    /\ driverState \in {"Initialized", "Prepared", "Running"}
    /\ fields \in Configs /\ staged \in Configs \cup {None}
    /\ curSize \in Sizes /\ followerQuantum \in {0} \cup Sizes
    /\ hostRate \in Rates /\ clientRate \in Rates
    /\ clientSize \in {0} \cup Sizes /\ observed \in {0} \cup Sizes
    /\ defaultChanged \in BOOLEAN
    /\ watchPc \in {"off", "stat", "load", "wait", "reload", "default", "quantum",
                    "notify"}
    /\ unseen \in BOOLEAN /\ lastCfg \in Configs
    /\ lastReset \in {0} \cup Sizes /\ reset \in BOOLEAN
    /\ offer \in {0} \cup Sizes /\ offerIdle \in BOOLEAN
    /\ resetAsked \in BOOLEAN /\ restarting \in BOOLEAN

\* (Mutant of PinnedOr: a rate of 0 counts as pinned.)
PinnedAlways(cfg, rate) == cfg.rate

PinnedOr(cfg, rate) == IF cfg.rate # 0 THEN cfg.rate ELSE rate

\* The state Init() leaves, with the settings configure_driver read.
Init ==
    /\ file \in Configs /\ deviceQuantum \in Sizes /\ graphRate \in Rates
    /\ changes = 0
    /\ driverState = "Initialized"
    /\ fields = file /\ staged = None
    /\ curSize = file.size /\ followerQuantum = 0
    /\ clientRate = PinnedOr(file, DefaultRate) /\ hostRate = clientRate
    /\ clientSize = 0 /\ observed = 0 /\ defaultChanged = FALSE
    /\ watchPc = "off" /\ unseen = FALSE /\ lastCfg = file
    /\ lastReset = 0 /\ reset = FALSE
    /\ offer = 0 /\ offerIdle = FALSE /\ resetAsked = FALSE /\ restarting = FALSE

-----------------------------------------------------------------------------
(* The world outside the driver.                                            *)

Change == changes < MaxChanges /\ changes' = changes + 1

\* pipeasio_config_save: a rename, so the next stat sees another inode.
Save ==
    /\ Change
    /\ file' \in Configs \ {file}
    /\ unseen' = TRUE
    /\ UNCHANGED <<deviceQuantum, graphRate, driverState, cfgVars, hostRate, clientVars,
                   watchPc, lastCfg, lastReset, reset, hostVars>>

DeviceQuantumChanges ==
    /\ Change
    /\ deviceQuantum' \in Sizes \ {deviceQuantum}
    /\ UNCHANGED <<file, graphRate, driverState, cfgVars, hostRate, clientVars,
                   watchVars, hostVars>>

GraphRateChanges ==
    /\ Change
    /\ graphRate' \in Rates \ {graphRate}
    /\ UNCHANGED <<file, deviceQuantum, driverState, cfgVars, hostRate, clientVars,
                   watchVars, hostVars>>

\* audio_on_metadata_property: the default sink or source is another one.
DefaultSwitched ==
    /\ Change
    /\ defaultChanged' = TRUE
    /\ UNCHANGED <<file, deviceQuantum, graphRate, driverState, cfgVars, hostRate,
                   clientSize, clientRate, observed, watchVars, hostVars>>

-----------------------------------------------------------------------------
(* PipeWire's threads, while the filter exists.                             *)

\* audio_on_process: in Wireless mode remember the graph's quantum.
ObserveQuantum ==
    /\ driverState # "Initialized" /\ fields.mode = "wireless"
    /\ observed # deviceQuantum
    /\ observed' = deviceQuantum
    /\ UNCHANGED <<worldVars, driverState, cfgVars, hostRate, clientSize, clientRate,
                   defaultChanged, watchVars, hostVars>>

\* audio_on_io_changed and sample_rate_callback: a rate the backend does not
\* know yet reaches the host's view only while the transport runs.
IoChanged ==
    /\ driverState # "Initialized"
    /\ PinnedOr(fields, graphRate) # clientRate
    /\ clientRate' = PinnedOr(fields, graphRate)
    /\ hostRate' = IF driverState = "Running" THEN clientRate' ELSE hostRate
    /\ UNCHANGED <<worldVars, driverState, cfgVars, clientSize, observed,
                   defaultChanged, watchVars, hostVars>>

-----------------------------------------------------------------------------
(* The watcher: config_watch_proc.                                          *)

Goto(pc) == watchPc' = pc

\* The baseline: stat the file, then load it.
BaselineStat ==
    /\ watchPc = "stat"
    /\ unseen' = FALSE
    /\ Goto("load")
    /\ UNCHANGED <<worldVars, driverState, cfgVars, hostRate, clientVars, lastCfg,
                   lastReset, reset, hostVars>>

BaselineLoad ==
    /\ watchPc = "load"
    /\ lastCfg' = file
    /\ Goto("wait")
    /\ UNCHANGED <<worldVars, driverState, cfgVars, hostRate, clientVars, unseen,
                   lastReset, reset, hostVars>>

\* One second has passed: compare the file's stat with the remembered one.
Poll ==
    /\ watchPc = "wait"
    /\ reset' = FALSE
    /\ unseen' = FALSE
    /\ Goto(IF unseen THEN "reload" ELSE "default")
    /\ UNCHANGED <<worldVars, driverState, cfgVars, hostRate, clientVars, lastCfg,
                   lastReset, hostVars>>

\* (Mutant of Reload: the settings are staged without asking for a reset.)
ReloadQuiet ==
    /\ watchPc = "reload"
    /\ staged' = IF file # lastCfg THEN file ELSE staged
    /\ reset' = FALSE
    /\ lastCfg' = file
    /\ Goto("default")
    /\ UNCHANGED <<worldVars, driverState, fields, curSize, followerQuantum, hostRate,
                   clientVars, unseen, lastReset, hostVars>>

\* Load the file and stage it if a live-tunable field differs from last_cfg.
Reload ==
    /\ watchPc = "reload"
    /\ staged' = IF file # lastCfg THEN file ELSE staged
    /\ reset' = (file # lastCfg)
    /\ lastCfg' = file
    /\ Goto("default")
    /\ UNCHANGED <<worldVars, driverState, fields, curSize, followerQuantum, hostRate,
                   clientVars, unseen, lastReset, hostVars>>

\* audio_default_changed reads and clears the flag, but only while running.
CheckDefault ==
    /\ watchPc = "default"
    /\ defaultChanged' = (defaultChanged /\ driverState # "Running")
    /\ reset' = (reset \/ (defaultChanged /\ driverState = "Running"))
    /\ Goto("quantum")
    /\ UNCHANGED <<worldVars, driverState, cfgVars, hostRate, clientSize, clientRate,
                   observed, unseen, lastCfg, lastReset, hostVars>>

\* The observed quantum asks for other buffers than the host has.
NewQuantum ==
    /\ fields.mode = "wireless" /\ driverState = "Running"
    /\ observed \notin {0, curSize, lastReset}

\* (Mutant of CheckQuantum: without the host_current_buffersize guard.)
CheckQuantumAlways ==
    /\ watchPc = "quantum"
    /\ IF fields.mode = "wireless" /\ driverState = "Running"
          /\ observed \notin {0, lastReset}
       THEN followerQuantum' = observed /\ lastReset' = observed /\ reset' = TRUE
       ELSE UNCHANGED <<followerQuantum, lastReset, reset>>
    /\ Goto("notify")
    /\ UNCHANGED <<worldVars, driverState, fields, staged, curSize, hostRate, clientVars,
                   unseen, lastCfg, hostVars>>

\* (Mutant of CheckQuantum: the quantum to settle to is not recorded.)
CheckQuantumForgets ==
    /\ watchPc = "quantum"
    /\ IF NewQuantum
       THEN UNCHANGED followerQuantum /\ lastReset' = observed /\ reset' = TRUE
       ELSE UNCHANGED <<followerQuantum, lastReset, reset>>
    /\ Goto("notify")
    /\ UNCHANGED <<worldVars, driverState, fields, staged, curSize, hostRate, clientVars,
                   unseen, lastCfg, hostVars>>

CheckQuantum ==
    /\ watchPc = "quantum"
    /\ IF NewQuantum
       THEN followerQuantum' = observed /\ lastReset' = observed /\ reset' = TRUE
       ELSE UNCHANGED <<followerQuantum, lastReset, reset>>
    /\ Goto("notify")
    /\ UNCHANGED <<worldVars, driverState, fields, staged, curSize, hostRate, clientVars,
                   unseen, lastCfg, hostVars>>

\* Ask the host for a reset; with the transport stopped the wish is dropped.
Notify ==
    /\ watchPc = "notify"
    /\ resetAsked' = (resetAsked \/ (reset /\ driverState = "Running"))
    /\ Goto("wait")
    /\ UNCHANGED <<worldVars, driverState, cfgVars, hostRate, clientVars, unseen,
                   lastCfg, lastReset, reset, offer, offerIdle, restarting>>

-----------------------------------------------------------------------------
(* The host's calls.                                                        *)

\* Settings a CreateBuffers now would run with.
Upcoming == IF staged # None THEN staged ELSE fields

\* (Mutant of GetBufferSize: the staged settings are not looked at.)
GetBufferSizeStale ==
    /\ offer' \in IF fields.mode = "free" THEN Sizes
                  ELSE {IF fields.mode = "wireless" /\ followerQuantum # 0
                        THEN followerQuantum ELSE fields.size}
    /\ offerIdle' = (driverState = "Initialized")
    /\ UNCHANGED <<worldVars, driverState, cfgVars, hostRate, clientVars, watchVars,
                   resetAsked, restarting>>

\* One size, or in Free mode a range the host takes any size from.
GetBufferSize ==
    /\ offer' \in IF Upcoming.mode = "free" THEN Sizes
                  ELSE {IF Upcoming.mode = "wireless" /\ followerQuantum # 0
                        THEN followerQuantum ELSE Upcoming.size}
    /\ offerIdle' = (driverState = "Initialized")
    /\ UNCHANGED <<worldVars, driverState, cfgVars, hostRate, clientVars, watchVars,
                   resetAsked, restarting>>

\* host_current_buffersize once apply_pending_config has committed Upcoming.
CommittedSize ==
    IF Upcoming.mode = "free" THEN curSize
    ELSE IF Upcoming.mode = "wireless" /\ followerQuantum # 0 THEN followerQuantum
         ELSE Upcoming.size

\* apply_pending_config, but for the buffer size: the fields and the backend
\* take the staged settings, and a pinned rate is the backend's at once.
ApplyPending ==
    /\ fields' = Upcoming
    /\ staged' = None
    /\ clientRate' = IF staged # None THEN PinnedOr(staged, clientRate) ELSE clientRate

Accepts(size) == Upcoming.mode = "free" \/ CommittedSize = size

\* A size the settings do not allow is refused after they are committed.
CreateRefused ==
    /\ driverState = "Initialized" /\ offer # 0 /\ ~Accepts(offer)
    /\ ApplyPending
    /\ curSize' = CommittedSize
    /\ UNCHANGED <<worldVars, driverState, followerQuantum, hostRate, clientSize, observed,
                   defaultChanged, watchVars, hostVars>>

\* audio_activate, or the allocation before it, fails.
CreateFails ==
    /\ driverState = "Initialized" /\ offer # 0 /\ Accepts(offer)
    /\ ApplyPending
    /\ curSize' = offer /\ clientSize' = offer
    /\ UNCHANGED <<worldVars, driverState, followerQuantum, hostRate, observed,
                   defaultChanged, watchVars, hostVars>>

\* (Mutant of CreateBuffers: a fixed size is not pushed to the backend.)
CreateBuffersFixedUnsynced ==
    /\ driverState = "Initialized" /\ offer # 0 /\ Accepts(offer)
    /\ driverState' = "Prepared"
    /\ ApplyPending
    /\ curSize' = offer
    /\ clientSize' = IF Upcoming.mode = "free" THEN offer ELSE clientSize
    /\ watchPc' = "stat" /\ lastReset' = 0 /\ reset' = FALSE
    /\ UNCHANGED <<worldVars, followerQuantum, hostRate, observed, defaultChanged,
                   unseen, lastCfg, hostVars>>

\* The filter is built for the size, and a fresh watcher starts.
CreateBuffers ==
    /\ driverState = "Initialized" /\ offer # 0 /\ Accepts(offer)
    /\ driverState' = "Prepared"
    /\ ApplyPending
    /\ curSize' = offer /\ clientSize' = offer
    /\ watchPc' = "stat" /\ lastReset' = 0 /\ reset' = FALSE
    /\ UNCHANGED <<worldVars, followerQuantum, hostRate, observed, defaultChanged,
                   unseen, lastCfg, hostVars>>

Start ==
    /\ driverState = "Prepared"
    /\ driverState' = "Running"
    /\ restarting' = FALSE
    /\ UNCHANGED <<worldVars, cfgVars, hostRate, clientVars, watchVars, offer, offerIdle,
                   resetAsked>>

Stop ==
    /\ driverState = "Running"
    /\ driverState' = "Prepared"
    /\ UNCHANGED <<worldVars, cfgVars, hostRate, clientVars, watchVars, hostVars>>

\* DisposeBuffers joins the watcher at its wait, then stops the transport; a
\* host that was asked for a reset will create buffers again and start.
DisposeBuffers ==
    /\ driverState # "Initialized" /\ watchPc = "wait"
    /\ watchPc' = "off"
    /\ driverState' = "Initialized"
    /\ resetAsked' = FALSE
    /\ restarting' = (resetAsked \/ restarting)
    /\ offerIdle' = FALSE
    /\ UNCHANGED <<worldVars, cfgVars, hostRate, clientVars, unseen, lastCfg, lastReset,
                   reset, offer>>

-----------------------------------------------------------------------------
World == Save \/ DeviceQuantumChanges \/ GraphRateChanges \/ DefaultSwitched
Backend == ObserveQuantum \/ IoChanged
Watcher ==
    BaselineStat \/ BaselineLoad \/ Poll \/ Reload \/ CheckDefault \/ CheckQuantum \/ Notify
HostCalls ==
    \/ GetBufferSize \/ CreateRefused \/ CreateFails \/ CreateBuffers
    \/ Start \/ Stop \/ DisposeBuffers

Next == World \/ Backend \/ Watcher \/ HostCalls

\* Threads run, and the host honours resets: it disposes (the join ends, for
\* the stop event stays set while the watcher finishes its round), asks for
\* the size, creates buffers, which does not fail forever, and starts.
Fairness ==
    /\ WF_vars(ObserveQuantum) /\ WF_vars(Watcher)
    /\ SF_vars(resetAsked /\ DisposeBuffers)
    /\ WF_vars(restarting /\ driverState = "Initialized" /\ GetBufferSize)
    /\ SF_vars(restarting /\ CreateBuffers)
    /\ SF_vars(restarting /\ Start)

Spec == Init /\ [][Next]_vars
FairSpec == Spec /\ Fairness

-----------------------------------------------------------------------------
(* Properties.                                                              *)

\* The transport runs or the host is on its way back to it from a reset.
Playing == driverState = "Running" \/ restarting

\* The watcher is about to drop a wish for a reset (the transport is stopped).
DropsReset == watchPc = "notify" /\ reset /\ driverState # "Running"

\* A host that asks GetBufferSize between DisposeBuffers and CreateBuffers is
\* never refused the size it was told, whatever was staged meanwhile.
OfferAccepted ==
    driverState = "Initialized" /\ offerIdle => Accepts(offer)

\* While buffers exist, the backend runs the graph with the very size the
\* host's buffers were made for ("slow, pitched-down output" otherwise).
GraphMatchesHost == driverState # "Initialized" => clientSize = curSize

\* What the watcher staged comes into use, as long as the transport plays
\* and no reset is dropped.
StagedApplied ==
    []~DropsReset =>
        \A c \in Configs : staged = c ~> (fields = c \/ staged # c \/ ~Playing)

\* In Wireless mode the buffer size settles to the device's quantum, if no
\* reset is dropped because the transport stopped under the watcher.
FollowSettles ==
    []~DropsReset /\ <>[](Playing /\ fields.mode = "wireless")
        => <>[](curSize = deviceQuantum)

\* Once nothing changes any more (MaxChanges), resets cease: the watcher and
\* the host do not keep tearing the graph down for each other.
ResetsCease == <>[]~resetAsked

-----------------------------------------------------------------------------
(* What the documentation says, and the code does not do.                   *)

\* README.md:321: the driver "re-reads it while running, so saving in the
\* settings panel applies within about a second": an edit saved under a
\* waiting watcher and a playing transport comes into use or is replaced.
SavedWhilePlayingApplies ==
    \A c \in Configs :
        file = c /\ unseen /\ watchPc = "wait" /\ driverState = "Running"
            ~> (fields = c \/ file # c \/ ~Playing)
=============================================================================
