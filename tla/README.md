# PipeASIO: models and proofs

PipeASIO is an ASIO driver for Wine that talks to PipeWire. This directory
holds TLA+ models of its concurrent core, TLC configurations that check them,
and proofs checked by TLAPS. Paths below are relative to the repository
(`src/asio.c`, `src/audio.c`, ...). `PROJECT.json` maps every definition to the
lines it models.

## 1. The system

| component | state | operations | models |
|---|---|---|---|
| ASIO object, transport (`src/asio.c`) | `host_driver_state`, `host_buffer_index`, `host_num_samples`, `host_time_stamp`, `host_callbacks`, `callback_audio_buffer`, active channels | host: CreateBuffers, Start, Stop, GetSamplePosition, DisposeBuffers; data thread: `process_callback` | `Transport` |
| ASIO object, life and watcher (`src/asio.c`) | `ref`, `config_watch` and its `refs`, `orphaned`, `stop_event` | AddRef, Release, `config_watch_proc`, `stop_config_watch` | `ConfigWatch` |
| live reconfiguration (`src/asio.c`, `src/audio.c`) | `staged_cfg`, `config_pending`, `follower_quantum`, `host_current_buffersize`, `host_sample_rate`; backend: `buffer_size`, `sample_rate`, `observed_quantum`, `default_changed` | watcher's poll, GetBufferSize, `apply_pending_config`, CreateBuffers, rate and metadata callbacks | `LiveConfig` |
| PipeWire backend (`src/audio.c`) | filter, ports, data loop, thread loop; caches of the registry | activate, deactivate, `audio_on_process`, registry events, connect | activation, registry and connections in `FilterBind`; its cycle in `Transport`, quantum and rate in `LiveConfig` |
| WoW64 bridge (`src/wow64/`) | one event slot under `cc->mutex`, `prod_mutex`, sequence number, `half` | `bridge_invoke`, wait and reply callbacks, pump thread, bind, activate, deactivate, close | `Wow64Bridge`, `CycleOutput` |
| callback buffer layout (`src/include/pipeasio_offsets.h`) | none: pure | size and offsets | `BufferLayout` |
| WoW64 token table (`src/wow64/audio_unix.c`) | 512 slots | add, look up, remove | not modelled |
| settings file (`src/config.c`) | `config.ini`, `config.ini.tmp` | load, save | `SettingsStore`, `ConfigFile`; an atomic replacement in `LiveConfig` |
| Win32 panel, Qt dialog (`src/control_panel.c`, `gui/SettingsDialog.cpp`) | controls, edited flag, remembered fingerprint | open, edit, Apply, OK, watch timer | `ConfigFile` |
| Qt graph monitor (`gui/GraphModel.cpp`, `gui/PipeWireGraph.cpp`, `gui/PipeWireMonitor.cpp`) | nodes, links, bindings, last measurement, kick timer | PipeWire events, start, stop, refresh | `GraphMonitor` |
| panel launch, class factory, registration | none of their own | | not modelled |

How they interact. The host calls the ASIO object on its own threads. The
object owns one `audio_client`, whose *thread loop* receives registry and
metadata events and whose *data loop* calls `process_callback` once per graph
cycle; the two share the object's fields with the host's calls without a lock.
CreateBuffers starts a *watcher* thread, which polls `config.ini` once per
second, reads and clears flags the loops set, stages settings and calls back
into the host, which may call the driver again on that very thread. In a 32-bit
host the backend runs in a 64-bit unix library and each cycle crosses to the PE
side through a one-slot bridge served by a *pump* thread. The settings live in one
file that every host's built-in dialog, the Qt panel and an editor replace and
that the watcher and all dialogs poll. The Qt panel has a client of its own in the
graph, whose loop thread feeds a model that the GUI thread reads.

What is hard: unlocked sharing between host and data thread, cycles left over
after Stop, the join of a loop under a lock, a watcher that is destroyed from
inside its own callback, replies that arrive after their deadline, copies of
sizes and rates that are set at different times, and edits that arrive while a
reset is in progress, saves of several processes through one temporary name, and
a display fed by events that never cease. `PROJECT.json` lists each at its line, under `hazards`.

What makes the components correct: no freed memory is touched; one cycle works
in one half; a Stop lets at most one more callback through; position and time
stamp are ordered; disposing and closing return; every object and context is
reclaimed once; host, driver and graph agree on the size; what is offered is
accepted; settings that are staged come into use; resets cease; the graph's
cycle ends whatever the host does and plays its own block or silence; the settings
file is whole at every moment and no dialog puts old settings back; the panel comes
to show the graph as it is.

## 2. The modules

`Transport`. One host thread and the data thread. Each access of the data thread
to a shared location is an action: `Gather`, `SwitchArg`, `LoadSamples`,
`StoreSamples`, `StoreStamp`, `Swap`, `Scatter`, `Toggle`. The plain
`host_buffer_index` is read anew by four of them. Start's priming call
(`PrimeLoad` ... `StartRunning`) runs the same code on the host thread, so it
interleaves with a cycle left over from the run before. `CreateBuffers`,
`Activate`, `Bound`, `BindFails`, `AbortCreate` and `DisposeBuffers`,
`JoinDataLoop`, `FreeBuffers` are the steps of the two long calls. Four
auxiliary variables record what happened; no guard of the driver reads them,
except that properties are stated under `~raced` where a quick Stop and Start is
known to break them. The position counts cycles, not frames.

`CycleOutput`, `Wow64Bridge`. `CycleOutput` is what the bridge promises the graph:
a cycle begins, may be answered, and ends with the host's block for this cycle
or with silence. `Wow64Bridge` has the data thread, a second producer (rate and
buffer-size events), the pump and the host thread. A critical section under
`cc->mutex` is one action; `prod_mutex`, held across a wait, is a variable. A wait
has a deadline, so it may end at any moment (`RtEndWait`, `AuxEndWait`).
`FreshOrSilent` is the refinement of `CycleOutput`, with the auxiliary `rtSeq` and
`hostDone` telling when the open cycle was answered. Start's priming call, which
is on the PE side only, is left to `Transport`.

`ConfigWatch`. Reference counts of the object and of up to `MaxWatchers` watcher
contexts, each with its thread. A driver call may be made by the host's thread or,
inside a notification, by a watcher's; `stop_config_watch`, part of three calls, is
`StopWatch` and `JoinWatch`. `EarlyRelease` lets a host drop its reference while
buffers exist.

`LiveConfig`. The world changes the file, the device's quantum, the graph's rate
and the default device; the watcher's poll is seven actions, one for each place
where it looks at shared state; the host asks GetBufferSize and creates, starts,
stops and disposes. Settings are a mode (the panel's Free, Fixed and Wireless), a
size and a pinned rate.

`FilterBind`. The driver thread inside CreateBuffers (`Activate` ... `Connect`), the
loop thread that handles the registry's events, the data thread on which the
filter's own connection runs, and the daemon. The registry's events travel in one
queue, in which the answer to a core sync lines up behind the events before it;
the filter's node id arrives beside that queue, so ports may be announced before
or after the driver knows its own node. `Signal` is the loop's one condition
variable: whoever signals it wakes every wait, which is why a sync may return
before its answer (`CoreDone`) and a wait for ports before its deadline. The daemon
gives a new global the lowest free id, so ids of removed objects come back while
their removal may still be queued. One port stands for the filter's channel ports
and one for a device's.

`ConfigFile`. Inodes are kept apart from the names `config.ini` and
`config.ini.tmp`, so that `Create` truncates what another saver left, `Write` goes to
the inode that was opened and `Rename` moves whatever has the temporary name. A save
is `Apply`, `Create`, `Write`, `Rename`, `SaveStamp`; it may fail at each step
(`CreateFails`, `WriteFails`) or die with its process (`Crash`). A dialog opens in two
steps (load, fingerprint), is edited, and follows the file by `WatchTimer` and
`Reload`. `parse` and `apply_mode` are the migration of the mode and the validation.
All settings only the Qt panel edits are one, the device. `Races` allows saves of two
dialogs, or a save and an opening, to overlap.

`SettingsStore`. What the file promises: a save is asked for, and then happens at one
instant, in which what the dialog edits replaces what is there, or it is given up; in between
a load returns what was there before. `SavesAtomic` is the refinement by `ConfigFile`:
the store's settings are what `pipeasio_config_load` returns, and a dialog wants what it
is saving from `Apply` to `Rename`. A dialog's load at `Apply` and its rename are two
steps; that they act as one is what the refinement says.

`GraphMonitor`. The daemon changes nodes, links and states and gives the lowest free
id to what is new; its events reach the panel in order. The loop thread's handlers
(`AddNode`, `AddLink`, `NodeInfo`, `RemoveGlobal`, `Profile`, `CoreDone`) keep the
model and post kicks; the GUI thread collects kicks with a timer (`Kick`, `Tick`) and
refreshes in four reads, each under the loop's lock and so one action. A node carries
its incarnation, an auxiliary number no handler looks at, to tell whether a stored
measurement belongs to the node that now has the id.

`BufferLayout`. The offset functions, in samples, and two statements about them. It
has no state; small blocks are evaluated with the run `transport`, all blocks are
covered by proof. `Transport` and `Wow64Bridge` speak of halves only, which these
facts justify: different halves, and different channels, share no sample.

## 3. The runs

| run | instance | what it shows |
|---|---|---|
| `transport` | 2 outputs, 3 cycles, active sets that are prefixes | memory, halves, late swap, position, return of DisposeBuffers |
| `wow64_bridge` | 5 events | refinement of `CycleOutput`, no clash after one miss, cycles end, teardown returns, nothing left after close |
| `config_watch` | 3 watchers, hosts that release after disposing | life times, one active watcher, everything reclaimed |
| `live_config` | 2 sizes, 2 rates, 3 settings, 2 changes | offers, sizes, staged settings, convergence |
| `filter_bind` | 2 devices, one there at first; 6 ids, 3 rounds, 1 activation, 1 change | caches without ghosts, own port adopted and linked, no link to itself, the activation returns |
| `config_file` | 1 built-in dialog, 1 Qt panel; 2 saves, 1 edition; 3 inodes, 5 times | file whole, fingerprints, refinement of `SettingsStore`, idle dialogs follow the file |
| `graph_monitor` | 1 host, 1 sink, 3 ids, 2 quanta, 4 changes | no measurement of another node, no kick lost: a settled display shows the graph; it catches up |
| `config_watch_early_release` | 1 watcher, early release | violated: the object is destroyed twice (`src/asio.c:649`, `1480`) |
| `live_config_lost_edit` | as `live_config` | violated: an edit is taken for the baseline (`README.md:321`) |
| `filter_bind_port_type` | 1 round, 1 change | violated: a freed port is read (`CHANGELOG.md:331`) |
| `config_file_torn` | as `config_file`, saves overlap | violated: a truncated file is renamed into place (`src/config.c:259`) |
| `filter_bind_stale_link` | 1 round, 2 activations | violated: the link names another filter's port (`src/audio.c:594`) |

Bounds and why they suffice. Three cycles of `Transport` let a leftover cycle, the
priming call and a full cycle overlap in one run. Five events of the bridge make two
misses in a row, a late reply and an event of the other producer in one
activation. Three watchers are one that is orphaned, its successor and that one's
successor. Two changes in `LiveConfig` are an edit and a second event that races
it; two sizes distinguish agreement from disagreement. Six ids
are what two devices and the filter can hold, so a device that leaves gives its ids to
the filter or to the other device; three rounds are a first, a middle and a last one;
with one activation of `filter_bind` every property but the two violated ones is
about a client's first filter or the caches, and one change is a device that leaves or
comes at any point of it. In `ConfigFile` two saves are one that leaves a temporary
file and one that finds it, or one of each dialog; one edition adds a third writer;
three inodes are those of the two names and an open one, and five times are one for
each inode and each remembered fingerprint. In `GraphMonitor` four changes are
two nodes, their link and its end, or a node that comes, runs, leaves and another
that gets its id; three ids are two nodes and a link. Every sequence number and
clock is bounded only by the constants named `Max...`.

Deadlock is checked in `Transport`, `LiveConfig`, `ConfigFile` and `GraphMonitor`,
which run for ever. In
`Wow64Bridge` and `ConfigWatch` the client is closed and the object freed, in
`FilterBind` the activations are bounded, and the sequence of events is bounded, so the system may really stop.

Fairness. Threads of the driver are weakly fair in their steps and waits with a
deadline end; the data thread may stop being called (a cycle need not begin). The
host's callbacks return in `Transport` (a host that never returns from bufferSwitch
stops any ASIO driver), and are not assumed to return in `Wow64Bridge`, except in
the premise of `DeactivateReturns`. `CycleEnds` relies on the other producer posting
finitely many events: `prod_mutex` is not a fair lock. In `FilterBind` the loop thread handles its events and the driver thread goes on;
the daemon and the filter owe nothing. A daemon that dies between a sync and its
answer leaves `audio_sync` waiting without a deadline: the answer is queued with the
request here. In `ConfigFile` each dialog's
timer fires and a save it began ends, in success, failure or death; users and editors
owe nothing. In `GraphMonitor` the loop thread handles its events and the GUI thread
its own, the timer counts down; the daemon owes nothing, and the display must catch up
although measurements never cease. `LiveConfig` assumes a host
that honours resets: it disposes, asks for the size, creates buffers, which does
not fail for ever, and starts. `StagedApplied` and `FollowSettles` have the premise
that no reset wish is dropped with the transport stopped: the code drops it, and
the watcher does not repeat it.

Assumptions about hosts. One driver call at a time; a notification handler returns
and does not wait for a driver call of another thread; a host that releases the
object does so with its buffers disposed or inside the handler of the only
watcher that notifies it. Relaxed atomics and plain fields are taken to keep
program order, as the compiled code does on x86-64, the only target.

## 4. The proofs

TLAPS proves the following for every value of the constants, under the
named assumptions of each module (`TransportAssumption`, `BridgeAssumption`,
`ConfigAssumption`, `FilterAssumption`, `InitialAssumption`, `FileAssumption`,
`WatchAssumption`, `GraphAssumption`).

`TransportProofs`: `TypeCorrect`, `CycleMemorySafe`, `LateSwapBounded`, `HalvesSafe`,
`HalvesTurn`, `PositionOrdered`, all from `IInv == TypeOK /\ Phases /\ LateSwaps /\ Halves /\
Positions`. None of the properties is inductive alone: `Phases` says which phases of
a host call go with which phases of the data thread (a cycle only while the loop
runs, memory allocated and callbacks set while it does); `LateSwaps` counts the
swap still to come of a cycle past the Running check; `Halves` ties the index to
the half each step of a cycle has read; `Positions` orders position, stored
position and stamp, with the locals that carry them between load and store.

`Wow64BridgeProofs`: `TypeCorrect`, `ScatterSafe`, `OneMissHarmless`, `CloseSafe`,
`BridgeImplementsCycles`, from `IInv == TypeOK /\ Phases /\ Owner /\ Order /\ Reply /\
Lateness`. `Owner` says who holds `prod_mutex`; `Order` orders the sequence numbers of
slot, pump and host; `Reply` says a reply that counts is the one to the slot's event;
`Lateness` relates the half of an unfinished bufferSwitch to the number of misses
since. The refinement is a step lemma: each step is a `CycleOutput` step or a stutter.

`LiveConfigProofs`: `TypeCorrect`, `SizesAgree`, `OffersHold`, from `IInv == TypeOK /\
WatcherNeedsBuffers /\ GraphMatchesHost /\ OfferAccepted`. The offer survives because the
only thread that stages settings, the watcher, exists only while buffers do.
`EditsKept` and `QuantaKept` are about what the watcher has looked at, for behaviours
in which two steps do not happen (`Minded`): a wish for a reset dropped with the
transport stopped, and a baseline taken of an edit that is not in use, which
`live_config_lost_edit` shows to lose it. Then an edit seen is in use, or staged with a reset
wished for, so these two are the only ways the model has to lose one; and a quantum asked
for stays on offer. `SightInv` adds that the watcher compares with what is staged, or in
use if nothing is (`Compared`), and that what is staged is wished for (`StagedWished`).

`FilterBindProofs`: `MemoAlwaysLive`, `TypeCorrect`, `NeverToItself`,
`CachesFollowWorld`. The first is inductive by itself: every action that removes a node also forgets it, and only a
cached node is remembered. The second needs `TInv`: what is queued names objects that
exist (`Announcement`), and a round that goes on is not the last (`Rounds`). The third
is from `OwnInv`: the port of a client's first filter is in one place only, queued,
cached as hardware or adopted, and a link is asked for only once it is adopted, when
nothing of it is left among the hardware. The fourth is from `GInv`: of each node and
port in the caches, and of each one still to be announced, the queue either holds
its removal before anything else is said of its id, or says nothing more of the id and
it exists (`Sound`, `Lasts`); and no id is cached twice (`Apart`), on which the
lookup of a removed id among the ports first and then the nodes relies.
`FirstLinkLive` states `FirstActivationLinks` for a world with a device at first
(`SomeDevice`: with none there is nothing to link to, and the code ends without a link).
Its invariant `FInv` speaks of the first activation while no device has changed: what is
cached of a device is what the device has and nothing queued removes it (`Hardware`);
between bind and teardown the node the driver takes for its own is the filter's or not
yet known (`Binding`); and from step to step of `audio_activate` the chosen ports
are those of a device that is there, so the link is too (`Linking`). With `OwnInv` it
follows that what is looked up last is never the client's own port.

`ConfigWatchProofs`: `TypeCorrect`, `ObjectSafe`, `ContextSafe`, `OneWatcher`,
`NotifySafe`, `NoLeak`, `NoSelfJoin`, for hosts that release after disposing (`~EarlyRelease`; without it
`config_watch_early_release` shows the contrary), from `IInv`. `Counted` says that `ref`
is the number of those who hold a reference, host and watchers, and `Contexts` that a
context's `refs` counts its owner and its thread; `Active` that a watcher not yet gone
is owned or, orphaned, on its way out; `Disposed` and `LetGo` that with the buffers gone, or with the
host's reference gone, no watcher will take a reference again.
`NoLeak` needs one thing more, that an object with no reference left is being destroyed
(`Destroyed`): with no call open and all threads ended nobody holds a reference, so it has been.
`NoSelfJoin` says of a thread that waits for a watcher that the watcher is another, has been
told to stop and waits for no call itself.

`ConfigFileProofs`: `TypeCorrect`, `SettingsWhole`, `SavesAreAtomic`, `OthersSettingsKept`
and `FingerprintsVouch`, all but the first for saves that do not overlap (`~Races`; with
overlapping saves `config_file_torn` shows the contrary) and the last also for a Qt panel
whose saves do not fail. `SafeInv` adds to `NeverTorn` that at most one dialog is in
its window (`Alone`), that the temporary name refers to what its saver opened
(`Names`), that the temporary file is empty until it holds what was to be saved
(`Contents`), and that this agrees with the file in what is not edited (`Agreed`).
`SavesAreAtomic` is a step lemma under it: `Rename` is the store's `Commit`, a failure or a death
before it `GiveUp`, `Apply` its `Ask`, `Edition` its `Edit`, and every other step a stutter; what
was merged into the settings at `Apply` is, by `Agreed`, what would be merged at `Rename`.
For fingerprints,
`VouchInv` adds that no dialog knows the time of the temporary file (`Fresh`) and what
each dialog shows while it would not look again (`VouchAt`).

`GraphMonitorProofs`: `TypeCorrect`, `MeasurementsFresh` and `NeverStale`, for any number
of hosts, sinks, ids and changes, in three layers. `IInv` is about ids. `Stands` says which
node's incarnation or which link an id stands for once the first k events of the queue
are handled; `Told` that a measurement on its way is of the node its id then stands
for, and that a node or a link is announced under an id that then stands for none;
`Complete` that with all events handled the model has the nodes and links of the world;
`OwnIds` that what exists has an id of its own; `Silent` that without a connection nothing is
known. `StatsFresh` follows, and is not inductive without them: an id given again
is told apart only by the order of the queue. `NInv` is about what is known of a node beyond
its id: an incarnation has one name and class wherever it is mentioned (`Named`), the
model's record and the bindings go together (`Recorded`, `Bound`), and the running flag of
the record is the node's, or the event that says so is still queued (`Informed`). With the
queue empty the model then is the graph (`Mirrored`). `SInv` is about the panel: while
no kick is posted, what a refresh has read so far agrees with the model as it is now, and
with no timer running all that is displayed does (`Fresh`), because every handler that
changes what is displayed posts a kick. `NeverStale` states `NothingStale`, which the run checks.

`BufferLayoutProofs`: `SlicesInside`, `SlicesApart`. Half h of channel c is slice
2c + h of the block, and slices of one size in a row neither overlap nor leave it.

Only model-checked: every liveness property (`DisposeCompletes`, `CycleEnds`,
`DeactivateReturns`, `DisposeReturns`, `AllReclaimed`, `StagedApplied`,
`FollowSettles`, `ResetsCease`, `ActivateReturns`, `InSync`, `DisplayCatchesUp`),
because liveness under fairness and ENABLED are
outside this prover. Some have their safety half proved, what holds wherever they end, and
only that they end is left to the run: `NeverStale` for `DisplayCatchesUp`, `NoLeak` for
`AllReclaimed`, `NoSelfJoin` for `DisposeReturns`, `EditsKept` and `QuantaKept` for
`StagedApplied` and `FollowSettles`, `FingerprintsVouch` for `InSync`.

## 5. Not modelled

The audio samples themselves, channel names and types, latencies, TRACE output;
the wrap of the bridge's 32-bit sequence number (a reply would have to be late by
2^32 events); a pump that joins itself; the failure of the config path, which
leaks the watcher's context and is excluded in `AllReclaimed` by name; that a quick
Stop and Start may put the old position back (`src/asio.c:867`, `1654`), which the
properties of `Transport` leave out by `~raced`; monitor ports, directions and the
metadata object's binding in the registry; the environment overrides, which the
first live reload replaces; the output that stays unsilenced when active channels are
sparse (`src/asio.c:1685`), and the reported rate, which a change missed while the
transport is stopped leaves stale (`src/asio.c:1738`): both are plain to read and
listed under `hazards`; the creation of the data thread, which is one call of the
library; the token table, which one lock makes sequential; a second host in the
monitor, for which its one measurement alternates; the removal of the profiler object,
formats, codecs and load; a save of the Qt panel that fails; fingerprints with a
resolution of a second; how text and numbers of the file are written; the start of the
Qt panel as a process; registration and the class factory, which keep no state.
