----------------------------- MODULE Transport -----------------------------
(***************************************************************************)
(* The streaming core of the native driver (src/src/asio.c): one host      *)
(* thread calling CreateBuffers, Start, Stop, GetSamplePosition and        *)
(* DisposeBuffers, and the PipeWire data-loop thread running               *)
(* process_callback once per graph cycle.  They share the driver state,    *)
(* the double-buffer index, the sample position with its time stamp, the   *)
(* host's callback table and the callback audio buffer, with no lock.      *)
(*                                                                         *)
(* Every access of the data thread to a shared location is a step of its   *)
(* own: the plain host_buffer_index is read again for the gather, for the  *)
(* argument of bufferSwitch, for the scatter and for the toggle, and the   *)
(* position is loaded and stored separately.  One frame count stands for   *)
(* one cycle of buffer_size frames, and one graph-clock tick for one cycle.*)
(***************************************************************************)
EXTENDS Integers, FiniteSets

CONSTANTS
    NOut,       \* output channels of the driver (pipeasio_number_outputs)
    ActiveSets, \* sets of output channels a host may ask buffers for
    MaxClock    \* bound: cycles the graph runs in one behaviour

ASSUME TransportAssumption ==
    /\ NOut \in Nat \ {0}
    /\ ActiveSets \subseteq SUBSET (0 .. NOut - 1)
    /\ MaxClock \in Nat

Outs == 0 .. NOut - 1
Half == {0, 1}

VARIABLES
    driverState,  \* host_driver_state
    callbacks,    \* TRUE iff host_callbacks is not NULL
    buffer,       \* TRUE iff callback_audio_buffer is allocated
    active,       \* output channels with buffers (IOChannel.active)
    index,        \* host_buffer_index
    samples,      \* host_num_samples, in cycles
    stamp,        \* host_time_stamp, in graph-clock ticks
    clock,        \* audio_client.last_clock_nsec
    pool,         \* what the last buffer queued on each output port holds
    hostPc,       \* where the host thread is inside a driver call
    hostSamples,  \* position loaded by Start's priming bufferSwitch
    got,          \* what GetSamplePosition has read, and the position of its stamp
    rtPc,         \* where the data thread is; "stopped": loop not running
    rt            \* the data thread's locals for the current cycle

\* Auxiliary: they record what happened, and no guard of the driver reads them.
VARIABLES
    stampPos,     \* position stored together with the current stamp
    raced,        \* the last Start overlapped a cycle of the run before it
    lastHalf,     \* half handed to the host by the last bufferSwitch
    lateSwaps     \* RT bufferSwitch calls begun since Stop

hostVars  == <<hostPc, hostSamples, got>>
rtVars    == <<rtPc, rt>>
bufVars   == <<callbacks, buffer, active>>
ghostVars == <<stampPos, raced, lastHalf, lateSwaps>>
vars == <<driverState, bufVars, index, samples, stamp, clock, pool,
          hostVars, rtVars, ghostVars>>

\* The data thread is past process_callback's Running check.
InCycle == rtPc \notin {"stopped", "idle"}

TypeOK ==
    /\ driverState \in {"Initialized", "Prepared", "Running"}
    /\ callbacks \in BOOLEAN
    /\ buffer \in BOOLEAN
    /\ active \subseteq Outs
    /\ index \in Half
    /\ samples \in Nat
    /\ stamp \in Nat
    /\ clock \in Nat
    /\ pool \in [Outs -> {"silence", "audio"}]
    /\ hostPc \in {"idle", "activate", "bind", "abort", "load", "store", "stamp",
                   "swap", "started", "join", "free", "readSamples"}
    /\ hostSamples \in Nat
    /\ got \in [stamp : Nat, pos : Nat, samples : Nat]
    /\ rtPc \in {"stopped", "idle", "gather", "arg", "load", "store", "stamp",
                 "call", "swap", "toggle"}
    /\ rt \in [gather : Half, switch : Half, scatter : Half, samples : Nat]
    /\ stampPos \in Nat
    /\ raced \in BOOLEAN
    /\ lastHalf \in Half
    /\ lateSwaps \in Nat

\* The state Init() leaves: ports registered, no buffers, data loop stopped.
Init ==
    /\ driverState = "Initialized"
    /\ callbacks = FALSE /\ buffer = FALSE /\ active = {}
    /\ index = 0 /\ samples = 0 /\ stamp = 0 /\ clock = 0
    /\ pool = [ch \in Outs |-> "silence"]
    /\ hostPc = "idle" /\ hostSamples = 0
    /\ got = [stamp |-> 0, pos |-> 0, samples |-> 0]
    /\ rtPc = "stopped"
    /\ rt = [gather |-> 0, switch |-> 0, scatter |-> 0, samples |-> 0]
    /\ stampPos = 0 /\ raced = FALSE /\ lastHalf = 0 /\ lateSwaps = 0

-----------------------------------------------------------------------------
(* The host thread: CreateBuffers.  The size checks that return before any  *)
(* state of this module changes are left to module LiveConfig.              *)

\* Publish the callbacks, ask the host about time info, allocate the buffer
\* and mark the channels the host wants; -994 when the allocation fails.
CreateBuffers ==
    /\ hostPc = "idle" /\ driverState = "Initialized"
    /\ callbacks' = TRUE
    /\ \/ /\ buffer' = TRUE
          /\ active' \in ActiveSets
          /\ hostPc' = "activate"
       \/ UNCHANGED <<buffer, active, hostPc>>
    /\ UNCHANGED <<driverState, index, samples, stamp, clock, pool, hostSamples,
                   got, rtVars, ghostVars>>

\* audio_activate builds the filter with fresh port buffers and starts the
\* data loop; any step before that may fail without a data thread.
Activate ==
    /\ hostPc = "activate"
    /\ \/ /\ rtPc' = "idle"
          /\ pool' = [ch \in Outs |-> "silence"]
          /\ hostPc' = "bind"
       \/ /\ hostPc' = "abort"
          /\ UNCHANGED <<rtPc, pool>>
    /\ UNCHANGED <<driverState, bufVars, index, samples, stamp, clock,
                   hostSamples, got, rt, ghostVars>>

\* The filter gets its node id and the ports are connected.
Bound ==
    /\ hostPc = "bind"
    /\ driverState' = "Prepared"
    /\ hostPc' = "idle"
    /\ UNCHANGED <<bufVars, index, samples, stamp, clock, pool, hostSamples,
                   got, rtVars, ghostVars>>

\* The filter enters ERROR before it is bound: audio_teardown_filter joins
\* the data thread, which therefore must be between two cycles.
BindFails ==
    /\ hostPc = "bind" /\ rtPc = "idle"
    /\ rtPc' = "stopped"
    /\ hostPc' = "abort"
    /\ UNCHANGED <<driverState, bufVars, index, samples, stamp, clock, pool,
                   hostSamples, got, rt, ghostVars>>

\* CreateBuffers undoes the allocation when audio_activate returned false.
AbortCreate ==
    /\ hostPc = "abort"
    /\ callbacks' = FALSE /\ buffer' = FALSE /\ active' = {}
    /\ hostPc' = "idle"
    /\ UNCHANGED <<driverState, index, samples, stamp, clock, pool, hostSamples,
                   got, rtVars, ghostVars>>

-----------------------------------------------------------------------------
(* The host thread: Start and its priming bufferSwitch.                     *)

\* Clear the callback buffer and zero the transport.
Start ==
    /\ hostPc = "idle" /\ driverState = "Prepared"
    /\ index' = 0 /\ samples' = 0 /\ stamp' = 0
    /\ hostPc' = "load"
    /\ stampPos' = 0
    /\ raced' = InCycle
    /\ UNCHANGED <<driverState, bufVars, clock, pool, hostSamples, got, rtVars,
                   lastHalf, lateSwaps>>

\* pipeasio_host_buffer_switch(This, host_buffer_index, 0, time) on the host
\* thread: load the position, store it, store the stamp, call the host.
PrimeLoad ==
    /\ hostPc = "load"
    /\ hostSamples' = samples
    /\ lastHalf' = index
    /\ hostPc' = "store"
    /\ UNCHANGED <<driverState, bufVars, index, samples, stamp, clock, pool, got,
                   rtVars, stampPos, raced, lateSwaps>>

PrimeStore ==
    /\ hostPc = "store"
    /\ samples' = hostSamples
    /\ hostPc' = "stamp"
    /\ UNCHANGED <<driverState, bufVars, index, stamp, clock, pool, hostSamples,
                   got, rtVars, ghostVars>>

PrimeStamp ==
    /\ hostPc = "stamp"
    /\ stamp' = clock
    /\ stampPos' = hostSamples
    /\ hostPc' = "swap"
    /\ UNCHANGED <<driverState, bufVars, index, samples, clock, pool, hostSamples,
                   got, rtVars, raced, lastHalf, lateSwaps>>

\* (Mutant of StartRunning: the half is not flipped after the priming call.)
StartRunningSameHalf ==
    /\ hostPc = "swap"
    /\ driverState' = "Running"
    /\ lateSwaps' = 0
    /\ hostPc' = "started"
    /\ UNCHANGED <<bufVars, index, samples, stamp, clock, pool, hostSamples, got,
                   rtVars, stampPos, raced, lastHalf>>

\* The host's bufferSwitch returns; flip the half and let the data thread in.
StartRunning ==
    /\ hostPc = "swap"
    /\ index' = 1 - index
    /\ driverState' = "Running"
    /\ lateSwaps' = 0
    /\ hostPc' = "started"
    /\ UNCHANGED <<bufVars, samples, stamp, clock, pool, hostSamples, got,
                   rtVars, stampPos, raced, lastHalf>>

StartReturns ==
    /\ hostPc = "started"
    /\ hostPc' = "idle"
    /\ UNCHANGED <<driverState, bufVars, index, samples, stamp, clock, pool,
                   hostSamples, got, rtVars, ghostVars>>

-----------------------------------------------------------------------------
(* The host thread: Stop, GetSamplePosition and DisposeBuffers.             *)

Stop ==
    /\ hostPc = "idle" /\ driverState = "Running"
    /\ driverState' = "Prepared"
    /\ lateSwaps' = 0
    /\ UNCHANGED <<bufVars, index, samples, stamp, clock, pool, hostVars, rtVars,
                   stampPos, raced, lastHalf>>

\* GetSamplePosition loads the stamp, then the position, and returns both.
ReadStamp ==
    /\ hostPc = "idle"
    /\ got' = [stamp |-> stamp, pos |-> stampPos, samples |-> got.samples]
    /\ hostPc' = "readSamples"
    /\ UNCHANGED <<driverState, bufVars, index, samples, stamp, clock, pool,
                   hostSamples, rtVars, ghostVars>>

ReadSamples ==
    /\ hostPc = "readSamples"
    /\ got' = [got EXCEPT !.samples = samples]
    /\ hostPc' = "idle"
    /\ UNCHANGED <<driverState, bufVars, index, samples, stamp, clock, pool,
                   hostSamples, rtVars, ghostVars>>

\* DisposeBuffers: the implied Stop, then audio_deactivate.
DisposeBuffers ==
    /\ hostPc = "idle" /\ driverState \in {"Prepared", "Running"}
    /\ driverState' = "Prepared"
    /\ lateSwaps' = IF driverState = "Running" THEN 0 ELSE lateSwaps
    /\ hostPc' = "join"
    /\ UNCHANGED <<bufVars, index, samples, stamp, clock, pool, hostSamples, got,
                   rtVars, stampPos, raced, lastHalf>>

\* (Mutant of JoinDataLoop: the data loop is stopped without joining it.)
JoinDataLoopNoWait ==
    /\ hostPc = "join"
    /\ hostPc' = "free"
    /\ UNCHANGED <<driverState, bufVars, index, samples, stamp, clock, pool,
                   hostSamples, got, rtVars, ghostVars>>

\* pw_data_loop_stop joins the data thread: it is between two cycles.
JoinDataLoop ==
    /\ hostPc = "join" /\ rtPc = "idle"
    /\ rtPc' = "stopped"
    /\ hostPc' = "free"
    /\ UNCHANGED <<driverState, bufVars, index, samples, stamp, clock, pool,
                   hostSamples, got, rt, ghostVars>>

FreeBuffers ==
    /\ hostPc = "free"
    /\ callbacks' = FALSE /\ buffer' = FALSE /\ active' = {}
    /\ driverState' = "Initialized"
    /\ hostPc' = "idle"
    /\ UNCHANGED <<index, samples, stamp, clock, pool, hostSamples, got, rtVars,
                   ghostVars>>

-----------------------------------------------------------------------------
(* The data thread: audio_on_process and process_callback.                  *)

\* One graph cycle with the transport not running: process_silence clears the
\* ports output_channel[0 .. host_active_outputs - 1].
SilentCycle ==
    /\ rtPc = "idle" /\ driverState # "Running" /\ clock < MaxClock
    /\ clock' = clock + 1
    /\ pool' = [ch \in Outs |-> IF ch < Cardinality(active) THEN "silence" ELSE pool[ch]]
    /\ UNCHANGED <<driverState, bufVars, index, samples, stamp, hostVars, rtVars,
                   ghostVars>>

\* (Mutant of BeginCycle: process_callback without its Running check.)
BeginCycleUnchecked ==
    /\ rtPc = "idle" /\ clock < MaxClock
    /\ clock' = clock + 1
    /\ rtPc' = "gather"
    /\ UNCHANGED <<driverState, bufVars, index, samples, stamp, pool, hostVars, rt,
                   ghostVars>>

\* The Running check of process_callback lets the cycle in.
BeginCycle ==
    /\ rtPc = "idle" /\ driverState = "Running" /\ clock < MaxClock
    /\ clock' = clock + 1
    /\ rtPc' = "gather"
    /\ UNCHANGED <<driverState, bufVars, index, samples, stamp, pool, hostVars, rt,
                   ghostVars>>

\* audio_gather copies the capture ports into the half of host_buffer_index.
Gather ==
    /\ rtPc = "gather"
    /\ rt' = [rt EXCEPT !.gather = index]
    /\ rtPc' = "arg"
    /\ UNCHANGED <<driverState, bufVars, index, samples, stamp, clock, pool,
                   hostVars, ghostVars>>

\* host_buffer_index is read again for the argument of bufferSwitch.
SwitchArg ==
    /\ rtPc = "arg"
    /\ rt' = [rt EXCEPT !.switch = index]
    /\ rtPc' = "load"
    /\ UNCHANGED <<driverState, bufVars, index, samples, stamp, clock, pool,
                   hostVars, ghostVars>>

\* (Mutant of LoadSamples: the stamp is stored before the position.)
LoadSamplesStampFirst ==
    /\ rtPc = "load"
    /\ rt' = [rt EXCEPT !.samples = samples + 1]
    /\ stamp' = clock
    /\ stampPos' = samples + 1
    /\ rtPc' = "store"
    /\ UNCHANGED <<driverState, bufVars, index, samples, clock, pool, hostVars,
                   raced, lastHalf, lateSwaps>>

LoadSamples ==
    /\ rtPc = "load"
    /\ rt' = [rt EXCEPT !.samples = samples + 1]
    /\ rtPc' = "store"
    /\ UNCHANGED <<driverState, bufVars, index, samples, stamp, clock, pool,
                   hostVars, ghostVars>>

StoreSamples ==
    /\ rtPc = "store"
    /\ samples' = rt.samples
    /\ rtPc' = "stamp"
    /\ UNCHANGED <<driverState, bufVars, index, stamp, clock, pool, hostVars, rt,
                   ghostVars>>

StoreStamp ==
    /\ rtPc = "stamp"
    /\ stamp' = clock
    /\ stampPos' = rt.samples
    /\ rtPc' = "call"
    /\ UNCHANGED <<driverState, bufVars, index, samples, clock, pool, hostVars, rt,
                   raced, lastHalf, lateSwaps>>

\* (Mutant of Swap: the data thread waits for the transport to run again.)
SwapWaitsForRunning ==
    /\ rtPc = "call" /\ driverState = "Running"
    /\ rtPc' = "swap"
    /\ lastHalf' = rt.switch
    /\ UNCHANGED <<driverState, bufVars, index, samples, stamp, clock, pool,
                   hostVars, rt, stampPos, raced, lateSwaps>>

\* The data thread calls the host's bufferSwitch.
Swap ==
    /\ rtPc = "call"
    /\ rtPc' = "swap"
    /\ lastHalf' = rt.switch
    /\ lateSwaps' = IF driverState = "Running" THEN lateSwaps ELSE lateSwaps + 1
    /\ UNCHANGED <<driverState, bufVars, index, samples, stamp, clock, pool,
                   hostVars, rt, stampPos, raced>>

\* (Mutant of Scatter: the index is toggled before the scatter.)
ScatterOtherHalf ==
    /\ rtPc = "swap"
    /\ rt' = [rt EXCEPT !.scatter = 1 - index]
    /\ pool' = [ch \in Outs |-> IF ch \in active THEN "audio" ELSE pool[ch]]
    /\ rtPc' = "toggle"
    /\ UNCHANGED <<driverState, bufVars, index, samples, stamp, clock, hostVars,
                   ghostVars>>

\* The host returns; audio_scatter copies the half host_buffer_index names
\* now to the ports of the active outputs.
Scatter ==
    /\ rtPc = "swap"
    /\ rt' = [rt EXCEPT !.scatter = index]
    /\ pool' = [ch \in Outs |-> IF ch \in active THEN "audio" ELSE pool[ch]]
    /\ rtPc' = "toggle"
    /\ UNCHANGED <<driverState, bufVars, index, samples, stamp, clock, hostVars,
                   ghostVars>>

\* (Mutant of Toggle: the index is counted on instead of flipped.)
ToggleCounts ==
    /\ rtPc = "toggle"
    /\ index' = index + 1
    /\ rtPc' = "idle"
    /\ UNCHANGED <<driverState, bufVars, samples, stamp, clock, pool, hostVars, rt,
                   ghostVars>>

\* The toggle reads the index once more, or keeps the value the scatter read
\* (the variable is not atomic, so the compiler may do either).
Toggle ==
    /\ rtPc = "toggle"
    /\ \E h \in {index, rt.scatter} : index' = 1 - h
    /\ rtPc' = "idle"
    /\ UNCHANGED <<driverState, bufVars, samples, stamp, clock, pool, hostVars, rt,
                   ghostVars>>

-----------------------------------------------------------------------------
HostInCall ==
    \/ Activate \/ Bound \/ BindFails \/ AbortCreate
    \/ PrimeLoad \/ PrimeStore \/ PrimeStamp \/ StartRunning \/ StartReturns
    \/ ReadSamples \/ JoinDataLoop \/ FreeBuffers

HostCalls == CreateBuffers \/ Start \/ Stop \/ ReadStamp \/ DisposeBuffers

RtInCycle ==
    \/ Gather \/ SwitchArg \/ LoadSamples \/ StoreSamples \/ StoreStamp
    \/ Swap \/ Scatter \/ Toggle

Next == HostCalls \/ HostInCall \/ SilentCycle \/ BeginCycle \/ RtInCycle

\* A call of the driver keeps running until it returns, and a cycle of the
\* data thread until it ends (the host's bufferSwitch returns); nothing makes
\* the host call the driver or the graph run another cycle.
Fairness == WF_vars(HostInCall) /\ WF_vars(RtInCycle)

Spec == Init /\ [][Next]_vars
FairSpec == Spec /\ Fairness

-----------------------------------------------------------------------------
(* Properties.                                                              *)

\* A cycle that passed the Running check only touches live memory: whatever
\* the host calls meanwhile, the callback table is not NULL and the callback
\* buffer is not freed until that cycle is over (DisposeBuffers frees them
\* after audio_deactivate has joined the data thread).
CycleMemoryLive == InCycle => callbacks /\ buffer

\* Stop lets at most the one bufferSwitch through whose cycle had already
\* passed the Running check.
AtMostOneLateSwap == lateSwaps <= 1

\* Unless Start overlapped a leftover cycle, one cycle gathers into, hands to
\* the host and scatters from the same half of the double buffer.
OneHalfPerCycle ==
    ~raced => /\ rtPc \notin {"stopped", "idle", "gather", "arg"} => rt.switch = rt.gather
              /\ rtPc = "toggle" => rt.scatter = rt.switch

\* Unless Start overlapped a leftover cycle, the next half handed to the host
\* is never the one it was handed last: the priming call of Start takes half
\* 0, the first cycle half 1, and so on.
HalvesAlternate ==
    ~raced /\ rtPc = "call" => rt.switch # lastHalf

\* GetSamplePosition loads the stamp before the position and the data thread
\* stores them the other way round, so the position it returns is never older
\* than the position stored with the stamp it returns.
PositionNotOlderThanStamp ==
    [][ReadSamples /\ ~raced => samples >= got.pos]_vars

\* DisposeBuffers returns: the join of the data thread waits for one cycle.
DisposeCompletes == hostPc = "join" ~> hostPc = "idle"
=============================================================================
