---------------------------- MODULE Wow64Bridge ----------------------------
(***************************************************************************)
(* The WoW64 split of the driver: the unix library runs the PipeWire cycle *)
(* (src/src/wow64/audio_unix.c), the 32-bit PE side calls the host         *)
(* (src/src/wow64/audio_proxy.c), and events cross a one-slot bridge that  *)
(* the PE pump thread polls.                                               *)
(*                                                                         *)
(* Threads: the graph's data thread (rt), a second producer of rate and    *)
(* buffer-size events (aux), the pump, and the host thread activating,     *)
(* starting, stopping, deactivating and closing.  A critical section under *)
(* cc->mutex is one action; prod_mutex is held across several.  A producer *)
(* waits with a deadline, so its wait may end at any time.                 *)
(***************************************************************************)
EXTENDS Integers

CONSTANT MaxSeq   \* bound: events posted in one behaviour

ASSUME BridgeAssumption == MaxSeq \in Nat

Half == {0, 1}
Event == [seq : Nat, kind : {"switch", "aux"}, half : Half]

VARIABLES
    pending, delivered, replyReady, shutdown,  \* client_ctx flags
    seq, evt, produced,  \* last posted event, and the reply to it
    prodOwner,           \* holder of prod_mutex: "none", "rt" or "aux"
    installed,           \* client_ctx.installed
    half,                \* client_ctx.half
    running,             \* PE side: host_driver_state = Running
    rtPc, rtProduced,    \* data thread ("off": loop stopped), bridge_invoke's result
    out,                 \* what the last cycle left on the active output ports
    auxPc,
    pumpPc, w, r,        \* pump thread, the event it handles, r.produced
    hostPc

\* Auxiliary: what happened; no guard of the code reads them.
VARIABLES
    rtSeq,      \* event the open cycle posted, 0 before it posts
    hostDone,   \* event whose bufferSwitch the host finished last
    misses      \* cycles in a row that ended without the host's block

flagVars  == <<pending, delivered, replyReady, shutdown>>
eventVars == <<seq, evt, produced>>
rtVars    == <<rtPc, rtProduced, out, rtSeq, misses>>
pumpVars  == <<pumpPc, w, r, hostDone>>
vars == <<flagVars, eventVars, prodOwner, installed, half, running, rtVars, auxPc,
          pumpVars, hostPc>>

TypeOK ==
    /\ pending \in BOOLEAN /\ delivered \in BOOLEAN
    /\ replyReady \in BOOLEAN /\ shutdown \in BOOLEAN
    /\ seq \in Nat /\ evt \in Event /\ produced \in BOOLEAN
    /\ prodOwner \in {"none", "rt", "aux"}
    /\ installed \in BOOLEAN /\ half \in Half /\ running \in BOOLEAN
    /\ rtPc \in {"off", "idle", "lock", "wait", "scatter"}
    /\ rtProduced \in BOOLEAN
    /\ out \in [kind : {"silence", "block"}, half : Half]
    /\ auxPc \in {"idle", "wait"}
    /\ pumpPc \in {"none", "check", "asleep", "dispatch", "call", "reply", "exit"}
    /\ w \in Event /\ r \in BOOLEAN
    /\ hostPc \in {"idle", "install", "spawn", "activate", "joinRt", "shutdown",
                   "joinPump", "closePump", "closeJoin", "close", "freeing", "closed"}
    /\ rtSeq \in Nat /\ hostDone \in Nat /\ misses \in Nat

NoEvent == [seq |-> 0, kind |-> "aux", half |-> 0]

\* The state wow64_open leaves: bridge initialised, nothing installed.
Init ==
    /\ pending = FALSE /\ delivered = FALSE /\ replyReady = FALSE /\ shutdown = FALSE
    /\ seq = 0 /\ evt = NoEvent /\ produced = FALSE
    /\ prodOwner = "none" /\ installed = FALSE /\ half = 0 /\ running = FALSE
    /\ rtPc = "off" /\ rtProduced = FALSE
    /\ out = [kind |-> "silence", half |-> 0]
    /\ auxPc = "idle"
    /\ pumpPc = "none" /\ w = NoEvent /\ r = FALSE
    /\ hostPc = "idle"
    /\ rtSeq = 0 /\ hostDone = 0 /\ misses = 0

\* pthread_cond_signal(&cc->ready): the pump re-evaluates its wait.
WakePump == pumpPc' = IF pumpPc = "asleep" THEN "check" ELSE pumpPc

-----------------------------------------------------------------------------
(* bridge_invoke, the producer's side.                                      *)

\* Fill the slot with a new event.
Post(kind, h) ==
    /\ seq' = seq + 1
    /\ evt' = [seq |-> seq + 1, kind |-> kind, half |-> h]
    /\ pending' = TRUE /\ delivered' = FALSE /\ replyReady' = FALSE
    /\ WakePump
    /\ UNCHANGED <<shutdown, produced, w, r, hostDone>>

\* The wait is over, by the reply, a shutdown or the deadline: abandon the
\* event, so that a late reply finds no pending event or another number.
Abandon ==
    /\ pending' = FALSE
    /\ prodOwner' = "none"
    /\ UNCHANGED <<delivered, replyReady, shutdown, eventVars>>

-----------------------------------------------------------------------------
(* The data thread: wow64_rt_process.                                       *)

RtGather ==
    /\ rtPc = "idle" /\ seq < MaxSeq
    /\ rtPc' = "lock"
    /\ rtSeq' = 0
    /\ UNCHANGED <<flagVars, eventVars, prodOwner, installed, half, running,
                   rtProduced, out, misses, auxPc, pumpVars, hostPc>>

RtPost ==
    /\ rtPc = "lock" /\ prodOwner = "none"
    /\ IF shutdown
       THEN /\ rtPc' = "scatter" /\ rtProduced' = FALSE
            /\ UNCHANGED <<flagVars, eventVars, pumpVars, prodOwner, rtSeq>>
       ELSE /\ Post("switch", half)
            /\ prodOwner' = "rt"
            /\ rtSeq' = seq + 1
            /\ rtPc' = "wait"
            /\ UNCHANGED rtProduced
    /\ UNCHANGED <<installed, half, running, out, misses, auxPc, hostPc>>

\* (Mutant of RtEndWait: the wait has no deadline.)
RtEndWaitForever ==
    /\ rtPc = "wait" /\ (replyReady \/ shutdown)
    /\ rtProduced' = (replyReady /\ ~shutdown /\ produced)
    /\ Abandon
    /\ rtPc' = "scatter"
    /\ UNCHANGED <<installed, half, running, out, rtSeq, misses, auxPc, pumpVars,
                   hostPc>>

RtEndWait ==
    /\ rtPc = "wait"
    /\ rtProduced' = (replyReady /\ ~shutdown /\ produced)
    /\ Abandon
    /\ rtPc' = "scatter"
    /\ UNCHANGED <<installed, half, running, out, rtSeq, misses, auxPc, pumpVars,
                   hostPc>>

\* (Mutant of RtScatter: a cycle the host missed keeps the half.)
RtScatterKeepsHalf ==
    /\ rtPc = "scatter"
    /\ out' = [kind |-> IF rtProduced THEN "block" ELSE "silence", half |-> half]
    /\ half' = IF rtProduced THEN 1 - half ELSE half
    /\ misses' = IF rtProduced THEN 0 ELSE misses + 1
    /\ rtPc' = "idle"
    /\ UNCHANGED <<flagVars, eventVars, prodOwner, installed, running, rtProduced,
                   rtSeq, auxPc, pumpVars, hostPc>>

\* (Mutant of RtScatter: the half is counted on instead of flipped.)
RtScatterCounts ==
    /\ rtPc = "scatter"
    /\ out' = [kind |-> IF rtProduced THEN "block" ELSE "silence", half |-> half]
    /\ half' = half + 1
    /\ misses' = IF rtProduced THEN 0 ELSE misses + 1
    /\ rtPc' = "idle"
    /\ UNCHANGED <<flagVars, eventVars, prodOwner, installed, running, rtProduced,
                   rtSeq, auxPc, pumpVars, hostPc>>

\* Scatter the host's half, or silence, and flip the half.
RtScatter ==
    /\ rtPc = "scatter"
    /\ out' = [kind |-> IF rtProduced THEN "block" ELSE "silence", half |-> half]
    /\ half' = 1 - half
    /\ misses' = IF rtProduced THEN 0 ELSE misses + 1
    /\ rtPc' = "idle"
    /\ UNCHANGED <<flagVars, eventVars, prodOwner, installed, running, rtProduced,
                   rtSeq, auxPc, pumpVars, hostPc>>

-----------------------------------------------------------------------------
(* The other producer: wow64_sample_rate_cb and wow64_buffer_size_cb.       *)

AuxPost ==
    /\ auxPc = "idle" /\ installed /\ hostPc # "closed"
    /\ prodOwner = "none" /\ ~shutdown /\ seq < MaxSeq
    /\ Post("aux", 0)
    /\ prodOwner' = "aux"
    /\ auxPc' = "wait"
    /\ UNCHANGED <<installed, half, running, rtVars, hostPc>>

AuxEndWait ==
    /\ auxPc = "wait"
    /\ Abandon
    /\ auxPc' = "idle"
    /\ UNCHANGED <<installed, half, running, rtVars, pumpVars, hostPc>>

-----------------------------------------------------------------------------
(* The pump thread: pump_proc around wow64_wait_callback and                *)
(* wow64_reply_callback.                                                    *)

\* Evaluate the wait: leave on shutdown, take an undelivered event, or sleep.
PumpCheck ==
    /\ pumpPc = "check"
    /\ IF shutdown
       THEN pumpPc' = "exit" /\ UNCHANGED <<w, delivered>>
       ELSE IF pending /\ ~delivered
            THEN pumpPc' = "dispatch" /\ w' = evt /\ delivered' = TRUE
            ELSE pumpPc' = "asleep" /\ UNCHANGED <<w, delivered>>
    /\ UNCHANGED <<pending, replyReady, shutdown, eventVars, prodOwner, installed,
                   half, running, rtVars, auxPc, r, hostDone, hostPc>>

\* (Mutant of PumpDispatch: the reply is sent before the host's callback.)
PumpDispatchReplies ==
    /\ pumpPc = "dispatch"
    /\ IF ~shutdown /\ pending /\ w.seq = seq
       THEN produced' = running /\ replyReady' = TRUE
       ELSE UNCHANGED <<produced, replyReady>>
    /\ r' = FALSE
    /\ pumpPc' = IF w.kind = "aux" \/ running THEN "call" ELSE "reply"
    /\ UNCHANGED <<pending, delivered, shutdown, seq, evt, prodOwner, installed, half,
                   running, rtVars, auxPc, w, hostDone, hostPc>>

\* A bufferSwitch reaches the host only while the transport runs.
PumpDispatch ==
    /\ pumpPc = "dispatch"
    /\ r' = FALSE
    /\ pumpPc' = IF w.kind = "aux" \/ running THEN "call" ELSE "reply"
    /\ UNCHANGED <<flagVars, eventVars, prodOwner, installed, half, running, rtVars,
                   auxPc, w, hostDone, hostPc>>

\* The host returns from the callback.
PumpCallReturns ==
    /\ pumpPc = "call"
    /\ r' = (w.kind = "switch")
    /\ hostDone' = IF w.kind = "switch" THEN w.seq ELSE hostDone
    /\ pumpPc' = "reply"
    /\ UNCHANGED <<flagVars, eventVars, prodOwner, installed, half, running, rtVars,
                   auxPc, w, hostPc>>

\* (Mutant of PumpReply: any reply to a pending event counts, a late one too.)
PumpReplyAnySeq ==
    /\ pumpPc = "reply"
    /\ IF ~shutdown /\ pending
       THEN produced' = r /\ replyReady' = TRUE
       ELSE UNCHANGED <<produced, replyReady>>
    /\ pumpPc' = "check"
    /\ UNCHANGED <<pending, delivered, shutdown, seq, evt, prodOwner, installed,
                   half, running, rtVars, auxPc, w, r, hostDone, hostPc>>

\* Only a reply to the event now pending counts.
PumpReply ==
    /\ pumpPc = "reply"
    /\ IF ~shutdown /\ pending /\ w.seq = seq
       THEN produced' = r /\ replyReady' = TRUE
       ELSE UNCHANGED <<produced, replyReady>>
    /\ pumpPc' = "check"
    /\ UNCHANGED <<pending, delivered, shutdown, seq, evt, prodOwner, installed,
                   half, running, rtVars, auxPc, w, r, hostDone, hostPc>>

-----------------------------------------------------------------------------
(* The host thread.                                                         *)

\* CreateBuffers binds the callback buffer: wow64_bind_rt.
BindRt ==
    /\ hostPc = "idle" /\ rtPc = "off"
    /\ half' = 0
    /\ hostPc' = "install"
    /\ UNCHANGED <<flagVars, eventVars, prodOwner, installed, running, rtVars, auxPc,
                   pumpVars>>

\* audio_activate: wow64_install_callbacks resets the bridge first.
InstallCallbacks ==
    /\ hostPc = "install"
    /\ pending' = FALSE /\ delivered' = FALSE /\ replyReady' = FALSE /\ shutdown' = FALSE
    /\ produced' = FALSE
    /\ installed' = TRUE
    /\ hostPc' = "spawn"
    /\ UNCHANGED <<seq, evt, prodOwner, half, running, rtVars, auxPc, pumpVars>>

\* Start the pump unless a failed activation left one; CreateThread may fail.
SpawnPump ==
    /\ hostPc = "spawn"
    /\ pumpPc' \in IF pumpPc = "none" THEN {"check", "none"} ELSE {pumpPc}
    /\ hostPc' = "activate"
    /\ UNCHANGED <<flagVars, eventVars, prodOwner, installed, half, running, rtVars,
                   auxPc, w, r, hostDone>>

\* The data loop starts, or the filter fails and the call returns false.
ActivateFilter ==
    /\ hostPc = "activate"
    /\ rtPc' \in {"idle", "off"}
    /\ misses' = 0
    /\ hostPc' = "idle"
    /\ UNCHANGED <<flagVars, eventVars, prodOwner, installed, half, running,
                   rtProduced, out, rtSeq, auxPc, pumpVars>>

\* Start and Stop only move the PE-side driver state.
StartStop ==
    /\ hostPc = "idle" /\ rtPc # "off"
    /\ running' = ~running
    /\ UNCHANGED <<flagVars, eventVars, prodOwner, installed, half, rtVars, auxPc,
                   pumpVars, hostPc>>

\* DisposeBuffers stops the transport and calls audio_deactivate.
Deactivate ==
    /\ hostPc = "idle" /\ rtPc # "off"
    /\ running' = FALSE
    /\ hostPc' = "joinRt"
    /\ UNCHANGED <<flagVars, eventVars, prodOwner, installed, half, rtVars, auxPc,
                   pumpVars>>

JoinRt ==
    /\ hostPc = "joinRt" /\ rtPc = "idle"
    /\ rtPc' = "off"
    /\ hostPc' = "shutdown"
    /\ UNCHANGED <<flagVars, eventVars, prodOwner, installed, half, running,
                   rtProduced, out, rtSeq, misses, auxPc, pumpVars>>

\* Release closes the client; a pump left by a failed activation goes first.
Close ==
    /\ hostPc = "idle" /\ rtPc = "off"
    /\ hostPc' = IF pumpPc = "none" THEN "close" ELSE "closePump"
    /\ UNCHANGED <<flagVars, eventVars, prodOwner, installed, half, running, rtVars,
                   auxPc, pumpVars>>

\* (Mutant of BridgeShutdown: the pump is not woken.)
BridgeShutdownSilent ==
    /\ \/ hostPc = "shutdown" /\ hostPc' = "joinPump"
       \/ hostPc = "closePump" /\ hostPc' = "closeJoin"
       \/ hostPc = "close" /\ hostPc' = "freeing"
    /\ shutdown' = TRUE /\ pending' = FALSE /\ replyReady' = TRUE
    /\ UNCHANGED <<delivered, eventVars, prodOwner, installed, half, running, rtVars,
                   auxPc, pumpVars>>

\* bridge_shutdown wakes the pump and every producer.
BridgeShutdown ==
    /\ \/ hostPc = "shutdown" /\ hostPc' = "joinPump"
       \/ hostPc = "closePump" /\ hostPc' = "closeJoin"
       \/ hostPc = "close" /\ hostPc' = "freeing"
    /\ shutdown' = TRUE /\ pending' = FALSE /\ replyReady' = TRUE
    /\ WakePump
    /\ UNCHANGED <<delivered, eventVars, prodOwner, installed, half, running, rtVars,
                   auxPc, w, r, hostDone>>

\* pump_join.
JoinPump ==
    /\ hostPc \in {"joinPump", "closeJoin"} /\ pumpPc \in {"none", "exit"}
    /\ pumpPc' = "none"
    /\ hostPc' = IF hostPc = "joinPump" THEN "idle" ELSE "close"
    /\ UNCHANGED <<flagVars, eventVars, prodOwner, installed, half, running, rtVars,
                   auxPc, w, r, hostDone>>

\* (Mutant of FreeClient: the context is freed without joining the loops.)
FreeClientEarly ==
    /\ hostPc = "freeing"
    /\ hostPc' = "closed"
    /\ UNCHANGED <<flagVars, eventVars, prodOwner, installed, half, running, rtVars,
                   auxPc, pumpVars>>

\* wow64_close frees the context once audio_close has joined PipeWire's loops.
FreeClient ==
    /\ hostPc = "freeing" /\ auxPc = "idle"
    /\ hostPc' = "closed"
    /\ UNCHANGED <<flagVars, eventVars, prodOwner, installed, half, running, rtVars,
                   auxPc, pumpVars>>

-----------------------------------------------------------------------------
RtInCycle == RtPost \/ RtEndWait \/ RtScatter
PumpRuns == PumpCheck \/ PumpDispatch \/ PumpReply
HostInCall ==
    \/ InstallCallbacks \/ SpawnPump \/ ActivateFilter \/ JoinRt \/ BridgeShutdown
    \/ JoinPump \/ FreeClient
HostCalls == BindRt \/ StartStop \/ Deactivate \/ Close

Next ==
    \/ RtGather \/ RtInCycle \/ AuxPost \/ AuxEndWait
    \/ PumpRuns \/ PumpCallReturns \/ HostCalls \/ HostInCall

\* Threads of the driver run; producers' waits reach their deadline.  The
\* host's callback (PumpCallReturns) is not assumed to return.
Fairness ==
    /\ WF_vars(RtPost) /\ WF_vars(RtEndWait) /\ WF_vars(RtScatter)
    /\ WF_vars(AuxEndWait)
    /\ WF_vars(PumpRuns)
    /\ WF_vars(HostInCall)

Spec == Init /\ [][Next]_vars
FairSpec == Spec /\ Fairness

-----------------------------------------------------------------------------
(* Properties.                                                              *)

Cycles == INSTANCE CycleOutput WITH
    open     <- rtPc \in {"lock", "wait", "scatter"},
    answered <- rtPc \in {"lock", "wait", "scatter"} /\ rtSeq # 0 /\ hostDone = rtSeq

\* The bridge implements CycleOutput: what a cycle plays is the block the host
\* computed for this cycle, never one it delivered late for an earlier cycle,
\* or silence.
FreshOrSilent == Cycles!Spec

\* While the data thread scatters the host's block, the host is not inside
\* another bufferSwitch that could be writing it.
ScatterUndisturbed ==
    rtPc = "scatter" /\ rtProduced => ~(pumpPc = "call" /\ w.kind = "switch")

\* The data thread gathers into a half the host is still working on only
\* when two cycles in a row have gone without the host's block: one late
\* bufferSwitch is harmless.
ClashNeedsTwoMisses ==
    rtPc = "lock" /\ pumpPc = "call" /\ w.kind = "switch" /\ w.half = half => misses >= 2

\* A graph cycle ends even if the host never returns from its callback, or
\* an aux event holds the producers' mutex when it begins.
CycleEnds == rtPc \in {"lock", "wait", "scatter"} ~> rtPc \in {"idle", "off"}

\* DisposeBuffers returns as long as the host's callbacks do: the pump wakes,
\* sees the shutdown and can be joined.
DeactivateReturns ==
    []<>(pumpPc # "call") => (hostPc = "joinRt" ~> hostPc = "idle")

\* Once the client is freed no thread is left that could use it.
NoThreadAfterClose ==
    hostPc = "closed" => rtPc = "off" /\ auxPc = "idle" /\ pumpPc = "none"
=============================================================================
