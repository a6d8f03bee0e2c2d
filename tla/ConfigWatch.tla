---------------------------- MODULE ConfigWatch ----------------------------
(***************************************************************************)
(* The life of a driver object and of its config watcher threads           *)
(* (src/src/asio.c): CreateBuffers spawns a watcher, the watcher asks the  *)
(* host for a reset, DisposeBuffers and the last Release stop and join it. *)
(* A host may service the reset inside its notification handler, on the    *)
(* watcher's own thread, and so dispose, create again or release there;    *)
(* or it may return and call the driver later from its own thread.         *)
(*                                                                         *)
(* Hosts make one driver call at a time and their notification handlers    *)
(* do not wait for another thread's driver call.  Which config change      *)
(* makes a watcher want a reset is left to module LiveConfig.              *)
(***************************************************************************)
EXTENDS Integers

CONSTANTS
    MaxWatchers,  \* bound: watchers spawned in one behaviour
    EarlyRelease  \* hosts may drop their reference with buffers still created

ASSUME WatchAssumption == MaxWatchers \in Nat /\ EarlyRelease \in BOOLEAN

Watcher == 1 .. MaxWatchers
Host == 0                       \* the host's own thread
NULL == 0                       \* no watcher
Thread == {Host} \cup Watcher

VARIABLES
    ref,          \* IPipeASIOImpl.ref
    hostRef,      \* the host still holds its reference
    freed,        \* the object's memory has been freed
    driverState,  \* host_driver_state
    configWatch,  \* IPipeASIOImpl.config_watch
    spawned,      \* watchers spawned so far
    refs, orphaned, stopEvent,  \* config_watch of each watcher
    loop,         \* where each watcher is in config_watch_proc
    call,         \* where each thread is inside a driver call
    joining,      \* watcher that stop_config_watch waits for, per thread
    destroying    \* the thread's Release dropped the last reference

objVars   == <<ref, hostRef, freed, driverState, configWatch>>
watchVars == <<spawned, refs, orphaned, stopEvent, loop>>
callVars  == <<call, joining, destroying>>
vars == <<objVars, watchVars, callVars>>

TypeOK ==
    /\ ref \in Nat /\ hostRef \in BOOLEAN /\ freed \in BOOLEAN
    /\ driverState \in {"Initialized", "Prepared", "Running"}
    /\ configWatch \in {NULL} \cup Watcher
    /\ spawned \in 0 .. MaxWatchers
    /\ refs \in [Watcher -> 0 .. 2]
    /\ orphaned \in [Watcher -> BOOLEAN]
    /\ stopEvent \in [Watcher -> BOOLEAN]
    /\ loop \in [Watcher -> {"unborn", "load", "wait", "check", "addRef", "notify",
                             "release", "unref", "exited", "gaveUp"}]
    /\ call \in [Thread -> {"none", "reap", "spawn", "dispose", "teardown", "stop",
                            "close", "free"}]
    /\ joining \in [Thread -> {NULL} \cup Watcher]
    /\ destroying \in [Thread -> BOOLEAN]

\* A fresh object the host has initialised.
Init ==
    /\ ref = 1 /\ hostRef = TRUE /\ freed = FALSE
    /\ driverState = "Initialized" /\ configWatch = NULL
    /\ spawned = 0
    /\ refs = [w \in Watcher |-> 0]
    /\ orphaned = [w \in Watcher |-> FALSE]
    /\ stopEvent = [w \in Watcher |-> FALSE]
    /\ loop = [w \in Watcher |-> "unborn"]
    /\ call = [t \in Thread |-> "none"]
    /\ joining = [t \in Thread |-> NULL]
    /\ destroying = [t \in Thread |-> FALSE]

Goto(t, pc) == call' = [call EXCEPT ![t] = pc]
WatcherAt(w, pc) == loop' = [loop EXCEPT ![w] = pc]
Unref(w) == refs' = [refs EXCEPT ![w] = @ - 1]

\* The host may call the driver from its thread, or from a watcher's thread
\* inside the notification handler.
MayCall(t) ==
    /\ hostRef
    /\ \A u \in Thread : call[u] = "none"
    /\ t \in Watcher => loop[t] = "notify"

-----------------------------------------------------------------------------
(* stop_config_watch: a step of CreateBuffers, DisposeBuffers and Release.  *)

\* The step after stop_config_watch in each of its callers.
AfterStop == [reap |-> "spawn", dispose |-> "teardown", close |-> "free"]

\* (Mutant of StopWatch: a watcher that stops itself waits for itself.)
StopWatchJoinsSelf(t) ==
    /\ call[t] \in DOMAIN AfterStop /\ joining[t] = NULL
    /\ configWatch' = NULL
    /\ stopEvent' = [w \in Watcher |-> stopEvent[w] \/ w = configWatch]
    /\ joining' = [joining EXCEPT ![t] = configWatch]
    /\ Goto(t, IF configWatch = NULL THEN AfterStop[call[t]] ELSE call[t])
    /\ UNCHANGED <<ref, hostRef, freed, driverState, spawned, refs, orphaned, loop,
                   destroying>>

\* (Mutant of StopWatch: a watcher that stops itself is only detached.)
StopWatchQuiet(t) ==
    /\ call[t] \in DOMAIN AfterStop /\ joining[t] = NULL
    /\ configWatch' = NULL
    /\ stopEvent' = [w \in Watcher |-> stopEvent[w] \/ (w = configWatch /\ w # t)]
    /\ IF configWatch = t /\ t # Host
       THEN Unref(t) /\ Goto(t, AfterStop[call[t]]) /\ UNCHANGED joining
       ELSE /\ joining' = [joining EXCEPT ![t] = configWatch]
            /\ Goto(t, IF configWatch = NULL THEN AfterStop[call[t]] ELSE call[t])
            /\ UNCHANGED refs
    /\ UNCHANGED <<ref, hostRef, freed, driverState, spawned, orphaned, loop,
                   destroying>>

\* Detach the watcher and signal it.  On the watcher's own thread it cannot
\* be joined: it is orphaned, and the owner's reference is dropped at once.
StopWatch(t) ==
    /\ call[t] \in DOMAIN AfterStop /\ joining[t] = NULL
    /\ configWatch' = NULL
    /\ stopEvent' = [w \in Watcher |-> stopEvent[w] \/ w = configWatch]
    /\ orphaned' = [w \in Watcher |-> orphaned[w] \/ (w = configWatch /\ w = t)]
    /\ IF configWatch = t /\ t # Host
       THEN Unref(t) /\ Goto(t, AfterStop[call[t]]) /\ UNCHANGED joining
       ELSE /\ joining' = [joining EXCEPT ![t] = configWatch]
            /\ Goto(t, IF configWatch = NULL THEN AfterStop[call[t]] ELSE call[t])
            /\ UNCHANGED refs
    /\ UNCHANGED <<ref, hostRef, freed, driverState, spawned, loop, destroying>>

\* (Mutant of JoinWatch: the stopped watcher is not waited for.)
JoinWatchNoWait(t) ==
    /\ joining[t] # NULL
    /\ Unref(joining[t])
    /\ joining' = [joining EXCEPT ![t] = NULL]
    /\ Goto(t, AfterStop[call[t]])
    /\ UNCHANGED <<objVars, spawned, orphaned, stopEvent, loop, destroying>>

\* The watcher thread has ended.
JoinWatch(t) ==
    /\ joining[t] # NULL /\ loop[joining[t]] \in {"exited", "gaveUp"}
    /\ Unref(joining[t])
    /\ joining' = [joining EXCEPT ![t] = NULL]
    /\ Goto(t, AfterStop[call[t]])
    /\ UNCHANGED <<objVars, spawned, orphaned, stopEvent, loop, destroying>>

-----------------------------------------------------------------------------
(* Calls of the host.                                                       *)

\* CreateBuffers succeeds; a prior watcher is reaped before a fresh one starts.
CreateBuffers(t) ==
    /\ MayCall(t) /\ driverState = "Initialized"
    /\ driverState' = "Prepared"
    /\ Goto(t, "reap")
    /\ UNCHANGED <<ref, hostRef, freed, configWatch, watchVars, joining, destroying>>

\* (Mutant of SpawnWatch: the owner and the thread share one reference.)
SpawnWatchOneRef(t) ==
    /\ call[t] = "spawn" /\ spawned < MaxWatchers
    /\ spawned' = spawned + 1
    /\ configWatch' = spawned + 1
    /\ refs' = [refs EXCEPT ![spawned + 1] = 1]
    /\ WatcherAt(spawned + 1, "load")
    /\ Goto(t, "none")
    /\ UNCHANGED <<ref, hostRef, freed, driverState, orphaned, stopEvent, joining,
                   destroying>>

\* The watcher's context has one reference for the object, one for the thread.
SpawnWatch(t) ==
    /\ call[t] = "spawn" /\ spawned < MaxWatchers
    /\ spawned' = spawned + 1
    /\ configWatch' = spawned + 1
    /\ refs' = [refs EXCEPT ![spawned + 1] = 2]
    /\ WatcherAt(spawned + 1, "load")
    /\ Goto(t, "none")
    /\ UNCHANGED <<ref, hostRef, freed, driverState, orphaned, stopEvent, joining,
                   destroying>>

\* The allocation, the event or the thread fails: live reload is disabled.
SpawnFails(t) ==
    /\ call[t] = "spawn"
    /\ Goto(t, "none")
    /\ UNCHANGED <<objVars, watchVars, joining, destroying>>

Start(t) ==
    /\ MayCall(t) /\ driverState = "Prepared"
    /\ driverState' = "Running"
    /\ UNCHANGED <<ref, hostRef, freed, configWatch, watchVars, callVars>>

Stop(t) ==
    /\ MayCall(t) /\ driverState = "Running"
    /\ driverState' = "Prepared"
    /\ UNCHANGED <<ref, hostRef, freed, configWatch, watchVars, callVars>>

\* DisposeBuffers stops the watcher before anything else.
DisposeBuffers(t) ==
    /\ MayCall(t)
    /\ Goto(t, "dispose")
    /\ UNCHANGED <<objVars, watchVars, joining, destroying>>

\* The implied Stop, the end of the filter, the buffers and the callbacks.
Teardown(t) ==
    /\ call[t] = "teardown"
    /\ driverState' = "Initialized"
    /\ Goto(t, IF destroying[t] THEN "close" ELSE "none")
    /\ UNCHANGED <<ref, hostRef, freed, configWatch, watchVars, joining, destroying>>

-----------------------------------------------------------------------------
(* Release, by the host or by a watcher after its notification.             *)

\* InterlockedDecrement; the thread that reaches 0 destroys the object.
Decrement(t) ==
    /\ ref' = ref - 1
    /\ destroying' = [destroying EXCEPT ![t] = (ref = 1)]
    /\ Goto(t, IF ref = 1 THEN "stop" ELSE "none")

\* A host drops its reference after DisposeBuffers, or in the handler of the
\* one watcher that is notifying it; other hosts drop it at any time.
HostRelease(t) ==
    /\ MayCall(t)
    /\ \/ EarlyRelease
       \/ driverState = "Initialized"
       \/ t \in Watcher /\ configWatch = t /\ ref = 2
    /\ hostRef' = FALSE
    /\ Decrement(t)
    /\ UNCHANGED <<freed, driverState, configWatch, watchVars, joining>>

\* The last Release: Stop if running, then DisposeBuffers if prepared.
DestroyStop(t) ==
    /\ call[t] = "stop"
    /\ driverState' = IF driverState = "Running" THEN "Prepared" ELSE driverState
    /\ Goto(t, IF driverState = "Initialized" THEN "close" ELSE "dispose")
    /\ UNCHANGED <<ref, hostRef, freed, configWatch, watchVars, joining, destroying>>

\* audio_close and HeapFree; a watcher whose Release this was leaves its loop.
Free(t) ==
    /\ call[t] = "free"
    /\ freed' = TRUE
    /\ destroying' = [destroying EXCEPT ![t] = FALSE]
    /\ Goto(t, "none")
    /\ loop' = [w \in Watcher |-> IF w = t THEN "unref" ELSE loop[w]]
    /\ UNCHANGED <<ref, hostRef, driverState, configWatch, spawned, refs, orphaned,
                   stopEvent, joining>>

-----------------------------------------------------------------------------
(* The watcher thread: config_watch_proc.                                   *)

\* Load the baseline, or return at once when the config path is unknown; that
\* return keeps the thread's reference.
Load(w) ==
    /\ loop[w] = "load"
    /\ WatcherAt(w, "wait") \/ WatcherAt(w, "gaveUp")
    /\ UNCHANGED <<objVars, spawned, refs, orphaned, stopEvent, callVars>>

WaitSignalled(w) ==
    /\ loop[w] = "wait" /\ stopEvent[w]
    /\ WatcherAt(w, "unref")
    /\ UNCHANGED <<objVars, spawned, refs, orphaned, stopEvent, callVars>>

\* The wait times out and something that needs a reset has changed.
Poll(w) ==
    /\ loop[w] = "wait" /\ ~stopEvent[w]
    /\ WatcherAt(w, "check")
    /\ UNCHANGED <<objVars, spawned, refs, orphaned, stopEvent, callVars>>

\* A reset is requested only while the transport runs.
CheckRunning(w) ==
    /\ loop[w] = "check"
    /\ WatcherAt(w, IF driverState = "Running" THEN "addRef" ELSE "wait")
    /\ UNCHANGED <<objVars, spawned, refs, orphaned, stopEvent, callVars>>

\* (Mutant of AddRef: the object is not kept alive across the notification.)
AddRefMissing(w) ==
    /\ loop[w] = "addRef"
    /\ ref' = ref
    /\ WatcherAt(w, "notify")
    /\ UNCHANGED <<hostRef, freed, driverState, configWatch, spawned, refs,
                   orphaned, stopEvent, callVars>>

\* Keep the object alive and call sendNotification.
AddRef(w) ==
    /\ loop[w] = "addRef"
    /\ ref' = ref + 1
    /\ WatcherAt(w, "notify")
    /\ UNCHANGED <<hostRef, freed, driverState, configWatch, spawned, refs,
                   orphaned, stopEvent, callVars>>

NotifyReturns(w) ==
    /\ loop[w] = "notify" /\ call[w] = "none"
    /\ WatcherAt(w, "release")
    /\ UNCHANGED <<objVars, spawned, refs, orphaned, stopEvent, callVars>>

\* Leave the loop if orphaned, or once the object is destroyed (Free).
ReleaseOwn(w) ==
    /\ loop[w] = "release" /\ call[w] = "none"
    /\ Decrement(w)
    /\ WatcherAt(w, IF ref = 1 THEN "release"
                    ELSE IF orphaned[w] THEN "unref" ELSE "wait")
    /\ UNCHANGED <<hostRef, freed, driverState, configWatch, spawned, refs,
                   orphaned, stopEvent, joining>>

\* (Mutant of Exit: the thread ends without dropping its reference.)
ExitKeepsRef(w) ==
    /\ loop[w] = "unref"
    /\ WatcherAt(w, "exited")
    /\ UNCHANGED <<objVars, spawned, refs, orphaned, stopEvent, callVars>>

Exit(w) ==
    /\ loop[w] = "unref"
    /\ Unref(w)
    /\ WatcherAt(w, "exited")
    /\ UNCHANGED <<objVars, spawned, orphaned, stopEvent, callVars>>

-----------------------------------------------------------------------------
HostCall(t) ==
    \/ CreateBuffers(t) \/ Start(t) \/ Stop(t) \/ DisposeBuffers(t) \/ HostRelease(t)

CallStep(t) ==
    \/ StopWatch(t) \/ JoinWatch(t) \/ SpawnWatch(t) \/ SpawnFails(t)
    \/ Teardown(t) \/ DestroyStop(t) \/ Free(t)

WatchStep(w) ==
    \/ Load(w) \/ WaitSignalled(w) \/ CheckRunning(w) \/ AddRef(w)
    \/ NotifyReturns(w) \/ ReleaseOwn(w) \/ Exit(w)

Next ==
    \/ \E t \in Thread : HostCall(t) \/ CallStep(t)
    \/ \E w \in Watcher : WatchStep(w) \/ Poll(w)

\* Threads keep running, and the host's notification handler returns; the
\* host need not call the driver, nor anything change for Poll to see.
Fairness ==
    /\ \A t \in Thread : WF_vars(CallStep(t))
    /\ \A w \in Watcher : WF_vars(WatchStep(w))

Spec == Init /\ [][Next]_vars
FairSpec == Spec /\ Fairness

-----------------------------------------------------------------------------
(* Properties.                                                              *)

\* The watcher is out of the code that uses the object.
Gone(w) ==
    \/ loop[w] \in {"unborn", "unref", "exited", "gaveUp"}
    \/ loop[w] = "wait" /\ stopEvent[w]

\* Release frees the object when no thread is inside it: no driver call is
\* open, no watcher will touch it again, and no second thread destroys it.
ObjectOutlivesUse ==
    freed => (\A t \in Thread : call[t] = "none") /\ (\A w \in Watcher : Gone(w))

\* A watcher's context is freed (refs = 0) only when its thread has left it,
\* the object has forgotten it and no thread is waiting to join it.
ContextOutlivesUse ==
    \A w \in 1 .. spawned : refs[w] = 0 =>
        /\ loop[w] = "exited"
        /\ configWatch # w
        /\ \A t \in Thread : joining[t] # w

\* Between driver calls the only watcher that polls for the object is the one
\* it points to; one stopped from its own thread is out of the loop once its
\* notification returns, though the object may have a new watcher by then.
OneActiveWatcher ==
    (\A t \in Thread : call[t] = "none") =>
        \A w \in 1 .. spawned : Gone(w) \/ (orphaned[w] /\ loop[w] \in {"notify", "release"})
                                \/ configWatch = w

\* A watcher begins to notify the host only while the callbacks it loads are
\* the host's: between CreateBuffers and the teardown of DisposeBuffers.
NotifyWithBuffers ==
    [][\A w \in Watcher : loop'[w] = "notify" /\ loop[w] # "notify"
                             => driverState # "Initialized"]_vars

\* DisposeBuffers returns, on the host's thread and on a watcher's.
DisposeReturns ==
    \A t \in Thread : call[t] = "dispose" ~> call[t] = "none"

\* Once the host has let go of the object it is destroyed, by the host's
\* thread or by the last watcher, and every watcher's context is freed but
\* for a thread that gave up on the config path.
AllReclaimed ==
    ~hostRef ~> freed /\ \A w \in 1 .. spawned : refs[w] = 0 \/ loop[w] = "gaveUp"

=============================================================================
