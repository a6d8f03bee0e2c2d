------------------------- MODULE ConfigWatchProofs -------------------------
(***************************************************************************)
(* Proofs about ConfigWatch for hosts that keep their reference while they *)
(* have buffers (~ EarlyRelease), for any number of watchers.              *)
(*                                                                         *)
(* The argument counts references: the object's count is the number of     *)
(* threads that hold it, so the Release that finds 1 is the holder's last; *)
(* a watcher's count is its owner's reference and its thread's.            *)
(***************************************************************************)
EXTENDS ConfigWatch, FiniteSets, FiniteSetTheorems, TLAPS

-----------------------------------------------------------------------------
(* The inductive invariant.                                                 *)

\* The types, but for the two counters.
Types ==
    /\ ref \in Nat /\ hostRef \in BOOLEAN /\ freed \in BOOLEAN
    /\ driverState \in {"Initialized", "Prepared", "Running"}
    /\ configWatch \in {NULL} \cup Watcher
    /\ spawned \in 0 .. MaxWatchers
    /\ refs \in [Watcher -> Int]
    /\ orphaned \in [Watcher -> BOOLEAN]
    /\ stopEvent \in [Watcher -> BOOLEAN]
    /\ loop \in [Watcher -> {"unborn", "load", "wait", "check", "addRef", "notify",
                             "release", "unref", "exited", "gaveUp"}]
    /\ call \in [Thread -> {"none", "reap", "spawn", "dispose", "teardown", "stop",
                            "close", "free"}]
    /\ joining \in [Thread -> {NULL} \cup Watcher]
    /\ destroying \in [Thread -> BOOLEAN]

\* Who holds a reference to the object.
Holding(t) ==
    IF t = Host THEN hostRef ELSE loop[t] \in {"notify", "release"} /\ ~ destroying[t]
Holders == {t \in Thread : Holding(t)}
Counted == ref = Cardinality(Holders)

\* One driver call at a time, and where it is.
Calls ==
    /\ \A t, u \in Thread : call[t] # "none" /\ call[u] # "none" => t = u
    /\ \A t \in Thread :
         /\ call[t] # "none" => hostRef \/ destroying[t]
         /\ call[t] \in {"stop", "close", "free"} => destroying[t]
         /\ destroying[t] => /\ call[t] \in {"stop", "dispose", "teardown", "close", "free"}
                             /\ ref = 0
         /\ t \in Watcher /\ call[t] # "none" =>
              loop[t] = "notify" \/ (loop[t] = "release" /\ destroying[t])
         /\ joining[t] # NULL => /\ call[t] \in {"reap", "dispose", "close"}
                                 /\ configWatch = NULL /\ joining[t] <= spawned
         /\ call[t] \in {"spawn", "teardown", "free"} => configWatch = NULL
         /\ call[t] \in {"reap", "spawn"} => driverState # "Initialized"

\* A watcher's context has the object's reference, which a joining thread takes
\* over, and its thread's.
Owned(w) == configWatch = w \/ \E t \in Thread : joining[t] = w
Contexts ==
    /\ configWatch <= spawned
    /\ \A w \in Watcher :
         /\ loop[w] = "unborn" <=> w > spawned
         /\ refs[w] = (IF Owned(w) THEN 1 ELSE 0)
                         + (IF loop[w] \in {"unborn", "exited"} THEN 0 ELSE 1)

\* A watcher that still runs is owned, or on its way out.
Leaving(w) == orphaned[w] /\ loop[w] \in {"notify", "release"}
Active == \A w \in Watcher : Gone(w) \/ Owned(w) \/ Leaving(w)

\* Without buffers there is no watcher to own.
Disposed ==
    driverState = "Initialized" => configWatch = NULL /\ \A t \in Thread : joining[t] = NULL

\* Without the host, no watcher will take a reference again: the ones left go,
\* or the only one left holds the last reference.
LetGo ==
    ~ hostRef => \A w \in Watcher :
        \/ Gone(w)
        \/ /\ loop[w] \in {"notify", "release"}
           /\ orphaned[w] \/ \A u \in Thread \ {w} : ~ Holding(u)

Freed == freed => ~ hostRef /\ ObjectOutlivesUse

IInv == Types /\ Counted /\ Calls /\ Contexts /\ Active /\ Disposed /\ LetGo /\ Freed

-----------------------------------------------------------------------------
(* Counting the holders.                                                    *)

LEMMA HoldersFinite == IsFiniteSet(Holders)
<1>1. Thread = 0 .. MaxWatchers
  BY WatchAssumption DEF Thread, Watcher, Host
<1>2. IsFiniteSet(Thread)
  BY <1>1, FS_Interval, WatchAssumption
<1> QED
  BY <1>2, FS_Subset DEF Holders

LEMMA NoneHolds == ASSUME Counted, ref = 0 PROVE \A t \in Thread : ~ Holding(t)
<1>1. Holders = {}
  BY HoldersFinite, FS_EmptySet DEF Counted
<1> QED
  BY <1>1 DEF Holders

\* A holder is counted, and is alone if the count is 1.
LEMMA OneHolds ==
  ASSUME Counted, NEW t \in Thread, Holding(t)
  PROVE  /\ ref \in Nat /\ ref >= 1
         /\ ref = 1 <=> \A u \in Thread \ {t} : ~ Holding(u)
<1>1. t \in Holders
  BY DEF Holders
<1>2. ref \in Nat
  BY HoldersFinite, FS_CardinalityType DEF Counted
<1>3. ref # 0
  BY <1>1, HoldersFinite, FS_EmptySet DEF Counted
<1>4. ref = 1 <=> \E x : Holders = {x}
  BY HoldersFinite, FS_Singleton DEF Counted
<1>5. (\E x : Holders = {x}) <=> Holders = {t}
  BY <1>1
<1>6. Holders = {t} <=> \A u \in Thread \ {t} : ~ Holding(u)
  BY <1>1 DEF Holders
<1>7. ref >= 1
  BY <1>2, <1>3
<1> HIDE DEF Holders
<1> QED
  BY <1>2, <1>4, <1>5, <1>6, <1>7, Zenon

\* Two holders are the only ones if the count is 2.
LEMMA TwoHold ==
  ASSUME Counted, NEW t \in Thread, NEW v \in Thread \ {t}, Holding(t), Holding(v), ref = 2
  PROVE  \A u \in Thread \ {t, v} : ~ Holding(u)
<1>1. t \in Holders /\ v \in Holders
  BY DEF Holders
<1>2. IsFiniteSet(Holders \ {t}) /\ Cardinality(Holders \ {t}) = 1
  <2>1. IsFiniteSet(Holders \ {t}) /\ Cardinality(Holders \ {t}) = Cardinality(Holders) - 1
    BY <1>1, HoldersFinite, FS_RemoveElement
  <2> QED
    BY <2>1 DEF Counted
<1>3. PICK x : Holders \ {t} = {x}
  BY <1>2, FS_Singleton
<1>4. Holders \ {t} = {v}
  BY <1>1, <1>3
<1> QED
  BY <1>4 DEF Holders

LEMMA SameHolders ==
  ASSUME Counted, ref' = ref, \A t \in Thread : Holding(t)' <=> Holding(t)
  PROVE  Counted'
<1>1. Holders' = Holders
  BY DEF Holders
<1> QED
  BY <1>1 DEF Counted

LEMMA OneMore ==
  ASSUME Counted, NEW t \in Thread, ~ Holding(t), Holding(t)', ref' = ref + 1,
         \A u \in Thread \ {t} : Holding(u)' <=> Holding(u)
  PROVE  Counted'
<1>1. Holders' = Holders \cup {t} /\ t \notin Holders
  BY DEF Holders
<1> QED
  BY <1>1, HoldersFinite, FS_AddElement DEF Counted

LEMMA OneLess ==
  ASSUME Counted, NEW t \in Thread, Holding(t), ~ Holding(t)', ref' = ref - 1,
         \A u \in Thread \ {t} : Holding(u)' <=> Holding(u)
  PROVE  Counted'
<1>1. Holders' = Holders \ {t} /\ t \in Holders
  BY DEF Holders
<1> QED
  BY <1>1, HoldersFinite, FS_RemoveElement DEF Counted

-----------------------------------------------------------------------------
(* The initial state and what the invariant says.                           *)

LEMMA Threads == Thread = {0} \cup Watcher /\ Watcher \subseteq Nat \ {0} /\ 0 \notin Watcher
  BY WatchAssumption DEF Thread, Watcher, Host

LEMMA InitIInv == Init => IInv
<1> SUFFICES ASSUME Init PROVE IInv
  OBVIOUS
<1> USE DEF Init
<1>1. Types
  <2>1. refs \in [Watcher -> Int] /\ spawned \in 0 .. MaxWatchers
    BY WatchAssumption
  <2> QED
    BY <2>1 DEF Types
<1>2. Counted
  <2>1. Holders = {Host}
    BY Threads DEF Holders, Holding, Host
  <2> QED
    BY <2>1, FS_Singleton DEF Counted
<1>3. Calls /\ Active /\ Disposed /\ LetGo /\ Freed
  BY DEF Calls, Active, Gone, Disposed, LetGo, Freed, NULL
<1>4. Contexts
  BY Threads, WatchAssumption DEF Contexts, Owned, NULL, Watcher
<1> QED
  BY <1>1, <1>2, <1>3, <1>4 DEF IInv

LEMMA TypeFollows == IInv => TypeOK
  BY DEF IInv, Types, Contexts, TypeOK

LEMMA ContextFollows == IInv => ContextOutlivesUse
<1> SUFFICES ASSUME IInv, NEW w \in 1 .. spawned, refs[w] = 0
             PROVE  loop[w] = "exited" /\ configWatch # w /\ \A t \in Thread : joining[t] # w
  BY DEF ContextOutlivesUse
<1>1. w \in Watcher /\ ~ (w > spawned)
  BY WatchAssumption DEF IInv, Types, Watcher
<1> QED
  BY <1>1 DEF IInv, Contexts, Owned

LEMMA OneActiveFollows == IInv => OneActiveWatcher
<1> SUFFICES ASSUME IInv, \A t \in Thread : call[t] = "none", NEW w \in 1 .. spawned
             PROVE  \/ Gone(w) \/ (orphaned[w] /\ loop[w] \in {"notify", "release"})
                    \/ configWatch = w
  BY DEF OneActiveWatcher
<1>1. w \in Watcher
  BY WatchAssumption DEF IInv, Types, Watcher
<1>2. \A t \in Thread : joining[t] = NULL
  BY DEF IInv, Calls
<1> QED
  BY <1>1, <1>2, Threads DEF IInv, Active, Owned, Leaving, NULL

-----------------------------------------------------------------------------
(* The calls of the host.                                                   *)

\* When the host may call, nothing is in progress.
LEMMA Quiet ==
  ASSUME IInv, NEW t \in Thread, MayCall(t)
  PROVE  /\ hostRef /\ ~ freed
         /\ \A u \in Thread : call[u] = "none" /\ joining[u] = NULL /\ ~ destroying[u]
         /\ t \in Watcher => loop[t] = "notify"
  BY DEF IInv, MayCall, Calls, Freed

\* A call begins: the watchers, their contexts and the holders are as before.
LEMMA CallBegins ==
  ASSUME IInv, NEW t \in Thread, MayCall(t), NEW l \in {"none", "reap", "dispose"},
         call' = [call EXCEPT ![t] = l], driverState' \in {"Initialized", "Prepared", "Running"},
         l = "reap" => driverState' # "Initialized",
         driverState' = "Initialized" => driverState = "Initialized",
         UNCHANGED <<ref, hostRef, freed, configWatch, watchVars, joining, destroying>>
  PROVE  IInv'
<1> USE DEF watchVars
<1>1. Types'
  BY DEF IInv, Types
<1>2. Counted'
  BY SameHolders DEF IInv, Holding
<1>3. Calls'
  BY Quiet DEF IInv, Calls, Types
<1>4. Contexts' /\ Active'
  BY DEF IInv, Contexts, Active, Owned, Gone, Leaving
<1>5. Disposed' /\ LetGo' /\ Freed'
  BY Quiet DEF IInv, Disposed, LetGo, Freed
<1> QED
  BY <1>1, <1>2, <1>3, <1>4, <1>5 DEF IInv

\* The host lets go: with a watcher that may still take a reference there are
\* buffers, and then the host is inside that watcher's handler and both together
\* hold the only references.
LEMMA HostReleaseStep == ASSUME IInv, ~ EarlyRelease, NEW t \in Thread, HostRelease(t) PROVE IInv'
<1> USE DEF watchVars
<1>0. /\ UNCHANGED <<freed, driverState, configWatch, watchVars, joining>>
      /\ hostRef' = FALSE /\ Decrement(t) /\ MayCall(t)
      /\ driverState = "Initialized" \/ (t \in Watcher /\ configWatch = t /\ ref = 2)
  BY DEF HostRelease
<1>1. /\ hostRef /\ ~ freed
      /\ t \in Watcher => loop[t] = "notify"
      /\ \A u \in Thread : call[u] = "none" /\ joining[u] = NULL /\ ~ destroying[u]
  BY <1>0, Quiet
<1>2. Host \in Thread /\ Holding(Host)
  BY <1>1 DEF Holding, Thread
<1>3. ref \in Nat /\ ref >= 1 /\ (ref = 1 <=> \A u \in Thread \ {Host} : ~ Holding(u))
  BY <1>2, OneHolds DEF IInv
<1>4. /\ ref' = ref - 1 /\ hostRef' = FALSE
      /\ destroying' = [destroying EXCEPT ![t] = (ref = 1)]
      /\ call' = [call EXCEPT ![t] = IF ref = 1 THEN "stop" ELSE "none"]
  BY <1>0 DEF Decrement, Goto
<1>5. t \in Watcher => Holding(t) /\ t # Host
  <2>1. Host \notin Watcher
    BY Threads DEF Host
  <2> QED
    BY <1>1, <2>1 DEF Holding
<1>6. ref = 1 => t = Host
  BY <1>3, <1>5, Threads DEF Host
<1>7. \A u \in Thread : destroying'[u] <=> u = t /\ ref = 1
  BY <1>1, <1>4 DEF IInv, Types
<1>8. Types'
  <2>1. ref' \in Nat
    BY <1>3, <1>4
  <2>2. destroying' \in [Thread -> BOOLEAN]
    BY <1>4 DEF IInv, Types
  <2> QED
    BY <1>0, <1>4, <2>1, <2>2 DEF IInv, Types
<1>9. Counted'
  <2>1. ~ Holding(Host)' /\ \A u \in Thread \ {Host} : Holding(u)' <=> Holding(u)
    BY <1>0, <1>1, <1>4, <1>6, <1>7 DEF Holding
  <2> QED
    BY <1>2, <1>4, <2>1, OneLess DEF IInv
<1>10. Calls'
  <2>1. \A u \in Thread : call'[u] = IF u = t /\ ref = 1 THEN "stop" ELSE "none"
    BY <1>1, <1>4 DEF IInv, Types
  <2>2. t \in Watcher => ref # 1
    BY <1>5, <1>6
  <2>3. ref = 1 => ref' = 0
    BY <1>4
  <2> QED
    BY <1>0, <1>1, <1>7, <2>1, <2>2, <2>3 DEF Calls
<1>11. Contexts' /\ Active' /\ Disposed'
  BY <1>0, <1>1 DEF IInv, Contexts, Active, Disposed, Owned, Gone, Leaving
<1>12. LetGo'
  <2>1. \A w \in Watcher : Gone(w)' <=> Gone(w)
    BY <1>0 DEF Gone
  <2>2. CASE driverState = "Initialized"
    <3>1. \A w \in Watcher : Gone(w) \/ Leaving(w)
      BY <2>2, Threads DEF IInv, Active, Disposed, Owned, NULL
    <3> QED
      BY <1>0, <2>1, <3>1 DEF LetGo, Leaving
  <2>3. CASE t \in Watcher /\ configWatch = t /\ ref = 2
    <3>1. \A u \in Thread \ {Host, t} : ~ Holding(u)
      BY <1>2, <1>5, <2>3, TwoHold DEF IInv
    <3>2. \A u \in Thread \ {t} : ~ Holding(u)'
      BY <1>0, <1>4, <1>7, <3>1 DEF Holding
    <3>3. \A w \in Watcher \ {t} : Gone(w) \/ Leaving(w)
      BY <1>1, <2>3, Threads DEF IInv, Active, Owned, NULL
    <3>4. loop'[t] = "notify" /\ \A w \in Watcher : Leaving(w)' <=> Leaving(w)
      BY <1>0, <1>1, <2>3 DEF Leaving
    <3> QED
      BY <2>1, <3>2, <3>3, <3>4 DEF LetGo, Leaving
  <2> QED
    BY <1>0, <2>2, <2>3
<1>13. Freed'
  BY <1>0, <1>1 DEF Freed
<1> QED
  BY <1>8, <1>9, <1>10, <1>11, <1>12, <1>13 DEF IInv

LEMMA HostCallStep == ASSUME IInv, ~ EarlyRelease, NEW t \in Thread, HostCall(t) PROVE IInv'
<1>1. CASE CreateBuffers(t)
  BY <1>1, CallBegins DEF CreateBuffers, Goto
<1>2. CASE Start(t) \/ Stop(t)
  <2>1. MayCall(t) /\ call' = [call EXCEPT ![t] = "none"]
    BY <1>2 DEF Start, Stop, callVars, MayCall, IInv, Types
  <2> QED
    BY <1>2, <2>1, CallBegins DEF Start, Stop, callVars
<1>3. CASE DisposeBuffers(t)
  BY <1>3, CallBegins DEF DisposeBuffers, Goto, objVars, IInv, Types
<1>4. CASE HostRelease(t)
  BY <1>4, HostReleaseStep
<1> QED
  BY <1>1, <1>2, <1>3, <1>4 DEF HostCall

-----------------------------------------------------------------------------
(* The steps of a driver call.                                              *)

\* The watcher is detached: it is joined next, or orphaned if it is the caller.
LEMMA StopWatchStep == ASSUME IInv, NEW t \in Thread, StopWatch(t) PROVE IInv'
<1> USE DEF IInv, AfterStop
<1>1. /\ call[t] \in {"reap", "dispose", "close"} /\ joining[t] = NULL /\ configWatch' = NULL
      /\ stopEvent' = [w \in Watcher |-> stopEvent[w] \/ w = configWatch]
      /\ orphaned' = [w \in Watcher |-> orphaned[w] \/ (w = configWatch /\ w = t)]
      /\ UNCHANGED <<ref, hostRef, freed, driverState, spawned, loop, destroying>>
  BY DEF StopWatch
<1>2. /\ call[t] \in {"reap", "dispose", "close"}
      /\ \A u \in Thread \ {t} : call[u] = "none" /\ joining[u] = NULL /\ ~ destroying[u]
  BY <1>1 DEF Calls
<1>3. \/ /\ configWatch = t /\ t \in Watcher
         /\ refs' = [refs EXCEPT ![t] = @ - 1] /\ joining' = joining
         /\ call'[t] \in {"spawn", "teardown", "free"}
      \/ /\ configWatch = NULL /\ refs' = refs /\ joining' = joining
         /\ call'[t] \in {"spawn", "teardown", "free"}
      \/ /\ configWatch # t /\ configWatch # NULL /\ refs' = refs
         /\ joining' = [joining EXCEPT ![t] = configWatch]
         /\ call' = call
  <2>1. CASE configWatch = t /\ t # Host
    <3>1. refs' = [refs EXCEPT ![t] = @ - 1] /\ joining' = joining /\ t \in Watcher
      BY <2>1, Threads DEF StopWatch, Unref, Host
    <3>2. call'[t] \in {"spawn", "teardown", "free"}
      BY <1>1, <2>1 DEF StopWatch, Goto, Types
    <3> QED
      BY <2>1, <3>1, <3>2
  <2>2. CASE ~ (configWatch = t /\ t # Host)
    <3>1. refs' = refs /\ joining' = [joining EXCEPT ![t] = configWatch]
      BY <2>2 DEF StopWatch
    <3>2. CASE configWatch = NULL
      <4>1. call'[t] \in {"spawn", "teardown", "free"}
        BY <1>1, <2>2, <3>2 DEF StopWatch, Goto, Types
      <4>2. joining' = joining
        BY <1>1, <3>1, <3>2 DEF Types
      <4> QED
        BY <3>1, <3>2, <4>1, <4>2
    <3>3. CASE configWatch # NULL
      <4>1. call' = call
        BY <1>1, <2>2, <3>3 DEF StopWatch, Goto, Types
      <4> QED
        BY <2>2, <3>1, <3>3, <4>1 DEF Host, NULL
    <3> QED
      BY <3>2, <3>3
  <2> QED
    BY <2>1, <2>2
<1>4. \A u \in Thread \ {t} : call'[u] = "none" /\ joining'[u] = NULL
  BY <1>2, <1>3 DEF StopWatch, Goto, Types
<1>5. call' \in [Thread -> {"none", "reap", "spawn", "dispose", "teardown", "stop", "close", "free"}]
  BY <1>1 DEF StopWatch, Goto, Types
<1>6. Types'
  BY <1>1, <1>3, <1>5 DEF Types
<1>7. Counted'
  BY <1>1, SameHolders DEF Holding
<1>8. /\ call[t] = "reap" => call'[t] \in {"reap", "spawn"}
      /\ call[t] = "dispose" => call'[t] \in {"dispose", "teardown"}
      /\ call[t] = "close" => call'[t] \in {"close", "free"}
  BY <1>1 DEF StopWatch, Goto, Types
<1>9. configWatch <= spawned
  BY DEF Contexts
<1>10. Calls'
  <2>1. \A u, v \in Thread : call'[u] # "none" /\ call'[v] # "none" => u = v
    BY <1>4
  <2>2. /\ hostRef \/ destroying[t]
        /\ call[t] = "close" => destroying[t]
        /\ call[t] = "reap" => ~ destroying[t] /\ driverState # "Initialized"
        /\ destroying[t] => ref = 0
        /\ t \in Watcher => loop[t] = "notify" \/ (loop[t] = "release" /\ destroying[t])
    BY <1>2 DEF Calls
  <2>3. joining'[t] # NULL => call' = call /\ joining'[t] = configWatch
    BY <1>1, <1>3 DEF Types
  <2> QED
    BY <1>1, <1>2, <1>4, <1>8, <1>9, <2>1, <2>2, <2>3 DEF Calls
<1>11. \A w \in Watcher : Owned(w)' <=> Owned(w) /\ ~ (w = t /\ configWatch = t)
  <2>1. \A w \in Watcher : Owned(w) <=> configWatch = w
    BY <1>1, <1>2, Threads DEF Owned, NULL
  <2>2. \A w \in Watcher : Owned(w)' <=> joining'[t] = w
    BY <1>1, <1>4, Threads DEF Owned, NULL
  <2> QED
    BY <1>1, <1>3, <2>1, <2>2, Threads DEF Types, NULL
<1>12. Contexts'
  <2>1. CASE configWatch = t /\ t \in Watcher
    <3>1. refs' = [refs EXCEPT ![t] = @ - 1] /\ Owned(t)
      BY <1>3, <2>1, Threads DEF NULL, Owned
    <3> QED
      BY <1>1, <1>9, <1>11, <2>1, <3>1, Threads DEF Contexts, Types, NULL
  <2>2. CASE ~ (configWatch = t /\ t \in Watcher)
    <3>1. refs' = refs
      BY <1>3, <2>2
    <3> QED
      BY <1>1, <1>9, <1>11, <2>2, <3>1, WatchAssumption DEF Contexts, Types, NULL
  <2> QED
    BY <2>1, <2>2
<1>13. Active'
  <2>1. \A w \in Watcher : Gone(w) => Gone(w)'
    BY <1>1 DEF Gone
  <2>2. \A w \in Watcher : Leaving(w) => Leaving(w)'
    BY <1>1 DEF Leaving
  <2>3. configWatch = t /\ t \in Watcher => Leaving(t)'
    BY <1>1, <1>2 DEF Leaving, Calls
  <2> QED
    BY <1>11, <2>1, <2>2, <2>3 DEF Active
<1>14. Disposed'
  BY <1>1, <1>3, <1>4, Threads DEF Disposed, Types, NULL
<1>15. LetGo'
  <2>1. \A w \in Watcher : Gone(w) => Gone(w)'
    BY <1>1 DEF Gone
  <2>2. \A u \in Thread : Holding(u)' <=> Holding(u)
    BY <1>1 DEF Holding
  <2> QED
    BY <1>1, <2>1, <2>2 DEF LetGo
<1>16. Freed'
  BY <1>1 DEF Freed, ObjectOutlivesUse
<1> QED
  BY <1>6, <1>7, <1>10, <1>12, <1>13, <1>14, <1>15, <1>16

\* The joined thread has ended; its context loses the owner's reference.
LEMMA JoinWatchStep == ASSUME IInv, NEW t \in Thread, JoinWatch(t) PROVE IInv'
<1> USE DEF IInv, objVars
<1> DEFINE j == joining[t]
<1>1. /\ j \in Watcher /\ loop[j] \in {"exited", "gaveUp"} /\ configWatch = NULL
      /\ call[t] \in {"reap", "dispose", "close"} /\ j <= spawned
  BY DEF JoinWatch, Calls, Types
<1>2. /\ refs' = [refs EXCEPT ![j] = @ - 1] /\ joining' = [joining EXCEPT ![t] = NULL]
      /\ UNCHANGED <<ref, hostRef, freed, driverState, configWatch, spawned, orphaned, stopEvent,
                     loop, destroying>>
  BY DEF JoinWatch, Unref
<1>3. /\ call[t] = "reap" => call'[t] = "spawn"
      /\ call[t] = "dispose" => call'[t] = "teardown"
      /\ call[t] = "close" => call'[t] = "free"
      /\ \A u \in Thread \ {t} : call'[u] = call[u]
      /\ call' \in [Thread -> {"none", "reap", "spawn", "dispose", "teardown", "stop", "close", "free"}]
  BY <1>1 DEF JoinWatch, Goto, AfterStop, Types
<1>4. \A u \in Thread \ {t} : call[u] = "none" /\ joining[u] = NULL
  BY <1>1 DEF Calls
<1>5. Types'
  <2>1. refs' \in [Watcher -> Int] /\ joining' \in [Thread -> {NULL} \cup Watcher]
    BY <1>1, <1>2 DEF Types
  <2> QED
    BY <1>2, <1>3, <2>1 DEF Types
<1>6. Counted'
  BY <1>2, SameHolders DEF Holding
<1>7. \A u \in Thread : joining'[u] = NULL
  BY <1>2, <1>4 DEF Types
<1>8. Calls'
  BY <1>1, <1>2, <1>3, <1>4, <1>7 DEF Calls
<1>9. \A w \in Watcher : (Owned(w) <=> w = j) /\ ~ Owned(w)'
  BY <1>1, <1>2, <1>4, <1>7, Threads DEF Owned, NULL
<1>10. Contexts'
  BY <1>1, <1>2, <1>9 DEF Contexts, Types
<1>11. Active' /\ LetGo'
  BY <1>1, <1>2, <1>9 DEF Active, Gone, Leaving, LetGo, Holding
<1>12. Disposed' /\ Freed'
  BY <1>1, <1>2, <1>3, <1>7 DEF Disposed, Freed, ObjectOutlivesUse, Gone
<1> QED
  BY <1>5, <1>6, <1>8, <1>10, <1>11, <1>12

\* The context of a new watcher has two references.
LEMMA SpawnWatchStep == ASSUME IInv, NEW t \in Thread, SpawnWatch(t) PROVE IInv'
<1> USE DEF IInv
<1> DEFINE n == spawned + 1
<1>1. /\ call[t] = "spawn" /\ configWatch = NULL /\ hostRef /\ driverState # "Initialized"
      /\ \A u \in Thread : ~ destroying[u] /\ joining[u] = NULL
      /\ \A u \in Thread \ {t} : call[u] = "none"
  BY DEF SpawnWatch, Calls
<1>2. n \in Watcher /\ loop[n] = "unborn" /\ n # NULL
  BY WatchAssumption DEF SpawnWatch, Types, Watcher, Contexts, NULL
<1>3. /\ spawned' = n /\ configWatch' = n
      /\ refs' = [refs EXCEPT ![n] = 2] /\ loop' = [loop EXCEPT ![n] = "load"]
      /\ call' = [call EXCEPT ![t] = "none"]
      /\ UNCHANGED <<ref, hostRef, freed, driverState, orphaned, stopEvent, joining, destroying>>
  BY DEF SpawnWatch, WatcherAt, Goto
<1>4. Types'
  BY <1>1, <1>2, <1>3, WatchAssumption DEF Types, Watcher
<1>5. Counted'
  <2>1. \A u \in Thread : Holding(u)' <=> Holding(u)
    BY <1>2, <1>3 DEF Holding, Types, Thread
  <2> QED
    BY <1>3, <2>1, SameHolders
<1>6. Calls'
  BY <1>1, <1>2, <1>3, Threads DEF Calls, Types
<1>7. \A w \in Watcher : ~ Owned(w) /\ (Owned(w)' <=> w = n)
  BY <1>1, <1>2, <1>3, Threads DEF Owned, NULL
<1>8. Contexts'
  <2>1. spawned \in Nat /\ Watcher \subseteq Nat
    BY WatchAssumption DEF Types, Watcher
  <2> QED
    BY <1>2, <1>3, <1>7, <2>1 DEF Contexts, Types
<1>9. Active'
  <2>1. \A w \in Watcher \ {n} : (Gone(w) => Gone(w)') /\ (Leaving(w) => Leaving(w)')
    BY <1>3 DEF Gone, Leaving, Types
  <2> QED
    BY <1>7, <2>1 DEF Active
<1>10. Disposed' /\ LetGo' /\ Freed'
  BY <1>1, <1>3 DEF Disposed, LetGo, Freed
<1> QED
  BY <1>4, <1>5, <1>6, <1>8, <1>9, <1>10

\* A call goes on or returns, and neither owns nor releases a watcher.
LEMMA CallGoesOn ==
  ASSUME IInv, NEW t \in Thread, call[t] # "none",
         NEW l \in {"none", "dispose", "close"}, call' = [call EXCEPT ![t] = l],
         l # "none" => destroying[t], l = "none" => ~ destroying[t],
         driverState' \in {"Initialized", "Prepared", "Running"},
         driverState' = "Initialized" => configWatch = NULL /\ joining[t] = NULL,
         joining[t] = NULL,
         UNCHANGED <<ref, hostRef, freed, configWatch, watchVars, joining, destroying>>
  PROVE  IInv'
<1> USE DEF IInv, watchVars
<1>1. \A u \in Thread \ {t} : call[u] = "none" /\ joining[u] = NULL /\ ~ destroying[u]
  BY DEF Calls
<1>2. \A u \in Thread : call'[u] = IF u = t THEN l ELSE "none"
  BY <1>1 DEF Types
<1>3. Types'
  BY DEF Types
<1>4. Counted'
  BY SameHolders DEF Holding
<1>5. Calls'
  BY <1>1, <1>2 DEF Calls
<1>6. Contexts' /\ Active' /\ LetGo'
  BY DEF Contexts, Active, Owned, Gone, Leaving, LetGo, Holding
<1>7. Disposed'
  BY <1>1 DEF Disposed
<1>8. Freed'
  BY DEF Freed, ObjectOutlivesUse
<1> QED
  BY <1>3, <1>4, <1>5, <1>6, <1>7, <1>8

\* The object is freed with nobody left who would touch it.
LEMMA FreeStep == ASSUME IInv, NEW t \in Thread, Free(t) PROVE IInv'
<1> USE DEF IInv
<1>1. /\ call[t] = "free" /\ destroying[t] /\ ref = 0 /\ configWatch = NULL
      /\ t \in Watcher => loop[t] \in {"notify", "release"}
      /\ \A u \in Thread \ {t} : call[u] = "none" /\ ~ destroying[u]
      /\ \A u \in Thread : joining[u] = NULL
  BY DEF Free, Calls
<1>2. /\ freed' = TRUE /\ destroying' = [destroying EXCEPT ![t] = FALSE]
      /\ call' = [call EXCEPT ![t] = "none"]
      /\ loop' = [w \in Watcher |-> IF w = t THEN "unref" ELSE loop[w]]
      /\ UNCHANGED <<ref, hostRef, driverState, configWatch, spawned, refs, orphaned, stopEvent,
                     joining>>
  BY DEF Free, Goto
<1>3. \A u \in Thread : ~ Holding(u)
  BY <1>1, NoneHolds
<1>4. ~ hostRef
  BY <1>3 DEF Holding, Thread, Host
<1>5. \A u \in Thread : call'[u] = "none" /\ ~ destroying'[u]
  BY <1>1, <1>2 DEF Types
<1>6. Types'
  BY <1>1, <1>2 DEF Types
<1>7. Counted'
  <2>1. \A u \in Thread : ~ Holding(u)'
    BY <1>1, <1>2, <1>3, <1>4, Threads DEF Holding, Types, Host
  <2> QED
    BY <1>2, <1>3, <2>1, SameHolders
<1>8. Calls'
  BY <1>1, <1>2, <1>5 DEF Calls
<1>9. Contexts'
  BY <1>1, <1>2 DEF Contexts, Owned
<1>10. \A w \in Watcher : Gone(w)'
  <2>1. \A w \in Watcher \ {t} : Gone(w)
    <3> TAKE w \in Watcher \ {t}
    <3>1. loop[w] \notin {"notify", "release"}
      BY <1>1, <1>3, Threads DEF Holding, Host
    <3> QED
      BY <1>1, <3>1, Threads DEF Active, Owned, Leaving, NULL
  <2> QED
    BY <1>2, <2>1 DEF Gone
<1>11. Active' /\ LetGo' /\ Freed'
  BY <1>2, <1>4, <1>5, <1>10 DEF Active, LetGo, Freed, ObjectOutlivesUse
<1>12. Disposed'
  BY <1>1, <1>2 DEF Disposed
<1> QED
  BY <1>6, <1>7, <1>8, <1>9, <1>11, <1>12

LEMMA CallStepInv == ASSUME IInv, NEW t \in Thread, CallStep(t) PROVE IInv'
<1> USE DEF IInv, objVars, callVars
<1>1. CASE StopWatch(t) \/ JoinWatch(t) \/ SpawnWatch(t) \/ Free(t)
  BY <1>1, StopWatchStep, JoinWatchStep, SpawnWatchStep, FreeStep
<1>2. CASE SpawnFails(t)
  BY <1>2, CallGoesOn DEF SpawnFails, Goto, Calls, Types
<1>3. CASE Teardown(t)
  <2>1. configWatch = NULL /\ joining[t] = NULL
    BY <1>3 DEF Teardown, Calls
  <2> QED
    BY <1>3, <2>1, CallGoesOn DEF Teardown, Goto, Types
<1>4. CASE DestroyStop(t)
  <2>1. joining[t] = NULL /\ destroying[t]
    BY <1>4 DEF DestroyStop, Calls
  <2>2. driverState' = "Initialized" => driverState = "Initialized"
    BY <1>4 DEF DestroyStop
  <2> QED
    BY <1>4, <2>1, <2>2, CallGoesOn DEF DestroyStop, Goto, Types, Disposed
<1> QED
  BY <1>1, <1>2, <1>3, <1>4 DEF CallStep

-----------------------------------------------------------------------------
(* The steps of a watcher.                                                  *)

\* A watcher moves on without touching a counter.
LEMMA WatcherMoves ==
  ASSUME IInv, NEW w \in Watcher, call[w] = "none",
         NEW l \in {"wait", "check", "addRef", "release", "unref", "gaveUp"},
         loop' = [loop EXCEPT ![w] = l], loop[w] \notin {"unborn", "exited"},
         loop[w] = "notify" <=> l = "release", loop[w] # "release",
         Gone(w) => Gone(w)', ~ hostRef => Gone(w)' \/ loop[w] = "notify",
         UNCHANGED <<objVars, spawned, refs, orphaned, stopEvent, callVars>>
  PROVE  IInv'
<1> USE DEF IInv, objVars, callVars
<1>1. loop'[w] = l /\ \A v \in Watcher \ {w} : loop'[v] = loop[v]
  BY DEF Types
<1>2. ~ destroying[w]
  BY Threads DEF Calls
<1>3. Types'
  BY DEF Types
<1>4. \A u \in Thread : Holding(u)' <=> Holding(u)
  BY <1>1, <1>2, Threads DEF Holding, Host
<1>5. Counted'
  BY <1>4, SameHolders
<1>6. Calls'
  BY <1>1, Threads DEF Calls
<1>7. Contexts'
  BY <1>1 DEF Contexts, Owned
<1>8. \A v \in Watcher \ {w} : (Gone(v)' <=> Gone(v)) /\ (Leaving(v)' <=> Leaving(v))
  BY <1>1 DEF Gone, Leaving
<1>9. Active'
  BY <1>1, <1>8 DEF Active, Owned, Leaving
<1>10. Disposed' /\ Freed'
  BY <1>8 DEF Disposed, Freed, ObjectOutlivesUse
<1>11. LetGo'
  BY <1>1, <1>4, <1>8 DEF LetGo, Gone
<1> QED
  BY <1>3, <1>5, <1>6, <1>7, <1>9, <1>10, <1>11

\* A watcher that runs and is not in a driver call has buffers to notify for.
LEMMA OwnedRuns ==
  ASSUME IInv, NEW w \in Watcher, loop[w] \in {"check", "addRef"}
  PROVE  hostRef /\ Owned(w) /\ ~ destroying[w] /\ call[w] = "none"
         /\ driverState # "Initialized"
  BY Threads DEF IInv, LetGo, Gone, Active, Leaving, Disposed, Owned, Calls, NULL

\* While the host holds its reference the watcher takes one of its own.
LEMMA AddRefStep == ASSUME IInv, NEW w \in Watcher, AddRef(w) PROVE IInv'
<1> USE DEF IInv
<1>1. /\ loop[w] = "addRef" /\ ref' = ref + 1 /\ loop' = [loop EXCEPT ![w] = "notify"]
      /\ UNCHANGED <<hostRef, freed, driverState, configWatch, spawned, refs, orphaned,
                     stopEvent, call, joining, destroying>>
  BY DEF AddRef, WatcherAt, callVars
<1>2. /\ hostRef /\ Owned(w) /\ ~ destroying[w] /\ call[w] = "none"
      /\ \A u \in Thread : ~ destroying[u]
  <2>1. hostRef /\ Owned(w) /\ ~ destroying[w] /\ call[w] = "none"
    BY <1>1, OwnedRuns
  <2>2. Holding(Host) /\ Host \in Thread
    BY <2>1 DEF Holding, Thread
  <2>3. ref # 0
    BY <2>2, OneHolds
  <2> QED
    BY <2>1, <2>3 DEF Calls
<1>3. loop'[w] = "notify" /\ \A v \in Watcher \ {w} : loop'[v] = loop[v]
  BY <1>1 DEF Types
<1>4. Types'
  BY <1>1 DEF Types
<1>5. Counted'
  <2>1. ~ Holding(w) /\ Holding(w)'
    BY <1>1, <1>2, <1>3, Threads DEF Holding, Host
  <2>2. \A u \in Thread \ {w} : Holding(u)' <=> Holding(u)
    BY <1>1, <1>3, Threads DEF Holding, Host
  <2> QED
    BY <1>1, <2>1, <2>2, OneMore, Threads
<1>6. Calls'
  BY <1>1, <1>2, <1>3, Threads DEF Calls
<1>7. Contexts' /\ Active' /\ Disposed'
  BY <1>1, <1>2, <1>3 DEF Contexts, Active, Disposed, Owned, Gone, Leaving
<1>8. LetGo' /\ Freed'
  BY <1>1, <1>2 DEF LetGo, Freed
<1> QED
  BY <1>4, <1>5, <1>6, <1>7, <1>8

\* The watcher drops its reference; the one that finds it the last destroys.
LEMMA ReleaseOwnStep == ASSUME IInv, NEW w \in Watcher, ReleaseOwn(w) PROVE IInv'
<1> USE DEF IInv
<1>1. /\ loop[w] = "release" /\ call[w] = "none" /\ ref' = ref - 1
      /\ destroying' = [destroying EXCEPT ![w] = (ref = 1)]
      /\ call' = [call EXCEPT ![w] = IF ref = 1 THEN "stop" ELSE "none"]
      /\ loop' = [loop EXCEPT ![w] = IF ref = 1 THEN "release"
                                     ELSE IF orphaned[w] THEN "unref" ELSE "wait"]
      /\ UNCHANGED <<hostRef, freed, driverState, configWatch, spawned, refs, orphaned,
                     stopEvent, joining>>
  BY DEF ReleaseOwn, Decrement, Goto, WatcherAt
<1>2. w \in Thread /\ w # Host /\ ~ destroying[w] /\ Holding(w)
  BY <1>1, Threads DEF Holding, Host, Calls
<1>3. ref \in Nat /\ ref >= 1 /\ (ref = 1 <=> \A u \in Thread \ {w} : ~ Holding(u))
  BY <1>2, OneHolds
<1>4. /\ destroying'[w] <=> ref = 1
      /\ \A u \in Thread \ {w} : destroying'[u] = destroying[u] /\ call'[u] = call[u]
      /\ call'[w] = IF ref = 1 THEN "stop" ELSE "none"
  BY <1>1, Threads DEF Types
<1>5. /\ loop'[w] = IF ref = 1 THEN "release" ELSE IF orphaned[w] THEN "unref" ELSE "wait"
      /\ \A v \in Watcher \ {w} : loop'[v] = loop[v]
  BY <1>1 DEF Types
<1>6. Types'
  <2>1. ref' \in Nat
    BY <1>1, <1>3
  <2>2. destroying' \in [Thread -> BOOLEAN]
    BY <1>1 DEF Types
  <2>3. loop' \in [Watcher -> {"unborn", "load", "wait", "check", "addRef", "notify",
                               "release", "unref", "exited", "gaveUp"}]
    BY <1>1 DEF Types
  <2> QED
    BY <1>1, <2>1, <2>2, <2>3 DEF Types
<1>7. \A u \in Thread \ {w} : Holding(u)' <=> Holding(u)
  BY <1>1, <1>4, <1>5, Threads DEF Holding, Host
<1>8. Counted'
  <2>1. ~ Holding(w)'
    BY <1>2, <1>4, <1>5 DEF Holding
  <2> QED
    BY <1>1, <1>2, <1>7, <2>1, OneLess
<1>9. ref = 1 => ~ hostRef /\ \A u \in Thread : call[u] = "none"
  <2>1. ref = 1 => ~ hostRef
    BY <1>2, <1>3 DEF Holding, Thread
  <2> QED
    BY <1>3, <2>1 DEF Calls
<1>10. Calls'
  <2>1. \A u \in Thread : ~ destroying[u]
    BY <1>3 DEF Calls
  <2>2. CASE ref = 1
    <3>1. ref' = 0 /\ call'[w] = "stop" /\ destroying'[w] /\ loop'[w] = "release"
      BY <1>1, <1>4, <1>5, <2>2
    <3>2. \A u \in Thread \ {w} : call'[u] = "none" /\ ~ destroying'[u]
      BY <1>4, <1>9, <2>1, <2>2
    <3>3. \A u \in Thread : joining'[u] = NULL
      BY <1>1, <1>9, <2>2 DEF Calls
    <3> QED
      BY <3>1, <3>2, <3>3 DEF Calls
  <2>3. CASE ref # 1
    <3>1. call' = call /\ \A u \in Thread : ~ destroying'[u]
      BY <1>1, <1>4, <2>1, <2>3 DEF Types
    <3> QED
      BY <1>1, <1>4, <1>5, <2>1, <2>3, <3>1, Threads DEF Calls
  <2> QED
    BY <2>2, <2>3
<1>11. Contexts'
  BY <1>1, <1>5 DEF Contexts, Owned
<1>12. \A v \in Watcher \ {w} : (Gone(v)' <=> Gone(v)) /\ (Leaving(v)' <=> Leaving(v))
  BY <1>1, <1>5 DEF Gone, Leaving
<1>13. Active'
  BY <1>1, <1>5, <1>12 DEF Active, Owned, Gone, Leaving
<1>14. Disposed'
  BY <1>1 DEF Disposed
<1>15. LetGo'
  <2>1. ~ hostRef => \/ Gone(w)'
                     \/ loop'[w] = "release" /\ \A u \in Thread \ {w} : ~ Holding(u)'
    BY <1>1, <1>3, <1>5, <1>7 DEF LetGo, Gone
  <2>2. \A v \in Watcher \ {w} : \A u \in Thread \ {v} : ~ Holding(u) => ~ Holding(u)'
    BY <1>2, <1>7
  <2> QED
    BY <1>1, <1>5, <1>12, <2>1, <2>2 DEF LetGo
<1>16. Freed'
  BY <1>1 DEF Freed, ObjectOutlivesUse, Gone
<1> QED
  BY <1>6, <1>8, <1>10, <1>11, <1>13, <1>14, <1>15, <1>16

\* The thread ends and its context loses the thread's reference.
LEMMA ExitStep == ASSUME IInv, NEW w \in Watcher, Exit(w) PROVE IInv'
<1> USE DEF IInv, objVars, callVars
<1>1. /\ loop[w] = "unref" /\ refs' = [refs EXCEPT ![w] = @ - 1]
      /\ loop' = [loop EXCEPT ![w] = "exited"]
      /\ UNCHANGED <<objVars, spawned, orphaned, stopEvent, callVars>>
  BY DEF Exit, Unref, WatcherAt
<1>2. loop'[w] = "exited" /\ \A v \in Watcher \ {w} : loop'[v] = loop[v]
  BY <1>1 DEF Types
<1>3. Types'
  BY <1>1 DEF Types
<1>4. \A u \in Thread : Holding(u)' <=> Holding(u)
  BY <1>1, <1>2, Threads DEF Holding, Host
<1>5. Counted'
  BY <1>1, <1>4, SameHolders
<1>6. Calls'
  BY <1>1, <1>2, Threads DEF Calls
<1>7. Contexts'
  BY <1>1, <1>2 DEF Contexts, Owned, Types
<1>8. Active' /\ LetGo'
  BY <1>1, <1>2, <1>4 DEF Active, LetGo, Owned, Gone, Leaving
<1>9. Disposed' /\ Freed'
  BY <1>1, <1>2 DEF Disposed, Freed, ObjectOutlivesUse, Gone
<1> QED
  BY <1>3, <1>5, <1>6, <1>7, <1>8, <1>9

LEMMA WatchStepInv == ASSUME IInv, NEW w \in Watcher, WatchStep(w) \/ Poll(w) PROVE IInv'
<1>0. loop[w] \notin {"notify", "release"} => call[w] = "none"
  BY Threads DEF IInv, Calls
<1>1. CASE Load(w)
  <2>1. hostRef
    BY <1>1 DEF Load, IInv, LetGo, Gone
  <2> QED
    BY <1>0, <1>1, <2>1, WatcherMoves DEF Load, WatcherAt, Gone
<1>2. CASE WaitSignalled(w)
  BY <1>0, <1>2, WatcherMoves DEF WaitSignalled, WatcherAt, Gone, IInv, Types
<1>3. CASE CheckRunning(w)
  BY <1>0, <1>3, WatcherMoves, OwnedRuns DEF CheckRunning, WatcherAt, Gone
<1>4. CASE AddRef(w) \/ ReleaseOwn(w) \/ Exit(w)
  BY <1>4, AddRefStep, ReleaseOwnStep, ExitStep
<1>5. CASE NotifyReturns(w)
  BY <1>5, WatcherMoves DEF NotifyReturns, WatcherAt, Gone
<1>6. CASE Poll(w)
  <2>1. hostRef
    BY <1>6 DEF Poll, IInv, LetGo, Gone
  <2> QED
    BY <1>0, <1>6, <2>1, WatcherMoves DEF Poll, WatcherAt, Gone
<1> QED
  BY <1>1, <1>2, <1>3, <1>4, <1>5, <1>6 DEF WatchStep

LEMMA Stutter == ASSUME IInv, UNCHANGED vars PROVE IInv'
<1> USE DEF vars, objVars, watchVars, callVars
<1>1. Types' /\ Counted'
  BY SameHolders DEF IInv, Types, Holding
<1>2. Calls' /\ Contexts' /\ Active' /\ Disposed' /\ LetGo' /\ Freed'
  BY DEF IInv, Calls, Contexts, Active, Disposed, LetGo, Freed, ObjectOutlivesUse, Owned, Gone,
         Leaving, Holding
<1> QED
  BY <1>1, <1>2 DEF IInv

LEMMA Step == ASSUME ~ EarlyRelease PROVE IInv /\ [Next]_vars => IInv'
<1> SUFFICES ASSUME IInv, [Next]_vars PROVE IInv'
  OBVIOUS
<1> QED
  BY HostCallStep, CallStepInv, WatchStepInv, Stutter DEF Next

LEMMA IInvAlways == ASSUME ~ EarlyRelease PROVE Spec => []IInv
<1>1. Init => IInv
  BY InitIInv
<1>2. IInv /\ [Next]_vars => IInv'
  BY Step
<1> QED
  BY <1>1, <1>2, PTL DEF Spec

-----------------------------------------------------------------------------
(* The theorems.                                                            *)

\* Every reachable state is well typed; above all no reference count of a
\* watcher's context leaves 0 .. 2 (asio.c:430, "refs == 2 at spawn").
THEOREM TypeCorrect == ASSUME ~ EarlyRelease PROVE Spec => []TypeOK
<1>1. IInv => TypeOK
  BY TypeFollows
<1> QED
  BY <1>1, IInvAlways, PTL

\* The object's memory is freed when no thread is inside it or will enter it
\* (asio.c:659, Release).
THEOREM ObjectSafe == ASSUME ~ EarlyRelease PROVE Spec => []ObjectOutlivesUse
<1>1. IInv => ObjectOutlivesUse
  BY DEF IInv, Freed, ObjectOutlivesUse
<1> QED
  BY <1>1, IInvAlways, PTL

\* A watcher's context is freed when its thread has left it and nobody will
\* join it (asio.c:430, "cannot leave the thread looping over freed memory").
THEOREM ContextSafe == ASSUME ~ EarlyRelease PROVE Spec => []ContextOutlivesUse
<1>1. IInv => ContextOutlivesUse
  BY ContextFollows
<1> QED
  BY <1>1, IInvAlways, PTL

\* Between driver calls only the watcher the object points to polls for it
\* (asio.c:1442, the reaping in CreateBuffers).
THEOREM OneWatcher == ASSUME ~ EarlyRelease PROVE Spec => []OneActiveWatcher
<1>1. IInv => OneActiveWatcher
  BY OneActiveFollows
<1> QED
  BY <1>1, IInvAlways, PTL

\* A watcher begins to notify only while the host's callbacks are there
\* (asio.c:610, the notification without a lock).
THEOREM NotifySafe == ASSUME ~ EarlyRelease PROVE Spec => NotifyWithBuffers
<1> DEFINE Begins ==
      \A w \in Watcher : loop'[w] = "notify" /\ loop[w] # "notify" => driverState # "Initialized"
<1>1. IInv /\ [Next]_vars => [Begins]_vars
  <2> SUFFICES ASSUME IInv, Next, NEW w \in Watcher, loop'[w] = "notify", loop[w] # "notify"
               PROVE  driverState # "Initialized"
    OBVIOUS
  <2>1. loop[w] = "addRef"
    <3>1. ASSUME NEW t \in Thread, HostCall(t) PROVE loop' = loop
      BY <3>1 DEF HostCall, CreateBuffers, Start, Stop, DisposeBuffers, HostRelease, watchVars
    <3>2. ASSUME NEW t \in Thread, CallStep(t) PROVE loop'[w] \in {loop[w], "load", "unref"}
      <4>1. CASE StopWatch(t) \/ JoinWatch(t) \/ SpawnFails(t) \/ Teardown(t) \/ DestroyStop(t)
        BY <4>1 DEF StopWatch, JoinWatch, SpawnFails, Teardown, DestroyStop, watchVars
      <4>2. CASE SpawnWatch(t) \/ Free(t)
        BY <4>2 DEF SpawnWatch, WatcherAt, Free, IInv, Types
      <4> QED
        BY <3>2, <4>1, <4>2 DEF CallStep
    <3>3. ASSUME NEW v \in Watcher, WatchStep(v) \/ Poll(v) PROVE loop[w] = "addRef"
      BY <3>3 DEF WatchStep, Load, WaitSignalled, CheckRunning, AddRef, NotifyReturns, ReleaseOwn,
                  Exit, Poll, WatcherAt, IInv, Types
    <3> QED
      BY <3>1, <3>2, <3>3 DEF Next
  <2> QED
    BY <2>1, OwnedRuns
<1> QED
  BY <1>1, IInvAlways, PTL DEF Spec, NotifyWithBuffers

-----------------------------------------------------------------------------
(* Nothing is left behind.                                                  *)

\* With no reference left the object is freed, or about to be.
Destroyed ==
    /\ ref = 0 /\ ~ freed => \E t \in Thread : destroying[t]
    /\ freed => configWatch = NULL

LEMMA ReleaseDestroys ==
  ASSUME IInv, NEW t \in Thread, HostRelease(t) \/ (t \in Watcher /\ ReleaseOwn(t))
  PROVE  ref' = 0 => \E u \in Thread : destroying'[u]
<1>1. Holding(Host) \/ Holding(t)
  BY Threads DEF HostRelease, ReleaseOwn, MayCall, Holding, IInv, Calls, Host
<1>2. ref \in Nat /\ ref >= 1
  BY <1>1, OneHolds, Threads DEF IInv, Host
<1>3. ref' = ref - 1 /\ destroying' = [destroying EXCEPT ![t] = (ref = 1)]
  BY DEF HostRelease, ReleaseOwn, Decrement
<1>4. ref' = 0 => ref = 1
  BY <1>2, <1>3
<1>5. ref = 1 => destroying'[t]
  BY <1>3 DEF IInv, Types
<1> QED
  BY <1>4, <1>5

LEMMA DestroyedStep == IInv /\ Destroyed /\ [Next]_vars => Destroyed'
<1> SUFFICES ASSUME IInv, Destroyed, [Next]_vars PROVE Destroyed'
  OBVIOUS
<1> USE DEF Destroyed, objVars, callVars
<1>1. CASE UNCHANGED vars
  BY <1>1 DEF vars
<1>2. ASSUME NEW t \in Thread, HostCall(t) PROVE Destroyed'
  <2>1. CASE CreateBuffers(t) \/ Start(t) \/ Stop(t) \/ DisposeBuffers(t)
    BY <2>1 DEF CreateBuffers, Start, Stop, DisposeBuffers
  <2>2. CASE HostRelease(t)
    BY <2>2, ReleaseDestroys DEF HostRelease
  <2> QED
    BY <1>2, <2>1, <2>2 DEF HostCall
<1>3. ASSUME NEW t \in Thread, CallStep(t) PROVE Destroyed'
  <2>1. CASE StopWatch(t) \/ JoinWatch(t) \/ SpawnFails(t) \/ Teardown(t) \/ DestroyStop(t)
    BY <2>1 DEF StopWatch, JoinWatch, SpawnFails, Teardown, DestroyStop
  <2>2. CASE SpawnWatch(t)
    <3>1. ~ freed
      BY <2>2 DEF SpawnWatch, IInv, Freed, ObjectOutlivesUse
    <3> QED
      BY <2>2, <3>1 DEF SpawnWatch
  <2>3. CASE Free(t)
    BY <2>3 DEF Free, IInv, Calls
  <2> QED
    BY <1>3, <2>1, <2>2, <2>3 DEF CallStep
<1>4. ASSUME NEW w \in Watcher, WatchStep(w) \/ Poll(w) PROVE Destroyed'
  <2>1. CASE Load(w) \/ WaitSignalled(w) \/ CheckRunning(w) \/ NotifyReturns(w) \/ Exit(w) \/ Poll(w)
    BY <2>1 DEF Load, WaitSignalled, CheckRunning, NotifyReturns, Exit, Poll
  <2>2. CASE AddRef(w)
    BY <2>2 DEF AddRef, IInv, Types
  <2>3. CASE ReleaseOwn(w)
    BY <2>3, ReleaseDestroys, Threads DEF ReleaseOwn
  <2> QED
    BY <1>4, <2>1, <2>2, <2>3 DEF WatchStep
<1> QED
  BY <1>1, <1>2, <1>3, <1>4 DEF Next

\* What AllReclaimed says will be so, wherever the threads come to rest: if the
\* host has let go, no call is open and every watcher's thread has ended, the
\* object is destroyed and the contexts are freed, but for that of a thread that
\* gave up (asio.c:430, the references of a context; asio.c:659, Release).
NothingLeft ==
    /\ ~ hostRef
    /\ \A t \in Thread : call[t] = "none"
    /\ \A w \in 1 .. spawned : loop[w] \in {"exited", "gaveUp"}
    => freed /\ \A w \in 1 .. spawned : refs[w] = 0 \/ loop[w] = "gaveUp"

\* Neither the object nor a context is left behind by threads that have ended
\* (asio.c:659, Release; asio.c:622, config_watch_unref).
THEOREM NoLeak == ASSUME ~ EarlyRelease PROVE Spec => []NothingLeft
<1>1. Init => Destroyed
  BY DEF Init, Destroyed
<1>2. IInv /\ Destroyed => NothingLeft
  <2> SUFFICES ASSUME IInv, Destroyed, ~ hostRef, \A t \in Thread : call[t] = "none",
                      \A w \in 1 .. spawned : loop[w] \in {"exited", "gaveUp"}
               PROVE  freed /\ \A w \in 1 .. spawned : refs[w] = 0 \/ loop[w] = "gaveUp"
    BY DEF NothingLeft
  <2>1. \A w \in Watcher : loop[w] \in {"unborn", "exited", "gaveUp"}
    BY WatchAssumption DEF IInv, Types, Contexts, Watcher
  <2>2. \A t \in Thread : ~ Holding(t) /\ ~ destroying[t] /\ joining[t] = NULL
    BY <2>1, Threads DEF Holding, Host, IInv, Calls
  <2>3. ref = 0
    <3>1. Holders = {}
      BY <2>2 DEF Holders
    <3> QED
      BY <3>1, FS_EmptySet DEF IInv, Counted
  <2>4. freed /\ configWatch = NULL
    BY <2>2, <2>3 DEF Destroyed
  <2>5. \A w \in 1 .. spawned : w \in Watcher /\ ~ Owned(w)
    <3>1. \A w \in 1 .. spawned : w \in Watcher /\ w # NULL
      BY WatchAssumption DEF IInv, Types, Watcher, NULL
    <3> QED
      BY <2>2, <2>4, <3>1 DEF Owned
  <2> QED
    BY <2>4, <2>5 DEF IInv, Contexts
<1> QED
  BY <1>1, <1>2, DestroyedStep, IInvAlways, PTL DEF Spec

-----------------------------------------------------------------------------
(* Nobody waits for himself.                                                *)

\* What DisposeReturns relies on: a thread that joins a watcher is not that
\* watcher, its stop event is set, and it is in no driver call of its own, so
\* neither waits for the other (asio.c:631, stop_config_watch).
JoinEnds ==
    \A t \in Thread : joining[t] # NULL =>
        joining[t] # t /\ stopEvent[joining[t]] /\ call[joining[t]] = "none"

Signalled == \A t \in Thread : joining[t] # NULL => joining[t] # t /\ stopEvent[joining[t]]

LEMMA SignalledStep == IInv /\ Signalled /\ [Next]_vars => Signalled'
<1> SUFFICES ASSUME IInv, Signalled, [Next]_vars PROVE Signalled'
  OBVIOUS
<1> USE DEF Signalled, objVars, watchVars, callVars, IInv, Types
<1>1. CASE UNCHANGED vars
  BY <1>1 DEF vars
<1>2. ASSUME NEW t \in Thread, HostCall(t) PROVE Signalled'
  BY <1>2 DEF HostCall, CreateBuffers, Start, Stop, DisposeBuffers, HostRelease
<1>3. ASSUME NEW t \in Thread, CallStep(t) PROVE Signalled'
  <2>1. CASE StopWatch(t)
    <3>1. /\ joining' = joining \/ joining' = [joining EXCEPT ![t] = configWatch]
          /\ joining' = joining \/ configWatch # t \/ t = Host
      BY <2>1 DEF StopWatch
    <3>2. \A w \in Watcher : stopEvent'[w] = (stopEvent[w] \/ w = configWatch)
      BY <2>1 DEF StopWatch
    <3>3. CASE joining' = joining
      BY <3>2, <3>3, Threads DEF NULL
    <3>4. CASE joining' = [joining EXCEPT ![t] = configWatch] /\ (configWatch # t \/ t = Host)
      <4>1. joining'[t] = configWatch /\ \A u \in Thread \ {t} : joining'[u] = joining[u]
        BY <3>4
      <4>2. configWatch # NULL => configWatch # t /\ stopEvent'[configWatch]
        BY <3>2, <3>4, Threads DEF NULL, Host
      <4>3. \A u \in Thread \ {t} :
              joining'[u] # NULL => joining'[u] # u /\ stopEvent'[joining'[u]]
        BY <3>2, <4>1, Threads DEF NULL
      <4> QED
        BY <4>1, <4>2, <4>3
    <3> QED
      BY <3>1, <3>3, <3>4
  <2>2. CASE JoinWatch(t)
    BY <2>2 DEF JoinWatch
  <2>3. CASE SpawnWatch(t) \/ SpawnFails(t) \/ Teardown(t) \/ DestroyStop(t) \/ Free(t)
    BY <2>3 DEF SpawnWatch, SpawnFails, Teardown, DestroyStop, Free
  <2> QED
    BY <1>3, <2>1, <2>2, <2>3 DEF CallStep
<1>4. ASSUME NEW w \in Watcher, WatchStep(w) \/ Poll(w) PROVE Signalled'
  BY <1>4 DEF WatchStep, Load, WaitSignalled, CheckRunning, AddRef, NotifyReturns, ReleaseOwn,
              Exit, Poll
<1> QED
  BY <1>1, <1>2, <1>3, <1>4 DEF Next

\* stop_config_watch never waits for a watcher that waits for it (asio.c:637).
THEOREM NoSelfJoin == ASSUME ~ EarlyRelease PROVE Spec => []JoinEnds
<1>1. Init => Signalled
  BY DEF Init, Signalled
<1>2. IInv /\ Signalled => JoinEnds
  <2> SUFFICES ASSUME IInv, Signalled, NEW t \in Thread, joining[t] # NULL
               PROVE  joining[t] # t /\ stopEvent[joining[t]] /\ call[joining[t]] = "none"
    BY DEF JoinEnds
  <2>1. joining[t] \in Thread /\ call[t] # "none"
    BY Threads DEF IInv, Types, Calls
  <2> QED
    BY <2>1 DEF Signalled, IInv, Calls
<1> QED
  BY <1>1, <1>2, SignalledStep, IInvAlways, PTL DEF Spec
=============================================================================
