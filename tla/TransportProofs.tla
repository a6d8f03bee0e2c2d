-------------------------- MODULE TransportProofs --------------------------
(***************************************************************************)
(* Safety of the streaming core for any number of output channels, any set *)
(* of channel selections and any number of cycles.                         *)
(***************************************************************************)
EXTENDS Transport, TLAPS

\* How the host thread's place in a call, the driver state and the data
\* thread fit together: the loop runs from audio_activate to the join of
\* audio_deactivate, inside the life of the buffer and the callback table.
Phases ==
    /\ InCycle => driverState # "Initialized"
    /\ rtPc # "stopped" => buffer /\ callbacks
    /\ hostPc \in {"idle", "readSamples"} /\ driverState = "Initialized" => rtPc = "stopped"
    /\ hostPc \in {"activate", "bind", "abort"} => driverState = "Initialized"
    /\ hostPc \in {"activate", "abort", "free"} => rtPc = "stopped"
    /\ hostPc \in {"activate", "bind"} => buffer /\ callbacks
    /\ hostPc = "bind" => rtPc = "idle"
    /\ hostPc \in {"load", "store", "stamp", "swap", "join", "free"} => driverState = "Prepared"
    /\ hostPc = "started" => driverState = "Running"
    /\ driverState # "Initialized" /\ hostPc # "free" => rtPc # "stopped"

\* A bufferSwitch that began after Stop is the last one of its cycle.
LateSwaps ==
    /\ lateSwaps \in {0, 1}
    /\ driverState = "Running" => lateSwaps = 0
    /\ lateSwaps = 1 => rtPc \in {"stopped", "idle", "swap", "toggle"}

\* Where the index, the halves of the cycle and the last half stand.
Halves ==
    ~raced =>
        /\ hostPc \in {"load", "store", "stamp", "swap"} => ~InCycle
        /\ hostPc \in {"store", "stamp", "swap"} => lastHalf = index
        /\ rtPc = "idle" /\ driverState = "Running" => lastHalf # index
        /\ rtPc \in {"gather", "arg", "load", "store", "stamp", "call"} => lastHalf # index
        /\ rtPc \in {"swap", "toggle"} => lastHalf = index
        /\ rtPc \notin {"stopped", "idle", "gather"} => rt.gather = index
        /\ rtPc \notin {"stopped", "idle", "gather", "arg"} => rt.switch = index
        /\ rtPc = "toggle" => rt.scatter = index

\* The position is never behind its stamp, in the store or in a reader.
Positions ==
    ~raced =>
        /\ stampPos <= samples
        /\ rtPc = "store" => rt.samples = samples + 1
        /\ rtPc = "stamp" => rt.samples = samples
        /\ hostPc \in {"store", "stamp"} => hostSamples = samples
        /\ hostPc = "readSamples" => got.pos <= samples

IInv == TypeOK /\ Phases /\ LateSwaps /\ Halves /\ Positions

-----------------------------------------------------------------------------

\* Every step keeps every variable in its type.
LEMMA TypeStep == TypeOK /\ [Next]_vars => TypeOK'
<1> SUFFICES ASSUME TypeOK, [Next]_vars
             PROVE  TypeOK'
  OBVIOUS
<1> USE DEF TypeOK, Outs, Half, InCycle, vars, bufVars, hostVars, rtVars, ghostVars
<1>1. CASE CreateBuffers
  BY <1>1, TransportAssumption DEF CreateBuffers
<1>2. CASE Start
  BY <1>2 DEF Start
<1>3. CASE Stop
  BY <1>3 DEF Stop
<1>4. CASE ReadStamp
  BY <1>4 DEF ReadStamp
<1>5. CASE DisposeBuffers
  BY <1>5 DEF DisposeBuffers
<1>6. CASE Activate
  BY <1>6 DEF Activate
<1>7. CASE Bound
  BY <1>7 DEF Bound
<1>8. CASE BindFails
  BY <1>8 DEF BindFails
<1>9. CASE AbortCreate
  BY <1>9 DEF AbortCreate
<1>10. CASE PrimeLoad
  BY <1>10 DEF PrimeLoad
<1>11. CASE PrimeStore
  BY <1>11 DEF PrimeStore
<1>12. CASE PrimeStamp
  BY <1>12 DEF PrimeStamp
<1>13. CASE StartRunning
  BY <1>13 DEF StartRunning
<1>14. CASE StartReturns
  BY <1>14 DEF StartReturns
<1>15. CASE ReadSamples
  BY <1>15 DEF ReadSamples
<1>16. CASE JoinDataLoop
  BY <1>16 DEF JoinDataLoop
<1>17. CASE FreeBuffers
  BY <1>17 DEF FreeBuffers
<1>18. CASE SilentCycle
  BY <1>18 DEF SilentCycle
<1>19. CASE BeginCycle
  BY <1>19 DEF BeginCycle
<1>20. CASE Gather
  BY <1>20 DEF Gather
<1>21. CASE SwitchArg
  BY <1>21 DEF SwitchArg
<1>22. CASE LoadSamples
  BY <1>22 DEF LoadSamples
<1>23. CASE StoreSamples
  BY <1>23 DEF StoreSamples
<1>24. CASE StoreStamp
  BY <1>24 DEF StoreStamp
<1>25. CASE Swap
  BY <1>25 DEF Swap
<1>26. CASE Scatter
  BY <1>26 DEF Scatter
<1>27. CASE Toggle
  BY <1>27 DEF Toggle
<1>28. CASE UNCHANGED vars
  BY <1>28
<1> QED
  BY <1>1, <1>2, <1>3, <1>4, <1>5, <1>6, <1>7, <1>8, <1>9, <1>10,
     <1>11, <1>12, <1>13, <1>14, <1>15, <1>16, <1>17, <1>18, <1>19,
     <1>20, <1>21, <1>22, <1>23, <1>24, <1>25, <1>26, <1>27, <1>28
     DEF Next, HostCalls, HostInCall, RtInCycle

\* Every step keeps the phases: the data loop is joined before the memory goes.
LEMMA PhasesStep == TypeOK /\ Phases /\ [Next]_vars => Phases'
<1> SUFFICES ASSUME TypeOK, Phases, [Next]_vars
             PROVE  Phases'
  OBVIOUS
<1> USE DEF TypeOK, Phases, InCycle, vars, bufVars, hostVars, rtVars, ghostVars
<1>1. CASE CreateBuffers
  BY <1>1 DEF CreateBuffers
<1>2. CASE Start
  BY <1>2 DEF Start
<1>3. CASE Stop
  BY <1>3 DEF Stop
<1>4. CASE ReadStamp
  BY <1>4 DEF ReadStamp
<1>5. CASE DisposeBuffers
  BY <1>5 DEF DisposeBuffers
<1>6. CASE Activate
  BY <1>6 DEF Activate
<1>7. CASE Bound
  BY <1>7 DEF Bound
<1>8. CASE BindFails
  BY <1>8 DEF BindFails
<1>9. CASE AbortCreate
  BY <1>9 DEF AbortCreate
<1>10. CASE PrimeLoad
  BY <1>10 DEF PrimeLoad
<1>11. CASE PrimeStore
  BY <1>11 DEF PrimeStore
<1>12. CASE PrimeStamp
  BY <1>12 DEF PrimeStamp
<1>13. CASE StartRunning
  BY <1>13 DEF StartRunning
<1>14. CASE StartReturns
  BY <1>14 DEF StartReturns
<1>15. CASE ReadSamples
  BY <1>15 DEF ReadSamples
<1>16. CASE JoinDataLoop
  BY <1>16 DEF JoinDataLoop
<1>17. CASE FreeBuffers
  BY <1>17 DEF FreeBuffers
<1>18. CASE SilentCycle
  BY <1>18 DEF SilentCycle
<1>19. CASE BeginCycle
  BY <1>19 DEF BeginCycle
<1>20. CASE Gather
  BY <1>20 DEF Gather
<1>21. CASE SwitchArg
  BY <1>21 DEF SwitchArg
<1>22. CASE LoadSamples
  BY <1>22 DEF LoadSamples
<1>23. CASE StoreSamples
  BY <1>23 DEF StoreSamples
<1>24. CASE StoreStamp
  BY <1>24 DEF StoreStamp
<1>25. CASE Swap
  BY <1>25 DEF Swap
<1>26. CASE Scatter
  BY <1>26 DEF Scatter
<1>27. CASE Toggle
  BY <1>27 DEF Toggle
<1>28. CASE UNCHANGED vars
  BY <1>28
<1> QED
  BY <1>1, <1>2, <1>3, <1>4, <1>5, <1>6, <1>7, <1>8, <1>9, <1>10,
     <1>11, <1>12, <1>13, <1>14, <1>15, <1>16, <1>17, <1>18, <1>19,
     <1>20, <1>21, <1>22, <1>23, <1>24, <1>25, <1>26, <1>27, <1>28
     DEF Next, HostCalls, HostInCall, RtInCycle

\* Every step keeps the late bufferSwitch calls at one.
LEMMA LateSwapsStep == TypeOK /\ LateSwaps /\ [Next]_vars => LateSwaps'
<1> SUFFICES ASSUME TypeOK, LateSwaps, [Next]_vars
             PROVE  LateSwaps'
  OBVIOUS
<1> USE DEF TypeOK, LateSwaps, vars, bufVars, hostVars, rtVars, ghostVars
<1>1. CASE CreateBuffers
  BY <1>1 DEF CreateBuffers
<1>2. CASE Start
  BY <1>2 DEF Start
<1>3. CASE Stop
  BY <1>3 DEF Stop
<1>4. CASE ReadStamp
  BY <1>4 DEF ReadStamp
<1>5. CASE DisposeBuffers
  BY <1>5 DEF DisposeBuffers
<1>6. CASE Activate
  BY <1>6 DEF Activate
<1>7. CASE Bound
  BY <1>7 DEF Bound
<1>8. CASE BindFails
  BY <1>8 DEF BindFails
<1>9. CASE AbortCreate
  BY <1>9 DEF AbortCreate
<1>10. CASE PrimeLoad
  BY <1>10 DEF PrimeLoad
<1>11. CASE PrimeStore
  BY <1>11 DEF PrimeStore
<1>12. CASE PrimeStamp
  BY <1>12 DEF PrimeStamp
<1>13. CASE StartRunning
  BY <1>13 DEF StartRunning
<1>14. CASE StartReturns
  BY <1>14 DEF StartReturns
<1>15. CASE ReadSamples
  BY <1>15 DEF ReadSamples
<1>16. CASE JoinDataLoop
  BY <1>16 DEF JoinDataLoop
<1>17. CASE FreeBuffers
  BY <1>17 DEF FreeBuffers
<1>18. CASE SilentCycle
  BY <1>18 DEF SilentCycle
<1>19. CASE BeginCycle
  BY <1>19 DEF BeginCycle
<1>20. CASE Gather
  BY <1>20 DEF Gather
<1>21. CASE SwitchArg
  BY <1>21 DEF SwitchArg
<1>22. CASE LoadSamples
  BY <1>22 DEF LoadSamples
<1>23. CASE StoreSamples
  BY <1>23 DEF StoreSamples
<1>24. CASE StoreStamp
  BY <1>24 DEF StoreStamp
<1>25. CASE Swap
  BY <1>25 DEF Swap
<1>26. CASE Scatter
  BY <1>26 DEF Scatter
<1>27. CASE Toggle
  BY <1>27 DEF Toggle
<1>28. CASE UNCHANGED vars
  BY <1>28
<1> QED
  BY <1>1, <1>2, <1>3, <1>4, <1>5, <1>6, <1>7, <1>8, <1>9, <1>10,
     <1>11, <1>12, <1>13, <1>14, <1>15, <1>16, <1>17, <1>18, <1>19,
     <1>20, <1>21, <1>22, <1>23, <1>24, <1>25, <1>26, <1>27, <1>28
     DEF Next, HostCalls, HostInCall, RtInCycle

\* Every step keeps the halves agreeing and alternating.
LEMMA HalvesStep == TypeOK /\ Phases /\ Halves /\ [Next]_vars => Halves'
<1> SUFFICES ASSUME TypeOK, Phases, Halves, [Next]_vars
             PROVE  Halves'
  OBVIOUS
<1> USE DEF TypeOK, Phases, Halves, InCycle, Half, vars, bufVars, hostVars, rtVars, ghostVars
<1>1. CASE CreateBuffers
  BY <1>1 DEF CreateBuffers
<1>2. CASE Start
  BY <1>2 DEF Start
<1>3. CASE Stop
  BY <1>3 DEF Stop
<1>4. CASE ReadStamp
  BY <1>4 DEF ReadStamp
<1>5. CASE DisposeBuffers
  BY <1>5 DEF DisposeBuffers
<1>6. CASE Activate
  BY <1>6 DEF Activate
<1>7. CASE Bound
  BY <1>7 DEF Bound
<1>8. CASE BindFails
  BY <1>8 DEF BindFails
<1>9. CASE AbortCreate
  BY <1>9 DEF AbortCreate
<1>10. CASE PrimeLoad
  BY <1>10 DEF PrimeLoad
<1>11. CASE PrimeStore
  BY <1>11 DEF PrimeStore
<1>12. CASE PrimeStamp
  BY <1>12 DEF PrimeStamp
<1>13. CASE StartRunning
  BY <1>13 DEF StartRunning
<1>14. CASE StartReturns
  BY <1>14 DEF StartReturns
<1>15. CASE ReadSamples
  BY <1>15 DEF ReadSamples
<1>16. CASE JoinDataLoop
  BY <1>16 DEF JoinDataLoop
<1>17. CASE FreeBuffers
  BY <1>17 DEF FreeBuffers
<1>18. CASE SilentCycle
  BY <1>18 DEF SilentCycle
<1>19. CASE BeginCycle
  BY <1>19 DEF BeginCycle
<1>20. CASE Gather
  BY <1>20 DEF Gather
<1>21. CASE SwitchArg
  BY <1>21 DEF SwitchArg
<1>22. CASE LoadSamples
  BY <1>22 DEF LoadSamples
<1>23. CASE StoreSamples
  BY <1>23 DEF StoreSamples
<1>24. CASE StoreStamp
  BY <1>24 DEF StoreStamp
<1>25. CASE Swap
  BY <1>25 DEF Swap
<1>26. CASE Scatter
  BY <1>26 DEF Scatter
<1>27. CASE Toggle
  BY <1>27 DEF Toggle
<1>28. CASE UNCHANGED vars
  BY <1>28
<1> QED
  BY <1>1, <1>2, <1>3, <1>4, <1>5, <1>6, <1>7, <1>8, <1>9, <1>10,
     <1>11, <1>12, <1>13, <1>14, <1>15, <1>16, <1>17, <1>18, <1>19,
     <1>20, <1>21, <1>22, <1>23, <1>24, <1>25, <1>26, <1>27, <1>28
     DEF Next, HostCalls, HostInCall, RtInCycle

\* Every step keeps the position at or past its stamp.
LEMMA PositionsStep == TypeOK /\ Phases /\ Halves /\ Positions /\ [Next]_vars => Positions'
<1> SUFFICES ASSUME TypeOK, Phases, Halves, Positions, [Next]_vars
             PROVE  Positions'
  OBVIOUS
<1> USE DEF TypeOK, Phases, Halves, Positions, InCycle, vars, bufVars, hostVars, rtVars, ghostVars
<1>1. CASE CreateBuffers
  BY <1>1 DEF CreateBuffers
<1>2. CASE Start
  <2>1. ~raced' => rtPc \in {"stopped", "idle"}
    BY <1>2, Zenon DEF Start
  <2>2. stampPos' = 0 /\ samples' = 0 /\ hostPc' = "load" /\ rtPc' = rtPc
    BY <1>2 DEF Start
  <2> QED
    BY <2>1, <2>2
<1>3. CASE Stop
  BY <1>3 DEF Stop
<1>4. CASE ReadStamp
  BY <1>4 DEF ReadStamp
<1>5. CASE DisposeBuffers
  BY <1>5 DEF DisposeBuffers
<1>6. CASE Activate
  BY <1>6 DEF Activate
<1>7. CASE Bound
  BY <1>7 DEF Bound
<1>8. CASE BindFails
  BY <1>8 DEF BindFails
<1>9. CASE AbortCreate
  BY <1>9 DEF AbortCreate
<1>10. CASE PrimeLoad
  BY <1>10 DEF PrimeLoad
<1>11. CASE PrimeStore
  BY <1>11 DEF PrimeStore
<1>12. CASE PrimeStamp
  BY <1>12 DEF PrimeStamp
<1>13. CASE StartRunning
  BY <1>13 DEF StartRunning
<1>14. CASE StartReturns
  BY <1>14 DEF StartReturns
<1>15. CASE ReadSamples
  BY <1>15 DEF ReadSamples
<1>16. CASE JoinDataLoop
  BY <1>16 DEF JoinDataLoop
<1>17. CASE FreeBuffers
  BY <1>17 DEF FreeBuffers
<1>18. CASE SilentCycle
  BY <1>18 DEF SilentCycle
<1>19. CASE BeginCycle
  BY <1>19 DEF BeginCycle
<1>20. CASE Gather
  BY <1>20 DEF Gather
<1>21. CASE SwitchArg
  BY <1>21 DEF SwitchArg
<1>22. CASE LoadSamples
  BY <1>22 DEF LoadSamples
<1>23. CASE StoreSamples
  BY <1>23 DEF StoreSamples
<1>24. CASE StoreStamp
  BY <1>24 DEF StoreStamp
<1>25. CASE Swap
  BY <1>25 DEF Swap
<1>26. CASE Scatter
  BY <1>26 DEF Scatter
<1>27. CASE Toggle
  BY <1>27 DEF Toggle
<1>28. CASE UNCHANGED vars
  BY <1>28
<1> QED
  BY <1>1, <1>2, <1>3, <1>4, <1>5, <1>6, <1>7, <1>8, <1>9, <1>10,
     <1>11, <1>12, <1>13, <1>14, <1>15, <1>16, <1>17, <1>18, <1>19,
     <1>20, <1>21, <1>22, <1>23, <1>24, <1>25, <1>26, <1>27, <1>28
     DEF Next, HostCalls, HostInCall, RtInCycle

-----------------------------------------------------------------------------
\* The five parts together are inductive.
LEMMA Invariance == Spec => []IInv
<1>1. Init => IInv
  <2> SUFFICES ASSUME Init PROVE IInv
    OBVIOUS
  <2>1. TypeOK
    BY DEF Init, TypeOK, Half
  <2>2. Phases
    BY DEF Init, Phases, InCycle
  <2>3. LateSwaps
    BY DEF Init, LateSwaps
  <2>4. Halves
    BY DEF Init, Halves, InCycle
  <2>5. Positions
    BY DEF Init, Positions
  <2> QED
    BY <2>1, <2>2, <2>3, <2>4, <2>5 DEF IInv
<1>2. IInv /\ [Next]_vars => IInv'
  BY TypeStep, PhasesStep, LateSwapsStep, HalvesStep, PositionsStep DEF IInv
<1> QED
  BY <1>1, <1>2, PTL DEF Spec

\* The fair specification adds liveness only.
LEMMA FairInvariance == FairSpec => []IInv
  BY Invariance, PTL DEF FairSpec

\* Every variable keeps its type.
THEOREM TypeCorrect == FairSpec => []TypeOK
<1>1. IInv => TypeOK
  BY DEF IInv
<1> QED
  BY <1>1, FairInvariance, PTL

\* No cycle of the data thread outlives the callback buffer and table
\* DisposeBuffers and a failed CreateBuffers release.
THEOREM CycleMemorySafe == FairSpec => []CycleMemoryLive
<1>1. IInv => CycleMemoryLive
  BY DEF IInv, Phases, CycleMemoryLive, InCycle
<1> QED
  BY <1>1, FairInvariance, PTL

\* At most one bufferSwitch call of the data thread begins after Stop.
THEOREM LateSwapBounded == FairSpec => []AtMostOneLateSwap
<1>1. IInv => AtMostOneLateSwap
  BY DEF IInv, LateSwaps, AtMostOneLateSwap
<1> QED
  BY <1>1, FairInvariance, PTL

\* A cycle uses one half throughout, as long as Start does not overlap a cycle
\* of the run before.
THEOREM HalvesSafe == FairSpec => []OneHalfPerCycle
<1>1. IInv => OneHalfPerCycle
  BY DEF IInv, TypeOK, Halves, OneHalfPerCycle
<1> QED
  BY <1>1, FairInvariance, PTL

\* The halves the host is handed alternate, under the same condition.
THEOREM HalvesTurn == FairSpec => []HalvesAlternate
<1>1. IInv => HalvesAlternate
  BY DEF IInv, TypeOK, Halves, HalvesAlternate
<1> QED
  BY <1>1, FairInvariance, PTL

\* GetSamplePosition never returns a position older than its stamp.
THEOREM PositionOrdered == FairSpec => PositionNotOlderThanStamp
<1>1. IInv /\ [Next]_vars => [ReadSamples /\ ~raced => samples >= got.pos]_vars
  BY DEF IInv, TypeOK, Positions, ReadSamples
<1> QED
  BY <1>1, FairInvariance, PTL DEF FairSpec, Spec, PositionNotOlderThanStamp
=============================================================================
