------------------------- MODULE Wow64BridgeProofs -------------------------
(***************************************************************************)
(* The bridge implements CycleOutput, and one late bufferSwitch of the     *)
(* host is harmless, for any number of events.                             *)
(***************************************************************************)
EXTENDS Wow64Bridge, TLAPS

\* The pump has taken an event and not yet finished with it.
Busy == pumpPc \in {"dispatch", "call", "reply"}

\* The pump is to call, or is calling, the host's bufferSwitch.
Switching == pumpPc \in {"dispatch", "call"} /\ w.kind = "switch"

\* Host-thread phases against the other threads: the data loop runs only
\* outside activation and teardown, and never on a bridge that is shut down.
Phases ==
    /\ rtPc # "off" => hostPc \in {"idle", "joinRt"} /\ ~shutdown /\ installed
    /\ hostPc \in {"spawn", "activate"} => ~shutdown /\ installed
    /\ hostPc = "joinRt" => rtPc # "off"
    /\ hostPc \in {"freeing", "closed"} => shutdown
    /\ hostPc \in {"close", "freeing", "closed"} => pumpPc = "none"
    /\ hostPc = "closed" => auxPc = "idle"

\* prod_mutex belongs to the producer in its wait, and so does the slot.
Owner ==
    /\ prodOwner = "rt" <=> rtPc = "wait"
    /\ prodOwner = "aux" <=> auxPc = "wait"
    /\ pending => prodOwner # "none"
    /\ prodOwner = "aux" => evt.kind = "aux"
    /\ rtPc = "wait" => pending /\ seq # 0 /\ rtSeq = seq
                        /\ evt.seq = seq /\ evt.kind = "switch" /\ evt.half = half
    /\ rtPc = "lock" => rtSeq = 0

\* Event numbers only grow, and the pump handles events in their order.
Order ==
    /\ evt.seq <= seq /\ w.seq <= seq /\ hostDone <= seq /\ rtSeq <= seq
    /\ pending => evt.seq = seq
    /\ pending /\ ~delivered => hostDone < seq /\ (Busy => w.seq < seq)
    /\ pumpPc \in {"dispatch", "call"} => hostDone < w.seq
    /\ pumpPc = "reply" /\ r => hostDone = w.seq /\ w.kind = "switch"
    /\ Busy /\ w.kind = "switch" /\ rtSeq # 0 => w.seq <= rtSeq

\* A reply counts for the waiting cycle only, and tells the truth about it.
Reply ==
    /\ rtPc = "wait" /\ ~delivered => ~replyReady
    /\ rtPc = "wait" /\ replyReady => ~Busy /\ (produced => hostDone = rtSeq)
    /\ rtPc = "scatter" /\ rtProduced =>
         hostDone = rtSeq /\ rtSeq # 0 /\ (Busy => w.kind = "aux")

\* How far behind a bufferSwitch still running is.
Lateness ==
    Switching =>
        /\ rtPc = "off" => hostPc \in {"shutdown", "joinPump"}
        /\ rtPc \in {"wait", "scatter"} /\ w.seq = rtSeq => w.half = half
        /\ rtPc \in {"idle", "lock"} \/ (rtPc \in {"wait", "scatter"} /\ w.seq # rtSeq)
             => misses >= 1 /\ (misses = 1 => w.half # half)

IInv == TypeOK /\ Phases /\ Owner /\ Order /\ Reply /\ Lateness

-----------------------------------------------------------------------------

\* TypeOK in three parts: flags, program counters, and data.
FlagTypes ==
    /\ pending \in BOOLEAN /\ delivered \in BOOLEAN
    /\ replyReady \in BOOLEAN /\ shutdown \in BOOLEAN
    /\ produced \in BOOLEAN /\ installed \in BOOLEAN /\ running \in BOOLEAN
    /\ rtProduced \in BOOLEAN /\ r \in BOOLEAN

PcTypes ==
    /\ prodOwner \in {"none", "rt", "aux"}
    /\ rtPc \in {"off", "idle", "lock", "wait", "scatter"}
    /\ auxPc \in {"idle", "wait"}
    /\ pumpPc \in {"none", "check", "asleep", "dispatch", "call", "reply", "exit"}
    /\ hostPc \in {"idle", "install", "spawn", "activate", "joinRt", "shutdown",
                   "joinPump", "closePump", "closeJoin", "close", "freeing", "closed"}

DataTypes ==
    /\ seq \in Nat /\ evt \in Event /\ w \in Event
    /\ half \in Half
    /\ out \in [kind : {"silence", "block"}, half : Half]
    /\ rtSeq \in Nat /\ hostDone \in Nat /\ misses \in Nat

\* Every step keeps the flags Boolean.
LEMMA FlagTypeStep == TypeOK /\ [Next]_vars => FlagTypes'
<1> SUFFICES ASSUME TypeOK, [Next]_vars
             PROVE  FlagTypes'
  OBVIOUS
<1> USE DEF FlagTypes, TypeOK, Half, Event, vars, flagVars, eventVars, rtVars,
       pumpVars
<1>1. CASE RtGather
  BY <1>1 DEF RtGather
<1>2. CASE RtPost
  BY <1>2 DEF RtPost, Post, WakePump
<1>3. CASE RtEndWait
  BY <1>3 DEF RtEndWait, Abandon
<1>4. CASE RtScatter
  BY <1>4 DEF RtScatter
<1>5. CASE AuxPost
  BY <1>5 DEF AuxPost, Post, WakePump
<1>6. CASE AuxEndWait
  BY <1>6 DEF AuxEndWait, Abandon
<1>7. CASE PumpCheck
  BY <1>7 DEF PumpCheck
<1>8. CASE PumpDispatch
  BY <1>8 DEF PumpDispatch
<1>9. CASE PumpReply
  BY <1>9 DEF PumpReply
<1>10. CASE PumpCallReturns
  BY <1>10 DEF PumpCallReturns
<1>11. CASE BindRt
  BY <1>11 DEF BindRt
<1>12. CASE StartStop
  BY <1>12 DEF StartStop
<1>13. CASE Deactivate
  BY <1>13 DEF Deactivate
<1>14. CASE Close
  BY <1>14 DEF Close
<1>15. CASE InstallCallbacks
  BY <1>15 DEF InstallCallbacks
<1>16. CASE SpawnPump
  BY <1>16 DEF SpawnPump
<1>17. CASE ActivateFilter
  BY <1>17 DEF ActivateFilter
<1>18. CASE JoinRt
  BY <1>18 DEF JoinRt
<1>19. CASE BridgeShutdown
  BY <1>19 DEF BridgeShutdown, WakePump
<1>20. CASE JoinPump
  BY <1>20 DEF JoinPump
<1>21. CASE FreeClient
  BY <1>21 DEF FreeClient
<1>22. CASE UNCHANGED vars
  BY <1>22
<1> QED
  BY <1>1, <1>2, <1>3, <1>4, <1>5, <1>6, <1>7, <1>8, <1>9, <1>10, <1>11,
     <1>12, <1>13, <1>14, <1>15, <1>16, <1>17, <1>18, <1>19, <1>20, <1>21,
     <1>22
     DEF Next, RtInCycle, PumpRuns, HostCalls, HostInCall

\* Every step keeps the program counters in their sets.
LEMMA PcTypeStep == TypeOK /\ [Next]_vars => PcTypes'
<1> SUFFICES ASSUME TypeOK, [Next]_vars
             PROVE  PcTypes'
  OBVIOUS
<1> USE DEF PcTypes, TypeOK, Half, Event, vars, flagVars, eventVars, rtVars,
       pumpVars
<1>1. CASE RtGather
  BY <1>1 DEF RtGather
<1>2. CASE RtPost
  BY <1>2 DEF RtPost, Post, WakePump
<1>3. CASE RtEndWait
  BY <1>3 DEF RtEndWait, Abandon
<1>4. CASE RtScatter
  BY <1>4 DEF RtScatter
<1>5. CASE AuxPost
  BY <1>5 DEF AuxPost, Post, WakePump
<1>6. CASE AuxEndWait
  BY <1>6 DEF AuxEndWait, Abandon
<1>7. CASE PumpCheck
  BY <1>7 DEF PumpCheck
<1>8. CASE PumpDispatch
  BY <1>8 DEF PumpDispatch
<1>9. CASE PumpReply
  BY <1>9 DEF PumpReply
<1>10. CASE PumpCallReturns
  BY <1>10 DEF PumpCallReturns
<1>11. CASE BindRt
  BY <1>11 DEF BindRt
<1>12. CASE StartStop
  BY <1>12 DEF StartStop
<1>13. CASE Deactivate
  BY <1>13 DEF Deactivate
<1>14. CASE Close
  BY <1>14 DEF Close
<1>15. CASE InstallCallbacks
  BY <1>15 DEF InstallCallbacks
<1>16. CASE SpawnPump
  BY <1>16 DEF SpawnPump
<1>17. CASE ActivateFilter
  BY <1>17 DEF ActivateFilter
<1>18. CASE JoinRt
  BY <1>18 DEF JoinRt
<1>19. CASE BridgeShutdown
  BY <1>19 DEF BridgeShutdown, WakePump
<1>20. CASE JoinPump
  BY <1>20 DEF JoinPump
<1>21. CASE FreeClient
  BY <1>21 DEF FreeClient
<1>22. CASE UNCHANGED vars
  BY <1>22
<1> QED
  BY <1>1, <1>2, <1>3, <1>4, <1>5, <1>6, <1>7, <1>8, <1>9, <1>10, <1>11,
     <1>12, <1>13, <1>14, <1>15, <1>16, <1>17, <1>18, <1>19, <1>20, <1>21,
     <1>22
     DEF Next, RtInCycle, PumpRuns, HostCalls, HostInCall

\* Every step keeps the data in its type.
LEMMA DataTypeStep == TypeOK /\ [Next]_vars => DataTypes'
<1> SUFFICES ASSUME TypeOK, [Next]_vars
             PROVE  DataTypes'
  OBVIOUS
<1> USE DEF DataTypes, TypeOK, Half, Event, vars, flagVars, eventVars, rtVars,
       pumpVars
<1>1. CASE RtGather
  BY <1>1 DEF RtGather
<1>2. CASE RtPost
  BY <1>2 DEF RtPost, Post, WakePump
<1>3. CASE RtEndWait
  BY <1>3 DEF RtEndWait, Abandon
<1>4. CASE RtScatter
  BY <1>4 DEF RtScatter
<1>5. CASE AuxPost
  BY <1>5 DEF AuxPost, Post, WakePump
<1>6. CASE AuxEndWait
  BY <1>6 DEF AuxEndWait, Abandon
<1>7. CASE PumpCheck
  BY <1>7 DEF PumpCheck
<1>8. CASE PumpDispatch
  BY <1>8 DEF PumpDispatch
<1>9. CASE PumpReply
  BY <1>9 DEF PumpReply
<1>10. CASE PumpCallReturns
  BY <1>10 DEF PumpCallReturns
<1>11. CASE BindRt
  BY <1>11 DEF BindRt
<1>12. CASE StartStop
  BY <1>12 DEF StartStop
<1>13. CASE Deactivate
  BY <1>13 DEF Deactivate
<1>14. CASE Close
  BY <1>14 DEF Close
<1>15. CASE InstallCallbacks
  BY <1>15 DEF InstallCallbacks
<1>16. CASE SpawnPump
  BY <1>16 DEF SpawnPump
<1>17. CASE ActivateFilter
  BY <1>17 DEF ActivateFilter
<1>18. CASE JoinRt
  BY <1>18 DEF JoinRt
<1>19. CASE BridgeShutdown
  BY <1>19 DEF BridgeShutdown, WakePump
<1>20. CASE JoinPump
  BY <1>20 DEF JoinPump
<1>21. CASE FreeClient
  BY <1>21 DEF FreeClient
<1>22. CASE UNCHANGED vars
  BY <1>22
<1> QED
  BY <1>1, <1>2, <1>3, <1>4, <1>5, <1>6, <1>7, <1>8, <1>9, <1>10, <1>11,
     <1>12, <1>13, <1>14, <1>15, <1>16, <1>17, <1>18, <1>19, <1>20, <1>21,
     <1>22
     DEF Next, RtInCycle, PumpRuns, HostCalls, HostInCall

\* Every step keeps every variable in its type.
LEMMA TypeStep == TypeOK /\ [Next]_vars => TypeOK'
<1> SUFFICES ASSUME TypeOK, [Next]_vars
             PROVE  TypeOK'
  OBVIOUS
<1>1. FlagTypes' /\ PcTypes' /\ DataTypes'
  BY FlagTypeStep, PcTypeStep, DataTypeStep
<1> QED
  BY <1>1, Zenon DEF TypeOK, FlagTypes, PcTypes, DataTypes

\* The phases of the host thread are kept.
LEMMA PhasesStep == TypeOK /\ Phases /\ [Next]_vars => Phases'
<1> SUFFICES ASSUME TypeOK, Phases, [Next]_vars
             PROVE  Phases'
  OBVIOUS
<1> USE DEF TypeOK, Half, Event, Phases, vars, flagVars, eventVars, rtVars,
       pumpVars
<1>1. CASE RtGather
  BY <1>1 DEF RtGather
<1>2. CASE RtPost
  BY <1>2 DEF RtPost, Post, WakePump
<1>3. CASE RtEndWait
  BY <1>3 DEF RtEndWait, Abandon
<1>4. CASE RtScatter
  BY <1>4 DEF RtScatter
<1>5. CASE AuxPost
  BY <1>5 DEF AuxPost, Post, WakePump
<1>6. CASE AuxEndWait
  BY <1>6 DEF AuxEndWait, Abandon
<1>7. CASE PumpCheck
  BY <1>7 DEF PumpCheck
<1>8. CASE PumpDispatch
  BY <1>8 DEF PumpDispatch
<1>9. CASE PumpReply
  BY <1>9 DEF PumpReply
<1>10. CASE PumpCallReturns
  BY <1>10 DEF PumpCallReturns
<1>11. CASE BindRt
  BY <1>11 DEF BindRt
<1>12. CASE StartStop
  BY <1>12 DEF StartStop
<1>13. CASE Deactivate
  BY <1>13 DEF Deactivate
<1>14. CASE Close
  BY <1>14 DEF Close
<1>15. CASE InstallCallbacks
  BY <1>15 DEF InstallCallbacks
<1>16. CASE SpawnPump
  BY <1>16 DEF SpawnPump
<1>17. CASE ActivateFilter
  BY <1>17 DEF ActivateFilter
<1>18. CASE JoinRt
  BY <1>18 DEF JoinRt
<1>19. CASE BridgeShutdown
  BY <1>19 DEF BridgeShutdown, WakePump
<1>20. CASE JoinPump
  BY <1>20 DEF JoinPump
<1>21. CASE FreeClient
  BY <1>21 DEF FreeClient
<1>22. CASE UNCHANGED vars
  BY <1>22
<1> QED
  BY <1>1, <1>2, <1>3, <1>4, <1>5, <1>6, <1>7, <1>8, <1>9, <1>10, <1>11,
     <1>12, <1>13, <1>14, <1>15, <1>16, <1>17, <1>18, <1>19, <1>20, <1>21,
     <1>22
     DEF Next, RtInCycle, PumpRuns, HostCalls, HostInCall

\* The producers' mutex and the slot stay with the producer in its wait.
LEMMA OwnerStep == TypeOK /\ Phases /\ Owner /\ [Next]_vars => Owner'
<1> SUFFICES ASSUME TypeOK, Phases, Owner, [Next]_vars
             PROVE  Owner'
  OBVIOUS
<1> USE DEF TypeOK, Half, Event, Phases, Owner, vars, flagVars, eventVars,
       rtVars, pumpVars
<1>1. CASE RtGather
  BY <1>1 DEF RtGather
<1>2. CASE RtPost
  BY <1>2 DEF RtPost, Post, WakePump
<1>3. CASE RtEndWait
  BY <1>3 DEF RtEndWait, Abandon
<1>4. CASE RtScatter
  BY <1>4 DEF RtScatter
<1>5. CASE AuxPost
  BY <1>5 DEF AuxPost, Post, WakePump
<1>6. CASE AuxEndWait
  BY <1>6 DEF AuxEndWait, Abandon
<1>7. CASE PumpCheck
  BY <1>7 DEF PumpCheck
<1>8. CASE PumpDispatch
  BY <1>8 DEF PumpDispatch
<1>9. CASE PumpReply
  BY <1>9 DEF PumpReply
<1>10. CASE PumpCallReturns
  BY <1>10 DEF PumpCallReturns
<1>11. CASE BindRt
  BY <1>11 DEF BindRt
<1>12. CASE StartStop
  BY <1>12 DEF StartStop
<1>13. CASE Deactivate
  BY <1>13 DEF Deactivate
<1>14. CASE Close
  BY <1>14 DEF Close
<1>15. CASE InstallCallbacks
  BY <1>15 DEF InstallCallbacks
<1>16. CASE SpawnPump
  BY <1>16 DEF SpawnPump
<1>17. CASE ActivateFilter
  BY <1>17 DEF ActivateFilter
<1>18. CASE JoinRt
  BY <1>18 DEF JoinRt
<1>19. CASE BridgeShutdown
  BY <1>19 DEF BridgeShutdown, WakePump
<1>20. CASE JoinPump
  BY <1>20 DEF JoinPump
<1>21. CASE FreeClient
  BY <1>21 DEF FreeClient
<1>22. CASE UNCHANGED vars
  BY <1>22
<1> QED
  BY <1>1, <1>2, <1>3, <1>4, <1>5, <1>6, <1>7, <1>8, <1>9, <1>10, <1>11,
     <1>12, <1>13, <1>14, <1>15, <1>16, <1>17, <1>18, <1>19, <1>20, <1>21,
     <1>22
     DEF Next, RtInCycle, PumpRuns, HostCalls, HostInCall

\* Event numbers stay ordered.
LEMMA OrderStep == TypeOK /\ Phases /\ Owner /\ Order /\ [Next]_vars => Order'
<1> SUFFICES ASSUME TypeOK, Phases, Owner, Order, [Next]_vars
             PROVE  Order'
  OBVIOUS
<1> USE DEF TypeOK, Half, Event, Phases, Owner, Order, Busy, vars, flagVars,
       eventVars, rtVars, pumpVars
<1>1. CASE RtGather
  BY <1>1 DEF RtGather
<1>2. CASE RtPost
  BY <1>2 DEF RtPost, Post, WakePump
<1>3. CASE RtEndWait
  BY <1>3 DEF RtEndWait, Abandon
<1>4. CASE RtScatter
  BY <1>4 DEF RtScatter
<1>5. CASE AuxPost
  BY <1>5 DEF AuxPost, Post, WakePump
<1>6. CASE AuxEndWait
  BY <1>6 DEF AuxEndWait, Abandon
<1>7. CASE PumpCheck
  BY <1>7 DEF PumpCheck
<1>8. CASE PumpDispatch
  BY <1>8 DEF PumpDispatch
<1>9. CASE PumpReply
  BY <1>9 DEF PumpReply
<1>10. CASE PumpCallReturns
  BY <1>10 DEF PumpCallReturns
<1>11. CASE BindRt
  BY <1>11 DEF BindRt
<1>12. CASE StartStop
  BY <1>12 DEF StartStop
<1>13. CASE Deactivate
  BY <1>13 DEF Deactivate
<1>14. CASE Close
  BY <1>14 DEF Close
<1>15. CASE InstallCallbacks
  BY <1>15 DEF InstallCallbacks
<1>16. CASE SpawnPump
  BY <1>16 DEF SpawnPump
<1>17. CASE ActivateFilter
  BY <1>17 DEF ActivateFilter
<1>18. CASE JoinRt
  BY <1>18 DEF JoinRt
<1>19. CASE BridgeShutdown
  BY <1>19 DEF BridgeShutdown, WakePump
<1>20. CASE JoinPump
  BY <1>20 DEF JoinPump
<1>21. CASE FreeClient
  BY <1>21 DEF FreeClient
<1>22. CASE UNCHANGED vars
  BY <1>22
<1> QED
  BY <1>1, <1>2, <1>3, <1>4, <1>5, <1>6, <1>7, <1>8, <1>9, <1>10, <1>11,
     <1>12, <1>13, <1>14, <1>15, <1>16, <1>17, <1>18, <1>19, <1>20, <1>21,
     <1>22
     DEF Next, RtInCycle, PumpRuns, HostCalls, HostInCall

\* A reply is to the event that waits.
LEMMA ReplyStep == TypeOK /\ Phases /\ Owner /\ Order /\ Reply /\ [Next]_vars => Reply'
<1> SUFFICES ASSUME TypeOK, Phases, Owner, Order, Reply, [Next]_vars
             PROVE  Reply'
  OBVIOUS
<1> USE DEF TypeOK, Half, Event, Phases, Owner, Order, Reply, Busy, vars,
       flagVars, eventVars, rtVars, pumpVars
<1>1. CASE RtGather
  BY <1>1 DEF RtGather
<1>2. CASE RtPost
  BY <1>2 DEF RtPost, Post, WakePump
<1>3. CASE RtEndWait
  BY <1>3 DEF RtEndWait, Abandon
<1>4. CASE RtScatter
  BY <1>4 DEF RtScatter
<1>5. CASE AuxPost
  BY <1>5 DEF AuxPost, Post, WakePump
<1>6. CASE AuxEndWait
  BY <1>6 DEF AuxEndWait, Abandon
<1>7. CASE PumpCheck
  BY <1>7 DEF PumpCheck
<1>8. CASE PumpDispatch
  BY <1>8 DEF PumpDispatch
<1>9. CASE PumpReply
  BY <1>9 DEF PumpReply
<1>10. CASE PumpCallReturns
  BY <1>10 DEF PumpCallReturns
<1>11. CASE BindRt
  BY <1>11 DEF BindRt
<1>12. CASE StartStop
  BY <1>12 DEF StartStop
<1>13. CASE Deactivate
  BY <1>13 DEF Deactivate
<1>14. CASE Close
  BY <1>14 DEF Close
<1>15. CASE InstallCallbacks
  BY <1>15 DEF InstallCallbacks
<1>16. CASE SpawnPump
  BY <1>16 DEF SpawnPump
<1>17. CASE ActivateFilter
  BY <1>17 DEF ActivateFilter
<1>18. CASE JoinRt
  BY <1>18 DEF JoinRt
<1>19. CASE BridgeShutdown
  BY <1>19 DEF BridgeShutdown, WakePump
<1>20. CASE JoinPump
  BY <1>20 DEF JoinPump
<1>21. CASE FreeClient
  BY <1>21 DEF FreeClient
<1>22. CASE UNCHANGED vars
  BY <1>22
<1> QED
  BY <1>1, <1>2, <1>3, <1>4, <1>5, <1>6, <1>7, <1>8, <1>9, <1>10, <1>11,
     <1>12, <1>13, <1>14, <1>15, <1>16, <1>17, <1>18, <1>19, <1>20, <1>21,
     <1>22
     DEF Next, RtInCycle, PumpRuns, HostCalls, HostInCall

\* A late bufferSwitch stays as far behind as Lateness says.
LEMMA LatenessStep ==
  TypeOK /\ Phases /\ Owner /\ Order /\ Reply /\ Lateness /\ [Next]_vars => Lateness'
<1> SUFFICES ASSUME TypeOK, Phases, Owner, Order, Reply, Lateness, [Next]_vars
             PROVE  Lateness'
  OBVIOUS
<1> USE DEF TypeOK, Half, Event, Phases, Owner, Order, Reply, Lateness, Busy,
       Switching, vars, flagVars, eventVars, rtVars, pumpVars
<1>1. CASE RtGather
  BY <1>1 DEF RtGather
<1>2. CASE RtPost
  BY <1>2 DEF RtPost, Post, WakePump
<1>3. CASE RtEndWait
  BY <1>3 DEF RtEndWait, Abandon
<1>4. CASE RtScatter
  BY <1>4 DEF RtScatter
<1>5. CASE AuxPost
  BY <1>5 DEF AuxPost, Post, WakePump
<1>6. CASE AuxEndWait
  BY <1>6 DEF AuxEndWait, Abandon
<1>7. CASE PumpCheck
  BY <1>7 DEF PumpCheck
<1>8. CASE PumpDispatch
  BY <1>8 DEF PumpDispatch
<1>9. CASE PumpReply
  BY <1>9 DEF PumpReply
<1>10. CASE PumpCallReturns
  BY <1>10 DEF PumpCallReturns
<1>11. CASE BindRt
  BY <1>11 DEF BindRt
<1>12. CASE StartStop
  BY <1>12 DEF StartStop
<1>13. CASE Deactivate
  BY <1>13 DEF Deactivate
<1>14. CASE Close
  BY <1>14 DEF Close
<1>15. CASE InstallCallbacks
  BY <1>15 DEF InstallCallbacks
<1>16. CASE SpawnPump
  BY <1>16 DEF SpawnPump
<1>17. CASE ActivateFilter
  BY <1>17 DEF ActivateFilter
<1>18. CASE JoinRt
  BY <1>18 DEF JoinRt
<1>19. CASE BridgeShutdown
  BY <1>19 DEF BridgeShutdown, WakePump
<1>20. CASE JoinPump
  BY <1>20 DEF JoinPump
<1>21. CASE FreeClient
  BY <1>21 DEF FreeClient
<1>22. CASE UNCHANGED vars
  BY <1>22
<1> QED
  BY <1>1, <1>2, <1>3, <1>4, <1>5, <1>6, <1>7, <1>8, <1>9, <1>10, <1>11,
     <1>12, <1>13, <1>14, <1>15, <1>16, <1>17, <1>18, <1>19, <1>20, <1>21,
     <1>22
     DEF Next, RtInCycle, PumpRuns, HostCalls, HostInCall

\* The inductive invariant holds in every behaviour.
LEMMA Invariance == Spec => []IInv
<1>1. Init => IInv
  <2> SUFFICES ASSUME Init
               PROVE  IInv
    OBVIOUS
  <2>1. FlagTypes /\ PcTypes /\ DataTypes
    BY DEF Init, FlagTypes, PcTypes, DataTypes, Half, Event, NoEvent
  <2>2. TypeOK
    BY <2>1, Zenon DEF TypeOK, FlagTypes, PcTypes, DataTypes
  <2>3. Phases /\ Owner
    BY DEF Init, Phases, Owner, NoEvent
  <2>4. Order /\ Reply /\ Lateness
    BY DEF Init, Order, Reply, Lateness, Switching, Busy, NoEvent
  <2> QED
    BY <2>2, <2>3, <2>4 DEF IInv
<1>2. IInv /\ [Next]_vars => IInv'
  BY TypeStep, PhasesStep, OwnerStep, OrderStep, ReplyStep, LatenessStep DEF IInv
<1> QED
  BY <1>1, <1>2, PTL DEF Spec

-----------------------------------------------------------------------------

\* The bridge's variables stay in their types for any number of events.
THEOREM TypeCorrect == Spec => []TypeOK
<1>1. IInv => TypeOK
  BY DEF IInv
<1> QED
  BY <1>1, Invariance, PTL

\* While wow64_rt_process scatters the host's block, the pump is not inside
\* another bufferSwitch of the host.
THEOREM ScatterSafe == Spec => []ScatterUndisturbed
<1>1. IInv => ScatterUndisturbed
  BY DEF IInv, Reply, Busy, ScatterUndisturbed
<1> QED
  BY <1>1, Invariance, PTL

\* One late bufferSwitch never meets the gather of a later cycle in its half.
THEOREM OneMissHarmless == Spec => []ClashNeedsTwoMisses
<1>1. IInv => ClashNeedsTwoMisses
  BY DEF IInv, TypeOK, Lateness, Switching, ClashNeedsTwoMisses
<1> QED
  BY <1>1, Invariance, PTL

\* wow64_close frees the context only after every thread using it has ended.
THEOREM CloseSafe == Spec => []NoThreadAfterClose
<1>1. IInv => NoThreadAfterClose
  BY DEF IInv, Phases, NoThreadAfterClose
<1> QED
  BY <1>1, Invariance, PTL

-----------------------------------------------------------------------------

\* A cycle that begins, or posts its event, has no answer yet.
LEMMA NotAnsweredYet ==
    IInv /\ rtPc = "lock" => ~(rtSeq # 0 /\ hostDone = rtSeq)
BY DEF IInv, Owner

\* Every step of the bridge is a step of CycleOutput, or leaves it unchanged.
LEMMA CycleStep == IInv /\ [Next]_vars => [Cycles!Next]_(Cycles!vars)
<1> SUFFICES ASSUME IInv, [Next]_vars
             PROVE  [Cycles!Next]_(Cycles!vars)
  OBVIOUS
<1> USE DEF Cycles!Next, Cycles!vars
<1>1. CASE RtGather
  <2>1. Cycles!Begin
    BY <1>1 DEF RtGather, Cycles!Begin
  <2> QED
    BY <2>1
<1>2. CASE RtPost
  <2>1. seq + 1 # hostDone
    BY DEF IInv, TypeOK, Order
  <2> QED
    BY <1>2, <2>1, NotAnsweredYet DEF RtPost, Post, eventVars, flagVars, pumpVars
<1>3. CASE RtEndWait
  BY <1>3 DEF RtEndWait, Abandon, pumpVars
<1>4. CASE RtScatter
  <2>1. rtProduced => rtSeq # 0 /\ hostDone = rtSeq
    BY <1>4 DEF IInv, Reply, RtScatter
  <2>2. Cycles!Finish
    BY <1>4, <2>1 DEF RtScatter, Cycles!Finish, pumpVars
  <2> QED
    BY <2>2
<1>5. CASE PumpCallReturns
  <2>1. CASE w.kind = "switch" /\ rtPc \in {"lock", "wait", "scatter"} /\ rtSeq # 0
    <3>1. hostDone # rtSeq
      BY <1>5, <2>1 DEF IInv, TypeOK, Event, Order, Busy, PumpCallReturns
    <3>2. UNCHANGED <<rtPc, rtSeq, half, out>>
      BY <1>5 DEF PumpCallReturns, rtVars
    <3>3. CASE hostDone' = rtSeq
      <4>1. Cycles!Answer
        BY <2>1, <3>2, <3>3 DEF Cycles!Answer
      <4> QED
        BY <4>1
    <3>4. CASE hostDone' # rtSeq
      BY <2>1, <3>1, <3>2, <3>4
    <3> QED
      BY <3>3, <3>4
  <2>2. CASE ~(w.kind = "switch" /\ rtPc \in {"lock", "wait", "scatter"} /\ rtSeq # 0)
    BY <1>5, <2>2 DEF PumpCallReturns, rtVars
  <2> QED
    BY <2>1, <2>2
<1>6. CASE BindRt
  <2>1. Cycles!Rebind
    BY <1>6 DEF BindRt, Cycles!Rebind, rtVars, pumpVars
  <2> QED
    BY <2>1
<1>7. CASE AuxPost
  BY <1>7 DEF AuxPost, Post, rtVars
<1>8. CASE AuxEndWait
  BY <1>8 DEF AuxEndWait, rtVars, pumpVars
<1>9. CASE PumpRuns
  BY <1>9 DEF PumpRuns, PumpCheck, PumpDispatch, PumpReply, rtVars
<1>10. CASE StartStop \/ Deactivate \/ Close
  BY <1>10 DEF StartStop, Deactivate, Close, rtVars, pumpVars
<1>11. CASE InstallCallbacks \/ SpawnPump \/ BridgeShutdown \/ JoinPump \/ FreeClient
  BY <1>11 DEF InstallCallbacks, SpawnPump, BridgeShutdown, JoinPump, FreeClient,
               rtVars, pumpVars
<1>12. CASE ActivateFilter \/ JoinRt
  <2>1. rtPc \in {"off", "idle"}
    BY <1>12 DEF ActivateFilter, JoinRt, IInv, Phases, TypeOK
  <2>2. rtPc' \in {"off", "idle"} /\ UNCHANGED <<half, out>>
    BY <1>12 DEF ActivateFilter, JoinRt
  <2> QED
    BY <2>1, <2>2
<1>13. CASE UNCHANGED vars
  BY <1>13 DEF vars, rtVars, pumpVars
<1> QED
  BY <1>1, <1>2, <1>3, <1>4, <1>5, <1>6, <1>7, <1>8, <1>9, <1>10, <1>11, <1>12, <1>13
     DEF Next, RtInCycle, HostCalls, HostInCall

\* The bridge implements CycleOutput: a cycle plays the block the host
\* computed for that cycle, or silence, never a block that came late.
THEOREM BridgeImplementsCycles == Spec => FreshOrSilent
<1>1. Init => Cycles!Init
  BY DEF Init, Cycles!Init
<1> QED
  BY <1>1, Invariance, CycleStep, PTL DEF Spec, FreshOrSilent, Cycles!Spec
=============================================================================
