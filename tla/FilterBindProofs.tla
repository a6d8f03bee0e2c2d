-------------------------- MODULE FilterBindProofs --------------------------
(***************************************************************************)
(* Proofs about FilterBind, for every set of devices and of ids and for    *)
(* any bounds.                                                             *)
(***************************************************************************)
EXTENDS FilterBind, SequenceTheorems, TLAPS

\* Actions that leave the caches alone.
LEMMA MemoUntouched == ASSUME MemoLive, UNCHANGED cacheVars PROVE MemoLive'
BY DEF MemoLive, cacheVars

\* A removed node takes the memo with it: no device that comes and goes, in
\* whatever order with the driver's calls, leaves audio_cache_port a node that
\* audio_on_registry_global_remove has freed.
THEOREM MemoAlwaysLive == Spec => []MemoLive
<1>1. Init => MemoLive
  BY DEF Init, MemoLive
<1>2. MemoLive /\ [Next]_vars => MemoLive'
  <2> SUFFICES ASSUME MemoLive, [Next]_vars PROVE MemoLive'
    OBVIOUS
  <2>1. CASE UNCHANGED vars
    BY <2>1, MemoUntouched DEF vars
  <2>2. CASE Daemon
    <3>1. UNCHANGED cacheVars
      BY <2>2, Zenon DEF Daemon, Plug, Unplug, SwitchDefault, FilterNodeAppears,
                  FilterPortAppears, OldFilterRemoved
    <3> QED BY <3>1, MemoUntouched
  <2>3. CASE DataThread
    <3>1. UNCHANGED cacheVars
      BY <2>3, Zenon DEF DataThread, FilterBound, FilterError, FilterPauses
    <3> QED BY <3>1, MemoUntouched
  <2>4. CASE BackfillPort \/ DefaultProperty \/ CoreDone
    BY <2>4, MemoUntouched DEF BackfillPort, DefaultProperty, CoreDone, cacheVars
  <2>5. CASE CacheNode
    BY <2>5 DEF CacheNode, MemoLive
  <2>6. CASE CachePort
    BY <2>6 DEF CachePort, MemoLive
  <2>7. CASE RemoveGlobal
    BY <2>7 DEF RemoveGlobal, MemoLive
  <2>8. CASE AdoptOwnPorts
    BY <2>8 DEF AdoptOwnPorts, MemoLive
  <2>9. CASE Activate \/ DisposeBuffers \/ BindFails
    BY <2>9, MemoUntouched DEF Activate, DisposeBuffers, BindFails, Teardown
  <2>10. CASE BindTest \/ Waits \/ TakeNodeId \/ Sync \/ CountPorts
    BY <2>10, MemoUntouched
       DEF BindTest, Waits, BindTimesOut, SettleTimesOut, TakeNodeId, Sync, CountPorts
  <2>11. CASE ListPorts \/ PortByName \/ PortType \/ Connect
    BY <2>11, MemoUntouched DEF ListPorts, PortByName, PortType, Connect
  <2> QED
    BY <2>1, <2>2, <2>3, <2>4, <2>5, <2>6, <2>7, <2>8, <2>9, <2>10, <2>11
       DEF Next, LoopThread, InCall
<1> QED BY <1>1, <1>2, PTL DEF Spec

-----------------------------------------------------------------------------
(* Types.                                                                   *)

\* What the daemon and the core announce.
Announcement ==
    {e \in Event : /\ e.op \in {"node", "port"} => e.id \in Ids /\ e.owner \in Owner
                   /\ e.op = "default" => e.owner \in Devices}

\* An activation that goes on with its rounds has one left.
Rounds ==
    attempt = MaxAttempts =>
        pc \in {"settle", "list", "lookup", "type", "connect", "active", "idle"}

TInv == TypeOK /\ queue \in Seq(Announcement) /\ Rounds

LEMMA AnnouncementTypes ==
  /\ \A n \in Ids, o \in Owner : NodeEvent(n, o) \in Announcement
  /\ \A i \in Ids, n \in Id, o \in Owner : PortEvent(i, n, o) \in Announcement
  /\ \A i \in Ids : RemoveEvent(i) \in Announcement
  /\ \A g \in Global : Removal(g) \in Seq(Announcement)
  /\ \A d \in Devices : [op |-> "default", id |-> 0, node |-> 0, owner |-> d] \in Announcement
  /\ \A n \in Nat : [op |-> "done", id |-> n, node |-> 0, owner |-> None] \in Announcement
<1>1. \A n \in Ids, o \in Owner : NodeEvent(n, o) \in Announcement
  BY FilterAssumption DEF NodeEvent, Announcement, Event, Id
<1>2. \A i \in Ids, n \in Id, o \in Owner : PortEvent(i, n, o) \in Announcement
  BY FilterAssumption DEF PortEvent, Announcement, Event
<1>3. \A i \in Ids : RemoveEvent(i) \in Announcement
  BY FilterAssumption DEF RemoveEvent, Announcement, Event, Id
<1>4. \A g \in Global : Removal(g) \in Seq(Announcement)
  <2> TAKE g \in Global
  <2>1. (g.port # 0 => g.port \in Ids) /\ (g.node # 0 => g.node \in Ids)
    BY DEF Global, Id
  <2>2. (IF g.port # 0 THEN <<RemoveEvent(g.port)>> ELSE <<>>) \in Seq(Announcement)
    BY <1>3, <2>1
  <2>3. (IF g.node # 0 THEN <<RemoveEvent(g.node)>> ELSE <<>>) \in Seq(Announcement)
    BY <1>3, <2>1
  <2> QED
    BY <2>2, <2>3, ConcatProperties DEF Removal
<1>5. \A d \in Devices : [op |-> "default", id |-> 0, node |-> 0, owner |-> d] \in Announcement
  BY DEF Announcement, Event, Id, Owner
<1>6. \A n \in Nat : [op |-> "done", id |-> n, node |-> 0, owner |-> None] \in Announcement
  BY DEF Announcement, Event, Id
<1> QED
  BY <1>1, <1>2, <1>3, <1>4, <1>5, <1>6

LEMMA AnnouncementsTyped == ASSUME queue' \in Seq(Announcement) PROVE queue' \in Seq(Event)
<1>1. Announcement \subseteq Event
  BY DEF Announcement
<1> QED
  BY <1>1, SeqMonotonic

LEMMA InitTypes == Init => TInv
<1> SUFFICES ASSUME Init PROVE TInv
  OBVIOUS
<1>1. devices \in [Devices -> {Absent} \cup [node : Ids, port : Ids]]
  BY FilterAssumption DEF Init
<1>2. \A d \in Devices : devices[d] # Absent => devices[d].node \in Ids /\ devices[d].port \in Ids
  BY <1>1 DEF Absent
<1>3. devices \in [Devices -> Global] /\ filter \in Global /\ gone \subseteq Global
  BY <1>1 DEF Init, Global, Id, Absent
<1>4. nodes \subseteq [id : Ids, owner : Owner] /\ memo \in Id
  BY <1>2 DEF Init, Owner, Id
<1>5. discovered \subseteq [id : Ids, node : Ids, owner : Owner]
  BY <1>2 DEF Init, Owner
<1>6. physPorts \in Owner \cup {None}
  BY <1>5 DEF Init, Available, Owner
<1>7. queue \in Seq(Announcement) /\ queue \in Seq(Event)
  BY DEF Init
<1>8. attempt \in 0 .. MaxAttempts /\ changes \in 0 .. MaxChanges /\ activations \in 0 .. MaxFilters
  BY FilterAssumption DEF Init
<1>9. TypeOK
  BY <1>3, <1>4, <1>5, <1>6, <1>7, <1>8 DEF Init, TypeOK, Id, NoLink
<1> QED
  BY <1>7, <1>9 DEF TInv, Rounds, Init

LEMMA NextIds == ASSUME NEW used, NEW i \in NextId(used) PROVE i \in Ids
  BY DEF NextId

LEMMA DaemonTypes == TInv /\ Daemon => TInv'
<1> SUFFICES ASSUME TInv, Daemon PROVE TInv'
  OBVIOUS
<1> USE DEF TInv, boundVars, cacheVars, setVars, driverVars
<1>1. ASSUME queue' \in Seq(Announcement), devices' \in [Devices -> Global], filter' \in Global,
             gone' \subseteq Global, changes' \in 0 .. MaxChanges,
             UNCHANGED <<boundVars, ourNode, portId, cacheVars, defaultName, syncSeq, setVars,
                         pc, driverVars>>
      PROVE  TInv'
  BY <1>1, AnnouncementsTyped DEF TypeOK, Rounds
<1>2. Change => changes' \in 0 .. MaxChanges
  BY FilterAssumption DEF Change, TypeOK
<1>3. changes \in 0 .. MaxChanges /\ devices \in [Devices -> Global] /\ filter \in Global
      /\ gone \subseteq Global
  BY DEF TypeOK
<1>4. ASSUME NEW d \in Devices, Plug(d) PROVE TInv'
  <2>1. PICK n \in NextId(InUse) : \E i \in NextId(InUse \cup {n}) :
           /\ devices' = [devices EXCEPT ![d] = [node |-> n, port |-> i]]
           /\ queue' = queue \o <<NodeEvent(n, d), PortEvent(i, n, d)>>
    BY <1>4 DEF Plug
  <2>2. PICK i \in NextId(InUse \cup {n}) :
           /\ devices' = [devices EXCEPT ![d] = [node |-> n, port |-> i]]
           /\ queue' = queue \o <<NodeEvent(n, d), PortEvent(i, n, d)>>
    BY <2>1
  <2>3. n \in Ids /\ i \in Ids /\ d \in Owner
    BY NextIds DEF Owner
  <2>4. <<NodeEvent(n, d), PortEvent(i, n, d)>> \in Seq(Announcement)
    <3>1. NodeEvent(n, d) \in Announcement /\ PortEvent(i, n, d) \in Announcement
      BY <2>3, AnnouncementTypes DEF Id
    <3> QED
      BY <3>1
  <2>5. queue' \in Seq(Announcement)
    BY <2>2, <2>4, ConcatProperties
  <2>6. devices' \in [Devices -> Global]
    BY <1>3, <2>2, <2>3 DEF Global, Id
  <2> QED
    BY <1>1, <1>2, <1>3, <1>4, <2>5, <2>6 DEF Plug
<1>5. ASSUME NEW d \in Devices, Unplug(d) PROVE TInv'
  <2>1. queue' \in Seq(Announcement)
    <3>1. Removal(devices[d]) \in Seq(Announcement)
      BY <1>3, AnnouncementTypes
    <3> QED
      BY <1>5, <3>1, ConcatProperties DEF Unplug
  <2>2. devices' \in [Devices -> Global]
    BY <1>3, <1>5 DEF Unplug, Absent, Global, Id
  <2> QED
    BY <1>1, <1>2, <1>3, <1>5, <2>1, <2>2 DEF Unplug
<1>6. ASSUME NEW d \in Devices, SwitchDefault(d) PROVE TInv'
  BY <1>1, <1>2, <1>3, <1>6, AnnouncementTypes DEF SwitchDefault
<1>7. CASE FilterNodeAppears
  <2>1. PICK n \in NextId(InUse) :
           filter' = [filter EXCEPT !.node = n] /\ queue' = Append(queue, NodeEvent(n, Ours))
    BY <1>7 DEF FilterNodeAppears
  <2>2. n \in Ids
    BY NextIds
  <2>3. filter' \in Global
    BY <1>3, <2>1, <2>2 DEF Global, Id
  <2>4. queue' \in Seq(Announcement)
    BY <2>1, <2>2, AnnouncementTypes DEF Owner
  <2> QED
    BY <1>1, <1>3, <1>7, <2>3, <2>4 DEF FilterNodeAppears
<1>8. CASE FilterPortAppears
  <2>1. PICK i \in NextId(InUse) :
           /\ filter' = [filter EXCEPT !.port = i]
           /\ queue' = Append(queue, PortEvent(i, filter.node, Ours))
    BY <1>8 DEF FilterPortAppears
  <2>2. i \in Ids /\ filter.node \in Id
    BY <1>3, NextIds DEF Global
  <2>3. filter' \in Global
    BY <1>3, <2>1, <2>2 DEF Global, Id
  <2>4. queue' \in Seq(Announcement)
    BY <2>1, <2>2, AnnouncementTypes DEF Owner
  <2> QED
    BY <1>1, <1>3, <1>8, <2>3, <2>4 DEF FilterPortAppears
<1>9. CASE OldFilterRemoved
  <2>1. PICK g \in gone : gone' = gone \ {g} /\ queue' = queue \o Removal(g)
    BY <1>9 DEF OldFilterRemoved
  <2>2. queue' \in Seq(Announcement)
    BY <1>3, <2>1, AnnouncementTypes, ConcatProperties
  <2> QED
    BY <1>1, <1>3, <1>9, <2>1, <2>2 DEF OldFilterRemoved
<1> QED
  BY <1>4, <1>5, <1>6, <1>7, <1>8, <1>9 DEF Daemon

LEMMA SignalTypes ==
  ASSUME TInv, Signal, attempt' = attempt
  PROVE  /\ pc' \in {"idle", "bind", "bindWait", "lastSync", "lastWait", "last", "sync",
                     "syncWait", "adopt", "count", "settle", "list", "lookup", "type",
                     "connect", "active"}
         /\ Rounds'
<1>1. pc' = Awake(pc) /\ attempt' = attempt /\ attempt <= MaxAttempts
  BY FilterAssumption DEF Signal, TInv, TypeOK
<1> QED
  BY <1>1, FilterAssumption DEF Awake, TInv, TypeOK, Rounds

LEMMA ThreadTypes == TInv /\ (DataThread \/ LoopThread) => TInv'
<1> SUFFICES ASSUME TInv, DataThread \/ LoopThread PROVE TInv'
  OBVIOUS
<1> USE DEF TInv, daemonVars, boundVars, cacheVars, setVars, driverVars
<1>1. CASE FilterBound
  BY <1>1, SignalTypes DEF FilterBound, TypeOK, Global
<1>2. CASE FilterError \/ FilterPauses
  BY <1>2, SignalTypes DEF FilterError, FilterPauses, TypeOK
<1>3. ASSUME NEW op, Receive(op)
      PROVE  /\ queue' \in Seq(Announcement) /\ queue' \in Seq(Event)
             /\ Head(queue) \in Announcement /\ Head(queue).op = op
  <2>1. queue # <<>> /\ queue' = Tail(queue) /\ Head(queue).op = op
    BY <1>3 DEF Receive
  <2> QED
    BY <2>1, HeadTailProperties, AnnouncementsTyped
<1>4. CASE CacheNode
  <2>1. Receive("node")
    BY <1>4 DEF CacheNode
  <2>2. Head(queue).id \in Ids /\ Head(queue).owner \in Owner
    BY <1>3, <2>1 DEF Announcement
  <2>3. nodes' \subseteq [id : Ids, owner : Owner]
    BY <1>4, <2>2 DEF CacheNode, TypeOK
  <2> QED
    BY <1>3, <1>4, <2>1, <2>3 DEF CacheNode, Receive, TypeOK, Rounds
<1>5. CASE BackfillPort
  <2>1. Receive("port")
    BY <1>5 DEF BackfillPort
  <2>2. Head(queue).id \in Id
    BY <1>3, <2>1 DEF Announcement, Id
  <2>3. \/ pc' = pc /\ portId' = portId
        \/ Signal /\ portId' \in Id
    BY <1>5, <2>2 DEF BackfillPort
  <2>4. attempt' = attempt
    BY <2>1 DEF Receive
  <2> QED
    BY <1>3, <1>5, <2>1, <2>3, <2>4, SignalTypes DEF BackfillPort, Receive, TypeOK, Rounds
<1>6. CASE CachePort
  <2>1. Receive("port")
    BY <1>6 DEF CachePort
  <2>2. Head(queue).id \in Ids /\ Head(queue).owner \in Owner
    BY <1>3, <2>1 DEF Announcement
  <2>3. (\E n \in nodes : n.id = Head(queue).node) => Head(queue).node \in Ids
    BY DEF TypeOK
  <2>4. discovered' \subseteq [id : Ids, node : Ids, owner : Owner] /\ memo' \in Id
    BY <1>6, <2>2, <2>3 DEF CachePort, TypeOK, Id
  <2> QED
    BY <1>3, <1>6, <2>1, <2>4 DEF CachePort, Receive, TypeOK, Rounds
<1>7. CASE RemoveGlobal
  <2>1. Receive("remove")
    BY <1>7 DEF RemoveGlobal
  <2>2. /\ nodes' \subseteq nodes /\ discovered' \subseteq discovered
        /\ memo' \in {0, memo}
    BY <1>7 DEF RemoveGlobal
  <2> QED
    BY <1>3, <1>7, <2>1, <2>2 DEF RemoveGlobal, Receive, TypeOK, Rounds, Id
<1>8. CASE DefaultProperty
  <2>1. Receive("default")
    BY <1>8 DEF DefaultProperty
  <2>2. Head(queue).owner \in Devices
    BY <1>3, <2>1 DEF Announcement
  <2> QED
    BY <1>3, <1>8, <2>1, <2>2 DEF DefaultProperty, Receive, TypeOK, Rounds
<1>9. CASE CoreDone
  <2>1. Receive("done")
    BY <1>9 DEF CoreDone
  <2>2. attempt' = attempt /\ (Signal \/ pc' = pc)
    BY <1>9, <2>1 DEF CoreDone, Receive
  <2> QED
    BY <1>3, <1>9, <2>1, <2>2, SignalTypes DEF CoreDone, Receive, TypeOK, Rounds
<1> QED
  BY <1>1, <1>2, <1>4, <1>5, <1>6, <1>7, <1>8, <1>9 DEF DataThread, LoopThread

LEMMA DriverTypes == TInv /\ (InCall \/ Activate \/ DisposeBuffers) => TInv'
<1> SUFFICES ASSUME TInv, InCall \/ Activate \/ DisposeBuffers PROVE TInv'
  OBVIOUS
<1> USE DEF TInv, daemonVars, boundVars, cacheVars, setVars, driverVars
<1>1. CASE Activate
  <2>1. activations' \in 0 .. MaxFilters /\ attempt' \in 0 .. MaxAttempts /\ attempt' # MaxAttempts
    BY <1>1, FilterAssumption DEF Activate, TypeOK
  <2> QED
    BY <1>1, <2>1 DEF Activate, TypeOK, NoLink, Id, Rounds
<1>2. CASE DisposeBuffers \/ BindFails
  <2>1. Teardown
    BY <1>2 DEF DisposeBuffers, BindFails
  <2>2. filter' \in Global /\ gone' \subseteq Global /\ bound' \in Id
    BY <2>1 DEF Teardown, TypeOK, Absent, Global, Id
  <2> QED
    BY <2>1, <2>2 DEF Teardown, TypeOK, Rounds
<1>3. CASE BindTest \/ TakeNodeId \/ BindTimesOut
  BY <1>3 DEF BindTest, TakeNodeId, BindTimesOut, TypeOK, Rounds
<1>4. CASE SettleTimesOut
  BY <1>4, SignalTypes DEF SettleTimesOut, TypeOK
<1>5. CASE Sync
  <2>1. queue' = Append(queue, [op |-> "done", id |-> syncSeq + 1, node |-> 0, owner |-> None])
    BY <1>5 DEF Sync
  <2>2. syncSeq + 1 \in Nat
    BY DEF TypeOK
  <2>3. queue' \in Seq(Announcement)
    BY <2>1, <2>2, AnnouncementTypes
  <2> QED
    BY <1>5, <2>2, <2>3, AnnouncementsTyped DEF Sync, TypeOK, Rounds
<1>6. CASE AdoptOwnPorts
  <2>1. discovered' \subseteq discovered /\ portId' \in {portId} \cup {q.id : q \in discovered}
    BY <1>6 DEF AdoptOwnPorts
  <2> QED
    BY <1>6, <2>1 DEF AdoptOwnPorts, TypeOK, Rounds, Id
<1>7. CASE CountPorts
  <2>1. attempt' \in 0 .. MaxAttempts
    BY <1>7, FilterAssumption DEF CountPorts, TypeOK, Rounds
  <2> QED
    BY <1>7, <2>1 DEF CountPorts, TypeOK, Rounds
<1>8. CASE ListPorts
  <2>1. names' \in Owner \cup {None}
    BY <1>8 DEF ListPorts, TypeOK, Available, Owner
  <2> QED
    BY <1>8, <2>1 DEF ListPorts, TypeOK, Rounds
<1>9. CASE PortByName
  <2>1. held' \in {held} \cup {q.id : q \in discovered}
    BY <1>9 DEF PortByName
  <2> QED
    BY <1>9, <2>1 DEF PortByName, TypeOK, Rounds, Id
<1>10. CASE PortType
  BY <1>10 DEF PortType, TypeOK, Rounds
<1>11. CASE Connect
  <2>1. link' = link \/ \E q \in discovered : link' = [port |-> portId, owner |-> names, target |-> q.id]
    BY <1>11 DEF Connect
  <2>2. link' \in [port : Id, owner : Owner \cup {None}, target : Id]
    BY <2>1 DEF TypeOK, Id
  <2> QED
    BY <1>11, <2>2 DEF Connect, TypeOK, Rounds
<1> QED
  BY <1>1, <1>2, <1>3, <1>4, <1>5, <1>6, <1>7, <1>8, <1>9, <1>10, <1>11 DEF InCall, Waits

LEMMA TypeStep == TInv /\ [Next]_vars => TInv'
<1>1. TInv /\ UNCHANGED vars => TInv'
  BY DEF TInv, TypeOK, Rounds, vars, daemonVars, boundVars, cacheVars, setVars, driverVars
<1> QED
  BY <1>1, DaemonTypes, ThreadTypes, DriverTypes DEF Next

LEMMA TypesAlways == Spec => []TInv
  BY InitTypes, TypeStep, PTL DEF Spec

\* Every reachable state is well typed: above all the rounds of the wait for
\* port ids stay within their number (audio.c:774, "a bounded, event-driven wait").
THEOREM TypeCorrect == Spec => []TypeOK
<1>1. TInv => TypeOK
  BY DEF TInv
<1> QED
  BY <1>1, TypesAlways, PTL

-----------------------------------------------------------------------------
(* The driver is not linked to itself.                                      *)

\* The announcement of the driver's port, on its way or cached as hardware.
OwnPort(e) == e.op = "port" /\ e.owner = Ours
Queued == {i \in 1 .. Len(queue) : OwnPort(queue[i])}
Cached == {q \in discovered : q.owner = Ours}

\* A first filter's port is announced once: before that nothing is known of it,
\* and then it is on its way, or taken for hardware, or its id is known.
Unannounced == activations = 0 \/ (connected /\ filter.port = 0)
OnePlace ==
    /\ Unannounced => Queued = {} /\ Cached = {} /\ portId = 0
    /\ \A i, j \in Queued : i = j
    /\ \A q, r \in Cached : q = r
    /\ Queued # {} => Cached = {} /\ portId = 0
    /\ portId # 0 => Cached = {}

OwnInv ==
    activations <= 1 => OnePlace /\ link.owner # Ours /\ (activations = 0 => ~ connected)

\* Events of other ports.
LEMMA SentOthers ==
  ASSUME TInv, NEW s \in Seq(Announcement), queue' = queue \o s,
         \A i \in 1 .. Len(s) : ~ OwnPort(s[i])
  PROVE  Queued' = Queued
<1>1. /\ Len(queue') = Len(queue) + Len(s) /\ Len(queue) \in Nat /\ Len(s) \in Nat
      /\ \A i \in 1 .. Len(queue) + Len(s) :
           queue'[i] = IF i <= Len(queue) THEN queue[i] ELSE s[i - Len(queue)]
  BY ConcatProperties, LenProperties DEF TInv
<1>2. \A i \in 1 .. Len(queue') : OwnPort(queue'[i]) <=> i <= Len(queue) /\ OwnPort(queue[i])
  <2> TAKE i \in 1 .. Len(queue')
  <2>1. CASE i <= Len(queue)
    BY <1>1, <2>1
  <2>2. CASE ~ (i <= Len(queue))
    <3>1. i - Len(queue) \in 1 .. Len(s) /\ queue'[i] = s[i - Len(queue)]
      BY <1>1, <2>2
    <3> QED
      BY <2>2, <3>1
  <2> QED
    BY <2>1, <2>2
<1> QED
  BY <1>1, <1>2 DEF Queued

LEMMA SentOther ==
  ASSUME TInv, NEW e \in Announcement, queue' = Append(queue, e), ~ OwnPort(e)
  PROVE  Queued' = Queued
<1>1. /\ Len(queue') = Len(queue) + 1 /\ Len(queue) \in Nat
      /\ queue'[Len(queue) + 1] = e
      /\ \A i \in 1 .. Len(queue) : queue'[i] = queue[i]
  BY DEF TInv
<1>2. \A i \in 1 .. Len(queue') : i \in 1 .. Len(queue) \/ i = Len(queue) + 1
  BY <1>1
<1> QED
  BY <1>1, <1>2 DEF Queued

\* An event is handled: those behind it move up.
LEMMA Handled ==
  ASSUME TInv, queue # <<>>, queue' = Tail(queue)
  PROVE  /\ \A i \in Queued' : i + 1 \in Queued
         /\ OwnPort(Head(queue)) => 1 \in Queued
<1>1. /\ Len(queue) \in Nat \ {0} /\ Len(queue') = Len(queue) - 1 /\ Head(queue) = queue[1]
      /\ \A i \in 1 .. Len(queue') : queue'[i] = queue[i + 1]
  BY HeadTailProperties, EmptySeq DEF TInv
<1> QED
  BY <1>1 DEF Queued

\* What is known of the port is kept by whatever leaves it and the link alone.
LEMMA PlaceKept ==
  ASSUME OwnInv, Queued' = Queued, Cached' \subseteq Cached, portId' = portId,
         UNCHANGED <<activations, connected, link>>, filter.port # 0 => filter'.port # 0
  PROVE  OwnInv'
  BY DEF OwnInv, OnePlace, Unannounced

LEMMA InitOwn == Init => OwnInv
<1> SUFFICES ASSUME Init PROVE OwnInv
  OBVIOUS
<1>1. Cached = {}
  BY FilterAssumption DEF Init, Cached
<1>2. Queued = {}
  BY DEF Init, Queued
<1> QED
  BY <1>1, <1>2 DEF Init, OwnInv, OnePlace, NoLink, Ours, None

LEMMA DaemonOwn == TInv /\ OwnInv /\ Daemon => OwnInv'
<1> SUFFICES ASSUME TInv, OwnInv, Daemon PROVE OwnInv'
  OBVIOUS
<1> USE DEF boundVars, cacheVars, setVars, driverVars
<1>0. devices \in [Devices -> Global] /\ filter \in Global /\ gone \subseteq Global
  BY DEF TInv, TypeOK
<1>1. \A g \in Global : /\ Removal(g) \in Seq(Announcement)
                        /\ \A i \in 1 .. Len(Removal(g)) : ~ OwnPort(Removal(g)[i])
  <2> TAKE g \in Global
  <2> DEFINE s == IF g.port # 0 THEN <<RemoveEvent(g.port)>> ELSE <<>>
             t == IF g.node # 0 THEN <<RemoveEvent(g.node)>> ELSE <<>>
  <2>1. \A n : ~ OwnPort(RemoveEvent(n))
    BY DEF OwnPort, RemoveEvent
  <2>2. /\ s \in Seq({RemoveEvent(g.port), RemoveEvent(g.node)})
        /\ t \in Seq({RemoveEvent(g.port), RemoveEvent(g.node)})
    <3>1. \A S, x : <<>> \in Seq(S) /\ (x \in S => <<x>> \in Seq(S))
      OBVIOUS
    <3> QED
      BY <3>1
  <2>3. s \o t \in Seq({RemoveEvent(g.port), RemoveEvent(g.node)})
    BY <2>2, ConcatProperties
  <2>4. Removal(g) \in Seq({RemoveEvent(g.port), RemoveEvent(g.node)})
    BY <2>3 DEF Removal
  <2> HIDE DEF s, t
  <2>5. \A i \in 1 .. Len(Removal(g)) : Removal(g)[i] \in {RemoveEvent(g.port), RemoveEvent(g.node)}
    BY <2>4, ElementOfSeq
  <2> QED
    BY <2>1, <2>5, AnnouncementTypes
<1>2. ASSUME NEW d \in Devices, Plug(d) PROVE OwnInv'
  <2>1. PICK n \in NextId(InUse) : \E i \in NextId(InUse \cup {n}) :
           queue' = queue \o <<NodeEvent(n, d), PortEvent(i, n, d)>>
    BY <1>2 DEF Plug
  <2>2. PICK i \in NextId(InUse \cup {n}) :
           queue' = queue \o <<NodeEvent(n, d), PortEvent(i, n, d)>>
    BY <2>1
  <2>3. n \in Ids /\ i \in Ids /\ d \in Owner /\ d # Ours
    BY NextIds, FilterAssumption DEF Owner
  <2> DEFINE a == NodeEvent(n, d)
             b == PortEvent(i, n, d)
  <2>4. a \in Announcement /\ b \in Announcement
    BY <2>3, AnnouncementTypes DEF Id
  <2>5. ~ OwnPort(a) /\ ~ OwnPort(b)
    BY <2>3 DEF OwnPort, NodeEvent, PortEvent
  <2> HIDE DEF a, b
  <2>6. <<a, b>> \in Seq(Announcement) /\ \A k \in 1 .. Len(<<a, b>>) : ~ OwnPort(<<a, b>>[k])
    BY <2>4, <2>5
  <2>7. queue' = queue \o <<a, b>>
    BY <2>2 DEF a, b
  <2>8. Queued' = Queued
    BY <2>6, <2>7, SentOthers
  <2> QED
    BY <1>2, <2>8, PlaceKept DEF Plug, Cached
<1>3. ASSUME NEW d \in Devices, Unplug(d) PROVE OwnInv'
  <2>1. Queued' = Queued
    BY <1>0, <1>1, <1>3, SentOthers DEF Unplug
  <2> QED
    BY <1>3, <2>1, PlaceKept DEF Unplug, Cached
<1>4. ASSUME NEW d \in Devices, SwitchDefault(d) PROVE OwnInv'
  <2>1. Queued' = Queued
    BY <1>4, SentOther, AnnouncementTypes DEF SwitchDefault, OwnPort
  <2> QED
    BY <1>4, <2>1, PlaceKept DEF SwitchDefault, Cached
<1>5. CASE FilterNodeAppears
  <2>1. PICK n \in NextId(InUse) :
           filter' = [filter EXCEPT !.node = n] /\ queue' = Append(queue, NodeEvent(n, Ours))
    BY <1>5 DEF FilterNodeAppears
  <2>2. NodeEvent(n, Ours) \in Announcement /\ ~ OwnPort(NodeEvent(n, Ours))
    BY NextIds, AnnouncementTypes DEF Owner, OwnPort, NodeEvent
  <2>3. Queued' = Queued /\ filter'.port = filter.port
    BY <1>0, <2>1, <2>2, SentOther DEF Global
  <2> QED
    BY <1>5, <2>3, PlaceKept DEF FilterNodeAppears, Cached
<1>6. CASE FilterPortAppears
  <2>1. PICK i \in NextId(InUse) :
           /\ filter' = [filter EXCEPT !.port = i]
           /\ queue' = Append(queue, PortEvent(i, filter.node, Ours))
    BY <1>6 DEF FilterPortAppears
  <2>2. i \in Ids /\ filter'.port = i /\ i # 0
    BY <1>0, <2>1, NextIds, FilterAssumption DEF Global
  <2>3. activations <= 1 => Queued = {} /\ Cached = {} /\ portId = 0 /\ activations # 0
    BY <1>6 DEF FilterPortAppears, OwnInv, OnePlace, Unannounced
  <2>4. Queued = {} => Queued' \subseteq {Len(queue) + 1}
    BY <2>1 DEF TInv, Queued
  <2>5. Cached' = Cached /\ UNCHANGED <<activations, connected, link, portId>>
    BY <1>6 DEF FilterPortAppears, Cached
  <2> QED
    BY <2>2, <2>3, <2>4, <2>5 DEF OwnInv, OnePlace, Unannounced
<1>7. CASE OldFilterRemoved
  <2>1. PICK g \in gone : queue' = queue \o Removal(g)
    BY <1>7 DEF OldFilterRemoved
  <2>2. Queued' = Queued
    BY <1>0, <1>1, <2>1, SentOthers
  <2> QED
    BY <1>7, <2>2, PlaceKept DEF OldFilterRemoved, Cached
<1> QED
  BY <1>2, <1>3, <1>4, <1>5, <1>6, <1>7 DEF Daemon

LEMMA ThreadOwn == TInv /\ OwnInv /\ (DataThread \/ LoopThread) => OwnInv'
<1> SUFFICES ASSUME TInv, OwnInv, DataThread \/ LoopThread PROVE OwnInv'
  OBVIOUS
<1> USE DEF daemonVars, boundVars, cacheVars, setVars, driverVars
<1>1. CASE DataThread
  <2>1. /\ Queued' = Queued /\ Cached' = Cached /\ portId' = portId /\ filter' = filter
        /\ UNCHANGED <<activations, connected, link>>
    BY <1>1 DEF DataThread, FilterBound, FilterError, FilterPauses, Queued, Cached
  <2> QED
    BY <2>1, PlaceKept
<1>2. ASSUME NEW op, Receive(op)
      PROVE  /\ UNCHANGED <<activations, connected, link, filter>>
             /\ \A i \in Queued' : i + 1 \in Queued /\ i \in Nat \ {0}
             /\ OwnPort(Head(queue)) => 1 \in Queued
             /\ Head(queue).op = op
  <2>1. queue # <<>> /\ queue' = Tail(queue)
    BY <1>2 DEF Receive
  <2> QED
    BY <1>2, <2>1, Handled DEF Receive, Queued
<1>3. ASSUME NEW op, Receive(op), Cached' \subseteq Cached, portId' = portId PROVE OwnInv'
  <2>1. \A i, j \in Queued' : i + 1 \in Queued /\ j + 1 \in Queued /\ i \in Nat /\ j \in Nat
    BY <1>2, <1>3
  <2>2. activations <= 1 => \A i, j \in Queued' : i = j
    <3> SUFFICES ASSUME activations <= 1, NEW i \in Queued', NEW j \in Queued' PROVE i = j
      OBVIOUS
    <3>1. i + 1 = j + 1
      BY <2>1 DEF OwnInv, OnePlace
    <3> QED
      BY <2>1, <3>1
  <2>3. Queued' # {} => Queued # {}
    BY <2>1
  <2> QED
    BY <1>2, <1>3, <2>2, <2>3 DEF OwnInv, OnePlace, Unannounced
<1>4. CASE CacheNode \/ RemoveGlobal \/ DefaultProperty \/ CoreDone
  <2>1. Cached' \subseteq Cached /\ portId' = portId
    BY <1>4 DEF CacheNode, RemoveGlobal, DefaultProperty, CoreDone, Cached
  <2> QED
    BY <1>3, <1>4, <2>1 DEF CacheNode, RemoveGlobal, DefaultProperty, CoreDone
\* An announcement of the driver's port is the only one.
<1>5. ASSUME Receive("port"), Head(queue).owner = Ours, activations <= 1
      PROVE  /\ Queued' = {} /\ Cached = {} /\ portId = 0 /\ ~ Unannounced
             /\ link'.owner # Ours /\ activations # 0 /\ ~ Unannounced'
  <2>1. OwnPort(Head(queue))
    BY <1>2, <1>5 DEF OwnPort
  <2>2. 1 \in Queued
    BY <1>2, <1>5, <2>1
  <2>3. \A i \in Queued' : i + 1 = 1 /\ i \in Nat \ {0}
    BY <1>2, <1>5, <2>2 DEF OwnInv, OnePlace
  <2>4. Queued' = {}
    BY <2>3
  <2> QED
    BY <1>2, <1>5, <2>2, <2>4 DEF OwnInv, OnePlace, Unannounced
<1>6. CASE BackfillPort
  <2>1. Receive("port") /\ Cached' = Cached
    BY <1>6 DEF BackfillPort, Cached
  <2>2. CASE Head(queue).owner # Ours
    BY <1>3, <1>6, <2>1, <2>2 DEF BackfillPort
  <2>3. CASE Head(queue).owner = Ours
    BY <1>2, <1>5, <2>1, <2>3 DEF OwnInv, OnePlace
  <2> QED
    BY <2>2, <2>3
<1>7. CASE CachePort
  <2>1. Receive("port") /\ portId' = portId
    BY <1>7 DEF CachePort
  <2>2. discovered' \subseteq discovered \cup
            {[id |-> Head(queue).id, node |-> Head(queue).node, owner |-> Head(queue).owner]}
    BY <1>7 DEF CachePort
  <2>3. CASE Head(queue).owner # Ours
    <3>1. Cached' \subseteq Cached
      BY <2>2, <2>3 DEF Cached
    <3> QED
      BY <1>3, <2>1, <3>1
  <2>4. CASE Head(queue).owner = Ours
    <3>1. Cached' \subseteq Cached \cup
            {[id |-> Head(queue).id, node |-> Head(queue).node, owner |-> Head(queue).owner]}
      BY <2>2 DEF Cached
    <3> QED
      BY <1>2, <1>5, <2>1, <2>4, <3>1 DEF OwnInv, OnePlace
  <2> QED
    BY <2>3, <2>4
<1> QED
  BY <1>1, <1>4, <1>6, <1>7 DEF LoopThread

LEMMA DriverOwn == TInv /\ OwnInv /\ (InCall \/ Activate \/ DisposeBuffers) => OwnInv'
<1> SUFFICES ASSUME TInv, OwnInv, InCall \/ Activate \/ DisposeBuffers PROVE OwnInv'
  OBVIOUS
<1> USE DEF daemonVars, boundVars, cacheVars, setVars, driverVars
<1>1. CASE Activate
  <2>1. activations' = activations + 1 /\ link' = NoLink /\ activations \in Nat
    BY <1>1, FilterAssumption DEF Activate, TInv, TypeOK
  <2>2. Queued' = Queued /\ Cached' = Cached /\ portId' = portId
    BY <1>1 DEF Activate, Queued, Cached
  <2>3. activations' <= 1 => activations = 0 /\ activations' # 0
    BY <2>1
  <2>4. link'.owner # Ours
    BY <2>1 DEF NoLink, Ours, None
  <2>5. activations' <= 1 => Queued = {} /\ Cached = {} /\ portId = 0
    BY <2>3 DEF OwnInv, OnePlace, Unannounced
  <2> QED
    BY <2>2, <2>3, <2>4, <2>5 DEF OwnInv, OnePlace
<1>2. CASE DisposeBuffers \/ BindFails
  <2>1. Teardown
    BY <1>2 DEF DisposeBuffers, BindFails
  <2>2. /\ Queued' = Queued /\ Cached' = Cached /\ portId' = portId /\ ~ connected'
        /\ UNCHANGED <<activations, link>>
    BY <2>1 DEF Teardown, Queued, Cached
  <2> QED
    BY <2>2 DEF OwnInv, OnePlace, Unannounced
<1>3. CASE BindTest \/ Waits \/ TakeNodeId \/ CountPorts \/ ListPorts \/ PortByName \/ PortType
  <2>1. /\ Queued' = Queued /\ Cached' = Cached /\ portId' = portId /\ filter' = filter
        /\ UNCHANGED <<activations, connected, link>>
    BY <1>3 DEF BindTest, Waits, BindTimesOut, SettleTimesOut, TakeNodeId, CountPorts, ListPorts,
                PortByName, PortType, Queued, Cached
  <2> QED
    BY <2>1, PlaceKept
<1>4. CASE Sync
  <2>1. syncSeq + 1 \in Nat
    BY DEF TInv, TypeOK
  <2>2. Queued' = Queued
    BY <1>4, <2>1, SentOther, AnnouncementTypes DEF Sync, OwnPort
  <2> QED
    BY <1>4, <2>2, PlaceKept DEF Sync, Cached
<1>5. CASE AdoptOwnPorts
  <2>1. Queued' = Queued /\ UNCHANGED <<activations, connected, filter, link>>
    BY <1>5 DEF AdoptOwnPorts, Queued
  <2>2. CASE \E q \in Cached : q.node = ourNode
    <3>1. Cached' \subseteq Cached
      BY <1>5 DEF AdoptOwnPorts, Cached
    <3>2. activations <= 1 => Cached' = {} /\ Queued = {} /\ ~ Unannounced
      <4>1. \E q \in Cached : q \notin discovered'
        BY <1>5, <2>2 DEF AdoptOwnPorts, Cached
      <4>2. \E q \in Cached : q \notin Cached'
        BY <4>1 DEF Cached
      <4> QED
        BY <3>1, <4>2 DEF OwnInv, OnePlace
    <3> QED
      BY <2>1, <3>2 DEF OwnInv, OnePlace, Unannounced
  <2>3. CASE ~ \E q \in Cached : q.node = ourNode
    <3>1. Cached' \subseteq Cached /\ portId' = portId
      BY <1>5, <2>3 DEF AdoptOwnPorts, Cached
    <3> QED
      BY <2>1, <3>1, PlaceKept
  <2> QED
    BY <2>2, <2>3
<1>6. CASE Connect
  <2>1. /\ Queued' = Queued /\ Cached' = Cached /\ portId' = portId
        /\ UNCHANGED <<activations, connected, filter>>
    BY <1>6 DEF Connect, Queued, Cached
  <2>2. activations <= 1 => link'.owner # Ours
    <3>1. \/ link' = link
          \/ portId # 0 /\ \E q \in discovered :
               q.owner = names /\ link' = [port |-> portId, owner |-> names, target |-> q.id]
      BY <1>6 DEF Connect
    <3> QED
      BY <3>1 DEF OwnInv, OnePlace, Cached
  <2> QED
    BY <2>1, <2>2 DEF OwnInv, OnePlace, Unannounced
<1> QED
  BY <1>1, <1>2, <1>3, <1>4, <1>5, <1>6 DEF InCall

LEMMA OwnAlways == Spec => []OwnInv
<1>1. Init => OwnInv
  BY InitOwn
<1>2. TInv /\ OwnInv /\ [Next]_vars => OwnInv'
  <2>1. OwnInv /\ UNCHANGED vars => OwnInv'
    BY PlaceKept DEF vars, Queued, Cached, daemonVars, boundVars, cacheVars, driverVars
  <2> QED
    BY <2>1, DaemonOwn, ThreadOwn, DriverOwn DEF Next
<1> QED
  BY <1>1, <1>2, TypesAlways, PTL DEF Spec

\* A client's first filter is never linked to itself, whatever devices come and
\* go and whenever its node id becomes known (audio.c:1488, audio_adopt_own_ports:
\* the driver's ports may first be taken for hardware).
THEOREM NeverToItself == Spec => []NoSelfLink
<1>1. OwnInv => NoSelfLink
  BY DEF OwnInv, NoSelfLink
<1> QED
  BY <1>1, OwnAlways, PTL

-----------------------------------------------------------------------------
(* No ghosts: what the caches hold is there, once all events are handled.   *)

\* A node or a port.
Thing == [kind : {"node", "port"}, id : Ids, owner : Owner]
Has(g, x) == x.id = (IF x.kind = "node" THEN g.node ELSE g.port)

\* What exists, and what the caches say.
World ==
    {x \in Thing : \/ x.owner \in Devices /\ Has(devices[x.owner], x)
                   \/ x.owner = Ours /\ \E g \in gone \cup {filter} : Has(g, x)}
Cache ==
    {x \in Thing : \/ x.kind = "node" /\ [id |-> x.id, owner |-> x.owner] \in nodes
                   \/ x.kind = "port" /\ \E p \in discovered : p.id = x.id /\ p.owner = x.owner}

Announces(e) == e.op \in {"node", "port"}
Removes(e, i) == e.op = "remove" /\ e.id = i
About(e, i) == (Announces(e) /\ e.id = i) \/ Removes(e, i)
Named(e) == [kind |-> e.op, id |-> e.id, owner |-> e.owner]
Quiet(q, j, k, i) == \A m \in j .. k : ~ About(q[m], i)

\* After the first k events of q, thing x is still to be removed before anything
\* else is said of its id, or nothing more is said and it is in W.
Lasts(q, k, x, W) ==
    \/ \E j \in k + 1 .. Len(q) : Removes(q[j], x.id) /\ Quiet(q, k + 1, j - 1, x.id)
    \/ Quiet(q, k + 1, Len(q), x.id) /\ x \in W

Sound(q, C, W) ==
    /\ \A x \in C : Lasts(q, 0, x, W)
    /\ \A k \in 1 .. Len(q) : Announces(q[k]) => Lasts(q, k, Named(q[k]), W)

Apart == \A x, y \in Cache : x.id = y.id => x = y

GInv == Sound(queue, Cache, World) /\ Apart

\* One event more: it removes what leaves W.
LEMMA LastsOneMore ==
  ASSUME NEW q \in Seq(Announcement), NEW e \in Announcement, NEW W, NEW V, NEW x,
         x \in W => Removes(e, x.id) \/ (~ About(e, x.id) /\ x \in V),
         NEW k \in 0 .. Len(q), Lasts(q, k, x, W)
  PROVE  Lasts(Append(q, e), k, x, V)
<1> DEFINE r == Append(q, e)
<1>1. Len(q) \in Nat /\ Len(r) = Len(q) + 1 /\ r[Len(q) + 1] = e
      /\ \A m \in 1 .. Len(q) : r[m] = q[m]
  BY AppendProperties
<1> HIDE DEF r
<1>2. ASSUME NEW j \in 0 .. Len(q), Quiet(q, k + 1, j, x.id) PROVE Quiet(r, k + 1, j, x.id)
  BY <1>1, <1>2 DEF Quiet
<1>3. CASE \E j \in k + 1 .. Len(q) : Removes(q[j], x.id) /\ Quiet(q, k + 1, j - 1, x.id)
  <2>1. PICK j \in k + 1 .. Len(q) : Removes(q[j], x.id) /\ Quiet(q, k + 1, j - 1, x.id)
    BY <1>3
  <2>2. j \in 1 .. Len(q) /\ j - 1 \in 0 .. Len(q) /\ j \in k + 1 .. Len(r)
    BY <1>1
  <2>3. Removes(r[j], x.id) /\ Quiet(r, k + 1, j - 1, x.id)
    BY <1>1, <1>2, <2>1, <2>2
  <2> QED
    BY <2>2, <2>3 DEF Lasts, r
<1>4. CASE Quiet(q, k + 1, Len(q), x.id) /\ x \in W
  <2>1. Quiet(r, k + 1, Len(q), x.id)
    BY <1>1, <1>2, <1>4
  <2>2. CASE Removes(e, x.id)
    <3>1. Len(q) + 1 \in k + 1 .. Len(r) /\ (Len(q) + 1) - 1 = Len(q)
      BY <1>1
    <3> QED
      BY <1>1, <2>1, <2>2, <3>1 DEF Lasts, r
  <2>3. CASE ~ About(e, x.id) /\ x \in V
    <3>1. \A m \in k + 1 .. Len(r) : m \in k + 1 .. Len(q) \/ m = Len(q) + 1
      BY <1>1
    <3>2. Quiet(r, k + 1, Len(r), x.id)
      BY <1>1, <2>1, <2>3, <3>1 DEF Quiet
    <3> QED
      BY <2>3, <3>2 DEF Lasts, r
  <2> QED
    BY <1>4, <2>2, <2>3
<1> QED
  BY <1>3, <1>4 DEF Lasts

LEMMA SoundOneMore ==
  ASSUME NEW q \in Seq(Announcement), NEW e \in Announcement, NEW C, NEW W, NEW V, Sound(q, C, W),
         \A x \in W : Removes(e, x.id) \/ (~ About(e, x.id) /\ x \in V),
         Announces(e) => Named(e) \in V
  PROVE  Sound(Append(q, e), C, V)
<1> DEFINE r == Append(q, e)
<1>1. Len(q) \in Nat /\ Len(r) = Len(q) + 1 /\ r[Len(q) + 1] = e
      /\ \A m \in 1 .. Len(q) : r[m] = q[m]
  BY AppendProperties
<1>2. \A k \in 0 .. Len(q) : \A x : Lasts(q, k, x, W) => Lasts(r, k, x, V)
  BY LastsOneMore
<1> HIDE DEF r
<1>3. \A x \in C : Lasts(r, 0, x, V)
  BY <1>1, <1>2 DEF Sound
<1>4. ASSUME NEW k \in 1 .. Len(r), Announces(r[k]) PROVE Lasts(r, k, Named(r[k]), V)
  <2>1. CASE k = Len(q) + 1
    <3>1. Quiet(r, k + 1, Len(r), Named(e).id)
      BY <1>1, <2>1 DEF Quiet
    <3> QED
      BY <1>1, <1>4, <2>1, <3>1 DEF Lasts
  <2>2. CASE k # Len(q) + 1
    <3>1. k \in 1 .. Len(q) /\ k \in 0 .. Len(q) /\ r[k] = q[k]
      BY <1>1, <2>2
    <3> QED
      BY <1>2, <1>4, <3>1 DEF Sound
  <2> QED
    BY <2>1, <2>2
<1> QED
  BY <1>3, <1>4 DEF Sound, r

LEMMA SoundMonotonic ==
  ASSUME NEW q, NEW C, NEW W, NEW V, W \subseteq V, Sound(q, C, W)
  PROVE  Sound(q, C, V)
  BY DEF Sound, Lasts

\* One event handled.
LEMMA LastsOneLess ==
  ASSUME NEW q \in Seq(Announcement), q # <<>>, NEW W, NEW x
  PROVE  /\ \A k \in 1 .. Len(q) : Lasts(q, k, x, W) => Lasts(Tail(q), k - 1, x, W)
         /\ Lasts(q, 0, x, W) => Removes(Head(q), x.id)
                                  \/ (~ About(Head(q), x.id) /\ Lasts(Tail(q), 0, x, W))
<1> DEFINE r == Tail(q)
<1>1. Len(q) \in Nat \ {0} /\ Len(r) = Len(q) - 1 /\ Head(q) = q[1]
      /\ \A m \in 1 .. Len(q) - 1 : r[m] = q[m + 1]
  BY EmptySeq, HeadTailProperties
<1> HIDE DEF r
<1>2. ASSUME NEW k \in 1 .. Len(q), NEW j \in 1 .. Len(q), Quiet(q, k + 1, j, x.id)
      PROVE  Quiet(r, k, j - 1, x.id)
  <2> SUFFICES ASSUME NEW m \in k .. j - 1 PROVE ~ About(r[m], x.id)
    BY DEF Quiet
  <2>1. m \in 1 .. Len(q) - 1 /\ m + 1 \in k + 1 .. j
    BY <1>1
  <2> QED
    BY <1>1, <1>2, <2>1 DEF Quiet
<1>3. ASSUME NEW k \in 1 .. Len(q), Lasts(q, k, x, W) PROVE Lasts(r, k - 1, x, W)
  <2>1. CASE \E j \in k + 1 .. Len(q) : Removes(q[j], x.id) /\ Quiet(q, k + 1, j - 1, x.id)
    <3>1. PICK j \in k + 1 .. Len(q) : Removes(q[j], x.id) /\ Quiet(q, k + 1, j - 1, x.id)
      BY <2>1
    <3>2. /\ j - 1 \in 1 .. Len(q) /\ j - 1 \in 1 .. Len(q) - 1 /\ j - 1 \in (k - 1) + 1 .. Len(r)
          /\ (j - 1) + 1 = j /\ (k - 1) + 1 = k
      BY <1>1
    <3>3. Removes(r[j - 1], x.id) /\ Quiet(r, (k - 1) + 1, (j - 1) - 1, x.id)
      BY <1>1, <1>2, <3>1, <3>2
    <3> QED
      BY <3>2, <3>3 DEF Lasts
  <2>2. CASE Quiet(q, k + 1, Len(q), x.id) /\ x \in W
    <3>1. Quiet(r, k, Len(q) - 1, x.id) /\ (k - 1) + 1 = k
      BY <1>1, <1>2, <2>2
    <3> QED
      BY <1>1, <2>2, <3>1 DEF Lasts
  <2> QED
    BY <1>3, <2>1, <2>2 DEF Lasts
<1>4. ASSUME Lasts(q, 0, x, W), ~ Removes(Head(q), x.id)
      PROVE  ~ About(Head(q), x.id) /\ Lasts(q, 1, x, W)
  <2>1. \A j \in Nat : Quiet(q, 0 + 1, j, x.id) => Quiet(q, 1 + 1, j, x.id)
    BY DEF Quiet
  <2>2. CASE \E j \in 0 + 1 .. Len(q) : Removes(q[j], x.id) /\ Quiet(q, 0 + 1, j - 1, x.id)
    <3>1. PICK j \in 0 + 1 .. Len(q) : Removes(q[j], x.id) /\ Quiet(q, 0 + 1, j - 1, x.id)
      BY <2>2
    <3>2. j \in 1 + 1 .. Len(q) /\ j - 1 \in Nat /\ 1 \in 0 + 1 .. j - 1
      BY <1>1, <1>4, <3>1
    <3> QED
      BY <1>1, <2>1, <3>1, <3>2 DEF Lasts, Quiet
  <2>3. CASE Quiet(q, 0 + 1, Len(q), x.id) /\ x \in W
    <3>1. 1 \in 0 + 1 .. Len(q)
      BY <1>1
    <3> QED
      BY <1>1, <2>1, <2>3, <3>1 DEF Lasts, Quiet
  <2> QED
    BY <1>4, <2>2, <2>3 DEF Lasts
<1>5. 1 \in 1 .. Len(q) /\ 1 - 1 = 0
  BY <1>1
<1> QED
  BY <1>3, <1>4, <1>5 DEF r

\* Handling an event leaves in the caches what it does not remove, and what it announces.
LEMMA HandledSound ==
  ASSUME TInv, GInv, queue # <<>>, queue' = Tail(queue), UNCHANGED <<devices, filter, gone>>,
         \A x \in Cache' : \/ x \in Cache /\ ~ Removes(Head(queue), x.id)
                           \/ Announces(Head(queue)) /\ x = Named(Head(queue))
  PROVE  GInv'
<1> DEFINE e == Head(queue)
<1>1. queue \in Seq(Announcement) /\ Len(queue) \in Nat \ {0} /\ e = queue[1]
      /\ Len(queue') = Len(queue) - 1 /\ \A m \in 1 .. Len(queue) - 1 : queue'[m] = queue[m + 1]
  BY EmptySeq, HeadTailProperties DEF TInv
<1>2. World' = World
  BY DEF World
<1>3. \A k \in 1 .. Len(queue) : \A x : Lasts(queue, k, x, World) => Lasts(queue', k - 1, x, World)
  BY <1>1, LastsOneLess
<1>4. \A x \in Cache : Removes(e, x.id) \/ (~ About(e, x.id) /\ Lasts(queue', 0, x, World))
  BY <1>1, LastsOneLess DEF GInv, Sound
<1>5. \A x \in Cache' : Lasts(queue', 0, x, World)
  <2>1. 1 \in 1 .. Len(queue) /\ 1 - 1 = 0
    BY <1>1
  <2>2. Announces(e) => Lasts(queue', 0, Named(e), World)
    BY <1>1, <1>3, <2>1 DEF GInv, Sound
  <2> QED
    BY <1>4, <2>2
<1>6. ASSUME NEW k \in 1 .. Len(queue'), Announces(queue'[k])
      PROVE  Lasts(queue', k, Named(queue'[k]), World)
  <2>1. k + 1 \in 1 .. Len(queue) /\ (k + 1) - 1 = k /\ queue'[k] = queue[k + 1]
    BY <1>1
  <2> QED
    BY <1>3, <1>6, <2>1 DEF GInv, Sound
<1>7. \A x \in Cache : Announces(e) => x.id # Named(e).id
  BY <1>4 DEF About, Announces, Removes, Named
<1>8. Apart'
  BY <1>7 DEF GInv, Apart
<1> QED
  BY <1>2, <1>5, <1>6, <1>8 DEF GInv, Sound
\* An event of something else is sent, and the caches are as they were.
LEMMA SentSound ==
  ASSUME TInv, GInv, NEW e \in Announcement, queue' = Append(queue, e),
         ~ Announces(e) /\ e.op # "remove", UNCHANGED <<devices, filter, gone, nodes, discovered>>
  PROVE  GInv'
<1>1. World' = World /\ Cache' = Cache
  BY DEF World, Cache
<1>2. Sound(queue', Cache, World)
  BY SoundOneMore DEF GInv, TInv, About, Removes
<1> QED
  BY <1>1, <1>2 DEF GInv, Apart

\* What is sent when a device or an old filter is removed.
LEMMA SoundRemoval ==
  ASSUME NEW q \in Seq(Announcement), NEW C, NEW W \in SUBSET Thing, NEW V, Sound(q, C, W),
         NEW g \in Global, \A x \in W : x.id \in Used(g) \/ x \in V
  PROVE  Sound(q \o Removal(g), C, V)
<1> DEFINE M == {x \in W : g.port = 0 \/ x.id # g.port}
           s == IF g.port # 0 THEN <<RemoveEvent(g.port)>> ELSE <<>>
           t == IF g.node # 0 THEN <<RemoveEvent(g.node)>> ELSE <<>>
<1>1. (g.port # 0 => g.port \in Ids) /\ (g.node # 0 => g.node \in Ids)
  BY DEF Global, Id
<1>2. \A i \in Ids : /\ RemoveEvent(i) \in Announcement /\ ~ Announces(RemoveEvent(i))
                     /\ \A x \in W : Removes(RemoveEvent(i), x.id) <=> x.id = i
                     /\ \A x \in W : About(RemoveEvent(i), x.id) <=> x.id = i
  BY AnnouncementTypes DEF RemoveEvent, Announces, About, Removes
<1>3. s \in Seq(Announcement) /\ t \in Seq(Announcement)
  BY <1>1, <1>2
<1>4. q \o s \in Seq(Announcement) /\ Sound(q \o s, C, M)
  <2>1. CASE g.port = 0
    <3>1. q \o s = q /\ M = W
      BY <2>1, ConcatEmptySeq
    <3> QED
      BY <3>1
  <2>2. CASE g.port # 0
    <3>1. q \o s = Append(q, RemoveEvent(g.port))
      BY <1>1, <1>2, <2>2, AppendIsConcat
    <3>2. Sound(Append(q, RemoveEvent(g.port)), C, M)
      BY <1>1, <1>2, <2>2, SoundOneMore
    <3> QED
      BY <1>3, <3>1, <3>2, ConcatProperties
  <2> QED
    BY <2>1, <2>2
<1>5. \A x \in M : x \in V \/ (g.node # 0 /\ x.id = g.node)
  BY DEF Used, Thing
<1>6. Sound((q \o s) \o t, C, V)
  <2>1. CASE g.node = 0
    <3>1. (q \o s) \o t = q \o s /\ M \subseteq V
      BY <1>4, <1>5, <2>1, ConcatEmptySeq
    <3> QED
      BY <1>4, <3>1, SoundMonotonic
  <2>2. CASE g.node # 0
    <3>1. (q \o s) \o t = Append(q \o s, RemoveEvent(g.node))
      BY <1>1, <1>2, <1>4, <2>2, AppendIsConcat
    <3>2. \A x \in M : \/ Removes(RemoveEvent(g.node), x.id)
                       \/ ~ About(RemoveEvent(g.node), x.id) /\ x \in V
      BY <1>1, <1>2, <1>5, <2>2
    <3>3. Sound(Append(q \o s, RemoveEvent(g.node)), C, V)
      BY <1>1, <1>2, <1>4, <2>2, <3>2, SoundOneMore
    <3> QED
      BY <3>1, <3>3
  <2> QED
    BY <2>1, <2>2
<1>7. (q \o s) \o t = q \o Removal(g)
  <2>1. Removal(g) = s \o t
    BY DEF Removal
  <2> HIDE DEF s, t
  <2> QED
    BY <1>3, <2>1, ConcatAssociative
<1> QED
  BY <1>6, <1>7

\* What is announced has an id of its own.
LEMMA FreshId ==
  ASSUME TInv, NEW used, InUse \subseteq used, NEW i \in NextId(used)
  PROVE  i \in Ids /\ \A x \in World : x.id # i
<1>1. i \in Ids /\ i \notin InUse
  BY DEF NextId
<1>2. \A x \in World : x.id \in InUse
  <2>0. /\ \A d \in Devices : Used(devices[d]) \subseteq InUse
        /\ \A g \in gone \cup {filter} : Used(g) \subseteq InUse
    <3> DEFINE old == UNION {Used(g) : g \in gone}
               there == UNION {Used(devices[d]) : d \in Devices}
    <3>1. \A d \in Devices : Used(devices[d]) \subseteq there
      OBVIOUS
    <3>2. \A g \in gone : Used(g) \subseteq old
      OBVIOUS
    <3>3. InUse = Used(filter) \cup old \cup there
      BY Zenon DEF InUse
    <3> HIDE DEF old, there
    <3> QED
      BY <3>1, <3>2, <3>3
  <2> TAKE x \in World
  <2>1. x \in Thing /\ x.id # 0
    BY FilterAssumption DEF World, Thing
  <2>2. CASE x.owner \in Devices /\ Has(devices[x.owner], x)
    <3>1. x.id \in Used(devices[x.owner])
      BY <2>1, <2>2 DEF Has, Used
    <3> QED
      BY <2>0, <2>2, <3>1
  <2>3. CASE x.owner = Ours /\ \E g \in gone \cup {filter} : Has(g, x)
    <3>1. PICK g \in gone \cup {filter} : Has(g, x)
      BY <2>3
    <3>2. x.id \in Used(g)
      BY <2>1, <3>1 DEF Has, Used
    <3> QED
      BY <2>0, <3>1, <3>2
  <2> QED
    BY <2>2, <2>3 DEF World
<1> QED
  BY <1>1, <1>2

\* A thing more in the world, and its announcement.
LEMMA SoundAnnounced ==
  ASSUME NEW q \in Seq(Announcement), NEW C, NEW W, NEW V, Sound(q, C, W), W \subseteq V,
         NEW e \in Announcement, Announces(e), Named(e) \in V, \A x \in W : x.id # e.id
  PROVE  Sound(Append(q, e), C, V)
  BY SoundOneMore DEF About, Removes, Announces

LEMMA DaemonSound == TInv /\ GInv /\ Daemon => GInv'
<1> SUFFICES ASSUME TInv, GInv, Daemon PROVE GInv'
  OBVIOUS
<1>1. /\ queue \in Seq(Announcement) /\ devices \in [Devices -> Global] /\ filter \in Global
      /\ gone \subseteq Global /\ World \in SUBSET Thing
  BY DEF TInv, TypeOK, World
<1>2. Cache' = Cache
  BY Zenon DEF Daemon, Plug, Unplug, SwitchDefault, FilterNodeAppears, FilterPortAppears,
               OldFilterRemoved, cacheVars, Cache
<1>3. SUFFICES Sound(queue', Cache, World')
  BY <1>2 DEF GInv, Apart
<1>4. ASSUME NEW d \in Devices, Plug(d) PROVE Sound(queue', Cache, World')
  <2>1. PICK n \in NextId(InUse) : \E i \in NextId(InUse \cup {n}) :
           /\ devices' = [devices EXCEPT ![d] = [node |-> n, port |-> i]]
           /\ queue' = queue \o <<NodeEvent(n, d), PortEvent(i, n, d)>>
    BY <1>4 DEF Plug
  <2>2. PICK i \in NextId(InUse \cup {n}) :
           /\ devices' = [devices EXCEPT ![d] = [node |-> n, port |-> i]]
           /\ queue' = queue \o <<NodeEvent(n, d), PortEvent(i, n, d)>>
    BY <2>1
  <2>3. n \in Ids /\ i \in Ids /\ i # n /\ \A x \in World : x.id # n /\ x.id # i
    BY FreshId DEF NextId
  <2> DEFINE a == NodeEvent(n, d)
             b == PortEvent(i, n, d)
             W == World \cup {Named(a)}
  <2>4. a \in Announcement /\ b \in Announcement /\ Announces(a) /\ Announces(b)
        /\ a.id = n /\ b.id = i
        /\ Named(a) = [kind |-> "node", id |-> n, owner |-> d]
        /\ Named(b) = [kind |-> "port", id |-> i, owner |-> d]
    BY <2>3, AnnouncementTypes DEF NodeEvent, PortEvent, Announces, Named, Owner, Id
  <2>5. W \subseteq World' /\ Named(b) \in World'
    <3>1. \A x \in World : x.owner # d
      BY <1>4, FilterAssumption DEF Plug, World, Has, Absent, Thing
    <3>2. UNCHANGED <<filter, gone>> /\ devices'[d] = [node |-> n, port |-> i]
          /\ \A c \in Devices \ {d} : devices'[c] = devices[c]
      BY <1>1, <1>4, <2>2 DEF Plug
    <3>3. World \subseteq World'
      <4> SUFFICES ASSUME NEW x \in World PROVE x \in World'
        OBVIOUS
      <4>1. x.owner \in Devices => devices'[x.owner] = devices[x.owner]
        BY <3>1, <3>2
      <4> QED
        BY <3>2, <4>1 DEF World
    <3>4. Named(a) \in World' /\ Named(b) \in World'
      BY <2>3, <2>4, <3>2 DEF World, Has, Thing, Owner
    <3> QED
      BY <3>3, <3>4
  <2> HIDE DEF a, b
  <2>6. Sound(Append(queue, a), Cache, W)
    BY <1>1, <2>3, <2>4, SoundAnnounced DEF GInv
  <2>7. Append(queue, a) \in Seq(Announcement) /\ \A x \in W : x.id # b.id
    BY <1>1, <2>3, <2>4, AppendProperties
  <2>8. Sound(Append(Append(queue, a), b), Cache, World')
    BY <2>4, <2>5, <2>6, <2>7, SoundAnnounced
  <2>9. queue' = Append(Append(queue, a), b)
    BY <1>1, <2>2, <2>4 DEF a, b
  <2> QED
    BY <2>8, <2>9
<1>5. ASSUME NEW d \in Devices, Unplug(d) PROVE Sound(queue', Cache, World')
  <2>1. /\ queue' = queue \o Removal(devices[d]) /\ UNCHANGED <<filter, gone>>
        /\ \A c \in Devices \ {d} : devices'[c] = devices[c]
    BY <1>1, <1>5 DEF Unplug
  <2>2. \A x \in World : x.id \in Used(devices[d]) \/ x \in World'
    <3> TAKE x \in World
    <3>1. CASE x.owner = d
      BY <1>5, <3>1, FilterAssumption DEF World, Thing, Has, Used
    <3>2. CASE x.owner # d
      BY <2>1, <3>2 DEF World
    <3> QED
      BY <3>1, <3>2
  <2> QED
    BY <1>1, <1>5, <2>1, <2>2, SoundRemoval DEF GInv
<1>6. ASSUME NEW d \in Devices, SwitchDefault(d) PROVE Sound(queue', Cache, World')
  <2>1. [op |-> "default", id |-> 0, node |-> 0, owner |-> d] \in Announcement
    BY AnnouncementTypes
  <2>2. GInv'
    BY <1>6, <2>1, SentSound DEF SwitchDefault, Announces, cacheVars
  <2> QED
    BY <1>2, <2>2 DEF GInv
<1>7. CASE FilterNodeAppears
  <2>1. PICK n \in NextId(InUse) :
           filter' = [filter EXCEPT !.node = n] /\ queue' = Append(queue, NodeEvent(n, Ours))
    BY <1>7 DEF FilterNodeAppears
  <2>2. n \in Ids /\ \A x \in World : x.id # n
    BY <2>1, FreshId
  <2>3. filter.node = 0 /\ UNCHANGED <<devices, gone>> /\ filter'.node = n /\ filter'.port = filter.port
    BY <1>1, <1>7, <2>1 DEF FilterNodeAppears, Global
  <2>4. World \subseteq World' /\ [kind |-> "node", id |-> n, owner |-> Ours] \in World'
    BY <2>2, <2>3, FilterAssumption DEF World, Has, Thing, Owner
  <2>5. /\ NodeEvent(n, Ours) \in Announcement /\ Announces(NodeEvent(n, Ours))
        /\ NodeEvent(n, Ours).id = n
        /\ Named(NodeEvent(n, Ours)) = [kind |-> "node", id |-> n, owner |-> Ours]
    BY <2>2, AnnouncementTypes DEF NodeEvent, Announces, Named, Owner
  <2> QED
    BY <1>1, <2>1, <2>2, <2>4, <2>5, SoundAnnounced DEF GInv
<1>8. CASE FilterPortAppears
  <2>1. PICK i \in NextId(InUse) :
           /\ filter' = [filter EXCEPT !.port = i]
           /\ queue' = Append(queue, PortEvent(i, filter.node, Ours))
    BY <1>8 DEF FilterPortAppears
  <2>2. i \in Ids /\ \A x \in World : x.id # i
    BY <2>1, FreshId
  <2>3. filter.port = 0 /\ UNCHANGED <<devices, gone>> /\ filter'.port = i
        /\ filter'.node = filter.node /\ filter.node \in Id
    BY <1>1, <1>8, <2>1 DEF FilterPortAppears, Global
  <2>4. World \subseteq World' /\ [kind |-> "port", id |-> i, owner |-> Ours] \in World'
    BY <2>2, <2>3, FilterAssumption DEF World, Has, Thing, Owner
  <2> DEFINE e == PortEvent(i, filter.node, Ours)
  <2>5. /\ e \in Announcement /\ Announces(e) /\ e.id = i
        /\ Named(e) = [kind |-> "port", id |-> i, owner |-> Ours]
    BY <2>2, <2>3, AnnouncementTypes DEF PortEvent, Announces, Named, Owner
  <2> QED
    BY <1>1, <2>1, <2>2, <2>4, <2>5, SoundAnnounced DEF GInv
<1>9. CASE OldFilterRemoved
  <2>1. PICK g \in gone : gone' = gone \ {g} /\ queue' = queue \o Removal(g)
    BY <1>9 DEF OldFilterRemoved
  <2>2. UNCHANGED <<devices, filter>>
    BY <1>9 DEF OldFilterRemoved
  <2>3. \A x \in World : x.id \in Used(g) \/ x \in World'
    <3> TAKE x \in World
    <3>1. Has(g, x) => x.id \in Used(g)
      BY FilterAssumption DEF World, Thing, Has, Used
    <3> QED
      BY <2>1, <2>2, <3>1 DEF World
  <2> QED
    BY <1>1, <2>1, <2>3, SoundRemoval DEF GInv
<1> QED
  BY <1>4, <1>5, <1>6, <1>7, <1>8, <1>9 DEF Daemon
LEMMA SameSound ==
  ASSUME GInv, UNCHANGED <<devices, filter, gone, queue, nodes, discovered>>
  PROVE  GInv'
<1>1. World' = World /\ Cache' = Cache
  BY DEF World, Cache
<1> QED
  BY <1>1 DEF GInv, Apart

LEMMA ThreadSound == TInv /\ GInv /\ (DataThread \/ LoopThread) => GInv'
<1> SUFFICES ASSUME TInv, GInv, DataThread \/ LoopThread PROVE GInv'
  OBVIOUS
<1> DEFINE e == Head(queue)
<1>1. CASE DataThread
  <2>1. UNCHANGED <<devices, filter, gone, queue, nodes, discovered>>
    BY <1>1, Zenon DEF DataThread, FilterBound, FilterError, FilterPauses, daemonVars, cacheVars
  <2> QED
    BY <2>1, SameSound
<1>2. ASSUME NEW op, Receive(op)
      PROVE  /\ queue # <<>> /\ queue' = Tail(queue) /\ e.op = op
             /\ UNCHANGED <<devices, filter, gone>>
  BY <1>2 DEF Receive
<1>3. queue # <<>> => e \in Announcement
  BY HeadTailProperties DEF TInv
<1>4. CASE CacheNode
  <2>1. Receive("node")
    BY <1>4 DEF CacheNode
  <2>2. Named(e) = [kind |-> "node", id |-> e.id, owner |-> e.owner] /\ Announces(e) /\ e.op = "node"
    BY <1>2, <2>1 DEF Named, Announces
  <2>3. /\ nodes' \subseteq nodes \cup {[id |-> e.id, owner |-> e.owner]}
        /\ discovered' = discovered
    BY <1>4 DEF CacheNode
  <2>4. ASSUME NEW x \in Cache' PROVE x \in Cache \/ x = Named(e)
    <3>1. CASE x.kind = "node" /\ [id |-> x.id, owner |-> x.owner] \in nodes'
      <4>1. CASE [id |-> x.id, owner |-> x.owner] \in nodes
        BY <2>4, <3>1, <4>1 DEF Cache
      <4>2. CASE [id |-> x.id, owner |-> x.owner] = [id |-> e.id, owner |-> e.owner]
        <5>1. x.id = e.id /\ x.owner = e.owner
          BY <4>2
        <5> QED
          BY <2>2, <2>4, <3>1, <5>1 DEF Cache, Thing
      <4> QED
        BY <2>3, <3>1, <4>1, <4>2
    <3>2. CASE x.kind = "port" /\ \E p \in discovered' : p.id = x.id /\ p.owner = x.owner
      BY <2>3, <2>4, <3>2 DEF Cache
    <3> QED
      BY <2>4, <3>1, <3>2 DEF Cache
  <2> QED
    BY <1>2, <2>1, <2>2, <2>4, HandledSound DEF Removes
<1>5. CASE BackfillPort \/ DefaultProperty \/ CoreDone
  <2>1. UNCHANGED cacheVars /\ \E op \in {"port", "default", "done"} : Receive(op)
    BY <1>5 DEF BackfillPort, DefaultProperty, CoreDone
  <2>2. PICK op \in {"port", "default", "done"} : Receive(op)
    BY <2>1
  <2>3. Cache' = Cache
    BY <2>1 DEF cacheVars, Cache
  <2> QED
    BY <1>2, <2>2, <2>3, HandledSound DEF Removes
<1>6. CASE CachePort
  <2>1. Receive("port")
    BY <1>6 DEF CachePort
  <2>2. Named(e) = [kind |-> "port", id |-> e.id, owner |-> e.owner] /\ Announces(e) /\ e.op = "port"
    BY <1>2, <2>1 DEF Named, Announces
  <2>3. /\ discovered' \subseteq discovered \cup {[id |-> e.id, node |-> e.node, owner |-> e.owner]}
        /\ nodes' = nodes
    BY <1>6 DEF CachePort
  <2>4. ASSUME NEW x \in Cache' PROVE x \in Cache \/ x = Named(e)
    <3>1. CASE x.kind = "node" /\ [id |-> x.id, owner |-> x.owner] \in nodes'
      BY <2>3, <2>4, <3>1 DEF Cache
    <3>2. CASE x.kind = "port" /\ \E p \in discovered' : p.id = x.id /\ p.owner = x.owner
      <4>1. PICK p \in discovered' : p.id = x.id /\ p.owner = x.owner
        BY <3>2
      <4>2. CASE p \in discovered
        BY <2>4, <3>2, <4>1, <4>2 DEF Cache
      <4>3. CASE p = [id |-> e.id, node |-> e.node, owner |-> e.owner]
        <5>1. x.id = e.id /\ x.owner = e.owner
          BY <4>1, <4>3
        <5> QED
          BY <2>2, <2>4, <3>2, <5>1 DEF Cache, Thing
      <4> QED
        BY <2>3, <4>1, <4>2, <4>3
    <3> QED
      BY <2>4, <3>1, <3>2 DEF Cache
  <2> QED
    BY <1>2, <2>1, <2>2, <2>4, HandledSound DEF Removes
<1>7. CASE RemoveGlobal
  <2>1. Receive("remove")
    BY <1>7 DEF RemoveGlobal
  <2>2. /\ nodes' \subseteq nodes /\ discovered' \subseteq discovered
        /\ \A p \in discovered' : p.id # e.id
        /\ (\E p \in discovered : p.id = e.id) \/ \A n \in nodes' : n.id # e.id
    BY <1>7 DEF RemoveGlobal
  <2>3. Cache' \subseteq Cache
    BY <2>2 DEF Cache
  <2>4. ASSUME NEW x \in Cache', x.id = e.id PROVE FALSE
    <3>1. x.kind = "node" /\ [id |-> x.id, owner |-> x.owner] \in nodes'
      BY <2>2, <2>4 DEF Cache
    <3>2. PICK p \in discovered : p.id = e.id
      BY <2>2, <2>4, <3>1
    <3>3. p.id \in Ids /\ p.owner \in Owner
      BY DEF TInv, TypeOK
    <3> DEFINE y == [kind |-> "port", id |-> p.id, owner |-> p.owner]
    <3>4. y \in Cache /\ y.id = x.id /\ y.kind # x.kind
      BY <2>4, <3>1, <3>2, <3>3 DEF Cache, Thing
    <3> QED
      BY <2>3, <2>4, <3>4 DEF GInv, Apart
  <2> QED
    BY <1>2, <2>1, <2>3, <2>4, HandledSound DEF Removes
<1> QED
  BY <1>1, <1>4, <1>5, <1>6, <1>7 DEF LoopThread

\* A filter that is destroyed is there until the daemon removes it.
LEMMA TeardownSound == ASSUME TInv, GInv, Teardown PROVE GInv'
<1>1. World \subseteq World'
  <2> SUFFICES ASSUME NEW x \in World PROVE x \in World'
    OBVIOUS
  <2>1. x.id # 0 /\ Absent.node = 0 /\ Absent.port = 0
    BY FilterAssumption DEF World, Thing, Absent
  <2>2. ASSUME NEW g \in gone \cup {filter}, Has(g, x) PROVE g \in gone' \cup {filter'}
    BY <2>1, <2>2 DEF Teardown, Has
  <2> QED
    BY <2>2 DEF World, Teardown
<1>2. Cache' = Cache /\ queue' = queue
  BY DEF Teardown, cacheVars, Cache
<1> QED
  BY <1>1, <1>2, SoundMonotonic DEF GInv, Apart

LEMMA DriverSound == TInv /\ GInv /\ (InCall \/ Activate \/ DisposeBuffers) => GInv'
<1> SUFFICES ASSUME TInv, GInv, InCall \/ Activate \/ DisposeBuffers PROVE GInv'
  OBVIOUS
<1>1. CASE DisposeBuffers \/ BindFails
  BY <1>1, TeardownSound DEF DisposeBuffers, BindFails
<1>2. CASE Sync
  <2>1. [op |-> "done", id |-> syncSeq + 1, node |-> 0, owner |-> None] \in Announcement
    BY AnnouncementTypes DEF TInv, TypeOK
  <2> QED
    BY <1>2, <2>1, SentSound DEF Sync, Announces, cacheVars
<1>3. CASE AdoptOwnPorts
  <2>1. World' = World /\ queue' = queue /\ discovered' \subseteq discovered /\ nodes' = nodes
    BY <1>3 DEF AdoptOwnPorts, daemonVars, World
  <2>2. Cache' \subseteq Cache
    BY <2>1 DEF Cache
  <2> QED
    BY <2>1, <2>2 DEF GInv, Apart, Sound
<1>4. CASE Activate \/ BindTest \/ Waits \/ TakeNodeId \/ CountPorts
  <2>1. UNCHANGED <<devices, filter, gone, queue, nodes, discovered>>
    BY <1>4, Zenon DEF Activate, BindTest, Waits, BindTimesOut, SettleTimesOut, TakeNodeId,
                       CountPorts, daemonVars, cacheVars
  <2> QED
    BY <2>1, SameSound
<1>5. CASE ListPorts \/ PortByName \/ PortType \/ Connect
  <2>1. UNCHANGED <<devices, filter, gone, queue, nodes, discovered>>
    BY <1>5, Zenon DEF ListPorts, PortByName, PortType, Connect, daemonVars, cacheVars
  <2> QED
    BY <2>1, SameSound
<1> QED
  BY <1>1, <1>2, <1>3, <1>4, <1>5 DEF InCall

LEMMA InitSound == Init => GInv
<1> SUFFICES ASSUME Init PROVE GInv
  OBVIOUS
<1>1. devices \in [Devices -> {Absent} \cup [node : Ids, port : Ids]] /\ queue = <<>>
      /\ devices \in Initial
  BY FilterAssumption DEF Init
<1>2. \A x \in Cache : x.owner \in Devices /\ devices[x.owner] # Absent /\ Has(devices[x.owner], x)
  <2>1. /\ \A n \in nodes : n.owner \in Devices /\ devices[n.owner] # Absent
                           /\ devices[n.owner].node = n.id
        /\ \A p \in discovered : p.owner \in Devices /\ devices[p.owner] # Absent
                                /\ devices[p.owner].port = p.id
    BY DEF Init
  <2> TAKE x \in Cache
  <2>2. CASE x.kind = "node" /\ [id |-> x.id, owner |-> x.owner] \in nodes
    <3> DEFINE n == [id |-> x.id, owner |-> x.owner]
    <3>1. n \in nodes /\ n.id = x.id /\ n.owner = x.owner
      BY <2>2
    <3> HIDE DEF n
    <3> QED
      BY <2>1, <2>2, <3>1 DEF Has
  <2>3. CASE x.kind = "port" /\ \E p \in discovered : p.id = x.id /\ p.owner = x.owner
    BY <2>1, <2>3 DEF Has
  <2> QED
    BY <2>2, <2>3 DEF Cache
<1>3. Cache \subseteq World
  BY <1>2 DEF Cache, World
<1>4. \A x \in Cache : x.id \in Used(devices[x.owner])
  BY <1>2, FilterAssumption DEF Has, Used, Cache, Thing
<1>5. ASSUME NEW x \in Cache, NEW y \in Cache, x.id = y.id PROVE x = y
  <2>1. x.owner = y.owner
    BY <1>1, <1>2, <1>4, <1>5, InitialAssumption
  <2>2. x.kind = y.kind
    BY <1>1, <1>2, <1>5, <2>1, InitialAssumption DEF Has, Cache, Thing
  <2> QED
    BY <1>5, <2>1, <2>2 DEF Cache, Thing
<1>6. Sound(queue, Cache, World)
  BY <1>1, <1>3 DEF Sound, Lasts, Quiet
<1> QED
  BY <1>5, <1>6 DEF GInv, Apart

\* Once the registry's events are handled, each device the driver has cached is
\* there under the ids it has cached, in whatever order nodes, ports and filters
\* came and went and ids were given again (audio_on_registry_global_remove,
\* audio.c, looks a removed id up among the ports first and then the nodes).
THEOREM CachesFollowWorld == Spec => []NoGhosts
<1>1. TInv /\ GInv /\ [Next]_vars => GInv'
  <2>1. GInv /\ UNCHANGED vars => GInv'
    BY SameSound DEF vars, daemonVars, cacheVars
  <2> QED
    BY <2>1, DaemonSound, ThreadSound, DriverSound DEF Next
<1>2. TInv /\ GInv => NoGhosts
  <2> SUFFICES ASSUME TInv, GInv, queue = <<>>
               PROVE  /\ \A n \in nodes : n.owner # Ours => devices[n.owner].node = n.id
                      /\ \A p \in discovered : p.owner # Ours => devices[p.owner].port = p.id
    BY DEF NoGhosts
  <2>1. \A x \in Cache : x \in World
    BY DEF GInv, Sound, Lasts
  <2>2. ASSUME NEW n \in nodes, n.owner # Ours PROVE devices[n.owner].node = n.id
    <3> DEFINE x == [kind |-> "node", id |-> n.id, owner |-> n.owner]
    <3>1. n \in [id : Ids, owner : Owner] /\ n = [id |-> n.id, owner |-> n.owner]
      BY DEF TInv, TypeOK
    <3>2. x \in Cache
      BY <3>1 DEF Cache, Thing
    <3> QED
      BY <2>1, <2>2, <3>2 DEF World, Has
  <2>3. ASSUME NEW p \in discovered, p.owner # Ours PROVE devices[p.owner].port = p.id
    <3> DEFINE x == [kind |-> "port", id |-> p.id, owner |-> p.owner]
    <3>1. p.id \in Ids /\ p.owner \in Owner
      BY DEF TInv, TypeOK
    <3>2. x \in Cache
      BY <3>1 DEF Cache, Thing
    <3> QED
      BY <2>1, <2>3, <3>2 DEF World, Has
  <2> QED
    BY <2>2, <2>3
<1> QED
  BY <1>1, <1>2, InitSound, TypesAlways, PTL DEF Spec
-----------------------------------------------------------------------------
(* The first activation links a device that is there.                       *)

\* Some device is there when the driver is opened.
SomeDevice == \A f \in Initial : \E d \in Devices : f[d] # Absent

\* A device is there and the driver knows it.
Known(d) ==
    /\ devices[d].node # 0 /\ devices[d].port # 0
    /\ [id |-> devices[d].node, owner |-> d] \in nodes
    /\ [id |-> devices[d].port, node |-> devices[d].node, owner |-> d] \in discovered

\* Events of a daemon at rest are about the driver's own filters.
OwnEvent(e) ==
    /\ e.op \in {"node", "port"} => e.owner = Ours
    /\ e.op = "port" => e.node # 0
    /\ e.op = "remove" => \A d \in Devices : e.id \notin Used(devices[d])
    /\ e.op # "default"

AllOwn(q) == \A k \in 1 .. Len(q) : OwnEvent(q[k])

Hardware ==
    /\ \A d \in Devices : devices[d] = Absent \/ Known(d)
    /\ \A n \in nodes : n.owner # Ours => devices[n.owner].node = n.id
    /\ \A p \in discovered : p.owner # Ours => devices[p.owner].port = p.id
    /\ AllOwn(queue)
    /\ \A g \in gone \cup {filter} : \A d \in Devices : Used(g) \cap Used(devices[d]) = {}

\* Between bind and teardown the driver's node id is the filter's, or not known.
Binding ==
    /\ connected => bound \in {0, filter.node} /\ ourNode \in {0, bound}
    /\ ~ connected => pc = "idle"
    /\ activations = 0 => ~ connected /\ bound = 0 /\ ourNode = 0
    /\ portId # 0 /\ connected => ourNode # 0

Linking ==
    /\ physPorts \in Devices /\ devices[physPorts] # Absent
    /\ pc \in {"list", "lookup", "type", "connect"} /\ attempt < MaxAttempts => portId # 0
    /\ pc \in {"lookup", "type", "connect"} /\ attempt < MaxAttempts =>
          names \in Devices /\ devices[names] # Absent
    /\ FirstActivationLinks

AtRest == changes = 0 /\ activations <= 1
FInv == AtRest => Hardware /\ Binding /\ Linking

LEMMA InitFirst == SomeDevice /\ Init => FInv
<1> SUFFICES ASSUME SomeDevice, Init PROVE Hardware /\ Binding /\ Linking
  BY DEF FInv
<1>1. /\ devices \in [Devices -> {Absent} \cup [node : Ids, port : Ids]]
      /\ \E d \in Devices : devices[d] # Absent
  BY FilterAssumption DEF Init, SomeDevice
<1>2. \A d \in Devices : devices[d] # Absent => Known(d)
  BY <1>1, FilterAssumption DEF Init, Known
<1>3. /\ \A n \in nodes : n.owner \in Devices /\ devices[n.owner].node = n.id
      /\ \A p \in discovered : /\ p.owner \in Devices /\ devices[p.owner] # Absent
                               /\ devices[p.owner].port = p.id
  BY DEF Init
<1>4. Hardware
  BY <1>2, <1>3 DEF Init, Hardware, AllOwn, Used, Absent
<1>5. physPorts \in Devices /\ devices[physPorts] # Absent
  <2>1. \E p \in discovered : TRUE
    BY <1>1, <1>2 DEF Known
  <2>2. CASE Preferred(defaultName)
    <3>1. PICK n \in nodes : n.owner = defaultName
      BY <2>2 DEF Preferred
    <3>2. devices[n.owner] # Absent
      BY <3>1 DEF Init
    <3> QED
      BY <2>2, <3>1, <3>2 DEF Init, Available
  <2>3. CASE ~ Preferred(defaultName)
    BY <1>3, <2>1, <2>3 DEF Init, Available
  <2> QED
    BY <2>2, <2>3
<1> QED
  BY <1>4, <1>5 DEF Init, Binding, Linking, FirstActivationLinks

LEMMA OwnConcat ==
  ASSUME NEW q \in Seq(Announcement), NEW s \in Seq(Announcement), AllOwn(q), AllOwn(s)
  PROVE  AllOwn(q \o s)
<1> DEFINE r == q \o s
<1>1. /\ Len(r) = Len(q) + Len(s) /\ Len(q) \in Nat /\ Len(s) \in Nat
      /\ \A k \in 1 .. Len(q) + Len(s) :
           r[k] = IF k <= Len(q) THEN q[k] ELSE s[k - Len(q)]
  BY ConcatProperties, LenProperties
<1> HIDE DEF r
<1>2. ASSUME NEW k \in 1 .. Len(r) PROVE OwnEvent(r[k])
  <2>1. CASE k <= Len(q)
    BY <1>1, <2>1 DEF AllOwn
  <2>2. CASE ~ (k <= Len(q))
    <3>1. k - Len(q) \in 1 .. Len(s) /\ r[k] = s[k - Len(q)]
      BY <1>1, <2>2
    <3> QED
      BY <3>1 DEF AllOwn
  <2> QED
    BY <2>1, <2>2
<1> QED
  BY <1>2 DEF AllOwn, r

LEMMA OwnOne == ASSUME NEW e \in Announcement, OwnEvent(e) PROVE AllOwn(<<e>>)
<1>1. Len(<<e>>) = 1 /\ <<e>>[1] = e
  OBVIOUS
<1>2. \A k \in 1 .. Len(<<e>>) : k = 1
  BY <1>1
<1> QED
  BY <1>1, <1>2 DEF AllOwn

LEMMA OwnOneMore ==
  ASSUME TInv, Hardware, NEW e \in Announcement, queue' = Append(queue, e), OwnEvent(e)
  PROVE  AllOwn(queue')
<1>1. queue' = queue \o <<e>> /\ <<e>> \in Seq(Announcement) /\ queue \in Seq(Announcement)
  BY AppendIsConcat DEF TInv
<1> QED
  BY <1>1, OwnOne, OwnConcat DEF Hardware

LEMMA DaemonFirst == TInv /\ FInv /\ Daemon => FInv'
<1> SUFFICES ASSUME TInv, FInv, Daemon, AtRest' PROVE Hardware' /\ Binding' /\ Linking'
  BY DEF FInv
<1>1. changes' = changes /\ activations' = activations
      /\ (FilterNodeAppears \/ FilterPortAppears \/ OldFilterRemoved)
  <2>1. changes \in Nat /\ (Change => changes' # 0)
    BY FilterAssumption DEF Change, TInv, TypeOK
  <2> QED
    BY <2>1 DEF Daemon, Plug, Unplug, SwitchDefault, FilterNodeAppears, FilterPortAppears,
                OldFilterRemoved, AtRest, driverVars
<1>2. Hardware /\ Binding /\ Linking
  BY <1>1 DEF FInv, AtRest
<1>3. UNCHANGED <<devices, boundVars, ourNode, portId, cacheVars, setVars, pc, driverVars>>
  BY <1>1, Zenon DEF FilterNodeAppears, FilterPortAppears, OldFilterRemoved
<1>4. Linking'
  BY <1>1, <1>2, <1>3 DEF Linking, FirstActivationLinks, setVars, driverVars
<1>5. ASSUME AllOwn(queue'),
             \A g \in gone' \cup {filter'} : \A d \in Devices : Used(g) \cap Used(devices[d]) = {}
      PROVE  Hardware'
  BY <1>2, <1>3, <1>5 DEF Hardware, Known, AllOwn, OwnEvent, cacheVars
<1>6. filter \in Global /\ gone \subseteq Global /\ devices \in [Devices -> Global]
  BY DEF TInv, TypeOK
<1>7. \A used : InUse \subseteq used =>
        \A i \in NextId(used) : i \in Ids /\ \A d \in Devices : i \notin Used(devices[d])
  <2> DEFINE old == UNION {Used(g) : g \in gone}
             there == UNION {Used(devices[d]) : d \in Devices}
  <2>1. \A d \in Devices : Used(devices[d]) \subseteq there
    OBVIOUS
  <2>2. InUse = Used(filter) \cup old \cup there
    BY Zenon DEF InUse
  <2> HIDE DEF old, there
  <2> QED
    BY <2>1, <2>2 DEF NextId
<1>8. CASE FilterNodeAppears
  <2>1. PICK n \in NextId(InUse) :
           filter' = [filter EXCEPT !.node = n] /\ queue' = Append(queue, NodeEvent(n, Ours))
    BY <1>8 DEF FilterNodeAppears
  <2>2. n \in Ids /\ \A d \in Devices : n \notin Used(devices[d])
    BY <1>7, <2>1
  <2>3. filter.node = 0 /\ gone' = gone /\ filter'.node = n /\ filter'.port = filter.port
    BY <1>6, <1>8, <2>1 DEF FilterNodeAppears, Global
  <2>4. NodeEvent(n, Ours) \in Announcement /\ OwnEvent(NodeEvent(n, Ours))
    BY <2>2, AnnouncementTypes DEF NodeEvent, OwnEvent, Owner
  <2>5. Hardware'
    <3>1. AllOwn(queue')
      BY <1>2, <2>1, <2>4, OwnOneMore
    <3>2. \A d \in Devices : Used(filter') \cap Used(devices[d]) = {}
      BY <1>2, <2>2, <2>3 DEF Hardware, Used
    <3> QED
      BY <1>2, <1>5, <2>3, <3>1, <3>2 DEF Hardware
  <2>6. Binding'
    BY <1>1, <1>2, <1>3, <2>3 DEF Binding, boundVars
  <2> QED
    BY <1>4, <2>5, <2>6
<1>9. CASE FilterPortAppears
  <2>1. PICK i \in NextId(InUse) :
           /\ filter' = [filter EXCEPT !.port = i]
           /\ queue' = Append(queue, PortEvent(i, filter.node, Ours))
    BY <1>9 DEF FilterPortAppears
  <2>2. i \in Ids /\ \A d \in Devices : i \notin Used(devices[d])
    BY <1>7, <2>1
  <2>3. filter.node # 0 /\ filter.node \in Id /\ gone' = gone /\ filter'.port = i
        /\ filter'.node = filter.node
    BY <1>6, <1>9, <2>1 DEF FilterPortAppears, Global
  <2>4. /\ PortEvent(i, filter.node, Ours) \in Announcement
        /\ OwnEvent(PortEvent(i, filter.node, Ours))
    BY <2>2, <2>3, AnnouncementTypes DEF PortEvent, OwnEvent, Owner
  <2>5. Hardware'
    <3>1. AllOwn(queue')
      BY <1>2, <2>1, <2>4, OwnOneMore
    <3>2. \A d \in Devices : Used(filter') \cap Used(devices[d]) = {}
      BY <1>2, <2>2, <2>3 DEF Hardware, Used
    <3> QED
      BY <1>2, <1>5, <2>3, <3>1, <3>2 DEF Hardware
  <2>6. Binding'
    BY <1>1, <1>2, <1>3, <2>3 DEF Binding, boundVars
  <2> QED
    BY <1>4, <2>5, <2>6
<1>10. CASE OldFilterRemoved
  <2>1. PICK g \in gone : gone' = gone \ {g} /\ queue' = queue \o Removal(g)
    BY <1>10 DEF OldFilterRemoved
  <2>2. filter' = filter
    BY <1>10 DEF OldFilterRemoved
  <2>3. \A i \in Used(g) : OwnEvent(RemoveEvent(i))
    BY <1>2, <2>1 DEF RemoveEvent, OwnEvent, Hardware
  <2>4. Removal(g) \in Seq(Announcement) /\ AllOwn(Removal(g))
    <3> DEFINE a == IF g.port # 0 THEN <<RemoveEvent(g.port)>> ELSE <<>>
               b == IF g.node # 0 THEN <<RemoveEvent(g.node)>> ELSE <<>>
    <3>1. Removal(g) = a \o b
      BY DEF Removal
    <3>2. AllOwn(<<>>) /\ <<>> \in Seq(Announcement)
      BY DEF AllOwn
    <3>3. a \in Seq(Announcement) /\ AllOwn(a)
      <4>1. g.port # 0 => g.port \in Used(g) /\ g.port \in Ids
        BY <1>6, <2>1 DEF Used, Global, Id
      <4>2. g.port # 0 => RemoveEvent(g.port) \in Announcement /\ OwnEvent(RemoveEvent(g.port))
        BY <2>3, <4>1, AnnouncementTypes
      <4> QED
        BY <3>2, <4>2, OwnOne
    <3>4. b \in Seq(Announcement) /\ AllOwn(b)
      <4>1. g.node # 0 => g.node \in Used(g) /\ g.node \in Ids
        BY <1>6, <2>1 DEF Used, Global, Id
      <4>2. g.node # 0 => RemoveEvent(g.node) \in Announcement /\ OwnEvent(RemoveEvent(g.node))
        BY <2>3, <4>1, AnnouncementTypes
      <4> QED
        BY <3>2, <4>2, OwnOne
    <3> HIDE DEF a, b
    <3> QED
      BY <3>1, <3>3, <3>4, OwnConcat, ConcatProperties
  <2>5. Hardware'
    <3>1. AllOwn(queue')
      BY <1>2, <2>1, <2>4, OwnConcat DEF TInv, Hardware
    <3> QED
      BY <1>2, <1>5, <2>1, <2>2, <3>1 DEF Hardware
  <2>6. Binding'
    BY <1>1, <1>2, <1>3, <2>2 DEF Binding, boundVars
  <2> QED
    BY <1>4, <2>5, <2>6
<1> QED
  BY <1>1, <1>8, <1>9, <1>10
\* A signal moves the driver thread on, and to the ports' list only in its last round.
LEMMA SignalPlaces ==
  ASSUME TInv, Signal
  PROVE  /\ pc' # "idle" <=> pc # "idle"
         /\ pc' = "list" => pc = "list" \/ attempt = MaxAttempts
         /\ pc' \in {"lookup", "type", "connect", "active"} => pc' = pc
  BY FilterAssumption DEF Signal, Awake, TInv, TypeOK

LEMMA LinkingKept ==
  ASSUME TInv, Linking, UNCHANGED <<devices, physPorts, attempt, names, link, activations>>,
         changes' = changes, Signal \/ pc' = pc, portId' = portId \/ portId' # 0
  PROVE  Linking'
<1>1. /\ pc' = "list" => pc = "list" \/ attempt = MaxAttempts
      /\ pc' \in {"lookup", "type", "connect", "active"} => pc' = pc
  BY SignalPlaces
<1>2. attempt' < MaxAttempts => attempt < MaxAttempts /\ attempt # MaxAttempts
  BY FilterAssumption DEF TInv, TypeOK
<1> QED
  BY <1>1, <1>2 DEF Linking, FirstActivationLinks

LEMMA ThreadFirst == TInv /\ FInv /\ (DataThread \/ LoopThread) => FInv'
<1> SUFFICES ASSUME TInv, FInv, DataThread \/ LoopThread, AtRest'
             PROVE  Hardware' /\ Binding' /\ Linking'
  BY DEF FInv
<1> DEFINE e == Head(queue)
<1>1. CASE DataThread
  <2>1. UNCHANGED <<daemonVars, portId, cacheVars, setVars, driverVars>> /\ Signal
        /\ connected' = connected
    BY <1>1 DEF DataThread, FilterBound, FilterError, FilterPauses, boundVars
  <2>2. Hardware /\ Binding /\ Linking
    BY <2>1 DEF FInv, AtRest, daemonVars, driverVars
  <2>3. Hardware'
    BY <2>1, <2>2 DEF Hardware, Known, AllOwn, OwnEvent, daemonVars, cacheVars
  <2>4. Linking'
    BY <2>1, <2>2, LinkingKept DEF daemonVars, setVars, driverVars
  <2>5. pc' # "idle" <=> pc # "idle"
    BY <2>1, SignalPlaces
  <2>6. activations' = activations /\ filter' = filter
    BY <2>1 DEF driverVars, daemonVars
  <2>7. connected => activations # 0
    <3>1. activations = 0 => ~ connected
      BY <1>1, <2>2 DEF Binding, DataThread, FilterBound, FilterError, FilterPauses
    <3> QED
      BY <3>1
  <2>8. Binding'
    BY <1>1, <2>1, <2>2, <2>5, <2>6, <2>7
       DEF Binding, DataThread, FilterBound, FilterError, FilterPauses, boundVars
  <2> QED
    BY <2>3, <2>4, <2>8
<1>2. ASSUME NEW op, Receive(op)
      PROVE  /\ e \in Announcement /\ e.op = op /\ OwnEvent(e)
             /\ AllOwn(queue')
             /\ UNCHANGED <<devices, filter, gone, changes, boundVars, ourNode, setVars, driverVars>>
             /\ Hardware /\ Binding /\ Linking
  <2>1. Hardware /\ Binding /\ Linking
    BY <1>2 DEF Receive, FInv, AtRest, driverVars
  <2>2. Len(queue) \in Nat \ {0} /\ e = queue[1] /\ e \in Announcement /\ Len(queue') = Len(queue) - 1
        /\ \A k \in 1 .. Len(queue') : queue'[k] = queue[k + 1]
    BY <1>2, EmptySeq, HeadTailProperties DEF Receive, TInv
  <2>3. OwnEvent(e) /\ AllOwn(queue')
    <3>1. 1 \in 1 .. Len(queue) /\ \A k \in 1 .. Len(queue') : k + 1 \in 1 .. Len(queue)
      BY <2>2
    <3>2. \A d \in Devices : devices'[d] = devices[d]
      BY <1>2 DEF Receive
    <3> QED
      BY <2>1, <2>2, <3>1, <3>2 DEF Hardware, AllOwn, OwnEvent
  <2> QED
    BY <1>2, <2>1, <2>2, <2>3 DEF Receive
<1>3. ASSUME Hardware, AllOwn(queue'), UNCHANGED <<devices, filter, gone, nodes, discovered>>
      PROVE  Hardware'
  BY <1>3 DEF Hardware, Known, AllOwn, OwnEvent
<1>4. ASSUME Binding, UNCHANGED <<filter, boundVars, ourNode, driverVars>>, portId' = portId,
             pc' = "idle" <=> pc = "idle"
      PROVE  Binding'
  BY <1>4 DEF Binding, boundVars, driverVars
<1>5. CASE CacheNode
  <2>1. Receive("node") /\ UNCHANGED <<portId, discovered, pc>>
        /\ nodes \subseteq nodes' /\ nodes' \subseteq nodes \cup {[id |-> e.id, owner |-> e.owner]}
    BY <1>5 DEF CacheNode
  <2>2. e.owner = Ours /\ Hardware /\ Binding /\ Linking /\ AllOwn(queue')
    BY <1>2, <2>1 DEF OwnEvent
  <2>3. Hardware'
    BY <1>2, <2>1, <2>2 DEF Hardware, Known, AllOwn, OwnEvent
  <2>4. Binding' /\ Linking'
    BY <1>2, <1>4, <2>1, <2>2, LinkingKept DEF setVars, driverVars
  <2> QED
    BY <2>3, <2>4
<1>6. CASE BackfillPort
  <2>1. Receive("port") /\ UNCHANGED cacheVars /\ e.node = ourNode
        /\ ((portId' = e.id /\ Signal) \/ UNCHANGED <<portId, pc>>)
    BY <1>6 DEF BackfillPort
  <2>2. e.node # 0 /\ e.id \in Ids /\ Hardware /\ Binding /\ Linking /\ AllOwn(queue')
    BY <1>2, <2>1 DEF OwnEvent, Announcement
  <2>3. Hardware'
    BY <1>2, <1>3, <2>1, <2>2 DEF cacheVars
  <2>4. portId' # portId => portId' # 0 /\ ourNode # 0
    BY <2>1, <2>2, FilterAssumption
  <2>5. Linking'
    BY <1>2, <2>1, <2>2, <2>4, LinkingKept DEF setVars, driverVars
  <2>6. pc' = "idle" <=> pc = "idle"
    BY <2>1, SignalPlaces
  <2>7. Binding'
    BY <1>2, <2>1, <2>2, <2>4, <2>6 DEF Binding, boundVars, driverVars
  <2> QED
    BY <2>3, <2>5, <2>7
<1>7. CASE CachePort
  <2>1. Receive("port") /\ UNCHANGED <<portId, nodes, pc>> /\ discovered \subseteq discovered'
        /\ discovered' \subseteq discovered \cup {[id |-> e.id, node |-> e.node, owner |-> e.owner]}
    BY <1>7 DEF CachePort
  <2>2. e.owner = Ours /\ Hardware /\ Binding /\ Linking /\ AllOwn(queue')
    BY <1>2, <2>1 DEF OwnEvent
  <2>3. Hardware'
    BY <1>2, <2>1, <2>2 DEF Hardware, Known, AllOwn, OwnEvent
  <2>4. Binding' /\ Linking'
    BY <1>2, <1>4, <2>1, <2>2, LinkingKept DEF setVars, driverVars
  <2> QED
    BY <2>3, <2>4
<1>8. CASE RemoveGlobal
  <2>1. Receive("remove") /\ UNCHANGED <<portId, pc>>
        /\ discovered' \subseteq discovered /\ nodes' \subseteq nodes
        /\ \A p \in discovered : p.id # e.id => p \in discovered'
        /\ \A n \in nodes : n.id # e.id => n \in nodes'
    BY <1>8 DEF RemoveGlobal
  <2>2. (\A d \in Devices : e.id \notin Used(devices[d]))
        /\ Hardware /\ Binding /\ Linking /\ AllOwn(queue')
    BY <1>2, <2>1 DEF OwnEvent
  <2>3. \A d \in Devices : Known(d) => e.id # devices[d].node /\ e.id # devices[d].port
    BY <2>2 DEF Known, Used
  <2>4. Hardware'
    <3>1. \A d \in Devices : Known(d) => Known(d)'
      BY <1>2, <2>1, <2>3 DEF Known
    <3> QED
      BY <1>2, <2>1, <2>2, <3>1 DEF Hardware, AllOwn, OwnEvent
  <2>5. Binding' /\ Linking'
    BY <1>2, <1>4, <2>1, <2>2, LinkingKept DEF setVars, driverVars
  <2> QED
    BY <2>4, <2>5
<1>9. CASE DefaultProperty
  <2>1. Receive("default")
    BY <1>9 DEF DefaultProperty
  <2> QED
    BY <1>2, <2>1 DEF OwnEvent
<1>10. CASE CoreDone
  <2>1. Receive("done") /\ UNCHANGED <<portId, cacheVars>> /\ (Signal \/ pc' = pc)
    BY <1>10 DEF CoreDone
  <2>2. Hardware'
    BY <1>2, <1>3, <2>1 DEF cacheVars
  <2>3. pc' = "idle" <=> pc = "idle"
    BY <2>1, SignalPlaces
  <2>4. Binding' /\ Linking'
    BY <1>2, <1>4, <2>1, <2>3, LinkingKept DEF setVars, driverVars
  <2> QED
    BY <2>2, <2>4
<1> QED
  BY <1>1, <1>5, <1>6, <1>7, <1>8, <1>9, <1>10 DEF LoopThread
\* A device the driver knows, by the lookups the driver thread makes.
LEMMA KnownDevices ==
  ASSUME TInv, Hardware, NEW d \in Devices, devices[d] # Absent
  PROVE  /\ Known(d) /\ d # Ours
         /\ \E p \in discovered : p.owner = d
         /\ Preferred(d)
         /\ \A p \in discovered : p.owner = d => p.id = devices[d].port
  BY FilterAssumption DEF Hardware, Known, Preferred

LEMMA KnownOwners ==
  ASSUME TInv, Hardware, NEW d \in Devices,
         (\E p \in discovered : p.owner = d) \/ (\E n \in nodes : n.owner = d)
  PROVE  devices[d] # Absent
<1>1. d # Ours /\ Absent.node = 0 /\ Absent.port = 0
  BY FilterAssumption DEF Absent
<1>2. (\A n \in nodes : n.id # 0) /\ (\A p \in discovered : p.id # 0)
  BY FilterAssumption DEF TInv, TypeOK
<1> QED
  BY <1>1, <1>2 DEF Hardware

LEMMA DriverFirst == TInv /\ OwnInv /\ FInv /\ (InCall \/ Activate \/ DisposeBuffers) => FInv'
<1> SUFFICES ASSUME TInv, OwnInv, FInv, InCall \/ Activate \/ DisposeBuffers, AtRest'
             PROVE  Hardware' /\ Binding' /\ Linking'
  BY DEF FInv
<1>0. activations \in Nat /\ attempt \in 0 .. MaxAttempts /\ MaxAttempts \in Nat \ {0}
  BY FilterAssumption DEF TInv, TypeOK
<1>1. changes' = changes /\ activations' \in Nat /\ activations <= activations'
      /\ (Activate \/ activations' = activations)
  BY <1>0 DEF InCall, Activate, DisposeBuffers, Teardown, BindFails, BindTest, Waits, BindTimesOut,
              SettleTimesOut, TakeNodeId, Sync, AdoptOwnPorts, CountPorts, ListPorts, PortByName,
              PortType, Connect, daemonVars, driverVars
<1>2. AtRest /\ Hardware /\ Binding /\ Linking
  BY <1>0, <1>1 DEF FInv, AtRest
<1>3. devices' = devices /\ physPorts' = physPorts
  BY DEF InCall, Activate, DisposeBuffers, Teardown, BindFails, BindTest, Waits, BindTimesOut,
         SettleTimesOut, TakeNodeId, Sync, AdoptOwnPorts, CountPorts, ListPorts, PortByName,
         PortType, Connect, daemonVars, setVars
<1>4. ASSUME UNCHANGED <<nodes, discovered, queue, filter, gone>> PROVE Hardware'
  BY <1>2, <1>3, <1>4 DEF Hardware, Known, AllOwn, OwnEvent
<1>5. ASSUME UNCHANGED <<connected, bound, ourNode, portId, filter, activations>>,
             pc # "idle" /\ pc' # "idle"
      PROVE  Binding'
  BY <1>2, <1>5 DEF Binding
<1>6. CASE Activate
  <2>1. Hardware'
    BY <1>4, <1>6 DEF Activate, daemonVars, cacheVars
  <2>2. activations = 0 /\ activations' = 1
    BY <1>0, <1>6 DEF Activate, AtRest
  <2>3. portId = 0
    BY <1>2, <2>2 DEF OwnInv, OnePlace, Unannounced
  <2>4. Binding'
    BY <1>2, <1>6, <2>2, <2>3 DEF Activate, Binding
  <2>5. Linking'
    BY <1>2, <1>3, <1>6 DEF Activate, Linking, FirstActivationLinks
  <2> QED
    BY <2>1, <2>4, <2>5
<1>7. CASE DisposeBuffers \/ BindFails
  <2>1. Teardown
    BY <1>7 DEF DisposeBuffers, BindFails
  <2>2. Hardware'
    <3>1. \A d \in Devices : Used(Absent) \cap Used(devices[d]) = {}
      BY DEF Used, Absent
    <3> QED
      BY <1>2, <1>3, <2>1, <3>1 DEF Teardown, Hardware, Known, AllOwn, OwnEvent, cacheVars
  <2>3. Binding'
    BY <1>2, <2>1 DEF Teardown, Binding, driverVars
  <2>4. Linking'
    BY <1>2, <1>3, <2>1 DEF Teardown, Linking, FirstActivationLinks
  <2> QED
    BY <2>2, <2>3, <2>4
<1>8. CASE BindTest \/ TakeNodeId
  <2>1. Hardware'
    BY <1>4, <1>8 DEF BindTest, TakeNodeId, daemonVars, cacheVars
  <2>2. pc \in {"bind", "last"} /\ connected
    BY <1>2, <1>8 DEF BindTest, TakeNodeId, Binding
  <2>3. Binding'
    BY <1>2, <1>8, <2>2
       DEF BindTest, TakeNodeId, Binding, boundVars, daemonVars, driverVars
  <2>4. Linking'
    BY <1>2, <1>3, <1>8 DEF BindTest, TakeNodeId, Linking, FirstActivationLinks, driverVars
  <2> QED
    BY <2>1, <2>3, <2>4
<1>9. CASE BindTimesOut
  <2>1. Hardware' /\ Binding'
    BY <1>4, <1>5, <1>9 DEF BindTimesOut, daemonVars, cacheVars, boundVars, driverVars
  <2>2. Linking'
    BY <1>2, <1>3, <1>9 DEF BindTimesOut, Linking, FirstActivationLinks, driverVars
  <2> QED
    BY <2>1, <2>2
<1>10. CASE SettleTimesOut
  <2>1. pc' # "idle"
    BY <1>10, SignalPlaces DEF SettleTimesOut
  <2>2. Hardware' /\ Binding'
    BY <1>4, <1>5, <1>10, <2>1 DEF SettleTimesOut, daemonVars, cacheVars, boundVars, driverVars
  <2>3. Linking'
    BY <1>1, <1>2, <1>3, <1>10, LinkingKept DEF SettleTimesOut, driverVars
  <2> QED
    BY <2>2, <2>3
<1>11. CASE Sync
  <2>1. [op |-> "done", id |-> syncSeq + 1, node |-> 0, owner |-> None] \in Announcement
    BY AnnouncementTypes DEF TInv, TypeOK
  <2>2. AllOwn(queue')
    BY <1>2, <1>11, <2>1, OwnOneMore DEF Sync, OwnEvent
  <2>3. Hardware'
    BY <1>2, <1>3, <1>11, <2>2 DEF Sync, Hardware, Known, AllOwn, OwnEvent, cacheVars
  <2>4. Binding'
    BY <1>5, <1>11 DEF Sync, boundVars, driverVars
  <2>5. Linking'
    BY <1>2, <1>3, <1>11 DEF Sync, Linking, FirstActivationLinks, driverVars
  <2> QED
    BY <2>3, <2>4, <2>5
<1>12. CASE AdoptOwnPorts
  <2>1. /\ pc = "adopt" /\ pc' = "count" /\ discovered' = {p \in discovered : p.node # ourNode}
        /\ portId' = portId \/ \E p \in discovered : p.node = ourNode /\ portId' = p.id
        /\ UNCHANGED <<queue, filter, gone, nodes, connected, bound, ourNode, attempt, names, link,
                       activations>>
    BY <1>12 DEF AdoptOwnPorts, daemonVars, boundVars, driverVars
  <2>2. connected /\ ourNode \in {0, filter.node}
    BY <1>2, <2>1 DEF Binding
  <2>3. \A d \in Devices : Known(d) => devices[d].node # ourNode
    BY <1>2, <2>2 DEF Known, Hardware, Used
  <2>4. Hardware'
    <3>1. \A d \in Devices : Known(d) => Known(d)'
      BY <1>3, <2>1, <2>3 DEF Known
    <3> QED
      BY <1>2, <1>3, <2>1, <3>1 DEF Hardware, AllOwn, OwnEvent
  <2>5. portId' # portId => portId' # 0 /\ ourNode # 0
    BY <2>1, FilterAssumption DEF TInv, TypeOK
  <2>6. Binding'
    BY <1>2, <2>1, <2>2, <2>5 DEF Binding
  <2>7. Linking'
    BY <1>2, <1>3, <2>1 DEF Linking, FirstActivationLinks
  <2> QED
    BY <2>4, <2>6, <2>7
<1>13. CASE CountPorts
  <2>1. Hardware' /\ Binding'
    BY <1>4, <1>5, <1>13 DEF CountPorts, daemonVars, cacheVars, boundVars
  <2>2. Linking'
    BY <1>2, <1>3, <1>13 DEF CountPorts, Linking, FirstActivationLinks
  <2> QED
    BY <2>1, <2>2
<1>14. CASE ListPorts
  <2>1. Hardware' /\ Binding'
    BY <1>4, <1>5, <1>14 DEF ListPorts, daemonVars, cacheVars, boundVars
  <2>2. attempt < MaxAttempts => names' \in Devices /\ devices[names'] # Absent
    <3> SUFFICES ASSUME attempt < MaxAttempts PROVE names' \in Devices /\ devices[names'] # Absent
      OBVIOUS
    <3>1. Cached = {}
      BY <1>2, <1>14 DEF ListPorts, Linking, OwnInv, OnePlace, AtRest
    <3>2. \A p \in discovered : p.owner \in Devices /\ devices[p.owner] # Absent
      BY <1>2, <3>1, KnownOwners DEF Cached, TInv, TypeOK, Owner
    <3>3. CASE outputDevice = None
      BY <1>2, <1>14, <3>3 DEF ListPorts, Linking
    <3>4. CASE outputDevice # None /\ \E n \in nodes : n.owner = outputDevice
      <4>1. outputDevice \in Devices
        BY <3>4 DEF TInv, TypeOK
      <4>2. devices[outputDevice] # Absent
        BY <1>2, <3>4, <4>1, KnownOwners
      <4>3. Preferred(outputDevice)
        BY <1>2, <4>1, <4>2, KnownDevices
      <4> QED
        BY <1>14, <3>4, <4>1, <4>2, <4>3 DEF ListPorts
    <3>5. CASE outputDevice # None /\ ~ \E n \in nodes : n.owner = outputDevice
      <4>1. names' \in Available
        BY <1>14, <3>5 DEF ListPorts
      <4>2. discovered # {}
        BY <1>2, KnownDevices DEF Linking
      <4>3. Preferred(defaultName) => devices[defaultName] # Absent
        BY <1>2, KnownOwners DEF Preferred, TInv, TypeOK
      <4> QED
        BY <3>2, <4>1, <4>2, <4>3 DEF Available, TInv, TypeOK
    <3> QED
      BY <3>3, <3>4, <3>5
  <2>3. Linking'
    <3>1. attempt < MaxAttempts => names' # None
      BY <2>2, FilterAssumption
    <3> QED
      BY <1>2, <1>3, <1>14, <2>2, <3>1 DEF ListPorts, Linking, FirstActivationLinks
  <2> QED
    BY <2>1, <2>3
<1>15. CASE PortByName
  <2>1. Hardware' /\ Binding'
    BY <1>4, <1>5, <1>15 DEF PortByName, daemonVars, cacheVars, boundVars
  <2>2. attempt < MaxAttempts => \E p \in discovered : p.owner = names
    BY <1>2, <1>15, KnownDevices DEF PortByName, Linking
  <2>3. Linking'
    BY <1>2, <1>3, <1>15, <2>2 DEF PortByName, Linking, FirstActivationLinks
  <2> QED
    BY <2>1, <2>3
<1>16. CASE PortType
  <2>1. Hardware' /\ Binding'
    BY <1>4, <1>5, <1>16 DEF PortType, daemonVars, cacheVars, boundVars, driverVars
  <2>2. Linking'
    BY <1>2, <1>3, <1>16 DEF PortType, Linking, FirstActivationLinks, driverVars
  <2> QED
    BY <2>1, <2>2
<1>17. CASE Connect
  <2>1. Hardware' /\ Binding'
    BY <1>4, <1>5, <1>17 DEF Connect, daemonVars, cacheVars, boundVars
  <2>2. FirstActivationLinks'
    <3> SUFFICES ASSUME attempt < MaxAttempts
                 PROVE  /\ link'.owner \in Devices /\ link'.target = devices[link'.owner].port
                        /\ link'.target # 0
      BY <1>3, <1>17 DEF FirstActivationLinks, Connect
    <3>1. portId # 0 /\ names \in Devices /\ devices[names] # Absent
      BY <1>2, <1>17 DEF Connect, Linking
    <3>2. ourNode # 0
      BY <1>2, <1>17, <3>1 DEF Connect, Binding
    <3>3. PICK p \in discovered :
             p.owner = names /\ link' = [port |-> portId, owner |-> names, target |-> p.id]
      BY <1>2, <1>17, <3>1, <3>2, KnownDevices DEF Connect
    <3>4. p.id = devices[names].port /\ p.id # 0
      BY <1>2, <3>1, <3>3, KnownDevices DEF Known
    <3> QED
      BY <3>1, <3>3, <3>4
  <2>3. Linking'
    BY <1>2, <1>3, <1>17, <2>2 DEF Connect, Linking
  <2> QED
    BY <2>1, <2>3
<1> QED
  BY <1>6, <1>7, <1>8, <1>9, <1>10, <1>11, <1>12, <1>13, <1>14, <1>15, <1>16, <1>17
     DEF InCall, Waits

\* While no device comes or goes, a client's first activation that got its port id
\* in time ends with a link from that port to the port of a device that is there:
\* the ids CreateBuffers works with are the daemon's, for the driver's port whose
\* announcement may come before its node id is known (audio_adopt_own_ports) as for
\* the device found by name (audio_port_by_name, audio_connect).
THEOREM FirstLinkLive == SomeDevice /\ Spec => []FirstActivationLinks
<1>1. SomeDevice /\ Init => FInv
  BY InitFirst
<1>2. TInv /\ OwnInv /\ FInv /\ [Next]_vars => FInv'
  <2>1. FInv /\ UNCHANGED vars => FInv'
    <3> SUFFICES ASSUME FInv, UNCHANGED vars, AtRest' PROVE Hardware' /\ Binding' /\ Linking'
      BY DEF FInv
    <3> USE DEF vars, daemonVars, boundVars, cacheVars, setVars, driverVars
    <3>1. Hardware /\ Binding /\ Linking
      BY DEF FInv, AtRest
    <3>2. Hardware'
      BY <3>1 DEF Hardware, Known, AllOwn, OwnEvent
    <3>3. Binding' /\ Linking'
      BY <3>1 DEF Binding, Linking, FirstActivationLinks
    <3> QED
      BY <3>2, <3>3
  <2> QED
    BY <2>1, DaemonFirst, ThreadFirst, DriverFirst DEF Next
<1>3. FInv => FirstActivationLinks
  BY DEF FInv, AtRest, Linking, FirstActivationLinks
<1> QED
  BY <1>1, <1>2, <1>3, TypesAlways, OwnAlways, PTL DEF Spec
=============================================================================
