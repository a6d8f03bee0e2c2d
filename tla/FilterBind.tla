----------------------------- MODULE FilterBind -----------------------------
(***************************************************************************)
(* The PipeWire backend around an activation (src/src/audio.c): the filter *)
(* is created and bound to a node of the daemon, its ports are announced,  *)
(* found and linked to a device, while devices come and go.                *)
(*                                                                         *)
(* Threads: the driver thread in CreateBuffers and DisposeBuffers, the     *)
(* loop thread handling the registry's events, and the data thread, which  *)
(* runs the filter's connection, so that nothing orders the filter's ports *)
(* with the replies to core syncs.  A section under the loop's lock is one *)
(* action.  The daemon gives freed ids to new objects.                     *)
(*                                                                         *)
(* One port stands for the filter's channel ports, and one for a device's. *)
(***************************************************************************)
EXTENDS Integers, Sequences

CONSTANTS
    Devices,      \* audio devices, by node.name
    Ids,          \* ids of the daemon's globals
    Initial,      \* devices that may be there when the driver is opened
    MaxAttempts,  \* rounds of the wait for port ids (20 in the code)
    MaxFilters,   \* bound: activations
    MaxChanges    \* bound: devices coming and going, switches of the default

Ours == "ours"    \* the driver as the owner of a node or a port
None == "none"    \* no device

Id == {0} \cup Ids            \* 0: SPA_ID_INVALID, or an object not announced yet
Owner == Devices \cup {Ours}
Global == [node : Id, port : Id]
Absent == [node |-> 0, port |-> 0]
Used(g) == {g.node, g.port} \ {0}

ASSUME FilterAssumption ==
    /\ {Ours, None} \cap Devices = {}
    /\ Ids \subseteq Nat \ {0}
    /\ Initial \subseteq [Devices -> {Absent} \cup [node : Ids, port : Ids]]
    /\ MaxAttempts \in Nat \ {0} /\ MaxFilters \in Nat /\ MaxChanges \in Nat

\* What is there when the driver is opened has ids of its own.
ASSUME InitialAssumption ==
    \A f \in Initial : \A d \in Devices :
        /\ f[d] # Absent => f[d].node # f[d].port
        /\ \A e \in Devices \ {d} : Used(f[d]) \cap Used(f[e]) = {}
NoLink == [port |-> 0, owner |-> None, target |-> 0]

\* The daemon.
VARIABLES
    devices,     \* ids of each device's node and port
    filter,      \* ids of the driver's current filter
    gone,        \* ids of destroyed filters it has not removed yet
    queue,       \* events on their way to the registry's listener
    changes

\* The filter's connection, on the data thread.
VARIABLES
    connected,   \* a filter exists
    bound,       \* pw_filter_get_node_id
    failed       \* the filter is in its ERROR state

\* struct audio_client, and what asio.c took from it.
VARIABLES
    ourNode,     \* our_node_id
    portId,      \* pw_port_id of the driver's port
    nodes,       \* nodes: [id, owner]
    discovered,  \* discovered: [id, node, owner]
    memo,        \* memo_node, by the id of the node it points to
    defaultName, \* default_sink_name
    syncSeq,     \* sync_seq
    outputDevice,\* pipeasio_output_device, None: follow the default
    physPorts    \* phys_output_ports, by the device that has them

\* The driver thread.
VARIABLES
    pc,
    attempt,
    names,       \* device whose ports CreateBuffers is going to link
    held,        \* port of the discovered list it holds a pointer to
    link,        \* link of the current activation
    activations

daemonVars == <<devices, filter, gone, queue, changes>>
boundVars  == <<connected, bound, failed>>
cacheVars  == <<nodes, discovered, memo>>
setVars    == <<outputDevice, physPorts>>
driverVars == <<attempt, names, held, link, activations>>
vars == <<daemonVars, boundVars, ourNode, portId, cacheVars, defaultName, syncSeq, setVars,
          pc, driverVars>>

Event == [op : {"node", "port", "remove", "default", "done"}, id : Nat, node : Id,
          owner : Owner \cup {None}]

TypeOK ==
    /\ devices \in [Devices -> Global] /\ filter \in Global /\ gone \subseteq Global
    /\ queue \in Seq(Event) /\ changes \in 0 .. MaxChanges
    /\ connected \in BOOLEAN /\ bound \in Id /\ failed \in BOOLEAN
    /\ ourNode \in Id /\ portId \in Id /\ memo \in Id
    /\ nodes \subseteq [id : Ids, owner : Owner]
    /\ discovered \subseteq [id : Ids, node : Ids, owner : Owner]
    /\ defaultName \in Devices /\ syncSeq \in Nat
    /\ outputDevice \in Devices \cup {None} /\ physPorts \in Owner \cup {None}
    /\ pc \in {"idle", "bind", "bindWait", "lastSync", "lastWait", "last", "sync",
               "syncWait", "adopt", "count", "settle", "list", "lookup", "type",
               "connect", "active"}
    /\ attempt \in 0 .. MaxAttempts
    /\ names \in Owner \cup {None} /\ held \in Id
    /\ link \in [port : Id, owner : Owner \cup {None}, target : Id]
    /\ activations \in 0 .. MaxFilters

\* The lowest id in use by nothing: ids are reused at once.
NextId(used) == {i \in Ids \ used : \A j \in Ids \ used : i <= j}
InUse ==
    Used(filter) \cup (UNION {Used(g) : g \in gone})
                 \cup (UNION {Used(devices[d]) : d \in Devices})

\* What audio_get_ports may list: the default's ports if it is cached and has
\* some, else those of the node announced first.
Preferred(name) ==
    \E n \in nodes, p \in discovered : n.owner = name /\ p.node = n.id
Available ==
    IF Preferred(defaultName) THEN {defaultName}
    ELSE IF discovered = {} THEN {None} ELSE {p.owner : p \in discovered}

\* The state after audio_open has drained the registry and Init() has listed
\* the hardware; some devices are there.
Init ==
    /\ devices \in Initial
    /\ filter = Absent /\ gone = {} /\ queue = <<>>
    /\ syncSeq = 0 /\ changes = 0
    /\ connected = FALSE /\ bound = 0 /\ failed = FALSE
    /\ ourNode = 0 /\ portId = 0
    /\ nodes = {[id |-> devices[d].node, owner |-> d] :
                  d \in {e \in Devices : devices[e] # Absent}}
    /\ discovered = {[id |-> devices[d].port, node |-> devices[d].node, owner |-> d] :
                       d \in {e \in Devices : devices[e] # Absent}}
    /\ memo \in {0} \cup {n.id : n \in nodes}
    /\ defaultName \in Devices
    /\ outputDevice \in Devices \cup {None}
    /\ physPorts \in Available
    /\ pc = "idle" /\ attempt = 0 /\ names = None /\ held = 0 /\ link = NoLink
    /\ activations = 0

-----------------------------------------------------------------------------
(* The daemon.                                                              *)

NodeEvent(n, o) == [op |-> "node", id |-> n, node |-> 0, owner |-> o]
PortEvent(p, n, o) == [op |-> "port", id |-> p, node |-> n, owner |-> o]
RemoveEvent(i) == [op |-> "remove", id |-> i, node |-> 0, owner |-> None]
Change == changes < MaxChanges /\ changes' = changes + 1

\* A node's port is announced after it and removed before it.
Removal(g) ==
    (IF g.port # 0 THEN <<RemoveEvent(g.port)>> ELSE <<>>)
        \o (IF g.node # 0 THEN <<RemoveEvent(g.node)>> ELSE <<>>)

Plug(d) ==
    /\ Change /\ devices[d] = Absent
    /\ \E n \in NextId(InUse) : \E p \in NextId(InUse \cup {n}) :
         /\ devices' = [devices EXCEPT ![d] = [node |-> n, port |-> p]]
         /\ queue' = queue \o <<NodeEvent(n, d), PortEvent(p, n, d)>>
    /\ UNCHANGED <<filter, gone, boundVars, ourNode, portId, cacheVars,
                   defaultName, syncSeq, setVars, pc, driverVars>>

Unplug(d) ==
    /\ Change /\ devices[d] # Absent
    /\ devices' = [devices EXCEPT ![d] = Absent]
    /\ queue' = queue \o Removal(devices[d])
    /\ UNCHANGED <<filter, gone, boundVars, ourNode, portId, cacheVars,
                   defaultName, syncSeq, setVars, pc, driverVars>>

SwitchDefault(d) ==
    /\ Change
    /\ queue' = Append(queue, [op |-> "default", id |-> 0, node |-> 0, owner |-> d])
    /\ UNCHANGED <<devices, filter, gone, boundVars, ourNode, portId, cacheVars,
                   defaultName, syncSeq, setVars, pc, driverVars>>

FilterNodeAppears ==
    /\ connected /\ ~failed /\ filter.node = 0
    /\ \E n \in NextId(InUse) :
         /\ filter' = [filter EXCEPT !.node = n]
         /\ queue' = Append(queue, NodeEvent(n, Ours))
    /\ UNCHANGED <<devices, gone, changes, boundVars, ourNode, portId, cacheVars,
                   defaultName, syncSeq, setVars, pc, driverVars>>

FilterPortAppears ==
    /\ connected /\ filter.node # 0 /\ filter.port = 0
    /\ \E p \in NextId(InUse) :
         /\ filter' = [filter EXCEPT !.port = p]
         /\ queue' = Append(queue, PortEvent(p, filter.node, Ours))
    /\ UNCHANGED <<devices, gone, changes, boundVars, ourNode, portId, cacheVars,
                   defaultName, syncSeq, setVars, pc, driverVars>>

OldFilterRemoved ==
    /\ \E g \in gone : gone' = gone \ {g} /\ queue' = queue \o Removal(g)
    /\ UNCHANGED <<devices, filter, changes, boundVars, ourNode, portId,
                   cacheVars, defaultName, syncSeq, setVars, pc, driverVars>>

-----------------------------------------------------------------------------
(* The loop's condition variable.                                           *)

\* (Mutant of Awake: one round too many.)
AwakeOffByOne(p) ==
    CASE p = "bindWait" -> "bind"
      [] p = "lastWait" -> "last"
      [] p = "syncWait" -> "adopt"
      [] p = "settle" -> IF attempt <= MaxAttempts THEN "sync" ELSE "list"
      [] OTHER -> p

\* Where a waiting driver thread goes on when it is signalled.
Awake(p) ==
    CASE p = "bindWait" -> "bind"
      [] p = "lastWait" -> "last"
      [] p = "syncWait" -> "adopt"
      [] p = "settle" -> IF attempt < MaxAttempts THEN "sync" ELSE "list"
      [] OTHER -> p

Signal == pc' = Awake(pc)

-----------------------------------------------------------------------------
(* The data thread: audio_on_state_changed.                                 *)

\* The filter learns its node id; an id that is already set is kept.
FilterBound ==
    /\ connected /\ ~failed /\ filter.node # 0 /\ bound = 0
    /\ bound' = filter.node
    /\ ourNode' = IF ourNode = 0 THEN bound' ELSE ourNode
    /\ Signal
    /\ UNCHANGED <<daemonVars, connected, failed, portId, cacheVars, defaultName, syncSeq,
                   setVars, driverVars>>

FilterError ==
    /\ connected /\ bound = 0 /\ ~failed
    /\ failed' = TRUE
    /\ Signal
    /\ UNCHANGED <<daemonVars, connected, bound, ourNode, portId, cacheVars, defaultName,
                   syncSeq, setVars, driverVars>>

\* Further changes of state only wake the driver thread.
FilterPauses ==
    /\ connected /\ bound # 0
    /\ Signal
    /\ UNCHANGED <<daemonVars, boundVars, ourNode, portId, cacheVars, defaultName, syncSeq,
                   setVars, driverVars>>

-----------------------------------------------------------------------------
(* The loop thread: events of the registry, the metadata and the core.      *)

Receive(op) ==
    /\ queue # <<>> /\ Head(queue).op = op
    /\ queue' = Tail(queue)
    /\ UNCHANGED <<devices, filter, gone, changes, boundVars, ourNode, syncSeq,
                   setVars, driverVars>>

\* audio_cache_node: audio devices and the driver's own node, once each.
CacheNode ==
    /\ Receive("node")
    /\ nodes' = IF \E n \in nodes : n.id = Head(queue).id THEN nodes
                ELSE nodes \cup {[id |-> Head(queue).id, owner |-> Head(queue).owner]}
    /\ UNCHANGED <<portId, discovered, memo, defaultName, pc>>

\* audio_cache_port, for a port of the node our_node_id: a port of the
\* driver gets its id, another one is left out.
BackfillPort ==
    /\ Receive("port")
    /\ Head(queue).node = ourNode
    /\ IF Head(queue).owner = Ours THEN portId' = Head(queue).id /\ Signal
       ELSE UNCHANGED <<portId, pc>>
    /\ UNCHANGED <<cacheVars, defaultName>>

\* audio_cache_port, for any other port, if its node is cached.
CachePort ==
    /\ Receive("port")
    /\ LET e == Head(queue) IN
         /\ e.node # ourNode
         /\ IF \E n \in nodes : n.id = e.node
            THEN /\ discovered' = discovered \cup
                        {[id |-> e.id, node |-> e.node, owner |-> e.owner]}
                 /\ memo' = e.node
            ELSE UNCHANGED discovered /\ memo' = 0
    /\ UNCHANGED <<portId, nodes, defaultName, pc>>

\* (Mutant of RemoveGlobal: the memo is not invalidated.)
RemoveGlobalKeepsMemo ==
    /\ Receive("remove")
    /\ LET i == Head(queue).id IN
         IF \E p \in discovered : p.id = i
         THEN discovered' = {p \in discovered : p.id # i} /\ UNCHANGED <<nodes, memo>>
         ELSE /\ nodes' = {n \in nodes : n.id # i}
              /\ UNCHANGED <<discovered, memo>>
    /\ UNCHANGED <<portId, defaultName, pc>>

\* (Mutant of RemoveGlobal: only nodes are looked up.)
RemoveGlobalNodesOnly ==
    /\ Receive("remove")
    /\ nodes' = {n \in nodes : n.id # Head(queue).id}
    /\ memo' = IF memo = Head(queue).id THEN 0 ELSE memo
    /\ UNCHANGED <<discovered, portId, defaultName, pc>>

\* audio_on_registry_global_remove: a discovered port, else a cached node.
RemoveGlobal ==
    /\ Receive("remove")
    /\ LET i == Head(queue).id IN
         IF \E p \in discovered : p.id = i
         THEN discovered' = {p \in discovered : p.id # i} /\ UNCHANGED <<nodes, memo>>
         ELSE /\ nodes' = {n \in nodes : n.id # i}
              /\ memo' = IF memo = i THEN 0 ELSE memo
              /\ UNCHANGED discovered
    /\ UNCHANGED <<portId, defaultName, pc>>

\* audio_on_metadata_property.
DefaultProperty ==
    /\ Receive("default")
    /\ defaultName' = Head(queue).owner
    /\ UNCHANGED <<portId, cacheVars, pc>>

\* audio_on_core_done: only the last sync's answer wakes the driver thread.
CoreDone ==
    /\ Receive("done")
    /\ IF Head(queue).id = syncSeq THEN Signal ELSE UNCHANGED pc
    /\ UNCHANGED <<portId, cacheVars, defaultName>>

-----------------------------------------------------------------------------
(* The driver thread: audio_activate.                                       *)

Activate ==
    /\ pc = "idle" /\ activations < MaxFilters
    /\ activations' = activations + 1
    /\ connected' = TRUE
    /\ attempt' = 0 /\ link' = NoLink /\ names' = None /\ held' = 0
    /\ pc' = "bind"
    /\ UNCHANGED <<daemonVars, bound, failed, ourNode, portId, cacheVars, defaultName,
                   syncSeq, setVars>>

\* audio_teardown_filter: the ids of the node and of the port stay.
Teardown ==
    /\ connected' = FALSE /\ bound' = 0 /\ failed' = FALSE
    /\ gone' = IF filter = Absent THEN gone ELSE gone \cup {filter}
    /\ filter' = Absent
    /\ pc' = "idle"
    /\ UNCHANGED <<devices, queue, changes, ourNode, portId, cacheVars,
                   defaultName, syncSeq, setVars, driverVars>>

\* One look at the filter: bound, in error, or wait.
BindTest ==
    /\ pc = "bind" /\ ~(bound = 0 /\ failed)
    /\ IF bound # 0 THEN ourNode' = bound /\ pc' = "sync"
       ELSE UNCHANGED ourNode /\ pc' = "bindWait"
    /\ UNCHANGED <<daemonVars, boundVars, portId, cacheVars, defaultName, syncSeq, setVars,
                   driverVars>>

BindFails == pc = "bind" /\ bound = 0 /\ failed /\ Teardown

BindTimesOut ==
    /\ pc = "bindWait" /\ pc' = "lastSync"
    /\ UNCHANGED <<daemonVars, boundVars, ourNode, portId, cacheVars, defaultName, syncSeq,
                   setVars, driverVars>>

\* After the last sync the node id is taken as it is.
TakeNodeId ==
    /\ pc = "last" /\ pc' = "sync"
    /\ ourNode' = bound
    /\ UNCHANGED <<daemonVars, boundVars, portId, cacheVars, defaultName, syncSeq, setVars,
                   driverVars>>

\* (Mutant of Sync: the number of the sync is not kept.)
SyncForgetsSeq ==
    /\ \/ pc = "sync" /\ pc' = "syncWait"
       \/ pc = "lastSync" /\ pc' = "lastWait"
    /\ queue' = Append(queue, [op |-> "done", id |-> syncSeq + 1, node |-> 0,
                               owner |-> None])
    /\ UNCHANGED <<devices, filter, gone, changes, boundVars, ourNode, portId, cacheVars,
                   defaultName, syncSeq, setVars, driverVars>>

\* audio_sync up to its wait: the daemon's answer queues up behind its events.
Sync ==
    /\ \/ pc = "sync" /\ pc' = "syncWait"
       \/ pc = "lastSync" /\ pc' = "lastWait"
    /\ syncSeq' = syncSeq + 1
    /\ queue' = Append(queue, [op |-> "done", id |-> syncSeq + 1, node |-> 0,
                               owner |-> None])
    /\ UNCHANGED <<devices, filter, gone, changes, boundVars, ourNode, portId, cacheVars,
                   defaultName, setVars, driverVars>>

\* (Mutant of AdoptOwnPorts: the adopted ports stay in the discovered list.)
AdoptOwnPortsKeeps ==
    /\ pc = "adopt" /\ pc' = "count"
    /\ LET own == {p \in discovered : p.node = ourNode} IN
         IF \E p \in own : p.owner = Ours
         THEN \E p \in own : p.owner = Ours /\ portId' = p.id
         ELSE UNCHANGED portId
    /\ UNCHANGED <<daemonVars, boundVars, ourNode, cacheVars, defaultName, syncSeq, setVars,
                   driverVars>>

\* (Mutant of AdoptOwnPorts: ports are matched by name only.)
AdoptOwnPortsByName ==
    /\ pc = "adopt" /\ pc' = "count"
    /\ IF discovered = {} THEN UNCHANGED <<portId, discovered>>
       ELSE \E p \in discovered : portId' = p.id /\ discovered' = discovered \ {p}
    /\ UNCHANGED <<daemonVars, boundVars, ourNode, nodes, memo, defaultName, syncSeq,
                   setVars, driverVars>>

\* audio_adopt_own_ports.
AdoptOwnPorts ==
    /\ pc = "adopt" /\ pc' = "count"
    /\ LET own == {p \in discovered : p.node = ourNode} IN
         /\ discovered' = discovered \ own
         /\ IF \E p \in own : p.owner = Ours
            THEN \E p \in own : p.owner = Ours /\ portId' = p.id
            ELSE UNCHANGED portId
    /\ UNCHANGED <<daemonVars, boundVars, ourNode, nodes, memo, defaultName, syncSeq,
                   setVars, driverVars>>

\* All ports have an id, or one more wait for an announcement.
CountPorts ==
    /\ pc = "count"
    /\ IF portId # 0 THEN pc' = "list" /\ UNCHANGED attempt
       ELSE pc' = "settle" /\ attempt' = attempt + 1
    /\ UNCHANGED <<daemonVars, boundVars, ourNode, portId, cacheVars, defaultName, syncSeq,
                   setVars, names, held, link, activations>>

SettleTimesOut ==
    /\ pc = "settle" /\ Signal
    /\ UNCHANGED <<daemonVars, boundVars, ourNode, portId, cacheVars, defaultName, syncSeq,
                   setVars, driverVars>>

-----------------------------------------------------------------------------
(* The driver thread: the rest of CreateBuffers, and DisposeBuffers.        *)

\* audio_get_device_ports for a chosen device, which falls back to the first
\* one available; the list made in Init() for the default.
ListPorts ==
    /\ pc = "list"
    /\ IF outputDevice = None THEN names' = physPorts
       ELSE IF \E n \in nodes : n.owner = outputDevice
       THEN names' = IF Preferred(outputDevice) THEN outputDevice ELSE None
       ELSE names' \in Available
    /\ pc' = IF names' = None THEN "active" ELSE "lookup"
    /\ UNCHANGED <<daemonVars, boundVars, ourNode, portId, cacheVars, defaultName, syncSeq,
                   setVars, attempt, held, link, activations>>

\* audio_port_by_name: the pointer outlives the lock.
PortByName ==
    /\ pc = "lookup"
    /\ IF \E p \in discovered : p.owner = names
       THEN (\E p \in discovered : p.owner = names /\ held' = p.id) /\ pc' = "type"
       ELSE UNCHANGED held /\ pc' = "active"
    /\ UNCHANGED <<daemonVars, boundVars, ourNode, portId, cacheVars, defaultName, syncSeq,
                   setVars, attempt, names, link, activations>>

\* audio_port_type reads through the pointer.
PortType ==
    /\ pc = "type" /\ pc' = "connect"
    /\ UNCHANGED <<daemonVars, boundVars, ourNode, portId, cacheVars, defaultName, syncSeq,
                   setVars, driverVars>>

\* audio_connect looks both ports up again and asks for the link.
Connect ==
    /\ pc = "connect" /\ pc' = "active"
    /\ IF portId # 0 /\ ourNode # 0 /\ \E p \in discovered : p.owner = names
       THEN \E p \in discovered : p.owner = names
              /\ link' = [port |-> portId, owner |-> names, target |-> p.id]
       ELSE UNCHANGED link
    /\ UNCHANGED <<daemonVars, boundVars, ourNode, portId, cacheVars, defaultName, syncSeq,
                   setVars, attempt, names, held, activations>>

DisposeBuffers == pc = "active" /\ Teardown

-----------------------------------------------------------------------------
Daemon ==
    \/ \E d \in Devices : Plug(d) \/ Unplug(d) \/ SwitchDefault(d)
    \/ FilterNodeAppears \/ FilterPortAppears \/ OldFilterRemoved
DataThread == FilterBound \/ FilterError \/ FilterPauses
LoopThread ==
    CacheNode \/ BackfillPort \/ CachePort \/ RemoveGlobal \/ DefaultProperty \/ CoreDone
Waits == BindTimesOut \/ SettleTimesOut
InCall ==
    \/ BindTest \/ BindFails \/ Waits \/ TakeNodeId \/ Sync \/ AdoptOwnPorts \/ CountPorts
    \/ ListPorts \/ PortByName \/ PortType \/ Connect

Next == Daemon \/ DataThread \/ LoopThread \/ InCall \/ Activate \/ DisposeBuffers

\* Threads run and waits reach their deadline; the
\* filter need never be bound, nor its port announced.
Fairness == WF_vars(LoopThread) /\ WF_vars(InCall)

Spec == Init /\ [][Next]_vars
FairSpec == Spec /\ Fairness

-----------------------------------------------------------------------------
(* Properties.                                                              *)

\* The node audio_cache_port remembers is never one that a removal has freed,
\* in whatever order devices come and go and ids are given again.
MemoLive == memo # 0 => \E n \in nodes : n.id = memo

\* Ports of the filter that were announced before its node id was known are
\* taken out of the hardware list: the first activation of a client never
\* links the driver to itself, also when the chosen device is away.
NoSelfLink == activations = 1 => link.owner # Ours

\* Removals find what they remove, also with ids given again: when no event
\* is on its way, each cached device is there under its ids.
NoGhosts ==
    queue = <<>> =>
        /\ \A n \in nodes : n.owner # Ours => devices[n.owner].node = n.id
        /\ \A p \in discovered : p.owner # Ours => devices[p.owner].port = p.id

\* With the devices at rest, a first activation that got its port id in time
\* ends with a link to a device that is there.
FirstActivationLinks ==
    pc = "active" /\ activations = 1 /\ changes = 0 /\ attempt < MaxAttempts
        => link.owner \in Devices /\ link.target = devices[link.owner].port /\ link.target # 0

\* audio_activate returns, even if the filter is never bound or its port never
\* announced, and the rest of CreateBuffers after it.
ActivateReturns == pc = "bind" ~> pc \in {"active", "idle"}

-----------------------------------------------------------------------------
(* What comments and documents say, and the code does not do.               *)

\* audio.c:594: audio_teardown_filter "clears all state to 'not active'": a
\* later filter, too, is linked by the id of its own port.
LinksLivePort == pc = "active" /\ link # NoLink => link.port = filter.port

\* CHANGELOG.md:331: "Device-discovery caches are now locked against the
\* registry thread": the port CreateBuffers reads has not been freed.
PortTypeLive == pc = "type" => \E p \in discovered : p.id = held
=============================================================================
