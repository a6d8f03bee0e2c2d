---------------------------- MODULE GraphMonitor ----------------------------
(***************************************************************************)
(* The Qt panel's view of the graph (src/gui/PipeWireGraph.cpp,            *)
(* src/gui/GraphModel.cpp, src/gui/PipeWireMonitor.cpp).  The loop thread  *)
(* applies the daemon's events to the model and posts a kick for each; the *)
(* GUI thread collects kicks with a timer and then reads devices, name,    *)
(* stats and connections, each under the loop's lock and so one action.    *)
(*                                                                         *)
(* A node is known by the name of its program or device; a host's node is  *)
(* the driver's, which the node's own info tells and the registry does not.*)
(* Events are delivered in order.  The daemon gives ids again.             *)
(***************************************************************************)
EXTENDS Integers, SequencesExt

CONSTANTS
    Hosts, Sinks, \* programs that use the driver, devices
    Ids,          \* ids of the daemon's globals
    Quanta,       \* sizes of the graph's cycle
    Target,       \* configured node_name, or Unnamed
    MaxChanges    \* bound: changes of the graph

Unnamed == ""      \* no node_name: the node with the driver's mark
Names == Hosts \cup Sinks

ASSUME GraphAssumption ==
    /\ Hosts \cap Sinks = {} /\ Unnamed \notin Names /\ Target \in Names \cup {Unnamed}
    /\ IsFiniteSet(Names) /\ Ids \subseteq Nat \ {0} /\ MaxChanges \in Nat

\* The daemon: incarnations of nodes are told apart by the change that made them.
VARIABLES
    world,      \* id, incarnation and state of each name's node
    links,      \* [id, out, in]
    quantum,    \* of the running graph
    queue,      \* events on their way to the panel
    changes

\* The panel's loop thread: GraphModel and the bindings.
VARIABLES
    running,    \* connected
    syncDone,
    nodes,      \* m_nodes by id, with the incarnation
    modelLinks, \* m_links
    bindings,   \* node proxies, by id and incarnation
    prof,       \* m_profId, m_prof.quantum and the incarnation measured
    profName    \* m_profName

\* The GUI thread.
VARIABLES
    pc,
    opening,    \* the dialog is under construction
    posted,     \* a kick is in the event queue
    coalesce,   \* what is left of the timer, 0: not active
    draft,      \* the statistics being collected
    display     \* what is shown

daemonVars == <<world, links, quantum, changes>>
modelVars  == <<nodes, modelLinks, bindings, prof>>
guiVars    == <<pc, opening, coalesce, draft, display>>
vars == <<daemonVars, queue, running, syncDone, modelVars, profName, posted, guiVars>>

Id == {0} \cup Ids
Birth == 0 .. MaxChanges
Link == [id : Ids, out : Ids, in : Ids]
NoNode == [id |-> 0, birth |-> 0, run |-> FALSE]
NoRec == [name |-> Unnamed, birth |-> 0, own |-> FALSE, sink |-> FALSE, run |-> FALSE]
NoStats == [id |-> 0, birth |-> 0, quantum |-> 0]
NoDisplay == [devices |-> {}, name |-> Unnamed, quantum |-> 0, run |-> FALSE, peers |-> {}]

Interval == 2       \* the timer's 150 ms

TypeOK ==
    /\ world \in [Names -> [id : Id, birth : Birth, run : BOOLEAN]]
    /\ links \subseteq Link /\ modelLinks \subseteq Link
    /\ quantum \in Quanta /\ changes \in Birth
    /\ running \in BOOLEAN /\ syncDone \in BOOLEAN /\ posted \in BOOLEAN /\ opening \in BOOLEAN
    /\ nodes \in [Ids -> [name : Names \cup {Unnamed}, birth : Birth, own : BOOLEAN,
                          sink : BOOLEAN, run : BOOLEAN]]
    /\ bindings \subseteq [id : Ids, birth : Birth]
    /\ prof \in [id : Id, birth : Birth, quantum : Quanta \cup {0}]
    /\ profName \in Names \cup {Unnamed}
    /\ pc \in {"closed", "wait", "devices", "name", "stats", "connections", "idle"}
    /\ coalesce \in 0 .. Interval
    /\ \A d \in {draft, display} :
          /\ d.devices \subseteq Sinks /\ d.peers \subseteq Names
          /\ d.name \in Names \cup {Unnamed} /\ d.quantum \in Quanta \cup {0} /\ d.run \in BOOLEAN

Least(S) == {x \in S : \A y \in S : x <= y}
InUse == {world[n].id : n \in Names} \cup {l.id : l \in links}
NewId == Least(Ids \ InUse)

Init ==
    /\ world = [n \in Names |-> NoNode] /\ links = {} /\ queue = <<>>
    /\ quantum \in Quanta /\ changes = 0
    /\ running = FALSE /\ syncDone = FALSE
    /\ nodes = [i \in Ids |-> NoRec] /\ modelLinks = {} /\ bindings = {}
    /\ prof = NoStats /\ profName = Unnamed
    /\ pc = "closed" /\ opening = FALSE /\ posted = FALSE /\ coalesce = 0
    /\ draft = NoDisplay /\ display = NoDisplay

-----------------------------------------------------------------------------
(* The daemon.                                                              *)

NodeEvent(n, w) == [op |-> "node", id |-> w.id, name |-> n, birth |-> w.birth]
LinkEvent(l) == [op |-> "link", id |-> l.id, link |-> l]
RemoveEvent(i) == [op |-> "remove", id |-> i]
\* birth: the incarnation whose proxy the event is sent to.
InfoEvent(n, w, birth) == [op |-> "info", id |-> w.id, name |-> n, birth |-> birth, run |-> w.run]
ProfileEvent(w) == [op |-> "profile", id |-> w.id, birth |-> w.birth, quantum |-> quantum]

\* Events reach a client while it is connected.
Sent(events) == queue' = IF running THEN queue \o events ELSE queue
Change == changes < MaxChanges /\ changes' = changes + 1
PanelSame == UNCHANGED <<running, syncDone, modelVars, profName, posted, guiVars>>

Appear(n) ==
    /\ Change /\ world[n] = NoNode
    /\ \E i \in NewId :
         LET w == [id |-> i, birth |-> changes', run |-> FALSE]
         IN  world' = [world EXCEPT ![n] = w] /\ Sent(<<NodeEvent(n, w)>>)
    /\ UNCHANGED <<links, quantum>> /\ PanelSame

\* A node leaves after its links.
Vanish(n) ==
    /\ Change /\ world[n] # NoNode
    /\ \A l \in links : world[n].id \notin {l.out, l.in}
    /\ world' = [world EXCEPT ![n] = NoNode] /\ Sent(<<RemoveEvent(world[n].id)>>)
    /\ UNCHANGED <<links, quantum>> /\ PanelSame

Connect(h, s) ==
    /\ Change /\ world[h] # NoNode /\ world[s] # NoNode /\ links = {}
    /\ \E i \in NewId :
         LET l == [id |-> i, out |-> world[h].id, in |-> world[s].id]
         IN  links' = links \cup {l} /\ Sent(<<LinkEvent(l)>>)
    /\ UNCHANGED <<world, quantum>> /\ PanelSame

Disconnect(l) ==
    /\ Change /\ links' = links \ {l} /\ Sent(<<RemoveEvent(l.id)>>)
    /\ UNCHANGED <<world, quantum>> /\ PanelSame

\* A node starts or stops: the proxies bound to it are told.
Switch(n) ==
    /\ Change /\ world[n] # NoNode
    /\ world' = [world EXCEPT ![n].run = ~ @]
    /\ Sent(IF [id |-> world[n].id, birth |-> world[n].birth] \in bindings
            THEN <<InfoEvent(n, world'[n], world[n].birth)>> ELSE <<>>)
    /\ UNCHANGED <<links, quantum>> /\ PanelSame

\* A cycle of the graph is measured.  The daemon coalesces: one is on its way.
Cycle(n) ==
    /\ running /\ world[n].run
    /\ \A k \in 1 .. Len(queue) : queue[k].op # "profile"
    /\ \E q \in Quanta :
         /\ quantum' = q /\ IF q = quantum THEN UNCHANGED changes ELSE Change
         /\ Sent(<<[ProfileEvent(world[n]) EXCEPT !.quantum = q]>>)
    /\ UNCHANGED <<world, links>> /\ PanelSame

-----------------------------------------------------------------------------
(* The loop thread (PipeWireGraph.cpp, GraphModel.cpp).                     *)

Got(op) == pc # "closed" /\ queue # <<>> /\ Head(queue).op = op
LoopSame == UNCHANGED <<daemonVars, running, profName, guiVars>>
(* Mutant of noteChanged: what happens during a refresh is taken to be in it. *)
MutNoteChanged == posted' = (posted \/ pc = "idle")
noteChanged == posted' = TRUE

\* A bind is answered with the node's own info.
BindAnswer(i, birth) ==
    LET there == {n \in Names : world[n].id = i}
    IN  IF there = {} THEN <<>>
        ELSE LET n == CHOOSE m \in there : TRUE IN <<InfoEvent(n, world[n], birth)>>

\* The announcement of a node does not carry the driver's mark.
announced(e) ==
    [name |-> e.name, birth |-> e.birth, own |-> FALSE, sink |-> e.name \in Sinks, run |-> FALSE]
AddNode ==
    /\ Got("node")
    /\ LET e == Head(queue)
       IN  /\ nodes' = [nodes EXCEPT ![e.id] = announced(e)]
           /\ bindings' = bindings \cup {[id |-> e.id, birth |-> e.birth]}
           /\ queue' = Tail(queue) \o BindAnswer(e.id, e.birth)
    /\ noteChanged /\ LoopSame /\ UNCHANGED <<syncDone, modelLinks, prof>>

AddLink ==
    /\ Got("link") /\ queue' = Tail(queue)
    /\ modelLinks' = modelLinks \cup {Head(queue).link}
    /\ noteChanged /\ LoopSame /\ UNCHANGED <<syncDone, nodes, bindings, prof>>

updateNodeProps(rec, e) ==
    [name |-> e.name, birth |-> rec.birth, own |-> e.name \in Hosts,
     sink |-> e.name \in Sinks, run |-> e.run]
\* An event of a proxy that is destroyed is not delivered.
NodeInfo ==
    /\ Got("info") /\ queue' = Tail(queue)
    /\ LET e == Head(queue)
       IN  IF [id |-> e.id, birth |-> e.birth] \in bindings
           THEN /\ nodes' = [nodes EXCEPT ![e.id] = updateNodeProps(@, e)]
                /\ noteChanged
           ELSE UNCHANGED <<nodes, posted>>
    /\ LoopSame /\ UNCHANGED <<syncDone, modelLinks, bindings, prof>>

(* Mutant of profAfterRemoval: the stored measurement outlives its node. *)
MutProfAfterRemoval(i) == prof
profAfterRemoval(i) == IF i = prof.id THEN NoStats ELSE prof

RemoveGlobal ==
    /\ Got("remove") /\ queue' = Tail(queue)
    /\ LET i == Head(queue).id
       IN  /\ nodes' = [nodes EXCEPT ![i] = NoRec]
           /\ prof' = profAfterRemoval(i)
           /\ modelLinks' = {l \in modelLinks : l.id # i}
           /\ bindings' = {b \in bindings : b.id # i}
    /\ noteChanged /\ LoopSame /\ UNCHANGED syncDone

\* The clock of a cycle is stored before its blocks, one for each node.
IsTarget(rec) == rec.own \/ (profName # Unnamed /\ rec.name = profName)
profilerBlock(e) ==
    IF IsTarget(nodes[e.id]) THEN [id |-> e.id, birth |-> e.birth, quantum |-> e.quantum] ELSE prof
Profile ==
    /\ Got("profile") /\ queue' = Tail(queue)
    /\ prof' = profilerBlock(Head(queue))
    /\ noteChanged /\ LoopSame /\ UNCHANGED <<syncDone, nodes, modelLinks, bindings>>

CoreDone ==
    /\ Got("done") /\ queue' = Tail(queue)
    /\ syncDone' = (syncDone \/ pc = "wait")    \* the listener is removed after the wait
    /\ LoopSame /\ UNCHANGED <<modelVars, posted>>

-----------------------------------------------------------------------------
(* The GUI thread: start, stop, the timer, a refresh.                       *)

GuiSame == UNCHANGED <<daemonVars, modelVars>>
Goto(l) == pc' = l

\* The panel opens: it connects, and waits until the daemon has announced what is
\* there, or for eight seconds.
Start ==
    /\ pc = "closed" /\ Goto("wait") /\ opening' = TRUE
    /\ running' = TRUE /\ syncDone' = FALSE
    /\ queue' = SetToSeq({NodeEvent(n, world[n]) : n \in {m \in Names : world[m] # NoNode}})
                \o SetToSeq({LinkEvent(l) : l \in links})
                \o <<[op |-> "done"]>>
    /\ GuiSame /\ UNCHANGED <<profName, posted, coalesce, draft, display>>

\* Without a daemon the panel shows nothing.
ConnectFails ==
    /\ pc = "closed" /\ Goto("devices") /\ opening' = TRUE
    /\ GuiSame /\ UNCHANGED <<queue, running, syncDone, profName, posted, coalesce, draft, display>>

WaitOver == pc = "wait" /\ Goto("devices")
WaitDone == syncDone /\ WaitOver
WaitSame ==
    GuiSame /\ UNCHANGED <<queue, running, syncDone, profName, opening, posted, coalesce, draft,
                          display>>
Wait ==
    /\ \/ WaitDone
       \/ WaitOver    \* four waits of two seconds have passed
    /\ WaitSame

Own == {i \in Ids : nodes[i].own}
audioDevices == {nodes[i].name : i \in {j \in Ids : nodes[j].sink}}
RefreshSame == UNCHANGED <<daemonVars, queue, running, syncDone, modelVars, posted, coalesce>>

\* The constructor fills the list of devices and then starts the monitor; later
\* the monitor, connected first, refreshes before the list.
RefreshDevices ==
    /\ pc = "devices" /\ Goto(IF opening THEN "name" ELSE "idle")
    /\ display' = [display EXCEPT !.devices = IF running THEN audioDevices ELSE {}]
    /\ RefreshSame /\ UNCHANGED <<profName, opening, draft>>

\* The name of the driver's node, of several the first of the hash table.
ownNodeNames == IF running /\ Own # {} THEN {nodes[i].name : i \in Own} ELSE {Unnamed}
RefreshName ==
    /\ pc = "name" /\ Goto("stats")
    /\ draft' \in {[NoDisplay EXCEPT !.name = m] :
                     m \in IF Target = Unnamed THEN ownNodeNames ELSE {Target}}
    /\ RefreshSame /\ UNCHANGED <<profName, opening, display>>

\* The node the panel asks for, again the first of several.
IsAsked(rec) == IF Target = Unnamed THEN rec.own ELSE rec.name = Target
Asked == {i \in Ids : IsAsked(nodes[i])}
profilerStats(i) ==
    IF i = prof.id THEN [draft EXCEPT !.quantum = prof.quantum, !.run = nodes[i].run] ELSE draft

RefreshStats ==
    /\ pc = "stats" /\ Goto("connections")
    /\ IF running
       THEN /\ profName' = Target
            /\ draft' \in IF Asked = {} THEN {draft} ELSE {profilerStats(i) : i \in Asked}
       ELSE UNCHANGED <<profName, draft>>
    /\ RefreshSame /\ UNCHANGED <<opening, display>>

Peers(i) ==
    {nodes[l.in].name : l \in {k \in modelLinks : k.out = i /\ nodes[k.in] # NoRec}}
    \cup {nodes[l.out].name : l \in {k \in modelLinks : k.in = i /\ nodes[k.out] # NoRec}}

RefreshConnections ==
    /\ pc = "connections" /\ Goto(IF opening THEN "idle" ELSE "devices") /\ opening' = FALSE
    /\ \E peers \in IF running /\ Own # {} THEN {Peers(i) : i \in Own} ELSE {{}} :
          display' = [draft EXCEPT !.peers = peers, !.devices = display.devices]
    /\ draft' = NoDisplay
    /\ RefreshSame /\ UNCHANGED profName

(* Mutant of kickCoalesce: a kick starts the timer anew. *)
MutKickCoalesce == Interval
kickCoalesce == IF coalesce = 0 THEN Interval ELSE coalesce

\* Kicks that have gathered in the event queue are handled as one.
Kick ==
    /\ pc = "idle" /\ posted
    /\ posted' = FALSE /\ coalesce' = kickCoalesce
    /\ GuiSame /\ UNCHANGED <<queue, running, syncDone, profName, pc, opening, draft, display>>

Tick ==
    /\ pc = "idle" /\ coalesce > 0
    /\ coalesce' = coalesce - 1
    /\ Goto(IF coalesce = 1 THEN "name" ELSE "idle")
    /\ GuiSame /\ UNCHANGED <<queue, running, syncDone, profName, opening, posted, draft, display>>

clear ==
    /\ nodes' = [i \in Ids |-> NoRec] /\ modelLinks' = {}
    /\ prof' = NoStats /\ profName' = Unnamed
\* The panel is closed: the loop is joined, and all it held is dropped.
Stop ==
    /\ pc = "idle" /\ Goto("closed")
    /\ running' = FALSE /\ syncDone' = FALSE /\ queue' = <<>>
    /\ clear /\ bindings' = {}
    /\ posted' = FALSE /\ coalesce' = 0 /\ draft' = NoDisplay /\ display' = NoDisplay
    /\ UNCHANGED <<daemonVars, opening>>

-----------------------------------------------------------------------------
Daemon ==
    \/ \E n \in Names : Appear(n) \/ Vanish(n) \/ Switch(n)
    \/ \E h \in Hosts, s \in Sinks : Connect(h, s)
    \/ \E l \in links : Disconnect(l)
    \/ \E h \in Hosts : Cycle(h)
LoopThread ==
    AddNode \/ AddLink \/ NodeInfo \/ RemoveGlobal \/ Profile \/ CoreDone
Refresh == RefreshDevices \/ RefreshName \/ RefreshStats \/ RefreshConnections

Next == Daemon \/ LoopThread \/ Start \/ ConnectFails \/ Wait \/ Refresh \/ Kick \/ Tick \/ Stop

\* The loop's events and the GUI's own are handled.
Fairness ==
    WF_vars(LoopThread) /\ WF_vars(Wait) /\ WF_vars(Refresh) /\ WF_vars(Kick) /\ WF_vars(Tick)

Spec == Init /\ [][Next]_vars
FairSpec == Spec /\ Fairness

-----------------------------------------------------------------------------
(* Properties.                                                              *)

\* The stored measurement belongs to the node that is there under its id, not to
\* one that had the id before.
StatsFresh == prof.id # 0 => nodes[prof.id].birth = prof.birth /\ nodes[prof.id] # NoRec

\* No kick is lost, whether it comes during a refresh, while the timer runs or
\* before the panel is up: with no event, kick or timer left, what is on screen is
\* there, and nothing of the graph is missing.
There(S) == {n \in S : world[n] # NoNode}
PeersOf(h) ==
    {n \in Names : \E l \in links : {world[h].id, world[n].id} = {l.out, l.in} /\ n # h}
Settled == running /\ pc = "idle" /\ queue = <<>> /\ ~ posted /\ coalesce = 0
SettledShows ==
    Settled =>
        /\ display.devices = There(Sinks)
        /\ display.name \in IF Target # Unnamed THEN {Target}
                            ELSE IF There(Hosts) = {} THEN {Unnamed} ELSE There(Hosts)
        /\ display.peers \in IF There(Hosts) = {} THEN {{}} ELSE {PeersOf(h) : h \in There(Hosts)}
        /\ display.quantum # 0 =>
              /\ display.quantum = prof.quantum
              /\ \E n \in There(Names) : world[n].id = prof.id /\ display.run = world[n].run
NothingStale == StatsFresh /\ SettledShows

\* While the panel is open and the graph at rest, the panel comes to show the
\* graph: devices, the driver's node with the cycle last measured, and its peers;
\* that cycle, if measurements go on for ever.
ShowsGraph ==
    /\ display.devices = There(Sinks)
    /\ Target = Unnamed => display.name \in
          IF There(Hosts) = {} THEN {Unnamed} ELSE There(Hosts)
    /\ display.quantum \in {0, quantum}
    /\ \A h \in Hosts : display.quantum # 0 => display.run = world[h].run
    /\ display.peers = IF links = {} THEN {} ELSE Sinks
Measuring == \E k \in 1 .. Len(queue) : queue[k].op = "profile"
DisplayCatchesUp ==
    <>[](running /\ pc # "wait") =>
        /\ <>[]ShowsGraph
        /\ []<>Measuring => <>[](display.quantum = quantum)
=============================================================================
