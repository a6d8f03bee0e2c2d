------------------------- MODULE GraphMonitorProofs -------------------------
(***************************************************************************)
(* Proofs about GraphMonitor, for every number of hosts and devices, any   *)
(* ids and any number of changes.                                          *)
(***************************************************************************)
EXTENDS GraphMonitor, SequenceTheorems, FiniteSetTheorems, TLAPS

\* What the daemon sends.
Event ==
    [op : {"node"}, id : Ids, name : Names, birth : Birth]
    \cup {e \in [op : {"link"}, id : Ids, link : Link] : e.link.id = e.id}
    \cup [op : {"remove"}, id : Ids]
    \cup [op : {"info"}, id : Ids, name : Names, birth : Birth, run : BOOLEAN]
    \cup [op : {"profile"}, id : Ids, birth : Birth, quantum : Quanta]
    \cup [op : {"done"}]

Rec == [name : Names \cup {Unnamed}, birth : Birth, own : BOOLEAN, sink : BOOLEAN, run : BOOLEAN]

Types ==
    /\ world \in [Names -> [id : Id, birth : Birth, run : BOOLEAN]]
    /\ links \subseteq Link /\ IsFiniteSet(links) /\ modelLinks \subseteq Link
    /\ quantum \in Quanta /\ changes \in Birth
    /\ queue \in Seq(Event)
    /\ nodes \in [Ids -> Rec]
    /\ prof \in [id : Id, birth : Birth, quantum : Quanta \cup {0}]

\* A global has an id of its own.
OwnIds ==
    /\ \A n \in Names : world[n] = NoNode \/ (world[n].id # 0 /\ world[n].birth # 0)
    /\ \A n, m \in Names : world[n].id = world[m].id /\ world[n].id # 0 => n = m
    /\ \A n \in Names, l \in links : world[n].id # l.id
    /\ \A k, l \in links : k.id = l.id => k = l

\* Without a connection nothing is known, and a closed panel has none.
Silent ==
    /\ pc = "closed" => ~ running
    /\ ~ running => /\ queue = <<>> /\ prof = NoStats
                    /\ \A i \in Ids : nodes[i] = NoRec
                    /\ modelLinks = {} /\ bindings = {}

-----------------------------------------------------------------------------
(* What an id stands for: an incarnation of a node, a link, or nothing.     *)

Thing(b, S) == [birth |-> b, links |-> S]
Nothing == Thing(0, {})

\* What the world has under id i.
Has(i, t) ==
    \/ \E n \in Names : world[n].id = i /\ t = Thing(world[n].birth, {})
    \/ \E l \in links : l.id = i /\ t = Thing(0, {l})
    \/ i \notin InUse /\ t = Nothing

\* What the model has under each id.
Known == [i \in Ids |-> Thing(nodes[i].birth, {l \in modelLinks : l.id = i})]

Touches(e, i) == e.op \in {"node", "link", "remove"} /\ e.id = i
Quiet(q, j, k, i) == \A m \in j .. k : ~ Touches(q[m], i)
Left(e) == Thing(IF e.op = "node" THEN e.birth ELSE 0, IF e.op = "link" THEN {e.link} ELSE {})

\* Once the first k events of q are handled, id i stands for t: the last of them
\* about i says so, or there is none and the model f does.
Stands(q, f, k, i, t) ==
    \/ \E j \in 1 .. k : Touches(q[j], i) /\ Left(q[j]) = t /\ Quiet(q, j + 1, k, i)
    \/ Quiet(q, 1, k, i) /\ f[i] = t

\* A measurement is of the node its id then stands for, and a node or a link is
\* announced under an id that stands for nothing.
Heard(q, f, e, k) ==
    /\ e.op = "profile" => e.birth # 0 /\ Stands(q, f, k, e.id, Thing(e.birth, {}))
    /\ e.op \in {"node", "link"} => Stands(q, f, k, e.id, Nothing)
    /\ e.op = "node" => e.birth # 0
Told(q, f) == \A k \in 1 .. Len(q) : Heard(q, f, q[k], k - 1)

\* With all events handled, the model has what the world has.
Complete(q, f) == \A i \in Ids : \A t : Has(i, t) => Stands(q, f, Len(q), i, t)

Measured == prof.id # 0 => prof.birth # 0 /\ nodes[prof.id].birth = prof.birth

IInv ==
    /\ Types /\ OwnIds /\ Silent
    /\ running => Told(queue, Known) /\ Complete(queue, Known)
    /\ Measured

-----------------------------------------------------------------------------
(* One event more, one event handled.                                       *)

LEMMA OneMore ==
  ASSUME NEW q \in Seq(Event), NEW e \in Event, NEW f, NEW i, NEW b
  PROVE  /\ \A k \in 0 .. Len(q) : Stands(q, f, k, i, b) => Stands(Append(q, e), f, k, i, b)
         /\ Stands(q, f, Len(q), i, b) /\ ~ Touches(e, i) =>
              Stands(Append(q, e), f, Len(q) + 1, i, b)
         /\ Touches(e, i) => Stands(Append(q, e), f, Len(q) + 1, i, Left(e))
<1> DEFINE r == Append(q, e)
<1>1. Len(q) \in Nat /\ Len(r) = Len(q) + 1 /\ r[Len(q) + 1] = e
      /\ \A m \in 1 .. Len(q) : r[m] = q[m]
  BY AppendProperties
<1> HIDE DEF r
<1>2. ASSUME NEW k \in 0 .. Len(q), Stands(q, f, k, i, b) PROVE Stands(r, f, k, i, b)
  <2>1. \A j \in Nat \ {0} : Quiet(q, j, k, i) => Quiet(r, j, k, i)
    BY <1>1 DEF Quiet
  <2> QED
    BY <1>1, <1>2, <2>1 DEF Stands
<1>3. ASSUME Stands(q, f, Len(q), i, b), ~ Touches(e, i) PROVE Stands(r, f, Len(q) + 1, i, b)
  <2>1. \A j \in Nat \ {0} : Quiet(q, j, Len(q), i) => Quiet(r, j, Len(q) + 1, i)
    <3> SUFFICES ASSUME NEW j \in Nat \ {0}, Quiet(q, j, Len(q), i), NEW m \in j .. Len(q) + 1
                 PROVE  ~ Touches(r[m], i)
      BY DEF Quiet
    <3>1. CASE m = Len(q) + 1
      BY <1>1, <1>3, <3>1
    <3>2. CASE m # Len(q) + 1
      <4>1. m \in j .. Len(q) /\ m \in 1 .. Len(q)
        BY <1>1, <3>2
      <4> QED
        BY <1>1, <4>1 DEF Quiet
    <3> QED
      BY <3>1, <3>2
  <2>2. CASE \E j \in 1 .. Len(q) : Touches(q[j], i) /\ Left(q[j]) = b /\ Quiet(q, j + 1, Len(q), i)
    <3>1. PICK j \in 1 .. Len(q) : Touches(q[j], i) /\ Left(q[j]) = b /\ Quiet(q, j + 1, Len(q), i)
      BY <2>2
    <3>2. j + 1 \in Nat \ {0} /\ j \in 1 .. Len(q) + 1
      BY <1>1
    <3>3. Touches(r[j], i) /\ Left(r[j]) = b /\ Quiet(r, j + 1, Len(q) + 1, i)
      BY <1>1, <2>1, <3>1, <3>2
    <3> QED
      BY <3>2, <3>3 DEF Stands
  <2>3. CASE Quiet(q, 1, Len(q), i) /\ f[i] = b
    BY <2>1, <2>3 DEF Stands
  <2> QED
    BY <1>3, <2>2, <2>3 DEF Stands
<1>4. ASSUME Touches(e, i) PROVE Stands(r, f, Len(q) + 1, i, Left(e))
  <2>1. Quiet(r, (Len(q) + 1) + 1, Len(q) + 1, i)
    BY <1>1 DEF Quiet
  <2>2. Len(q) + 1 \in 1 .. Len(q) + 1
    BY <1>1
  <2> QED
    BY <1>1, <1>4, <2>1, <2>2 DEF Stands
<1> QED
  BY <1>2, <1>3, <1>4 DEF r

LEMMA ToldOneMore ==
  ASSUME NEW q \in Seq(Event), NEW e \in Event, NEW f, Told(q, f), Heard(q, f, e, Len(q))
  PROVE  Told(Append(q, e), f)
<1> DEFINE r == Append(q, e)
<1>1. Len(q) \in Nat /\ Len(r) = Len(q) + 1 /\ r[Len(q) + 1] = e
      /\ \A m \in 1 .. Len(q) : r[m] = q[m]
  BY AppendProperties
<1>2. \A k \in 0 .. Len(q) : \A i, b : Stands(q, f, k, i, b) => Stands(r, f, k, i, b)
  BY OneMore
<1> HIDE DEF r
<1> SUFFICES ASSUME NEW k \in 1 .. Len(r) PROVE Heard(r, f, r[k], k - 1)
  BY DEF Told, r
<1>3. CASE k = Len(q) + 1
  BY <1>1, <1>2, <1>3 DEF Heard
<1>4. CASE k # Len(q) + 1
  <2>1. k \in 1 .. Len(q) /\ k - 1 \in 0 .. Len(q) /\ r[k] = q[k]
    BY <1>1, <1>4
  <2> QED
    BY <1>2, <2>1 DEF Told, Heard
<1> QED
  BY <1>3, <1>4

\* The model after event e.
Follows(e, f, g) == \A i \in Ids : g[i] = IF Touches(e, i) THEN Left(e) ELSE f[i]

LEMMA OneLess ==
  ASSUME NEW q \in Seq(Event), q # <<>>, NEW f, NEW g, Follows(Head(q), f, g),
         NEW k \in 1 .. Len(q), NEW i \in Ids, NEW b, Stands(q, f, k, i, b)
  PROVE  Stands(Tail(q), g, k - 1, i, b)
<1> DEFINE r == Tail(q)
<1>1. Len(q) \in Nat \ {0} /\ Len(r) = Len(q) - 1 /\ Head(q) = q[1]
      /\ \A m \in 1 .. Len(q) - 1 : r[m] = q[m + 1]
  BY EmptySeq, HeadTailProperties
<1> HIDE DEF r
<1>2. ASSUME NEW j \in 1 .. k + 1, Quiet(q, j + 1, k, i) PROVE Quiet(r, j, k - 1, i)
  <2> SUFFICES ASSUME NEW m \in j .. k - 1 PROVE ~ Touches(r[m], i)
    BY DEF Quiet
  <2>1. m \in 1 .. Len(q) - 1 /\ m + 1 \in j + 1 .. k
    BY <1>1
  <2> QED
    BY <1>1, <1>2, <2>1 DEF Quiet
<1>3. CASE \E j \in 1 .. k : Touches(q[j], i) /\ Left(q[j]) = b /\ Quiet(q, j + 1, k, i)
  <2>1. PICK j \in 1 .. k : Touches(q[j], i) /\ Left(q[j]) = b /\ Quiet(q, j + 1, k, i)
    BY <1>3
  <2>2. Quiet(r, j, k - 1, i)
    BY <1>2, <2>1
  <2>3. CASE j = 1
    <3>1. g[i] = b
      BY <1>1, <2>1, <2>3 DEF Follows
    <3> QED
      BY <2>2, <2>3, <3>1 DEF Stands, r
  <2>4. CASE j # 1
    <3>1. j - 1 \in 1 .. k - 1 /\ j - 1 \in 1 .. Len(q) - 1 /\ (j - 1) + 1 = j
      BY <1>1, <2>4
    <3>2. r[j - 1] = q[j]
      BY <1>1, <3>1
    <3> QED
      BY <2>1, <2>2, <3>1, <3>2 DEF Stands, r
  <2> QED
    BY <2>3, <2>4
<1>4. CASE Quiet(q, 1, k, i) /\ f[i] = b
  <2>1. ~ Touches(q[1], i) /\ Quiet(q, 1 + 1, k, i)
    BY <1>4 DEF Quiet
  <2>2. g[i] = b
    BY <1>1, <1>4, <2>1 DEF Follows
  <2> QED
    BY <1>2, <2>1, <2>2 DEF Stands, r
<1> QED
  BY <1>3, <1>4 DEF Stands

LEMMA ToldOneLess ==
  ASSUME NEW q \in Seq(Event), q # <<>>, NEW f, NEW g, Follows(Head(q), f, g), Told(q, f)
  PROVE  Told(Tail(q), g)
<1> DEFINE r == Tail(q)
<1>1. Len(q) \in Nat \ {0} /\ Len(r) = Len(q) - 1 /\ \A m \in 1 .. Len(q) - 1 : r[m] = q[m + 1]
  BY EmptySeq, HeadTailProperties
<1>2. \A k \in 1 .. Len(q), i \in Ids : \A b : Stands(q, f, k, i, b) => Stands(r, g, k - 1, i, b)
  BY OneLess
<1> HIDE DEF r
<1> SUFFICES ASSUME NEW k \in 1 .. Len(r) PROVE Heard(r, g, r[k], k - 1)
  BY DEF Told, r
<1>3. k \in 1 .. Len(q) /\ k + 1 \in 1 .. Len(q) /\ (k + 1) - 1 = k /\ r[k] = q[k + 1]
  BY <1>1
<1>4. q[k + 1] \in Event
  BY <1>3, ElementOfSeq
<1>5. q[k + 1].op \in {"profile", "node", "link"} => q[k + 1].id \in Ids
  BY <1>4 DEF Event
<1>6. Heard(q, f, q[k + 1], k)
  BY <1>3 DEF Told
<1> QED
  BY <1>2, <1>3, <1>5, <1>6 DEF Heard

-----------------------------------------------------------------------------
(* The loop thread.                                                         *)

\* The node info the daemon answers a bind with.
LEMMA Answers ==
  ASSUME Types, OwnIds, NEW i \in Ids, NEW b \in Birth
  PROVE  \/ BindAnswer(i, b) = <<>>
         \/ \E e \in Event : e.op = "info" /\ BindAnswer(i, b) = <<e>>
<1> DEFINE there == {n \in Names : world[n].id = i}
<1>1. CASE there = {}
  BY <1>1 DEF BindAnswer
<1>2. CASE there # {}
  <2> DEFINE n == CHOOSE m \in there : TRUE
  <2>1. n \in there
    BY <1>2
  <2>2. n \in Names /\ world[n].id \in Ids /\ world[n].run \in BOOLEAN
    BY <2>1 DEF Types
  <2>3. BindAnswer(i, b) = <<InfoEvent(n, world[n], b)>>
    BY <1>2 DEF BindAnswer
  <2> HIDE DEF n
  <2>4. InfoEvent(n, world[n], b) \in Event /\ InfoEvent(n, world[n], b).op = "info"
    BY <2>2 DEF InfoEvent, Event
  <2> QED
    BY <2>3, <2>4
<1> QED
  BY <1>1, <1>2

\* What follows for the invariant when the first event is handled.
LEMMA HandledStep ==
  ASSUME IInv, running, queue # <<>>, UNCHANGED <<daemonVars, running, pc>>,
         Follows(Head(queue), Known, Known'), nodes' \in [Ids -> Rec], modelLinks' \subseteq Link,
         \/ queue' = Tail(queue)
         \/ \E e \in Event : e.op = "info" /\ queue' = Append(Tail(queue), e),
         prof' \in [id : Id, birth : Birth, quantum : Quanta \cup {0}], Measured'
  PROVE  IInv'
<1> DEFINE r == Tail(queue)
<1>1. queue \in Seq(Event) /\ r \in Seq(Event) /\ Len(r) = Len(queue) - 1 /\ Len(queue) \in Nat \ {0}
  BY EmptySeq, HeadTailProperties DEF IInv, Types
<1>2. Told(queue, Known) /\ Complete(queue, Known)
  BY DEF IInv
<1>3. \A k \in 1 .. Len(queue), i \in Ids : \A t :
        Stands(queue, Known, k, i, t) => Stands(r, Known', k - 1, i, t)
  BY <1>1, OneLess
<1>4. Told(r, Known')
  BY <1>1, <1>2, ToldOneLess
<1> HIDE DEF r
<1>5. \A i \in Ids : \A t : Has(i, t) => Stands(r, Known', Len(r), i, t)
  <2>1. Len(queue) \in 1 .. Len(queue)
    BY <1>1
  <2> QED
    BY <1>1, <1>2, <1>3, <2>1 DEF Complete
<1>6. \A i, t : Has(i, t)' <=> Has(i, t)
  BY DEF daemonVars, Has, InUse
<1>7. queue' \in Seq(Event) /\ Told(queue, Known)' /\ Complete(queue, Known)'
  <2>1. CASE queue' = r
    BY <1>1, <1>4, <1>5, <1>6, <2>1 DEF Complete
  <2>2. CASE \E e \in Event : e.op = "info" /\ queue' = Append(r, e)
    <3>1. PICK e \in Event : e.op = "info" /\ queue' = Append(r, e)
      BY <2>2
    <3>2. Told(queue, Known)'
      BY <1>1, <1>4, <3>1, ToldOneMore DEF Heard
    <3>3. Len(queue') = Len(r) + 1
      BY <1>1, <3>1, AppendProperties
    <3>4. \A i, t : Stands(r, Known', Len(r), i, t) => Stands(queue', Known', Len(queue'), i, t)
      BY <1>1, <3>1, <3>3, OneMore DEF Touches
    <3>5. queue' \in Seq(Event)
      BY <1>1, <3>1, AppendProperties
    <3> QED
      BY <1>5, <1>6, <3>2, <3>4, <3>5 DEF Complete
  <2> QED
    BY <2>1, <2>2 DEF r
<1>8. Types'
  BY <1>7 DEF IInv, Types, daemonVars
<1>9. OwnIds' /\ Silent'
  BY DEF IInv, OwnIds, Silent, daemonVars
<1> QED
  BY <1>7, <1>8, <1>9 DEF IInv

\* The event that is handled, and what the model has to say of it.
LEMMA Received ==
  ASSUME IInv, NEW op, Got(op)
  PROVE  /\ running /\ queue # <<>> /\ Head(queue) \in Event /\ Head(queue).op = op
         /\ op = "profile" => /\ Head(queue).birth # 0
                              /\ Known[Head(queue).id] = Thing(Head(queue).birth, {})
         /\ op \in {"node", "link"} => Known[Head(queue).id] = Nothing
         /\ op = "node" => Head(queue).birth # 0
<1>1. queue # <<>> /\ queue \in Seq(Event) /\ Head(queue).op = op /\ running
  BY DEF Got, IInv, Types, Silent
<1>2. Len(queue) \in Nat \ {0} /\ Head(queue) = queue[1] /\ Head(queue) \in Event
  BY <1>1, EmptySeq, HeadTailProperties
<1>3. Told(queue, Known) /\ 1 \in 1 .. Len(queue)
  BY <1>1, <1>2 DEF IInv
<1>4. \A i, t : Stands(queue, Known, 1 - 1, i, t) => Known[i] = t
  BY DEF Stands
<1> QED
  BY <1>1, <1>2, <1>3, <1>4 DEF Told, Heard

\* The model's things, one id at a time.
LEMMA Things ==
  ASSUME NEW i \in Ids
  PROVE  /\ Known[i] = Thing(nodes[i].birth, {l \in modelLinks : l.id = i})
         /\ Known[i].birth = nodes[i].birth /\ Known[i].links = {l \in modelLinks : l.id = i}
BY DEF Known, Thing

LEMMA NothingThere ==
  ASSUME NEW i \in Ids, Known[i] = Nothing
  PROVE  nodes[i].birth = 0 /\ {l \in modelLinks : l.id = i} = {}
<1>1. Known[i].birth = 0 /\ Known[i].links = {}
  BY DEF Nothing, Thing
<1> QED
  BY <1>1, Things

LEMMA LoopStep == IInv /\ LoopThread => IInv'
<1> SUFFICES ASSUME IInv, LoopThread PROVE IInv'
  OBVIOUS
<1> DEFINE e == Head(queue)
<1>1. /\ nodes \in [Ids -> Rec] /\ prof \in [id : Id, birth : Birth, quantum : Quanta \cup {0}]
      /\ modelLinks \subseteq Link
  BY DEF IInv, Types
<1>2. CASE AddNode
  <2>1. Got("node") /\ LoopSame
    BY <1>2 DEF AddNode
  <2>2. /\ running /\ queue # <<>> /\ e \in Event /\ e.op = "node" /\ e.birth # 0
        /\ Known[e.id] = Nothing
    BY <2>1, Received
  <2>3. e.id \in Ids /\ e.birth \in Birth /\ e.name \in Names
    BY <2>2 DEF Event
  <2>4. nodes' = [nodes EXCEPT ![e.id] = announced(e)] /\ prof' = prof
        /\ queue' = Tail(queue) \o BindAnswer(e.id, e.birth) /\ modelLinks' = modelLinks
    BY <1>2 DEF AddNode
  <2>5. announced(e) \in Rec /\ announced(e).birth = e.birth
    BY <2>3 DEF announced, Rec
  <2>6. nodes[e.id].birth = 0 /\ {l \in modelLinks : l.id = e.id} = {}
    BY <2>2, <2>3, NothingThere
  <2>7. nodes' \in [Ids -> Rec] /\ Follows(e, Known, Known')
    <3>1. nodes' \in [Ids -> Rec] /\ nodes'[e.id].birth = e.birth
          /\ \A i \in Ids : i # e.id => nodes'[i] = nodes[i]
      BY <1>1, <2>3, <2>4, <2>5
    <3>2. Left(e) = Thing(e.birth, {}) /\ \A i : Touches(e, i) <=> i = e.id
      BY <2>2 DEF Left, Touches
    <3>3. \A i \in Ids : Known'[i] = Thing(nodes'[i].birth, {l \in modelLinks : l.id = i})
      BY <2>4 DEF Known
    <3>4. Known'[e.id] = Thing(e.birth, {})
      BY <2>3, <2>6, <3>1, <3>3
    <3>5. ASSUME NEW i \in Ids, i # e.id PROVE Known'[i] = Known[i]
      <4>1. Known'[i] = Thing(nodes[i].birth, {l \in modelLinks : l.id = i})
        BY <3>1, <3>3, <3>5
      <4> QED
        BY <4>1, Things
    <3> SUFFICES ASSUME NEW i \in Ids
                 PROVE  Known'[i] = IF Touches(e, i) THEN Left(e) ELSE Known[i]
      BY <3>1 DEF Follows
    <3>6. CASE i = e.id
      BY <3>2, <3>4, <3>6
    <3>7. CASE i # e.id
      BY <3>2, <3>5, <3>7
    <3> QED
      BY <3>6, <3>7
  <2>8. Measured'
    <3>1. prof.id # 0 => prof.id \in Ids /\ prof.id # e.id
      BY <1>1, <2>6 DEF IInv, Measured, Id
    <3> QED
      BY <1>1, <2>4, <3>1 DEF IInv, Measured
  <2>9. \/ queue' = Tail(queue)
        \/ \E a \in Event : a.op = "info" /\ queue' = Append(Tail(queue), a)
    <3>1. Tail(queue) \in Seq(Event)
      BY <2>2, HeadTailProperties DEF IInv, Types
    <3>2. Types /\ OwnIds
      BY DEF IInv
    <3>3. CASE BindAnswer(e.id, e.birth) = <<>>
      BY <2>4, <3>1, <3>3
    <3>4. CASE \E a \in Event : a.op = "info" /\ BindAnswer(e.id, e.birth) = <<a>>
      BY <2>4, <3>1, <3>4
    <3> QED
      BY <2>3, <3>2, <3>3, <3>4, Answers
  <2> QED
    BY <1>1, <2>1, <2>2, <2>4, <2>7, <2>8, <2>9, HandledStep DEF LoopSame, guiVars
<1>3. CASE AddLink
  <2>1. /\ Got("link") /\ LoopSame /\ nodes' = nodes /\ prof' = prof /\ queue' = Tail(queue)
        /\ modelLinks' = modelLinks \cup {e.link}
    BY <1>3 DEF AddLink
  <2>2. running /\ queue # <<>> /\ e \in Event /\ e.op = "link" /\ Known[e.id] = Nothing
    BY <2>1, Received
  <2>3. e.id \in Ids /\ e.link \in Link /\ e.link.id = e.id
    BY <2>2 DEF Event
  <2>4. nodes[e.id].birth = 0 /\ {l \in modelLinks : l.id = e.id} = {}
    BY <2>2, <2>3, NothingThere
  <2>5. Follows(e, Known, Known')
    <3>1. Left(e) = Thing(0, {e.link}) /\ \A i : Touches(e, i) <=> i = e.id
      BY <2>2 DEF Left, Touches
    <3>2. \A i \in Ids : {l \in modelLinks' : l.id = i} =
                         IF i = e.id THEN {e.link} ELSE {l \in modelLinks : l.id = i}
      BY <2>1, <2>3, <2>4
    <3> QED
      BY <2>1, <2>4, <3>1, <3>2 DEF Follows, Known
  <2> QED
    BY <1>1, <2>1, <2>2, <2>3, <2>5, HandledStep DEF LoopSame, guiVars, IInv, Measured
<1>4. CASE NodeInfo
  <2>1. Got("info") /\ LoopSame /\ prof' = prof /\ queue' = Tail(queue) /\ modelLinks' = modelLinks
    BY <1>4 DEF NodeInfo
  <2>2. running /\ queue # <<>> /\ e \in Event /\ e.op = "info"
    BY <2>1, Received
  <2>3. e.id \in Ids /\ e.name \in Names /\ e.run \in BOOLEAN
    BY <2>2 DEF Event
  <2>4. nodes' = nodes \/ nodes' = [nodes EXCEPT ![e.id] = updateNodeProps(nodes[e.id], e)]
    BY <1>4 DEF NodeInfo
  <2>5. /\ updateNodeProps(nodes[e.id], e) \in Rec
        /\ updateNodeProps(nodes[e.id], e).birth = nodes[e.id].birth
    BY <1>1, <2>3 DEF updateNodeProps, Rec
  <2>6. nodes' \in [Ids -> Rec] /\ \A i \in Ids : nodes'[i].birth = nodes[i].birth
    BY <1>1, <2>3, <2>4, <2>5
  <2>7. Known' = Known
    BY <2>1, <2>6 DEF Known
  <2>8. Measured' /\ Follows(e, Known, Known')
    BY <1>1, <2>1, <2>2, <2>6, <2>7 DEF IInv, Measured, Follows, Touches, Id
  <2> QED
    BY <1>1, <2>1, <2>2, <2>6, <2>8, HandledStep DEF LoopSame, guiVars
<1>5. CASE RemoveGlobal
  <2>1. Got("remove") /\ LoopSame /\ queue' = Tail(queue)
    BY <1>5 DEF RemoveGlobal
  <2>2. running /\ queue # <<>> /\ e \in Event /\ e.op = "remove"
    BY <2>1, Received
  <2>3. e.id \in Ids
    BY <2>2 DEF Event
  <2>4. /\ nodes' = [nodes EXCEPT ![e.id] = NoRec] /\ prof' = profAfterRemoval(e.id)
        /\ modelLinks' = {l \in modelLinks : l.id # e.id}
    BY <1>5 DEF RemoveGlobal
  <2>5. NoRec \in Rec /\ NoRec.birth = 0 /\ NoStats.id = 0
        /\ NoStats \in [id : Id, birth : Birth, quantum : Quanta \cup {0}]
    BY GraphAssumption DEF NoRec, Rec, NoStats, Birth, Id
  <2>6. nodes' \in [Ids -> Rec] /\ Follows(e, Known, Known')
    <3>1. nodes' \in [Ids -> Rec] /\ nodes'[e.id].birth = 0
          /\ \A i \in Ids : i # e.id => nodes'[i] = nodes[i]
      BY <1>1, <2>3, <2>4, <2>5
    <3>2. Left(e) = Thing(0, {}) /\ \A i : Touches(e, i) <=> i = e.id
      BY <2>2 DEF Left, Touches
    <3>3. \A i \in Ids : {l \in modelLinks' : l.id = i} =
                         IF i = e.id THEN {} ELSE {l \in modelLinks : l.id = i}
      BY <2>4
    <3> QED
      BY <3>1, <3>2, <3>3 DEF Follows, Known
  <2>7. Measured' /\ prof' \in [id : Id, birth : Birth, quantum : Quanta \cup {0}]
    BY <1>1, <2>3, <2>4, <2>5 DEF profAfterRemoval, IInv, Measured, Id
  <2>8. modelLinks' \subseteq Link
    BY <1>1, <2>4
  <2> QED
    BY <2>1, <2>2, <2>6, <2>7, <2>8, HandledStep DEF LoopSame, guiVars
<1>6. CASE Profile
  <2>1. Got("profile") /\ LoopSame /\ queue' = Tail(queue) /\ nodes' = nodes
        /\ prof' = profilerBlock(e) /\ modelLinks' = modelLinks
    BY <1>6 DEF Profile
  <2>2. /\ running /\ queue # <<>> /\ e \in Event /\ e.op = "profile" /\ e.birth # 0
        /\ Known[e.id] = Thing(e.birth, {})
    BY <2>1, Received
  <2>3. e.id \in Ids /\ e.birth \in Birth /\ e.quantum \in Quanta
    BY <2>2 DEF Event
  <2>4. nodes[e.id].birth = e.birth
    <3>1. Known[e.id].birth = e.birth
      BY <2>2 DEF Thing
    <3> QED
      BY <2>3, <3>1, Things
  <2>5. Measured' /\ prof' \in [id : Id, birth : Birth, quantum : Quanta \cup {0}]
    BY <1>1, <2>1, <2>2, <2>3, <2>4 DEF profilerBlock, IInv, Measured, Id
  <2>6. Known' = Known
    BY <2>1 DEF Known
  <2> QED
    BY <1>1, <2>1, <2>2, <2>5, <2>6, HandledStep DEF LoopSame, guiVars, Follows, Touches
<1>7. CASE CoreDone
  <2>1. Got("done") /\ LoopSame /\ queue' = Tail(queue) /\ UNCHANGED modelVars
    BY <1>7 DEF CoreDone
  <2>2. running /\ queue # <<>> /\ e.op = "done"
    BY <2>1, Received
  <2>3. Known' = Known
    BY <2>1 DEF Known, modelVars
  <2> QED
    BY <1>1, <2>1, <2>2, <2>3, HandledStep
       DEF LoopSame, guiVars, modelVars, Follows, Touches, IInv, Measured
<1> QED
  BY <1>2, <1>3, <1>4, <1>5, <1>6, <1>7 DEF LoopThread

-----------------------------------------------------------------------------
(* The daemon.                                                              *)

LEMMA Changed == ASSUME Types, Change PROVE changes' \in Birth /\ changes' # 0
  BY GraphAssumption DEF Types, Change, Birth

\* An id that nothing has.
LEMMA NewIds ==
  ASSUME NEW i \in NewId
  PROVE  i \in Ids /\ i # 0 /\ (\A n \in Names : world[n].id # i) /\ \A l \in links : l.id # i
  BY GraphAssumption DEF NewId, Least, InUse

\* What follows for the invariant when the daemon sends an event, if anyone
\* listens.
LEMMA SentStep ==
  ASSUME IInv, NEW e \in Event, Sent(<<e>>), PanelSame,
         world' \in [Names -> [id : Id, birth : Birth, run : BOOLEAN]],
         links' \subseteq Link, IsFiniteSet(links'), quantum' \in Quanta, changes' \in Birth,
         OwnIds',
         e.op = "profile" => e.id \in Ids /\ e.birth # 0 /\ Has(e.id, Thing(e.birth, {})),
         e.op \in {"node", "link"} => e.id \in Ids /\ Has(e.id, Nothing),
         e.op = "node" => e.birth # 0,
         \A i \in Ids : \A t : Has(i, t)' =>
             \/ Touches(e, i) /\ Left(e) = t
             \/ ~ Touches(e, i) /\ Has(i, t)
  PROVE  IInv'
<1>1. nodes' = nodes /\ prof' = prof /\ running' = running /\ pc' = pc
      /\ modelLinks' = modelLinks /\ bindings' = bindings
  BY DEF PanelSame, modelVars, guiVars
<1>2. Measured' /\ prof' \in [id : Id, birth : Birth, quantum : Quanta \cup {0}]
  BY <1>1 DEF IInv, Measured, Types
<1>3. CASE ~ running
  <2>1. queue' = queue
    BY <1>3 DEF Sent
  <2> QED
    BY <1>1, <1>2, <1>3, <2>1 DEF IInv, Types, Silent
<1>4. CASE running
  <2>1. queue \in Seq(Event) /\ Told(queue, Known) /\ Complete(queue, Known)
    BY <1>4 DEF IInv, Types
  <2>2. queue' = Append(queue, e)
    BY <1>4, <2>1 DEF Sent
  <2>3. Len(queue') = Len(queue) + 1 /\ queue' \in Seq(Event)
    BY <2>1, <2>2, AppendProperties
  <2>4. Known' = Known
    BY <1>1 DEF Known
  <2>5. Told(queue', Known)
    BY <2>1, <2>2, ToldOneMore DEF Complete, Heard
  <2>6. \A i : /\ \A t : Stands(queue, Known, Len(queue), i, t) /\ ~ Touches(e, i)
                            => Stands(queue', Known, Len(queue'), i, t)
               /\ Touches(e, i) => Stands(queue', Known, Len(queue'), i, Left(e))
    <3> TAKE i
    <3>1. \A t : Stands(queue, Known, Len(queue), i, t) /\ ~ Touches(e, i)
                        => Stands(Append(queue, e), Known, Len(queue) + 1, i, t)
      BY <2>1, OneMore
    <3>2. Touches(e, i) => Stands(Append(queue, e), Known, Len(queue) + 1, i, Left(e))
      BY <2>1, OneMore
    <3> QED
      BY <2>2, <2>3, <3>1, <3>2
  <2>7. \A i \in Ids : \A t : Has(i, t)' => Stands(queue', Known, Len(queue'), i, t)
    BY <2>1, <2>6 DEF Complete
  <2>8. Complete(queue, Known)'
    BY <2>4, <2>7 DEF Complete
  <2> QED
    BY <1>1, <1>2, <1>4, <2>3, <2>4, <2>5, <2>8 DEF IInv, Types, Silent
<1> QED
  BY <1>3, <1>4

\* The same when it sends nothing.
LEMMA NothingSent ==
  ASSUME IInv, Sent(<<>>), PanelSame, UNCHANGED <<links, quantum>>,
         world' \in [Names -> [id : Id, birth : Birth, run : BOOLEAN]], changes' \in Birth,
         OwnIds', \A i \in Ids : \A t : Has(i, t)' => Has(i, t)
  PROVE  IInv'
<1>1. nodes' = nodes /\ prof' = prof /\ running' = running /\ pc' = pc
      /\ modelLinks' = modelLinks /\ bindings' = bindings
  BY DEF PanelSame, modelVars, guiVars
<1>2. queue' = queue /\ Known' = Known
  BY <1>1 DEF Sent, IInv, Types, Known
<1>3. running => Complete(queue, Known)'
  BY <1>2 DEF IInv, Complete
<1> QED
  BY <1>1, <1>2, <1>3 DEF IInv, Types, Silent, Measured

LEMMA AppearStep == ASSUME IInv, NEW n \in Names, Appear(n) PROVE IInv'
<1>1. PICK i \in NewId :
        /\ world' = [world EXCEPT ![n] = [id |-> i, birth |-> changes', run |-> FALSE]]
        /\ Sent(<<NodeEvent(n, [id |-> i, birth |-> changes', run |-> FALSE])>>)
  BY DEF Appear
<1>2. i \in Ids /\ i # 0 /\ (\A m \in Names : world[m].id # i) /\ \A l \in links : l.id # i
  BY NewIds
<1>3. changes' \in Birth /\ changes' # 0 /\ PanelSame /\ UNCHANGED <<links, quantum>>
  BY Changed DEF Appear, IInv
<1>4. /\ world \in [Names -> [id : Id, birth : Birth, run : BOOLEAN]] /\ OwnIds
      /\ links \subseteq Link /\ IsFiniteSet(links) /\ quantum \in Quanta
      /\ world[n] = NoNode
  BY DEF IInv, Types, Appear
<1> DEFINE e == NodeEvent(n, [id |-> i, birth |-> changes', run |-> FALSE])
<1>5. e \in Event /\ e.op = "node" /\ e.id = i /\ e.birth = changes'
  BY <1>2, <1>3 DEF NodeEvent, Event
<1>6. /\ world'[n].id = i /\ world'[n].birth = changes'
      /\ \A m \in Names : m # n => world'[m] = world[m]
      /\ world' \in [Names -> [id : Id, birth : Birth, run : BOOLEAN]]
  BY <1>1, <1>2, <1>3, <1>4 DEF Id
<1>7. OwnIds'
  BY <1>2, <1>3, <1>4, <1>6 DEF OwnIds
<1>8. (\A j : Touches(e, j) <=> j = i) /\ Left(e) = Thing(changes', {})
  BY <1>5 DEF Touches, Left
<1> HIDE DEF e
<1>9. \A j \in Ids : \A t : Has(j, t)' =>
          \/ Touches(e, j) /\ Left(e) = t
          \/ ~ Touches(e, j) /\ Has(j, t)
  <2> SUFFICES ASSUME NEW j \in Ids, NEW t, Has(j, t)'
               PROVE  IF j = i THEN t = Thing(changes', {}) ELSE Has(j, t)
    BY <1>8
  <2>1. CASE \E m \in Names : world'[m].id = j /\ t = Thing(world'[m].birth, {})
    BY <1>2, <1>6, <2>1 DEF Has
  <2>2. CASE \E l \in links' : l.id = j /\ t = Thing(0, {l})
    BY <1>2, <1>3, <2>2 DEF Has
  <2>3. CASE j \notin InUse' /\ t = Nothing
    <3>1. j # i /\ \A m \in Names : m # n => world[m].id # j
      BY <1>6, <2>3 DEF InUse
    <3>2. world[n].id # j /\ \A l \in links : l.id # j
      BY <1>3, <1>4, <2>3, GraphAssumption DEF NoNode, InUse
    <3> QED
      BY <2>3, <3>1, <3>2 DEF Has, InUse
  <2> QED
    BY <2>1, <2>2, <2>3 DEF Has
<1>10. Sent(<<e>>) /\ e \in Event /\ e.op # "profile" /\ e.birth # 0 /\ e.id \in Ids
       /\ Has(e.id, Nothing)
  <2>1. Has(i, Nothing)
    BY <1>2 DEF Has, InUse
  <2> QED
    BY <1>1, <1>2, <1>3, <1>5, <2>1 DEF e
<1>11. links' \subseteq Link /\ IsFiniteSet(links') /\ quantum' \in Quanta
  BY <1>3, <1>4
<1> QED
  BY <1>3, <1>6, <1>7, <1>9, <1>10, <1>11, SentStep

LEMMA VanishStep == ASSUME IInv, NEW n \in Names, Vanish(n) PROVE IInv'
<1>1. /\ world' = [world EXCEPT ![n] = NoNode] /\ Sent(<<RemoveEvent(world[n].id)>>)
      /\ PanelSame /\ UNCHANGED <<links, quantum>> /\ world[n] # NoNode
  BY DEF Vanish
<1>2. /\ world \in [Names -> [id : Id, birth : Birth, run : BOOLEAN]] /\ OwnIds
      /\ links \subseteq Link /\ IsFiniteSet(links) /\ quantum \in Quanta /\ changes' \in Birth
  BY Changed DEF IInv, Types, Vanish
<1>3. world[n].id \in Ids /\ world[n].id # 0
  BY <1>1, <1>2 DEF OwnIds, Id
<1> DEFINE e == RemoveEvent(world[n].id)
<1>4. e \in Event /\ e.op = "remove" /\ e.id = world[n].id
  BY <1>3 DEF RemoveEvent, Event
<1>5. /\ world'[n] = NoNode /\ NoNode.id = 0
      /\ \A m \in Names : m # n => world'[m] = world[m]
      /\ world' \in [Names -> [id : Id, birth : Birth, run : BOOLEAN]]
  BY <1>1, <1>2, GraphAssumption DEF NoNode, Id, Birth
<1>6. OwnIds'
  <2>1. \A l \in links : l.id # 0
    BY <1>2, GraphAssumption DEF Link
  <2> QED
    BY <1>1, <1>2, <1>5, <2>1 DEF OwnIds
<1>7. (\A j : Touches(e, j) <=> j = world[n].id) /\ Left(e) = Nothing
  BY <1>4 DEF Touches, Left, Nothing
<1> HIDE DEF e
<1>8. \A j \in Ids : \A t : Has(j, t)' =>
          \/ Touches(e, j) /\ Left(e) = t
          \/ ~ Touches(e, j) /\ Has(j, t)
  <2> SUFFICES ASSUME NEW j \in Ids, NEW t, Has(j, t)'
               PROVE  IF j = world[n].id THEN t = Nothing ELSE Has(j, t)
    BY <1>7
  <2>1. CASE \E m \in Names : world'[m].id = j /\ t = Thing(world'[m].birth, {})
    <3>1. PICK m \in Names : world'[m].id = j /\ t = Thing(world'[m].birth, {})
      BY <2>1
    <3>2. m # n
      BY <1>5, <3>1, GraphAssumption
    <3>3. world[m].id = j /\ j # world[n].id
      BY <1>2, <1>3, <1>5, <3>1, <3>2 DEF OwnIds
    <3> QED
      BY <1>5, <3>1, <3>2, <3>3 DEF Has
  <2>2. CASE \E l \in links' : l.id = j /\ t = Thing(0, {l})
    BY <1>1, <1>2, <2>2 DEF Has, OwnIds
  <2>3. CASE j \notin InUse' /\ t = Nothing
    <3>1. \A m \in Names : m # n => world[m].id # j
      BY <1>5, <2>3 DEF InUse
    <3>2. \A l \in links : l.id # j
      BY <1>1, <2>3 DEF InUse
    <3> QED
      BY <2>3, <3>1, <3>2 DEF Has, InUse
  <2> QED
    BY <2>1, <2>2, <2>3 DEF Has
<1> QED
  BY <1>1, <1>2, <1>4, <1>5, <1>6, <1>8, SentStep DEF e

LEMMA ConnectStep == ASSUME IInv, NEW h \in Hosts, NEW s \in Sinks, Connect(h, s) PROVE IInv'
<1>1. /\ h \in Names /\ s \in Names /\ world[h] # NoNode /\ world[s] # NoNode
      /\ PanelSame /\ UNCHANGED <<world, quantum>>
  BY DEF Connect, Names
<1>2. /\ world \in [Names -> [id : Id, birth : Birth, run : BOOLEAN]] /\ OwnIds
      /\ links \subseteq Link /\ IsFiniteSet(links) /\ quantum \in Quanta /\ changes' \in Birth
  BY Changed DEF IInv, Types, Connect
<1>3. PICK i \in NewId :
        /\ links' = links \cup {[id |-> i, out |-> world[h].id, in |-> world[s].id]}
        /\ Sent(<<LinkEvent([id |-> i, out |-> world[h].id, in |-> world[s].id])>>)
  BY DEF Connect
<1> DEFINE l == [id |-> i, out |-> world[h].id, in |-> world[s].id]
           e == LinkEvent(l)
<1>4. i \in Ids /\ (\A n \in Names : world[n].id # i) /\ \A k \in links : k.id # i
  BY NewIds
<1>5. world[h].id \in Ids /\ world[s].id \in Ids
  BY <1>1, <1>2 DEF OwnIds, Id
<1>6. l \in Link /\ l.id = i /\ e \in Event /\ e.op = "link" /\ e.id = i /\ e.link = l
  BY <1>4, <1>5 DEF Link, LinkEvent, Event
<1>7. (\A j : Touches(e, j) <=> j = i) /\ Left(e) = Thing(0, {l})
  BY <1>6 DEF Touches, Left
<1>8. IsFiniteSet(links')
  BY <1>2, <1>3, FS_AddElement
<1> HIDE DEF e, l
<1>9. links' = links \cup {l}
  BY <1>3 DEF l
<1>10. links' \subseteq Link /\ OwnIds'
  BY <1>1, <1>2, <1>4, <1>6, <1>9 DEF OwnIds
<1>11. \A j \in Ids : \A t : Has(j, t)' =>
          \/ Touches(e, j) /\ Left(e) = t
          \/ ~ Touches(e, j) /\ Has(j, t)
  <2> SUFFICES ASSUME NEW j \in Ids, NEW t, Has(j, t)'
               PROVE  IF j = i THEN t = Thing(0, {l}) ELSE Has(j, t)
    BY <1>7
  <2>1. CASE \E m \in Names : world[m].id = j /\ t = Thing(world[m].birth, {})
    BY <1>4, <2>1 DEF Has
  <2>2. CASE \E k \in links' : k.id = j /\ t = Thing(0, {k})
    BY <1>4, <1>6, <1>9, <2>2 DEF Has
  <2>3. CASE j \notin InUse' /\ t = Nothing
    <3>1. j \notin InUse /\ j # i
      BY <1>1, <1>6, <1>9, <2>3 DEF InUse
    <3> QED
      BY <2>3, <3>1 DEF Has
  <2> QED
    BY <1>1, <2>1, <2>2, <2>3 DEF Has
<1>12. Has(i, Nothing)
  BY <1>4 DEF Has, InUse
<1>13. Sent(<<e>>)
  BY <1>3 DEF e, l
<1> QED
  BY <1>1, <1>2, <1>4, <1>6, <1>8, <1>10, <1>11, <1>12, <1>13, SentStep

LEMMA DisconnectStep == ASSUME IInv, NEW l \in links, Disconnect(l) PROVE IInv'
<1>1. /\ links' = links \ {l} /\ Sent(<<RemoveEvent(l.id)>>)
      /\ PanelSame /\ UNCHANGED <<world, quantum>>
  BY DEF Disconnect
<1>2. /\ world \in [Names -> [id : Id, birth : Birth, run : BOOLEAN]] /\ OwnIds
      /\ links \subseteq Link /\ IsFiniteSet(links) /\ quantum \in Quanta /\ changes' \in Birth
  BY Changed DEF IInv, Types, Disconnect
<1> DEFINE e == RemoveEvent(l.id)
<1>3. e \in Event /\ e.op = "remove" /\ e.id = l.id
  BY <1>2 DEF RemoveEvent, Event, Link
<1>4. links' \subseteq Link /\ IsFiniteSet(links') /\ OwnIds'
  <2>1. IsFiniteSet(links')
    BY <1>1, <1>2, FS_RemoveElement
  <2> QED
    BY <1>1, <1>2, <2>1 DEF OwnIds
<1>5. (\A j : Touches(e, j) <=> j = l.id) /\ Left(e) = Nothing
  BY <1>3 DEF Touches, Left, Nothing
<1>6. (\A n \in Names : world[n].id # l.id) /\ \A k \in links : k.id = l.id => k = l
  BY <1>2 DEF OwnIds
<1> HIDE DEF e
<1>7. \A j \in Ids : \A t : Has(j, t)' =>
          \/ Touches(e, j) /\ Left(e) = t
          \/ ~ Touches(e, j) /\ Has(j, t)
  <2> SUFFICES ASSUME NEW j \in Ids, NEW t, Has(j, t)'
               PROVE  IF j = l.id THEN t = Nothing ELSE Has(j, t)
    BY <1>5
  <2>1. CASE \E m \in Names : world[m].id = j /\ t = Thing(world[m].birth, {})
    BY <1>6, <2>1 DEF Has
  <2>2. CASE \E k \in links' : k.id = j /\ t = Thing(0, {k})
    BY <1>1, <1>6, <2>2 DEF Has
  <2>3. CASE j \notin InUse' /\ t = Nothing
    <3>1. j # l.id => j \notin InUse
      BY <1>1, <1>6, <2>3 DEF InUse
    <3> QED
      BY <2>3, <3>1 DEF Has
  <2> QED
    BY <1>1, <2>1, <2>2, <2>3 DEF Has
<1> QED
  BY <1>1, <1>2, <1>3, <1>4, <1>7, SentStep DEF e

LEMMA SwitchStep == ASSUME IInv, NEW n \in Names, Switch(n) PROVE IInv'
<1>1. /\ world' = [world EXCEPT ![n].run = ~ @] /\ world[n] # NoNode
      /\ PanelSame /\ UNCHANGED <<links, quantum>>
      /\ Sent(<<>>) \/ Sent(<<InfoEvent(n, world'[n], world[n].birth)>>)
  BY DEF Switch
<1>2. /\ world \in [Names -> [id : Id, birth : Birth, run : BOOLEAN]] /\ OwnIds
      /\ links \subseteq Link /\ IsFiniteSet(links) /\ quantum \in Quanta /\ changes' \in Birth
  BY Changed DEF IInv, Types, Switch
<1>3. /\ world' \in [Names -> [id : Id, birth : Birth, run : BOOLEAN]]
      /\ \A m \in Names : world'[m].id = world[m].id /\ world'[m].birth = world[m].birth
      /\ \A m \in Names : m # n => world'[m] = world[m]
  BY <1>1, <1>2
<1>4. world[n].id # 0 /\ world[n].birth # 0 /\ world[n].id \in Ids
  BY <1>1, <1>2 DEF OwnIds, Id
<1>5. OwnIds'
  BY <1>1, <1>2, <1>3, <1>4 DEF OwnIds
<1>8. \A i, t : Has(i, t)' => Has(i, t)
  <2>1. InUse' = InUse
    BY <1>1, <1>3 DEF InUse
  <2> QED
    BY <1>1, <1>3, <2>1 DEF Has
<1>6. CASE Sent(<<>>)
  BY <1>1, <1>2, <1>3, <1>5, <1>6, <1>8, NothingSent
<1>7. CASE Sent(<<InfoEvent(n, world'[n], world[n].birth)>>)
  <2> DEFINE e == InfoEvent(n, world'[n], world[n].birth)
  <2>1. e \in Event /\ e.op = "info"
    BY <1>2, <1>3, <1>4 DEF InfoEvent, Event
  <2>2. \A i : ~ Touches(e, i)
    BY <2>1 DEF Touches
  <2> HIDE DEF e
  <2> QED
    BY <1>1, <1>2, <1>3, <1>5, <1>7, <1>8, <2>1, <2>2, SentStep DEF e
<1> QED
  BY <1>1, <1>6, <1>7

LEMMA CycleStep == ASSUME IInv, NEW h \in Hosts, Cycle(h) PROVE IInv'
<1>1. PICK q \in Quanta :
        /\ quantum' = q /\ IF q = quantum THEN UNCHANGED changes ELSE Change
        /\ Sent(<<[ProfileEvent(world[h]) EXCEPT !.quantum = q]>>)
  BY DEF Cycle
<1>2. /\ h \in Names /\ world[h].run /\ PanelSame /\ UNCHANGED <<world, links>>
  BY DEF Cycle, Names
<1>3. /\ world \in [Names -> [id : Id, birth : Birth, run : BOOLEAN]] /\ OwnIds
      /\ links \subseteq Link /\ IsFiniteSet(links) /\ changes' \in Birth
  BY <1>1, Changed DEF IInv, Types
<1>4. world[h].id # 0 /\ world[h].id \in Ids /\ world[h].birth # 0
  BY <1>2, <1>3 DEF OwnIds, NoNode, Id
<1> DEFINE e == [ProfileEvent(world[h]) EXCEPT !.quantum = q]
<1>5. e = [op |-> "profile", id |-> world[h].id, birth |-> world[h].birth, quantum |-> q]
  BY DEF ProfileEvent
<1>6. e \in Event /\ e.op = "profile" /\ e.id = world[h].id /\ e.birth = world[h].birth
  BY <1>2, <1>3, <1>4, <1>5 DEF Event
<1>7. \A i : ~ Touches(e, i)
  BY <1>6 DEF Touches
<1>8. OwnIds' /\ \A i, t : Has(i, t)' => Has(i, t)
  BY <1>2, <1>3 DEF OwnIds, Has, InUse
<1>9. Has(world[h].id, Thing(world[h].birth, {}))
  BY <1>2 DEF Has
<1> HIDE DEF e
<1> QED
  BY <1>1, <1>2, <1>3, <1>4, <1>6, <1>7, <1>8, <1>9, SentStep DEF e

LEMMA DaemonStep == IInv /\ Daemon => IInv'
  BY AppearStep, VanishStep, SwitchStep, ConnectStep, DisconnectStep, CycleStep DEF Daemon

-----------------------------------------------------------------------------
(* The GUI thread.                                                          *)

\* A finite set laid out as a sequence: every element, once.
LEMMA LaidOut ==
  ASSUME NEW S, IsFiniteSet(S)
  PROVE  /\ SetToSeq(S) \in Seq(S)
         /\ \A x \in S : \E j \in 1 .. Len(SetToSeq(S)) : SetToSeq(S)[j] = x
         /\ \A j, k \in 1 .. Len(SetToSeq(S)) : SetToSeq(S)[j] = SetToSeq(S)[k] => j = k
<1> DEFINE n == Cardinality(S)
<1>1. n \in Nat /\ ExistsBijection(1 .. n, S)
  BY FS_CardinalityType
<1>2. \E f \in [1 .. n -> S] : IsInjective(f)
  BY <1>1 DEF ExistsBijection, Bijection, Injection
<1>3. SetToSeq(S) \in [1 .. n -> S] /\ IsInjective(SetToSeq(S))
  BY <1>2 DEF SetToSeq
<1>4. SetToSeq(S) \in Injection(1 .. n, S)
  BY <1>3 DEF Injection
<1>5. Cardinality(1 .. n) = n /\ IsFiniteSet(1 .. n)
  BY <1>1, FS_Interval
<1>6. SetToSeq(S) \in Surjection(1 .. n, S)
  BY <1>4, <1>5, FS_Injection
<1> HIDE DEF n
<1>7. SetToSeq(S) \in Seq(S) /\ Len(SetToSeq(S)) = n
  BY <1>1, <1>3
<1> QED
  BY <1>3, <1>6, <1>7 DEF Surjection, IsInjective

\* What a panel that connects is told of.
LEMMA FewAnnounced ==
  ASSUME IsFiniteSet(links)
  PROVE  /\ IsFiniteSet({NodeEvent(n, world[n]) : n \in {m \in Names : world[m] # NoNode}})
         /\ IsFiniteSet({LinkEvent(l) : l \in links})
<1> DEFINE S == {m \in Names : world[m] # NoNode}
           N == {NodeEvent(n, world[n]) : n \in S}
           L == {LinkEvent(l) : l \in links}
<1>1. IsFiniteSet(S)
  BY GraphAssumption, FS_Subset
<1>2. IsFiniteSet(N)
  <2> DEFINE f == [m \in S |-> NodeEvent(m, world[m])]
  <2>1. f \in Surjection(S, N)
    BY DEF Surjection
  <2> HIDE DEF S, N, f
  <2> QED
    BY <1>1, <2>1, FS_Surjection
<1>3. IsFiniteSet(L)
  <2> DEFINE f == [l \in links |-> LinkEvent(l)]
  <2>1. f \in Surjection(links, L)
    BY DEF Surjection
  <2> HIDE DEF L, f
  <2> QED
    BY <2>1, FS_Surjection
<1> QED
  BY <1>2, <1>3

\* The panel connects to an empty model, and is told each node once.
LEMMA StartStep == IInv /\ Start => IInv'
<1> SUFFICES ASSUME IInv, Start PROVE IInv'
  OBVIOUS
<1> DEFINE N == {NodeEvent(n, world[n]) : n \in {m \in Names : world[m] # NoNode}}
           L == {LinkEvent(l) : l \in links}
           s == SetToSeq(N)
           t == SetToSeq(L)
           done == <<[op |-> "done"]>>
<1>1. /\ queue' = s \o t \o done /\ running' = TRUE /\ pc' = "wait"
      /\ UNCHANGED <<daemonVars, modelVars>> /\ ~ running
  BY DEF Start, Goto, GuiSame, IInv, Silent
<1>2. /\ world \in [Names -> [id : Id, birth : Birth, run : BOOLEAN]] /\ OwnIds
      /\ links \subseteq Link /\ IsFiniteSet(links) /\ prof = NoStats
      /\ \A i \in Ids : Known[i] = Nothing
  <2>1. ASSUME NEW i \in Ids PROVE Known[i] = Nothing
    <3>1. nodes[i].birth = 0 /\ {l \in modelLinks : l.id = i} = {}
      BY <1>1 DEF IInv, Silent, NoRec
    <3> QED
      BY <3>1, Things DEF Nothing
  <2> QED
    BY <1>1, <2>1 DEF IInv, Types, Silent
<1>3. IsFiniteSet(N) /\ IsFiniteSet(L)
  BY <1>2, FewAnnounced
<1>5. \A x \in N : \E n \in Names : /\ world[n] # NoNode /\ x = NodeEvent(n, world[n])
                                    /\ x \in Event /\ x.op = "node" /\ x.birth # 0
                                    /\ x.id = world[n].id /\ x.birth = world[n].birth
  <2> SUFFICES ASSUME NEW n \in Names, world[n] # NoNode
               PROVE  LET x == NodeEvent(n, world[n])
                      IN  /\ x \in Event /\ x.op = "node" /\ x.birth # 0
                          /\ x.id = world[n].id /\ x.birth = world[n].birth
    OBVIOUS
  <2> QED
    BY <1>2 DEF NodeEvent, Event, OwnIds, Id
<1>6. \A x \in L : x \in Event /\ x.op = "link" /\ \E l \in links : x = LinkEvent(l) /\ x.id = l.id
  BY <1>2 DEF LinkEvent, Event, Link
<1>7. s \in Seq(N) /\ t \in Seq(L)
  BY <1>3, LaidOut
<1>8. /\ \A x \in N : \E j \in 1 .. Len(s) : s[j] = x
      /\ \A j, k \in 1 .. Len(s) : s[j] = s[k] => j = k
      /\ \A x \in L : \E j \in 1 .. Len(t) : t[j] = x
      /\ \A j, k \in 1 .. Len(t) : t[j] = t[k] => j = k
  BY <1>3, LaidOut
<1>9. [op |-> "done"] \in Event
  BY DEF Event
<1> HIDE DEF N, L, s, t
<1>10. s \in Seq(Event) /\ t \in Seq(Event) /\ done \in Seq(Event)
  <2>1. N \subseteq Event /\ L \subseteq Event
    BY <1>5, <1>6
  <2> QED
    BY <1>7, <1>9, <2>1, SeqMonotonic
<1>11. /\ queue' \in Seq(Event) /\ Len(s) \in Nat /\ Len(t) \in Nat
       /\ Len(queue') = Len(s) + Len(t) + 1
       /\ \A k \in 1 .. Len(s) : queue'[k] = s[k]
       /\ \A k \in Len(s) + 1 .. Len(s) + Len(t) : queue'[k] = t[k - Len(s)]
       /\ queue'[Len(s) + Len(t) + 1] = [op |-> "done"]
  <2>1. s \o t \in Seq(Event) /\ Len(s \o t) = Len(s) + Len(t)
        /\ (\A k \in 1 .. Len(s) : (s \o t)[k] = s[k])
        /\ \A k \in Len(s) + 1 .. Len(s) + Len(t) : (s \o t)[k] = t[k - Len(s)]
    BY <1>10
  <2>2. Len(s) \in Nat /\ Len(t) \in Nat /\ Len(done) = 1 /\ done[1] = [op |-> "done"]
    BY <1>10
  <2> HIDE DEF done
  <2> DEFINE st == s \o t
  <2>3. st \in Seq(Event) /\ Len(st) = Len(s) + Len(t)
    BY <2>1
  <2> HIDE DEF st
  <2>4. /\ st \o done \in Seq(Event) /\ Len(st \o done) = Len(st) + 1
        /\ \A k \in 1 .. Len(st) : (st \o done)[k] = st[k]
        /\ (st \o done)[Len(st) + 1] = done[1]
    <3>1. st \o done = Append(st, [op |-> "done"])
      BY <2>3 DEF done
    <3> QED
      BY <1>9, <2>2, <2>3, <3>1, AppendProperties
  <2>5. queue' = st \o done
    BY <1>1 DEF st, done
  <2>6. \A k \in 1 .. Len(s) : k \in 1 .. Len(st)
    BY <2>2, <2>3
  <2>7. \A k \in Len(s) + 1 .. Len(s) + Len(t) : k \in 1 .. Len(st)
    BY <2>2, <2>3
  <2> QED
    BY <2>1, <2>2, <2>3, <2>4, <2>5, <2>6, <2>7 DEF st
<1>12. \A k \in 1 .. Len(s) : s[k] \in N
  BY <1>7, ElementOfSeq
<1>13. \A k \in 1 .. Len(queue') : queue'[k].op # "done" => queue'[k] \in N \cup L
       /\ \A j \in 1 .. Len(queue') : queue'[j] = queue'[k] => j = k
  <2>1. ASSUME NEW k \in 1 .. Len(queue'), queue'[k].op # "done"
        PROVE  \/ k \in 1 .. Len(s) /\ queue'[k] = s[k] /\ queue'[k] \in N
               \/ /\ k \in Len(s) + 1 .. Len(s) + Len(t) /\ k - Len(s) \in 1 .. Len(t)
                  /\ queue'[k] = t[k - Len(s)] /\ queue'[k] \in L
    <3>1. CASE k \in 1 .. Len(s)
      BY <1>11, <1>12, <3>1
    <3>2. CASE k \notin 1 .. Len(s)
      <4>1. k \in Len(s) + 1 .. Len(s) + Len(t) /\ k - Len(s) \in 1 .. Len(t)
        BY <1>11, <2>1, <3>2
      <4>2. t[k - Len(s)] \in L
        BY <1>7, <4>1, ElementOfSeq
      <4> QED
        BY <1>11, <4>1, <4>2
    <3> QED
      BY <3>1, <3>2
  <2>2. ASSUME NEW k \in 1 .. Len(queue'), queue'[k].op # "done",
               NEW j \in 1 .. Len(queue'), queue'[j] = queue'[k]
        PROVE  j = k
    <3>1. CASE k \in 1 .. Len(s) /\ queue'[k] = s[k] /\ queue'[k] \in N
      <4>1. j \in 1 .. Len(s) /\ queue'[j] = s[j]
        BY <1>5, <1>6, <2>1, <2>2, <3>1
      <4> QED
        BY <1>8, <2>2, <3>1, <4>1
    <3>2. CASE /\ k \in Len(s) + 1 .. Len(s) + Len(t) /\ k - Len(s) \in 1 .. Len(t)
               /\ queue'[k] = t[k - Len(s)] /\ queue'[k] \in L
      <4>1. j \in Len(s) + 1 .. Len(s) + Len(t) /\ j - Len(s) \in 1 .. Len(t)
            /\ queue'[j] = t[j - Len(s)]
        BY <1>5, <1>6, <2>1, <2>2, <3>2
      <4>2. j - Len(s) = k - Len(s)
        BY <1>8, <2>2, <3>2, <4>1
      <4> QED
        BY <1>11, <3>2, <4>1, <4>2
    <3> QED
      BY <2>1, <2>2, <3>1, <3>2
  <2> QED
    BY <2>1, <2>2
\* Of two announcements one is not of the other's id.
<1>14. \A j, k \in 1 .. Len(queue') : \A i :
          Touches(queue'[j], i) /\ Touches(queue'[k], i) => j = k
  <2> SUFFICES ASSUME NEW j \in 1 .. Len(queue'), NEW k \in 1 .. Len(queue'), NEW i,
                      Touches(queue'[j], i), Touches(queue'[k], i)
               PROVE  j = k
    OBVIOUS
  <2>1. /\ queue'[j] \in N \cup L /\ queue'[j].id = i
        /\ queue'[k] \in N \cup L /\ queue'[k].id = i /\ queue'[k].op # "done"
    BY <1>13 DEF Touches
  <2>2. CASE queue'[j] \in N /\ queue'[k] \in N
    <3>1. PICK n \in Names : /\ world[n] # NoNode /\ queue'[j] = NodeEvent(n, world[n])
                             /\ world[n].id = i
      BY <1>5, <2>1, <2>2
    <3>2. PICK m \in Names : /\ world[m] # NoNode /\ queue'[k] = NodeEvent(m, world[m])
                             /\ world[m].id = i
      BY <1>5, <2>1, <2>2
    <3>3. n = m
      BY <1>2, <3>1, <3>2 DEF OwnIds
    <3> QED
      BY <1>13, <2>1, <3>1, <3>2, <3>3
  <2>3. CASE queue'[j] \in L /\ queue'[k] \in L
    <3>1. queue'[j] = queue'[k]
      BY <1>2, <1>6, <2>1, <2>3 DEF OwnIds
    <3> QED
      BY <1>13, <2>1, <3>1
  <2>4. \A x \in N, y \in L : x.id # y.id
    BY <1>2, <1>5, <1>6 DEF OwnIds
  <2> QED
    BY <2>1, <2>2, <2>3, <2>4
<1>15. Told(queue', Known)
  <2> SUFFICES ASSUME NEW k \in 1 .. Len(queue') PROVE Heard(queue', Known, queue'[k], k - 1)
    BY DEF Told
  <2>1. CASE queue'[k].op = "done"
    BY <2>1 DEF Heard
  <2>2. CASE queue'[k].op # "done"
    <3>1. /\ queue'[k].op \in {"node", "link"} /\ queue'[k].id \in Ids
          /\ queue'[k].op = "node" => queue'[k].birth # 0
      BY <1>2, <1>5, <1>6, <1>13, <2>2 DEF Event
    <3>2. Touches(queue'[k], queue'[k].id)
      BY <3>1 DEF Touches
    <3>3. Quiet(queue', 1, k - 1, queue'[k].id)
      <4> SUFFICES ASSUME NEW m \in 1 .. k - 1, Touches(queue'[m], queue'[k].id) PROVE FALSE
        BY DEF Quiet
      <4>1. m \in 1 .. Len(queue') /\ m # k
        BY <1>11
      <4> QED
        BY <1>14, <3>2, <4>1
    <3>4. Known[queue'[k].id] = Nothing
      BY <1>2, <3>1
    <3>5. Stands(queue', Known, k - 1, queue'[k].id, Nothing)
      BY <3>3, <3>4 DEF Stands
    <3> QED
      BY <3>1, <3>5 DEF Heard
  <2> QED
    BY <2>1, <2>2
<1>16. Len(queue') \in Nat
  BY <1>11
<1>17. ASSUME NEW x \in N \cup L PROVE Stands(queue', Known, Len(queue'), x.id, Left(x))
  <2>1. PICK j \in 1 .. Len(queue') : queue'[j] = x
    <3>1. CASE x \in N
      <4>1. PICK j \in 1 .. Len(s) : s[j] = x
        BY <1>8, <3>1
      <4> QED
        BY <1>11, <4>1
    <3>2. CASE x \in L
      <4>1. PICK j \in 1 .. Len(t) : t[j] = x
        BY <1>8, <3>2
      <4>2. Len(s) + j \in Len(s) + 1 .. Len(s) + Len(t) /\ (Len(s) + j) - Len(s) = j
            /\ Len(s) + j \in 1 .. Len(queue')
        BY <1>11
      <4> QED
        BY <1>11, <4>1, <4>2
    <3> QED
      BY <3>1, <3>2
  <2>2. Touches(queue'[j], x.id)
    BY <1>5, <1>6, <2>1 DEF Touches
  <2>3. Quiet(queue', j + 1, Len(queue'), x.id)
    <3> SUFFICES ASSUME NEW m \in j + 1 .. Len(queue'), Touches(queue'[m], x.id) PROVE FALSE
      BY DEF Quiet
    <3>1. m \in 1 .. Len(queue') /\ m # j
      BY <1>16
    <3> QED
      BY <1>14, <2>2, <3>1
  <2> QED
    BY <2>1, <2>2, <2>3 DEF Stands
<1>18. ASSUME NEW i \in Ids, i \notin InUse
       PROVE  Stands(queue', Known, Len(queue'), i, Nothing)
  <2>1. Quiet(queue', 1, Len(queue'), i)
    <3> SUFFICES ASSUME NEW m \in 1 .. Len(queue'), Touches(queue'[m], i) PROVE FALSE
      BY DEF Quiet
    <3>1. queue'[m] \in N \cup L /\ queue'[m].id = i
      BY <1>13 DEF Touches
    <3> QED
      BY <1>5, <1>6, <1>18, <3>1 DEF InUse
  <2> QED
    BY <1>2, <2>1 DEF Stands
<1>19. Complete(queue', Known)
  <2> SUFFICES ASSUME NEW i \in Ids, NEW a, Has(i, a)
               PROVE  Stands(queue', Known, Len(queue'), i, a)
    BY DEF Complete
  <2>1. CASE \E n \in Names : world[n].id = i /\ a = Thing(world[n].birth, {})
    <3>1. PICK n \in Names : world[n].id = i /\ a = Thing(world[n].birth, {})
      BY <2>1
    <3>2. NodeEvent(n, world[n]) \in N
      BY <3>1, GraphAssumption DEF N, NoNode
    <3>3. NodeEvent(n, world[n]).id = i /\ Left(NodeEvent(n, world[n])) = a
      BY <3>1 DEF NodeEvent, Left
    <3> QED
      BY <1>17, <3>2, <3>3
  <2>2. CASE \E l \in links : l.id = i /\ a = Thing(0, {l})
    <3>1. PICK l \in links : l.id = i /\ a = Thing(0, {l})
      BY <2>2
    <3>2. LinkEvent(l) \in L
      BY DEF L
    <3>3. LinkEvent(l).id = i /\ Left(LinkEvent(l)) = a
      BY <3>1 DEF LinkEvent, Left
    <3> QED
      BY <1>17, <3>2, <3>3
  <2>3. CASE i \notin InUse /\ a = Nothing
    BY <1>18, <2>3
  <2> QED
    BY <2>1, <2>2, <2>3 DEF Has
<1>20. Known' = Known /\ \A i, a : Has(i, a)' <=> Has(i, a)
  BY <1>1 DEF daemonVars, modelVars, Known, Has, InUse
<1>21. Told(queue, Known)' /\ Complete(queue, Known)'
  BY <1>15, <1>19, <1>20 DEF Complete
<1> QED
  BY <1>1, <1>2, <1>11, <1>21
     DEF IInv, Types, OwnIds, Silent, Measured, daemonVars, modelVars, NoStats

\* Closing the panel drops all it held.
LEMMA StopStep == IInv /\ Stop => IInv'
<1> SUFFICES ASSUME IInv, Stop PROVE IInv'
  OBVIOUS
<1>1. /\ running' = FALSE /\ queue' = <<>> /\ nodes' = [i \in Ids |-> NoRec] /\ prof' = NoStats
      /\ modelLinks' = {} /\ bindings' = {} /\ UNCHANGED daemonVars
  BY DEF Stop, clear
<1>2. NoRec \in Rec /\ NoRec.birth = 0 /\ NoStats.id = 0
      /\ NoStats \in [id : Id, birth : Birth, quantum : Quanta \cup {0}]
  BY GraphAssumption DEF NoRec, Rec, NoStats, Birth, Id
<1>3. nodes' \in [Ids -> Rec] /\ \A i \in Ids : nodes'[i] = NoRec
  BY <1>1, <1>2
<1> QED
  BY <1>1, <1>2, <1>3 DEF IInv, Types, OwnIds, Silent, Measured, daemonVars

\* The rest of the GUI thread only reads.
LEMMA ReadOnly ==
  ASSUME IInv, UNCHANGED <<daemonVars, queue, running, modelVars>>, pc' # "closed" \/ pc' = pc
  PROVE  IInv'
<1>1. Known' = Known /\ \A i, t : Has(i, t)' <=> Has(i, t)
  BY DEF daemonVars, modelVars, Known, Has, InUse
<1> QED
  BY <1>1 DEF IInv, Types, OwnIds, Silent, Complete, Measured, daemonVars, modelVars

LEMMA GuiStep == IInv /\ (ConnectFails \/ Wait \/ Refresh \/ Kick \/ Tick) => IInv'
<1> SUFFICES ASSUME IInv, ConnectFails \/ Wait \/ Refresh \/ Kick \/ Tick PROVE IInv'
  OBVIOUS
<1>1. CASE ConnectFails
  BY <1>1, ReadOnly DEF ConnectFails, GuiSame, Goto
<1>2. CASE Wait
  BY <1>2, ReadOnly DEF Wait, WaitDone, WaitOver, WaitSame, GuiSame, Goto
<1>3. CASE RefreshDevices
  BY <1>3, ReadOnly, Zenon DEF RefreshDevices, RefreshSame, Goto, daemonVars, modelVars
<1>4. CASE RefreshName \/ RefreshStats \/ RefreshConnections
  <2>1. UNCHANGED <<daemonVars, queue, running, modelVars>>
    BY <1>4, Zenon DEF RefreshName, RefreshStats, RefreshConnections, RefreshSame
  <2>2. pc' # "closed"
    BY <1>4 DEF RefreshName, RefreshStats, RefreshConnections, Goto
  <2> QED
    BY <2>1, <2>2, ReadOnly
<1>5. CASE Kick
  BY <1>5, ReadOnly DEF Kick, GuiSame
<1>6. CASE Tick
  BY <1>6, ReadOnly DEF Tick, GuiSame, Goto
<1> QED
  BY <1>1, <1>2, <1>3, <1>4, <1>5, <1>6 DEF Refresh

-----------------------------------------------------------------------------
LEMMA InitInv == Init => IInv
<1> SUFFICES ASSUME Init PROVE IInv
  OBVIOUS
<1>1. NoRec \in Rec /\ NoRec.birth = 0 /\ NoStats.id = 0
      /\ NoStats \in [id : Id, birth : Birth, quantum : Quanta \cup {0}]
      /\ NoNode \in [id : Id, birth : Birth, run : BOOLEAN]
      /\ 0 \in Birth
  BY GraphAssumption DEF NoRec, Rec, NoStats, NoNode, Birth, Id
<1>2. Types
  <2>1. links \subseteq Link /\ IsFiniteSet(links)
    BY FS_EmptySet DEF Init
  <2> QED
    BY <1>1, <2>1 DEF Init, Types
<1>3. OwnIds
  BY DEF Init, OwnIds, NoNode
<1>4. Silent /\ Measured
  BY <1>1 DEF Init, Silent, Measured
<1> QED
  BY <1>2, <1>3, <1>4 DEF IInv, Init

LEMMA InvStep == IInv /\ [Next]_vars => IInv'
<1> SUFFICES ASSUME IInv, [Next]_vars PROVE IInv'
  OBVIOUS
<1>1. CASE UNCHANGED vars
  BY <1>1, ReadOnly DEF vars, guiVars
<1>2. CASE Next
  BY <1>2, DaemonStep, LoopStep, StartStep, GuiStep, StopStep DEF Next
<1> QED
  BY <1>1, <1>2

LEMMA InvAlways == Spec => []IInv
  BY InitInv, InvStep, PTL DEF Spec

\* The measurement GraphModel keeps by id (GraphModel.cpp:117) is never shown for
\* a node that was given the id later, however the daemon gives ids again.
THEOREM MeasurementsFresh == Spec => []StatsFresh
<1>1. IInv => StatsFresh
  <2> SUFFICES ASSUME IInv, prof.id # 0
               PROVE  nodes[prof.id].birth = prof.birth /\ nodes[prof.id] # NoRec
    BY DEF StatsFresh
  <2>1. prof.birth # 0 /\ nodes[prof.id].birth = prof.birth
    BY DEF IInv, Measured
  <2>2. NoRec.birth = 0
    BY DEF NoRec
  <2> QED
    BY <2>1, <2>2
<1> QED
  BY <1>1, InvAlways, PTL
-----------------------------------------------------------------------------
(* What the model says of a node.                                           *)

\* An incarnation is older than what changes next, and of one node.
Births ==
    /\ \A n \in Names : world[n].birth <= changes
    /\ \A n, m \in Names : world[n].birth = world[m].birth /\ world[n].birth # 0 => n = m

\* An event that names a node is of an incarnation that was, and if that is there
\* still it is of its name and id.
Identifies(e, w, c) ==
    /\ e.birth # 0 /\ e.birth <= c
    /\ \A n \in Names : w[n].birth = e.birth => e.name = n /\ e.id = w[n].id
Named ==
    \A k \in 1 .. Len(queue) :
        queue[k].op \in {"node", "info"} => Identifies(queue[k], world, changes)

\* So it is with the model's nodes, and where it has none it has no rest of one.
Recorded ==
    \A i \in Ids :
        /\ nodes[i].birth <= changes
        /\ nodes[i].birth = 0 => nodes[i] = NoRec
        /\ nodes[i].birth # 0 =>
              /\ nodes[i].name \in Names /\ nodes[i].sink = (nodes[i].name \in Sinks)
              /\ \A n \in Names : nodes[i].birth = world[n].birth => nodes[i].name = n

\* A proxy is of the incarnation the model has.
Bound ==
    \A b \in bindings : b.id \in Ids /\ b.birth # 0 /\ nodes[b.id].birth = b.birth

About(e, w) == e.op = "info" /\ e.id = w.id /\ e.birth = w.birth

\* With the events of q handled, the state of node n, now w, is what its record
\* rec, or the last of the events about it, says.
Reported(q, rec, n, w) ==
    \/ \E j \in 1 .. Len(q) : /\ About(q[j], w) /\ q[j].run = w.run
                              /\ \A m \in j + 1 .. Len(q) : ~ About(q[m], w)
    \/ /\ \A m \in 1 .. Len(q) : ~ About(q[m], w)
       /\ rec.own = (n \in Hosts) /\ rec.run = w.run

\* A node that no announcement is on its way for is bound and reported.
Informed ==
    \A n \in Names : world[n].id # 0 /\ Quiet(queue, 1, Len(queue), world[n].id) =>
        /\ [id |-> world[n].id, birth |-> world[n].birth] \in bindings
        /\ Reported(queue, nodes[world[n].id], n, world[n])

\* The ends of a link are there.
Ends == \A l \in links : \E h \in Hosts, s \in Sinks : l.out = world[h].id /\ l.in = world[s].id

NInv == Births /\ Named /\ Recorded /\ Bound /\ (running => Informed) /\ Ends

LEMMA ReportedMore ==
  ASSUME NEW q \in Seq(Event), NEW e \in Event, NEW rec, NEW n, NEW w
  PROVE  /\ Reported(q, rec, n, w) /\ ~ About(e, w) => Reported(Append(q, e), rec, n, w)
         /\ About(e, w) /\ e.run = w.run => Reported(Append(q, e), rec, n, w)
         /\ \A i : Quiet(Append(q, e), 1, Len(q) + 1, i) =>
               Quiet(q, 1, Len(q), i) /\ ~ Touches(e, i)
<1> DEFINE r == Append(q, e)
<1>1. Len(q) \in Nat /\ Len(r) = Len(q) + 1 /\ r[Len(q) + 1] = e
      /\ \A m \in 1 .. Len(q) : r[m] = q[m]
  BY AppendProperties
<1> HIDE DEF r
<1>2. ASSUME ~ About(e, w), NEW j \in Nat \ {0}, \A m \in j .. Len(q) : ~ About(q[m], w)
      PROVE  \A m \in j .. Len(r) : ~ About(r[m], w)
  <2> SUFFICES ASSUME NEW m \in j .. Len(r) PROVE ~ About(r[m], w)
    OBVIOUS
  <2>1. CASE m = Len(q) + 1
    BY <1>1, <1>2, <2>1
  <2>2. CASE m # Len(q) + 1
    <3>1. m \in j .. Len(q) /\ m \in 1 .. Len(q)
      BY <1>1, <2>2
    <3> QED
      BY <1>1, <1>2, <3>1
  <2> QED
    BY <2>1, <2>2
<1>3. ASSUME Reported(q, rec, n, w), ~ About(e, w) PROVE Reported(r, rec, n, w)
  <2>1. CASE \E j \in 1 .. Len(q) : /\ About(q[j], w) /\ q[j].run = w.run
                                    /\ \A m \in j + 1 .. Len(q) : ~ About(q[m], w)
    <3>1. PICK j \in 1 .. Len(q) : /\ About(q[j], w) /\ q[j].run = w.run
                                   /\ \A m \in j + 1 .. Len(q) : ~ About(q[m], w)
      BY <2>1
    <3>2. j + 1 \in Nat \ {0} /\ j \in 1 .. Len(r) /\ r[j] = q[j]
      BY <1>1
    <3> QED
      BY <1>2, <1>3, <3>1, <3>2 DEF Reported
  <2>2. CASE /\ \A m \in 1 .. Len(q) : ~ About(q[m], w)
             /\ rec.own = (n \in Hosts) /\ rec.run = w.run
    BY <1>2, <1>3, <2>2 DEF Reported
  <2> QED
    BY <1>3, <2>1, <2>2 DEF Reported
<1>4. ASSUME About(e, w), e.run = w.run PROVE Reported(r, rec, n, w)
  <2>1. Len(r) \in 1 .. Len(r) /\ r[Len(r)] = e /\ \A m \in Len(r) + 1 .. Len(r) : FALSE
    BY <1>1
  <2> QED
    BY <1>4, <2>1 DEF Reported
<1>5. ASSUME NEW i, Quiet(r, 1, Len(q) + 1, i) PROVE Quiet(q, 1, Len(q), i) /\ ~ Touches(e, i)
  <2>1. Len(q) + 1 \in 1 .. Len(q) + 1 /\ \A m \in 1 .. Len(q) : m \in 1 .. Len(q) + 1
    BY <1>1
  <2> QED
    BY <1>1, <1>5, <2>1 DEF Quiet
<1> QED
  BY <1>3, <1>4, <1>5 DEF r

LEMMA ReportedLess ==
  ASSUME NEW q \in Seq(Event), q # <<>>, NEW rec, NEW new, NEW n, NEW w, Reported(q, rec, n, w),
         \/ ~ About(Head(q), w) /\ new.own = rec.own /\ new.run = rec.run
         \/ About(Head(q), w) /\ new.own = (n \in Hosts) /\ new.run = Head(q).run
  PROVE  Reported(Tail(q), new, n, w)
<1> DEFINE r == Tail(q)
<1>1. Len(q) \in Nat \ {0} /\ Len(r) = Len(q) - 1 /\ Head(q) = q[1]
      /\ \A m \in 1 .. Len(q) - 1 : r[m] = q[m + 1]
  BY EmptySeq, HeadTailProperties
<1> HIDE DEF r
<1>2. ASSUME NEW j \in 1 .. Len(q), \A m \in j + 1 .. Len(q) : ~ About(q[m], w)
      PROVE  \A m \in j .. Len(r) : ~ About(r[m], w)
  <2> SUFFICES ASSUME NEW m \in j .. Len(r) PROVE ~ About(r[m], w)
    OBVIOUS
  <2>1. m \in 1 .. Len(q) - 1 /\ m + 1 \in j + 1 .. Len(q)
    BY <1>1
  <2> QED
    BY <1>1, <1>2, <2>1
<1>3. CASE \E j \in 1 .. Len(q) : /\ About(q[j], w) /\ q[j].run = w.run
                                  /\ \A m \in j + 1 .. Len(q) : ~ About(q[m], w)
  <2>1. PICK j \in 1 .. Len(q) : /\ About(q[j], w) /\ q[j].run = w.run
                                 /\ \A m \in j + 1 .. Len(q) : ~ About(q[m], w)
    BY <1>3
  <2>2. \A m \in j .. Len(r) : ~ About(r[m], w)
    BY <1>2, <2>1
  <2>3. CASE j = 1
    BY <1>1, <2>1, <2>2, <2>3 DEF Reported, r
  <2>4. CASE j # 1
    <3>1. j - 1 \in 1 .. Len(r) /\ j - 1 \in 1 .. Len(q) - 1 /\ (j - 1) + 1 = j
      BY <1>1, <2>4
    <3>2. r[j - 1] = q[j]
      BY <1>1, <3>1
    <3> QED
      BY <2>1, <2>2, <3>1, <3>2 DEF Reported, r
  <2> QED
    BY <2>3, <2>4
<1>4. CASE /\ \A m \in 1 .. Len(q) : ~ About(q[m], w)
           /\ rec.own = (n \in Hosts) /\ rec.run = w.run
  <2>1. 1 \in 1 .. Len(q) /\ \A m \in 1 + 1 .. Len(q) : m \in 1 .. Len(q)
    BY <1>1
  <2>2. ~ About(Head(q), w) /\ \A m \in 1 .. Len(r) : ~ About(r[m], w)
    BY <1>1, <1>2, <1>4, <2>1
  <2> QED
    BY <1>4, <2>2 DEF Reported, r
<1> QED
  BY <1>3, <1>4 DEF Reported

LEMMA QuietLess ==
  ASSUME NEW q \in Seq(Event), q # <<>>, NEW i, ~ Touches(Head(q), i),
         Quiet(Tail(q), 1, Len(Tail(q)), i)
  PROVE  Quiet(q, 1, Len(q), i)
<1> DEFINE r == Tail(q)
<1>1. Len(q) \in Nat \ {0} /\ Len(r) = Len(q) - 1 /\ Head(q) = q[1]
      /\ \A m \in 1 .. Len(q) - 1 : r[m] = q[m + 1]
  BY EmptySeq, HeadTailProperties
<1> HIDE DEF r
<1> SUFFICES ASSUME NEW m \in 1 .. Len(q), m # 1 PROVE ~ Touches(q[m], i)
  BY <1>1 DEF Quiet
<1>2. m - 1 \in 1 .. Len(r) /\ m - 1 \in 1 .. Len(q) - 1 /\ (m - 1) + 1 = m
  BY <1>1
<1> QED
  BY <1>1, <1>2 DEF Quiet, r

\* A node that is there and that no announcement is on its way for is the one the
\* model has under its id.
Arrived ==
    \A n \in Names : world[n].id # 0 /\ Quiet(queue, 1, Len(queue), world[n].id) =>
        world[n].birth # 0 /\ nodes[world[n].id].birth = world[n].birth

LEMMA HasArrived == IInv /\ running => Arrived
<1> SUFFICES ASSUME IInv, running, NEW n \in Names, world[n].id # 0,
                    Quiet(queue, 1, Len(queue), world[n].id)
             PROVE  world[n].birth # 0 /\ nodes[world[n].id].birth = world[n].birth
  BY DEF Arrived
<1>1. world[n].id \in Ids /\ world[n].birth # 0 /\ Complete(queue, Known) /\ Len(queue) \in Nat
  BY DEF IInv, Types, OwnIds, NoNode, Id
<1>2. Has(world[n].id, Thing(world[n].birth, {}))
  BY DEF Has
<1>3. Stands(queue, Known, Len(queue), world[n].id, Thing(world[n].birth, {}))
  BY <1>1, <1>2 DEF Complete
<1>4. Known[world[n].id] = Thing(world[n].birth, {})
  BY <1>3 DEF Stands, Quiet
<1>5. Known[world[n].id].birth = world[n].birth
  BY <1>4 DEF Thing
<1> QED
  BY <1>1, <1>5, Things
\* The answer to a bind is about the node that has the id.
LEMMA AnswerAbout ==
  ASSUME Types, OwnIds, NEW i \in Ids, NEW b \in Birth
  PROVE  \/ BindAnswer(i, b) = <<>> /\ \A n \in Names : world[n].id # i
         \/ \E n \in Names, a \in Event :
               /\ world[n].id = i /\ BindAnswer(i, b) = <<a>>
               /\ a.op = "info" /\ a.id = i /\ a.name = n /\ a.birth = b /\ a.run = world[n].run
<1> DEFINE there == {n \in Names : world[n].id = i}
<1>1. CASE there = {}
  BY <1>1 DEF BindAnswer
<1>2. CASE there # {}
  <2> DEFINE n == CHOOSE m \in there : TRUE
             a == InfoEvent(n, world[n], b)
  <2>1. n \in there
    BY <1>2
  <2>2. n \in Names /\ world[n].id = i /\ world[n].run \in BOOLEAN
    BY <2>1 DEF Types
  <2>3. BindAnswer(i, b) = <<a>>
    BY <1>2 DEF BindAnswer
  <2> HIDE DEF n
  <2>4. a \in Event /\ a.op = "info" /\ a.id = i /\ a.name = n /\ a.birth = b
        /\ a.run = world[n].run
    BY <2>2 DEF InfoEvent, Event
  <2> QED
    BY <2>2, <2>3, <2>4
<1> QED
  BY <1>1, <1>2

\* The event that is handled identifies its node, and those that are left do.
LEMMA HandledNamed ==
  ASSUME IInv, NInv, queue # <<>>, UNCHANGED daemonVars,
         \/ queue' = Tail(queue)
         \/ \E a \in Event : Identifies(a, world, changes) /\ queue' = Append(Tail(queue), a)
  PROVE  /\ Head(queue).op \in {"node", "info"} => Identifies(Head(queue), world, changes)
         /\ Named'
<1> DEFINE r == Tail(queue)
<1>1. queue \in Seq(Event) /\ Named
  BY DEF IInv, Types, NInv
<1>2. Len(queue) \in Nat \ {0} /\ Len(r) = Len(queue) - 1 /\ Head(queue) = queue[1]
      /\ r \in Seq(Event) /\ \A m \in 1 .. Len(queue) - 1 : r[m] = queue[m + 1]
  BY <1>1, EmptySeq, HeadTailProperties
<1> HIDE DEF r
<1>3. Head(queue).op \in {"node", "info"} => Identifies(Head(queue), world, changes)
  BY <1>1, <1>2 DEF Named
<1>4. \A k \in 1 .. Len(r) : r[k].op \in {"node", "info"} => Identifies(r[k], world, changes)
  BY <1>1, <1>2 DEF Named
<1>5. world' = world /\ changes' = changes
  BY DEF daemonVars
<1>6. CASE queue' = r
  BY <1>3, <1>4, <1>5, <1>6 DEF Named
<1>7. CASE \E a \in Event : Identifies(a, world, changes) /\ queue' = Append(r, a)
  <2>1. PICK a \in Event : Identifies(a, world, changes) /\ queue' = Append(r, a)
    BY <1>7
  <2>2. /\ Len(queue') = Len(r) + 1 /\ queue'[Len(r) + 1] = a
        /\ \A k \in 1 .. Len(r) : queue'[k] = r[k]
    BY <1>2, <2>1, AppendProperties
  <2>3. \A k \in 1 .. Len(queue') : k = Len(r) + 1 \/ k \in 1 .. Len(r)
    BY <1>2, <2>2
  <2> QED
    BY <1>3, <1>4, <1>5, <2>1, <2>2, <2>3 DEF Named
<1> QED
  BY <1>6, <1>7 DEF r

\* A node keeps what is reported of it when an event of another thing is handled.
LEMMA StillInformed ==
  ASSUME IInv, NInv, running, queue # <<>>, NEW n \in Names, world[n].id # 0,
         NEW q \in Seq(Event), NEW rec,
         Quiet(q, 1, Len(q), world[n].id), ~ Touches(Head(queue), world[n].id),
         \/ q = Tail(queue)
         \/ \E a \in Event : ~ About(a, world[n]) /\ q = Append(Tail(queue), a),
         \/ /\ ~ About(Head(queue), world[n])
            /\ rec.own = nodes[world[n].id].own /\ rec.run = nodes[world[n].id].run
         \/ About(Head(queue), world[n]) /\ rec.own = (n \in Hosts) /\ rec.run = Head(queue).run
  PROVE  /\ [id |-> world[n].id, birth |-> world[n].birth] \in bindings
         /\ Reported(q, rec, n, world[n])
<1> DEFINE r == Tail(queue)
<1>1. queue \in Seq(Event) /\ r \in Seq(Event)
  BY HeadTailProperties DEF IInv, Types
<1>2. Quiet(r, 1, Len(r), world[n].id)
  <2>1. CASE q = r
    BY <2>1
  <2>2. CASE \E a \in Event : q = Append(r, a)
    <3>1. PICK a \in Event : q = Append(r, a)
      BY <2>2
    <3>2. Len(q) = Len(r) + 1
      BY <1>1, <3>1, AppendProperties
    <3> QED
      BY <1>1, <3>1, <3>2, ReportedMore
  <2> QED
    BY <2>1, <2>2
<1>3. Quiet(queue, 1, Len(queue), world[n].id)
  BY <1>1, <1>2, QuietLess
<1>4. /\ [id |-> world[n].id, birth |-> world[n].birth] \in bindings
      /\ Reported(queue, nodes[world[n].id], n, world[n])
  BY <1>3 DEF NInv, Informed
<1>5. Reported(r, rec, n, world[n])
  BY <1>1, <1>4, ReportedLess
<1> QED
  BY <1>1, <1>4, <1>5, ReportedMore

LEMMA AddNodeNamed == IInv /\ NInv /\ AddNode /\ IInv' => NInv'
<1> SUFFICES ASSUME IInv, NInv, AddNode, IInv' PROVE NInv'
  OBVIOUS
<1> DEFINE e == Head(queue)
<1>1. Got("node") /\ LoopSame
  BY DEF AddNode
<1>2. /\ running /\ queue # <<>> /\ e \in Event /\ e.op = "node" /\ e.birth # 0
      /\ Known[e.id] = Nothing
  BY <1>1, Received
<1>3. e.id \in Ids /\ e.birth \in Birth /\ e.name \in Names
  BY <1>2 DEF Event
<1>4. /\ nodes' = [nodes EXCEPT ![e.id] = announced(e)]
      /\ bindings' = bindings \cup {[id |-> e.id, birth |-> e.birth]}
      /\ queue' = Tail(queue) \o BindAnswer(e.id, e.birth)
  BY DEF AddNode
<1>5. UNCHANGED <<world, links, changes, running>> /\ UNCHANGED daemonVars
  BY <1>1 DEF LoopSame, daemonVars
<1>6. nodes[e.id].birth = 0
  BY <1>2, <1>3, NothingThere
<1>7. Identifies(e, world, changes)
  <2>1. queue \in Seq(Event) /\ Len(queue) \in Nat \ {0} /\ e = queue[1]
    BY <1>2, EmptySeq, HeadTailProperties DEF IInv, Types
  <2> QED
    BY <1>2, <2>1 DEF NInv, Named
<1>8. Tail(queue) \in Seq(Event)
  BY <1>2, HeadTailProperties DEF IInv, Types
<1>9. \/ queue' = Tail(queue) /\ \A n \in Names : world[n].id # e.id
      \/ \E n \in Names, a \in Event :
            /\ world[n].id = e.id /\ queue' = Append(Tail(queue), a)
            /\ a.op = "info" /\ a.id = e.id /\ a.name = n /\ a.birth = e.birth
            /\ a.run = world[n].run
  <2>1. CASE BindAnswer(e.id, e.birth) = <<>> /\ \A n \in Names : world[n].id # e.id
    BY <1>4, <1>8, <2>1
  <2>2. ASSUME NEW n \in Names, NEW a \in Event,
               /\ world[n].id = e.id /\ BindAnswer(e.id, e.birth) = <<a>>
               /\ a.op = "info" /\ a.id = e.id /\ a.name = n /\ a.birth = e.birth
               /\ a.run = world[n].run
        PROVE  queue' = Append(Tail(queue), a)
    <3>1. Tail(queue) \o <<a>> = Append(Tail(queue), a)
      BY <1>8
    <3> QED
      BY <1>4, <2>2, <3>1
  <2>3. Types /\ OwnIds
    BY DEF IInv
  <2> QED
    BY <1>3, <2>1, <2>2, <2>3, AnswerAbout
<1> HIDE DEF e
<1>10. Named'
  <2>1. CASE queue' = Tail(queue)
    BY <1>2, <1>5, <2>1, HandledNamed
  <2>2. CASE \E n \in Names, a \in Event :
            /\ world[n].id = e.id /\ queue' = Append(Tail(queue), a)
            /\ a.op = "info" /\ a.id = e.id /\ a.name = n /\ a.birth = e.birth
    <3>1. PICK n \in Names, a \in Event :
            /\ world[n].id = e.id /\ queue' = Append(Tail(queue), a)
            /\ a.op = "info" /\ a.id = e.id /\ a.name = n /\ a.birth = e.birth
      BY <2>2
    <3>2. e.id # 0
      BY <1>3, GraphAssumption
    <3>3. Identifies(a, world, changes)
      BY <1>7, <3>1, <3>2 DEF Identifies, IInv, OwnIds
    <3> QED
      BY <1>2, <1>5, <3>1, <3>3, HandledNamed
  <2> QED
    BY <1>9, <2>1, <2>2
<1>11. /\ nodes'[e.id] = announced(e) /\ announced(e).birth = e.birth
       /\ \A i \in Ids : i # e.id => nodes'[i] = nodes[i]
  BY <1>3, <1>4 DEF announced, IInv, Types
<1>12. Recorded'
  <2> SUFFICES ASSUME NEW i \in Ids
               PROVE  /\ nodes'[i].birth <= changes
                      /\ nodes'[i].birth = 0 => nodes'[i] = NoRec
                      /\ nodes'[i].birth # 0 =>
                            /\ nodes'[i].name \in Names /\ nodes'[i].sink = (nodes'[i].name \in Sinks)
                            /\ \A n \in Names : nodes'[i].birth = world[n].birth => nodes'[i].name = n
    BY <1>5 DEF Recorded
  <2>1. CASE i # e.id
    BY <1>11, <2>1 DEF NInv, Recorded
  <2>2. CASE i = e.id
    BY <1>2, <1>3, <1>7, <1>11, <2>2 DEF announced, Identifies
  <2> QED
    BY <2>1, <2>2
<1>13. Bound'
  <2> SUFFICES ASSUME NEW b \in bindings'
               PROVE  b.id \in Ids /\ b.birth # 0 /\ nodes'[b.id].birth = b.birth
    BY DEF Bound
  <2>1. CASE b = [id |-> e.id, birth |-> e.birth]
    BY <1>2, <1>3, <1>11, <2>1
  <2>2. CASE b \in bindings
    <3>1. b.id \in Ids /\ b.birth # 0 /\ nodes[b.id].birth = b.birth
      BY <2>2 DEF NInv, Bound
    <3>2. b.id # e.id
      BY <1>6, <3>1
    <3> QED
      BY <1>11, <3>1, <3>2
  <2> QED
    BY <1>4, <2>1, <2>2
<1>14. Informed'
  <2> SUFFICES ASSUME NEW n \in Names, world[n].id # 0,
                      Quiet(queue', 1, Len(queue'), world[n].id)
               PROVE  /\ [id |-> world[n].id, birth |-> world[n].birth] \in bindings'
                      /\ Reported(queue', nodes'[world[n].id], n, world[n])
    BY <1>5 DEF Informed
  <2>1. Arrived'
    <3>1. IInv' /\ running'
      BY <1>2, <1>5
    <3> QED
      BY <3>1, HasArrived, PTL
  <2>2. world[n].id \in Ids /\ nodes'[world[n].id].birth = world[n].birth
    BY <1>5, <2>1 DEF Arrived, IInv, Types, Id
  <2>3. CASE world[n].id = e.id
    <3>1. e.birth = world[n].birth
      BY <1>11, <2>2, <2>3
    <3>2. PICK a \in Event : /\ queue' = Append(Tail(queue), a) /\ About(a, world[n])
                             /\ a.run = world[n].run
      BY <1>9, <2>3, <3>1 DEF About, IInv, OwnIds
    <3> QED
      BY <1>4, <1>8, <2>3, <3>1, <3>2, ReportedMore
  <2>4. CASE world[n].id # e.id
    <3>1. ~ Touches(e, world[n].id) /\ ~ About(e, world[n])
      BY <2>4 DEF Touches, About
    <3>2. nodes'[world[n].id] = nodes[world[n].id]
      BY <1>11, <2>2, <2>4
    <3>3. queue' \in Seq(Event)
      BY DEF IInv, Types
    <3>4. \/ queue' = Tail(queue)
          \/ \E a \in Event : ~ About(a, world[n]) /\ queue' = Append(Tail(queue), a)
      BY <1>9, <2>4 DEF About
    <3> QED
      BY <1>2, <1>4, <3>1, <3>2, <3>3, <3>4, StillInformed DEF e
  <2> QED
    BY <2>3, <2>4
<1> QED
  BY <1>5, <1>10, <1>12, <1>13, <1>14 DEF NInv, Births, Ends
\* An event that leaves the model's nodes alone.
LEMMA NodesKept ==
  ASSUME IInv, NInv, IInv', running, queue # <<>>, UNCHANGED <<daemonVars, running>>,
         queue' = Tail(queue), nodes' = nodes, bindings' = bindings,
         \A i \in Ids : Touches(Head(queue), i) => nodes[i].birth = 0,
         Head(queue).op = "info" =>
             [id |-> Head(queue).id, birth |-> Head(queue).birth] \notin bindings
  PROVE  NInv'
<1>1. UNCHANGED <<world, links, changes, running, daemonVars>>
  BY DEF daemonVars
<1>2. Named'
  BY <1>1, HandledNamed
<1>3. Recorded' /\ Bound'
  BY <1>1 DEF NInv, Recorded, Bound
<1>4. Informed'
  <2> SUFFICES ASSUME NEW n \in Names, world[n].id # 0,
                      Quiet(queue', 1, Len(queue'), world[n].id)
               PROVE  /\ [id |-> world[n].id, birth |-> world[n].birth] \in bindings
                      /\ Reported(queue', nodes[world[n].id], n, world[n])
    BY <1>1 DEF Informed
  <2>1. Arrived'
    <3>1. IInv' /\ running'
      BY <1>1
    <3> QED
      BY <3>1, HasArrived, PTL
  <2>2. world[n].id \in Ids /\ nodes[world[n].id].birth = world[n].birth /\ world[n].birth # 0
    BY <1>1, <2>1 DEF Arrived, IInv, Types, Id
  <2>3. queue \in Seq(Event) /\ queue' \in Seq(Event)
    BY DEF IInv, Types
  <2>4. ~ Touches(Head(queue), world[n].id)
    BY <2>2
  <2>5. Quiet(queue, 1, Len(queue), world[n].id)
    BY <2>3, <2>4, QuietLess
  <2>6. [id |-> world[n].id, birth |-> world[n].birth] \in bindings
    BY <2>5 DEF NInv, Informed
  <2>7. ~ About(Head(queue), world[n])
    BY <2>6 DEF About
  <2> QED
    BY <2>3, <2>4, <2>7, StillInformed
<1> QED
  BY <1>1, <1>2, <1>3, <1>4 DEF NInv, Births, Ends

\* A node's own info: it is of the incarnation whose proxy it is sent to.
LEMMA NodeInfoNamed == IInv /\ NInv /\ NodeInfo /\ IInv' => NInv'
<1> SUFFICES ASSUME IInv, NInv, NodeInfo, IInv' PROVE NInv'
  OBVIOUS
<1> DEFINE e == Head(queue)
<1>1. Got("info") /\ LoopSame /\ queue' = Tail(queue) /\ bindings' = bindings
  BY DEF NodeInfo
<1>2. running /\ queue # <<>> /\ e \in Event /\ e.op = "info"
  BY <1>1, Received
<1>3. e.id \in Ids /\ e.birth \in Birth /\ e.name \in Names /\ e.run \in BOOLEAN
  BY <1>2 DEF Event
<1>4. UNCHANGED <<world, links, changes, running, daemonVars>>
  BY <1>1 DEF LoopSame, daemonVars
<1>5. \A i : ~ Touches(e, i)
  BY <1>2 DEF Touches
<1>6. CASE [id |-> e.id, birth |-> e.birth] \notin bindings
  <2>1. nodes' = nodes
    BY <1>6 DEF NodeInfo
  <2> QED
    BY <1>1, <1>2, <1>4, <1>5, <1>6, <2>1, NodesKept
<1>7. CASE [id |-> e.id, birth |-> e.birth] \in bindings
  <2>1. nodes' = [nodes EXCEPT ![e.id] = updateNodeProps(nodes[e.id], e)]
    BY <1>7 DEF NodeInfo
  <2>2. Identifies(e, world, changes) /\ Named'
    BY <1>1, <1>2, <1>4, HandledNamed
  <2>3. nodes[e.id].birth = e.birth /\ e.birth # 0
    BY <1>7 DEF NInv, Bound
  <2> HIDE DEF e
  <2>4. /\ nodes'[e.id] = updateNodeProps(nodes[e.id], e)
        /\ \A i \in Ids : i # e.id => nodes'[i] = nodes[i]
    BY <1>3, <2>1 DEF IInv, Types
  <2>5. \A i \in Ids : nodes'[i].birth = nodes[i].birth
    BY <2>4 DEF updateNodeProps
  <2>6. Recorded'
    <3> SUFFICES ASSUME NEW i \in Ids
                 PROVE  /\ nodes'[i].birth <= changes
                        /\ nodes'[i].birth = 0 => nodes'[i] = NoRec
                        /\ nodes'[i].birth # 0 =>
                              /\ nodes'[i].name \in Names /\ nodes'[i].sink = (nodes'[i].name \in Sinks)
                              /\ \A n \in Names : nodes'[i].birth = world[n].birth => nodes'[i].name = n
      BY <1>4 DEF Recorded
    <3>1. CASE i # e.id
      BY <2>4, <3>1 DEF NInv, Recorded
    <3>2. CASE i = e.id
      BY <1>3, <2>2, <2>3, <2>4, <3>2 DEF updateNodeProps, Identifies
    <3> QED
      BY <3>1, <3>2
  <2>7. Bound'
    BY <1>1, <2>5 DEF NInv, Bound
  <2>8. Informed'
    <3> SUFFICES ASSUME NEW n \in Names, world[n].id # 0,
                        Quiet(queue', 1, Len(queue'), world[n].id)
                 PROVE  /\ [id |-> world[n].id, birth |-> world[n].birth] \in bindings
                        /\ Reported(queue', nodes'[world[n].id], n, world[n])
      BY <1>1, <1>4 DEF Informed
    <3>1. Arrived'
      <4>1. IInv' /\ running'
        BY <1>2, <1>4
      <4> QED
        BY <4>1, HasArrived, PTL
    <3>2. world[n].id \in Ids /\ nodes'[world[n].id].birth = world[n].birth
      BY <1>4, <3>1 DEF Arrived, IInv, Types, Id
    <3>3. queue' \in Seq(Event)
      BY DEF IInv, Types
    <3>4. CASE world[n].id = e.id
      <4>1. e.birth = world[n].birth
        BY <2>3, <2>5, <3>2, <3>4
      <4>2. About(e, world[n]) /\ e.name = n
        BY <1>2, <2>2, <3>4, <4>1 DEF About, Identifies
      <4>3. nodes'[world[n].id].own = (n \in Hosts) /\ nodes'[world[n].id].run = e.run
        BY <2>4, <3>4, <4>2 DEF updateNodeProps
      <4> QED
        BY <1>1, <1>2, <1>5, <3>3, <4>2, <4>3, StillInformed DEF e
    <3>5. CASE world[n].id # e.id
      <4>1. ~ About(e, world[n]) /\ nodes'[world[n].id] = nodes[world[n].id]
        BY <2>4, <3>2, <3>5 DEF About
      <4> QED
        BY <1>1, <1>2, <1>5, <3>3, <4>1, StillInformed DEF e
    <3> QED
      BY <3>4, <3>5
  <2> QED
    BY <1>4, <2>2, <2>6, <2>7, <2>8 DEF NInv, Births, Ends
<1> QED
  BY <1>6, <1>7

LEMMA RemoveNamed == IInv /\ NInv /\ RemoveGlobal /\ IInv' => NInv'
<1> SUFFICES ASSUME IInv, NInv, RemoveGlobal, IInv' PROVE NInv'
  OBVIOUS
<1> DEFINE e == Head(queue)
<1>1. Got("remove") /\ LoopSame /\ queue' = Tail(queue)
  BY DEF RemoveGlobal
<1>2. running /\ queue # <<>> /\ e \in Event /\ e.op = "remove"
  BY <1>1, Received
<1>3. e.id \in Ids
  BY <1>2 DEF Event
<1>4. UNCHANGED <<world, links, changes, running, daemonVars>>
  BY <1>1 DEF LoopSame, daemonVars
<1>5. /\ nodes' = [nodes EXCEPT ![e.id] = NoRec]
      /\ bindings' = {b \in bindings : b.id # e.id}
  BY DEF RemoveGlobal
<1>6. Named'
  BY <1>1, <1>2, <1>4, HandledNamed
<1>7. nodes'[e.id] = NoRec /\ NoRec.birth = 0 /\ \A i \in Ids : i # e.id => nodes'[i] = nodes[i]
  BY <1>3, <1>5 DEF NoRec, IInv, Types
<1>8. Recorded'
  <2>1. 0 <= changes
    BY GraphAssumption DEF IInv, Types, Birth
  <2> QED
    BY <1>4, <1>7, <2>1 DEF NInv, Recorded
<1>9. Bound'
  BY <1>5, <1>7 DEF NInv, Bound
<1>10. Informed'
  <2> SUFFICES ASSUME NEW n \in Names, world[n].id # 0,
                      Quiet(queue', 1, Len(queue'), world[n].id)
               PROVE  /\ [id |-> world[n].id, birth |-> world[n].birth] \in bindings'
                      /\ Reported(queue', nodes'[world[n].id], n, world[n])
    BY <1>4 DEF Informed
  <2>1. Arrived'
    <3>1. IInv' /\ running'
      BY <1>2, <1>4
    <3> QED
      BY <3>1, HasArrived, PTL
  <2>2. world[n].id \in Ids /\ nodes'[world[n].id].birth = world[n].birth /\ world[n].birth # 0
    BY <1>4, <2>1 DEF Arrived, IInv, Types, Id
  <2>3. world[n].id # e.id /\ nodes'[world[n].id] = nodes[world[n].id]
    BY <1>7, <2>2
  <2>4. ~ Touches(e, world[n].id) /\ ~ About(e, world[n])
    BY <2>3 DEF Touches, About
  <2>5. queue' \in Seq(Event)
    BY DEF IInv, Types
  <2> QED
    BY <1>1, <1>2, <1>5, <2>3, <2>4, <2>5, StillInformed
<1> QED
  BY <1>4, <1>6, <1>8, <1>9, <1>10 DEF NInv, Births, Ends

LEMMA LoopNamed == IInv /\ NInv /\ LoopThread => NInv'
<1> SUFFICES ASSUME IInv, NInv, LoopThread PROVE NInv'
  OBVIOUS
<1>1. IInv'
  BY LoopStep
<1>2. CASE AddLink
  <2>1. /\ Got("link") /\ LoopSame /\ queue' = Tail(queue) /\ nodes' = nodes
        /\ bindings' = bindings
    BY <1>2 DEF AddLink
  <2>2. /\ running /\ queue # <<>> /\ Head(queue) \in Event /\ Head(queue).op = "link"
        /\ Known[Head(queue).id] = Nothing
    BY <2>1, Received
  <2>3. \A i \in Ids : Touches(Head(queue), i) => nodes[i].birth = 0
    BY <2>2, NothingThere DEF Touches
  <2> QED
    BY <1>1, <2>1, <2>2, <2>3, NodesKept DEF LoopSame
<1>3. CASE Profile
  <2>1. /\ Got("profile") /\ LoopSame /\ queue' = Tail(queue) /\ nodes' = nodes
        /\ bindings' = bindings
    BY <1>3 DEF Profile
  <2>2. running /\ queue # <<>> /\ Head(queue).op = "profile"
    BY <2>1, Received
  <2> QED
    BY <1>1, <2>1, <2>2, NodesKept DEF LoopSame, Touches
<1>4. CASE CoreDone
  <2>1. /\ Got("done") /\ LoopSame /\ queue' = Tail(queue) /\ nodes' = nodes
        /\ bindings' = bindings
    BY <1>4 DEF CoreDone, modelVars
  <2>2. running /\ queue # <<>> /\ Head(queue).op = "done"
    BY <2>1, Received
  <2> QED
    BY <1>1, <2>1, <2>2, NodesKept DEF LoopSame, Touches
<1> QED
  BY <1>1, <1>2, <1>3, <1>4, AddNodeNamed, NodeInfoNamed, RemoveNamed DEF LoopThread
-----------------------------------------------------------------------------
(* What becomes of it when the daemon changes the graph.                    *)

\* A step of the daemon that sends event e, if anyone listens, and that leaves the
\* other nodes alone.
LEMMA SentNamed ==
  ASSUME IInv, NInv, IInv', NEW e \in Event, Sent(<<e>>), PanelSame, changes' >= changes,
         Births', Ends',
         e.op \in {"node", "info"} => Identifies(e, world', changes'),
         \A n \in Names : world'[n].birth # 0 =>
             \/ world'[n].id = world[n].id /\ world'[n].birth = world[n].birth
             \/ world'[n].birth > changes,
         \A n \in Names : world'[n].id # 0 =>
             \/ world'[n] = world[n] /\ ~ About(e, world[n])
             \/ Touches(e, world'[n].id)
             \/ /\ world[n].id = world'[n].id /\ world[n].birth = world'[n].birth
                /\ About(e, world'[n]) /\ e.run = world'[n].run
  PROVE  NInv'
<1>1. /\ nodes' = nodes /\ running' = running /\ bindings' = bindings
      /\ queue \in Seq(Event) /\ changes \in Nat /\ changes' \in Nat
      /\ queue' = IF running THEN Append(queue, e) ELSE queue
  <2>1. queue \in Seq(Event) /\ changes \in Nat /\ changes' \in Nat
    BY GraphAssumption DEF IInv, Types, Birth
  <2>2. queue \o <<e>> = Append(queue, e)
    BY <2>1
  <2> QED
    BY <2>1, <2>2 DEF PanelSame, modelVars, guiVars, Sent
<1>2. \A f : Identifies(f, world, changes) /\ f.birth \in Nat => Identifies(f, world', changes')
  <2> SUFFICES ASSUME NEW f, Identifies(f, world, changes), f.birth \in Nat,
                      NEW n \in Names, world'[n].birth = f.birth
               PROVE  f.name = n /\ f.id = world'[n].id
    BY <1>1 DEF Identifies
  <2>1. f.birth # 0 /\ f.birth <= changes
    BY DEF Identifies
  <2>2. world'[n].id = world[n].id /\ world'[n].birth = world[n].birth
    BY <1>1, <2>1
  <2> QED
    BY <2>2 DEF Identifies
<1>3. Named'
  <2> SUFFICES ASSUME NEW k \in 1 .. Len(queue'), queue'[k].op \in {"node", "info"}
               PROVE  Identifies(queue'[k], world', changes')
    BY DEF Named
  <2>1. \/ running /\ queue'[k] = e
        \/ k \in 1 .. Len(queue) /\ queue'[k] = queue[k]
    BY <1>1, AppendProperties
  <2>2. CASE running /\ queue'[k] = e
    BY <2>2
  <2>3. CASE k \in 1 .. Len(queue) /\ queue'[k] = queue[k]
    <3>1. queue[k] \in Event
      BY <1>1, <2>3, ElementOfSeq
    <3>2. queue[k].birth \in Nat
      BY <2>3, <3>1, GraphAssumption DEF Event, Birth
    <3> QED
      BY <1>2, <2>3, <3>2 DEF NInv, Named
  <2> QED
    BY <2>1, <2>2, <2>3
<1>4. Recorded'
  <2> SUFFICES ASSUME NEW i \in Ids
               PROVE  /\ nodes[i].birth <= changes'
                      /\ nodes[i].birth = 0 => nodes[i] = NoRec
                      /\ nodes[i].birth # 0 =>
                            /\ nodes[i].name \in Names /\ nodes[i].sink = (nodes[i].name \in Sinks)
                            /\ \A n \in Names : nodes[i].birth = world'[n].birth => nodes[i].name = n
    BY <1>1 DEF Recorded
  <2>1. nodes[i].birth \in Nat
    BY GraphAssumption DEF IInv, Types, Rec, Birth
  <2>2. /\ nodes[i].birth <= changes
        /\ nodes[i].birth = 0 => nodes[i] = NoRec
        /\ nodes[i].birth # 0 =>
              /\ nodes[i].name \in Names /\ nodes[i].sink = (nodes[i].name \in Sinks)
              /\ \A n \in Names : nodes[i].birth = world[n].birth => nodes[i].name = n
    BY DEF NInv, Recorded
  <2> QED
    BY <1>1, <2>1, <2>2
<1>5. Bound'
  BY <1>1 DEF NInv, Bound
<1>6. ASSUME running PROVE Informed'
  <2> SUFFICES ASSUME NEW n \in Names, world'[n].id # 0,
                      Quiet(queue', 1, Len(queue'), world'[n].id)
               PROVE  /\ [id |-> world'[n].id, birth |-> world'[n].birth] \in bindings
                      /\ Reported(queue', nodes[world'[n].id], n, world'[n])
    BY <1>1 DEF Informed
  <2>1. queue' = Append(queue, e) /\ Len(queue') = Len(queue) + 1
    BY <1>1, <1>6, AppendProperties
  <2>2. Quiet(queue, 1, Len(queue), world'[n].id) /\ ~ Touches(e, world'[n].id)
    BY <1>1, <2>1, ReportedMore
  <2>3. /\ world'[n].id = world[n].id /\ world'[n].birth = world[n].birth
        /\ \/ world'[n] = world[n] /\ ~ About(e, world[n])
           \/ About(e, world'[n]) /\ e.run = world'[n].run
    BY <2>2
  <2>4. /\ [id |-> world[n].id, birth |-> world[n].birth] \in bindings
        /\ Reported(queue, nodes[world[n].id], n, world[n])
    BY <1>6, <2>2, <2>3 DEF NInv, Informed
  <2> QED
    BY <1>1, <2>1, <2>3, <2>4, ReportedMore
<1> QED
  BY <1>1, <1>3, <1>4, <1>5, <1>6 DEF NInv

LEMMA Later == ASSUME Types, Change PROVE changes \in Nat /\ changes' = changes + 1
  BY GraphAssumption DEF Types, Change, Birth

LEMMA AppearNamed == ASSUME IInv, NInv, IInv', NEW n \in Names, Appear(n) PROVE NInv'
<1>1. PICK i \in NewId :
        /\ world' = [world EXCEPT ![n] = [id |-> i, birth |-> changes', run |-> FALSE]]
        /\ Sent(<<NodeEvent(n, [id |-> i, birth |-> changes', run |-> FALSE])>>)
  BY DEF Appear
<1>2. i \in Ids /\ i # 0
  BY NewIds
<1>3. changes \in Nat /\ changes' = changes + 1 /\ changes' \in Birth /\ PanelSame /\ links' = links
  BY Later, Changed DEF Appear, IInv
<1> DEFINE e == NodeEvent(n, [id |-> i, birth |-> changes', run |-> FALSE])
<1>4. e \in Event /\ e.op = "node" /\ e.id = i /\ e.birth = changes' /\ e.name = n
  BY <1>2, <1>3 DEF NodeEvent, Event
<1>5. /\ world'[n].id = i /\ world'[n].birth = changes'
      /\ \A m \in Names : m # n => world'[m] = world[m]
      /\ \A m \in Names : world[m].birth \in Nat
      /\ world[n].id = 0 /\ world[n].birth = 0
  BY <1>1, GraphAssumption DEF IInv, Types, Birth, Appear, NoNode
<1> HIDE DEF e
<1>6. Births'
  BY <1>3, <1>5 DEF NInv, Births
<1>7. Ends'
  <2> SUFFICES ASSUME NEW l \in links
               PROVE  \E h \in Hosts, s \in Sinks : l.out = world'[h].id /\ l.in = world'[s].id
    BY <1>3 DEF Ends
  <2>1. PICK h \in Hosts, s \in Sinks : l.out = world[h].id /\ l.in = world[s].id
    BY DEF NInv, Ends
  <2>2. l.out # 0 /\ l.in # 0 /\ h \in Names /\ s \in Names
    BY GraphAssumption DEF IInv, Types, Link, Names
  <2> QED
    BY <1>5, <2>1, <2>2
<1>8. Identifies(e, world', changes')
  BY <1>3, <1>4, <1>5 DEF NInv, Births, Identifies
<1>9. /\ Touches(e, world'[n].id) /\ \A m \in Names : ~ About(e, world[m])
  BY <1>4, <1>5 DEF Touches, About
<1>10. Sent(<<e>>)
  BY <1>1 DEF e
<1> QED
  BY <1>3, <1>4, <1>5, <1>6, <1>7, <1>8, <1>9, <1>10, SentNamed

LEMMA VanishNamed == ASSUME IInv, NInv, IInv', NEW n \in Names, Vanish(n) PROVE NInv'
<1>1. /\ world' = [world EXCEPT ![n] = NoNode] /\ Sent(<<RemoveEvent(world[n].id)>>)
      /\ PanelSame /\ links' = links /\ world[n] # NoNode
      /\ \A l \in links : world[n].id \notin {l.out, l.in}
  BY DEF Vanish
<1>2. changes \in Nat /\ changes' = changes + 1
  BY Later DEF Vanish, IInv
<1>3. world[n].id \in Ids
  BY <1>1 DEF IInv, Types, OwnIds, Id
<1> DEFINE e == RemoveEvent(world[n].id)
<1>4. e \in Event /\ e.op = "remove"
  BY <1>3 DEF RemoveEvent, Event
<1>5. /\ world'[n].id = 0 /\ world'[n].birth = 0
      /\ \A m \in Names : m # n => world'[m] = world[m]
      /\ \A m \in Names : world[m].birth \in Nat
  BY <1>1, GraphAssumption DEF IInv, Types, Birth, NoNode
<1> HIDE DEF e
<1>6. Births'
  BY <1>2, <1>5 DEF NInv, Births
<1>7. Ends'
  <2> SUFFICES ASSUME NEW l \in links
               PROVE  \E h \in Hosts, s \in Sinks : l.out = world'[h].id /\ l.in = world'[s].id
    BY <1>1 DEF Ends
  <2>1. PICK h \in Hosts, s \in Sinks : l.out = world[h].id /\ l.in = world[s].id
    BY DEF NInv, Ends
  <2>2. h # n /\ s # n /\ h \in Names /\ s \in Names
    BY <1>1, <2>1 DEF Names
  <2> QED
    BY <1>5, <2>1, <2>2
<1>8. \A m \in Names : ~ About(e, world[m])
  BY <1>4 DEF About
<1>9. Sent(<<e>>)
  BY <1>1 DEF e
<1> QED
  BY <1>1, <1>2, <1>4, <1>5, <1>6, <1>7, <1>8, <1>9, SentNamed

\* An event about a link, or a measurement.
LEMMA WorldKept ==
  ASSUME IInv, NInv, IInv', NEW e \in Event, Sent(<<e>>), PanelSame, world' = world,
         e.op \notin {"node", "info"}, Change \/ UNCHANGED changes, Ends'
  PROVE  NInv'
<1>1. changes \in Nat /\ changes' >= changes
  BY Later, GraphAssumption DEF IInv, Types, Birth
<1>2. \A n \in Names : world[n].birth \in Nat
  BY GraphAssumption DEF IInv, Types, Birth
<1>3. Births'
  BY <1>1, <1>2, Later DEF NInv, Births, IInv
<1>4. \A n \in Names : ~ About(e, world[n])
  BY DEF About
<1> QED
  BY <1>1, <1>3, <1>4, SentNamed

LEMMA ConnectNamed ==
  ASSUME IInv, NInv, IInv', NEW h \in Hosts, NEW s \in Sinks, Connect(h, s)
  PROVE  NInv'
<1>1. PICK i \in NewId :
        /\ links' = links \cup {[id |-> i, out |-> world[h].id, in |-> world[s].id]}
        /\ Sent(<<LinkEvent([id |-> i, out |-> world[h].id, in |-> world[s].id])>>)
  BY DEF Connect
<1>2. /\ h \in Names /\ s \in Names /\ world[h] # NoNode /\ world[s] # NoNode
      /\ PanelSame /\ world' = world /\ Change
  BY DEF Connect, Names
<1> DEFINE l == [id |-> i, out |-> world[h].id, in |-> world[s].id]
           e == LinkEvent(l)
<1>3. i \in Ids /\ world[h].id \in Ids /\ world[s].id \in Ids
  BY <1>2, NewIds DEF IInv, Types, OwnIds, Id
<1>4. e \in Event /\ e.op = "link"
  BY <1>3 DEF Link, LinkEvent, Event
<1>5. Ends'
  BY <1>1, <1>2 DEF NInv, Ends
<1>6. Sent(<<e>>)
  BY <1>1
<1> HIDE DEF e
<1> QED
  BY <1>2, <1>4, <1>5, <1>6, WorldKept

LEMMA DisconnectNamed == ASSUME IInv, NInv, IInv', NEW l \in links, Disconnect(l) PROVE NInv'
<1>1. /\ links' = links \ {l} /\ Sent(<<RemoveEvent(l.id)>>) /\ PanelSame /\ world' = world /\ Change
  BY DEF Disconnect
<1>2. RemoveEvent(l.id) \in Event /\ RemoveEvent(l.id).op = "remove"
  BY DEF RemoveEvent, Event, IInv, Types, Link
<1>3. Ends'
  BY <1>1 DEF NInv, Ends
<1> QED
  BY <1>1, <1>2, <1>3, WorldKept

LEMMA CycleNamed == ASSUME IInv, NInv, IInv', NEW h \in Hosts, Cycle(h) PROVE NInv'
<1>1. PICK q \in Quanta :
        /\ quantum' = q /\ IF q = quantum THEN UNCHANGED changes ELSE Change
        /\ Sent(<<[ProfileEvent(world[h]) EXCEPT !.quantum = q]>>)
  BY DEF Cycle
<1>2. h \in Names /\ world[h].run /\ PanelSame /\ UNCHANGED <<world, links>>
  BY DEF Cycle, Names
<1> DEFINE e == [ProfileEvent(world[h]) EXCEPT !.quantum = q]
<1>3. e = [op |-> "profile", id |-> world[h].id, birth |-> world[h].birth, quantum |-> q]
  BY DEF ProfileEvent
<1>4. world[h].id \in Ids /\ world[h].birth \in Birth
  BY <1>2 DEF IInv, Types, OwnIds, NoNode, Id
<1>5. e \in Event /\ e.op = "profile"
  BY <1>3, <1>4 DEF Event
<1>6. Ends'
  BY <1>2 DEF NInv, Ends
<1>7. Sent(<<e>>)
  BY <1>1
<1> HIDE DEF e
<1> QED
  BY <1>1, <1>2, <1>5, <1>6, <1>7, WorldKept

\* The proxy bound to the node is told, and if none is the answer to the bind will.
LEMMA SwitchNamed == ASSUME IInv, NInv, IInv', NEW n \in Names, Switch(n) PROVE NInv'
<1>1. /\ world' = [world EXCEPT ![n].run = ~ @] /\ world[n] # NoNode
      /\ PanelSame /\ links' = links
      /\ Sent(IF [id |-> world[n].id, birth |-> world[n].birth] \in bindings
              THEN <<InfoEvent(n, world'[n], world[n].birth)>> ELSE <<>>)
  BY DEF Switch
<1>2. changes \in Nat /\ changes' = changes + 1
  BY Later DEF Switch, IInv
<1>3. /\ \A m \in Names : world'[m].id = world[m].id /\ world'[m].birth = world[m].birth
      /\ \A m \in Names : m # n => world'[m] = world[m]
      /\ \A m \in Names : world[m].birth \in Nat
      /\ world'[n].run \in BOOLEAN /\ world[n].id \in Ids /\ world[n].birth \in Birth
      /\ world[n].birth # 0
  BY <1>1, GraphAssumption DEF IInv, Types, Birth, OwnIds, Id
<1>4. Births' /\ Ends'
  <2>1. \A h \in Hosts \cup Sinks : h \in Names
    BY DEF Names
  <2> QED
    BY <1>1, <1>2, <1>3, <2>1 DEF NInv, Births, Ends
<1>5. CASE [id |-> world[n].id, birth |-> world[n].birth] \in bindings
  <2> DEFINE e == InfoEvent(n, world'[n], world[n].birth)
  <2>1. /\ e \in Event /\ e.op = "info" /\ e.id = world[n].id /\ e.name = n
        /\ e.birth = world[n].birth /\ e.run = world'[n].run
    BY <1>3 DEF InfoEvent, Event
  <2>2. Sent(<<e>>)
    BY <1>1, <1>5
  <2> HIDE DEF e
  <2>3. Identifies(e, world', changes')
    BY <1>2, <1>3, <2>1 DEF Identifies, NInv, Births
  <2>4. \A m \in Names : m # n => world'[m] = world[m] /\ ~ About(e, world[m])
    BY <1>3, <2>1 DEF About, NInv, Births
  <2>5. About(e, world'[n])
    BY <1>3, <2>1 DEF About
  <2>6. \A m \in Names : world'[m].id # 0 =>
            \/ world'[m] = world[m] /\ ~ About(e, world[m])
            \/ Touches(e, world'[m].id)
            \/ /\ world[m].id = world'[m].id /\ world[m].birth = world'[m].birth
               /\ About(e, world'[m]) /\ e.run = world'[m].run
    BY <1>3, <2>1, <2>4, <2>5
  <2> QED
    <3>1. PanelSame /\ changes' >= changes /\ e \in Event
      BY <1>1, <1>2, <2>1
    <3>2. \A m \in Names : world'[m].id = world[m].id /\ world'[m].birth = world[m].birth
      BY <1>3
    <3> QED
      BY <1>4, <2>2, <2>3, <2>6, <3>1, <3>2, SentNamed
\* Nothing is sent: were the node one that no announcement is on its way for, a
\* proxy would be bound to it.
<1>6. CASE [id |-> world[n].id, birth |-> world[n].birth] \notin bindings
  <2>1. /\ queue' = queue /\ nodes' = nodes /\ bindings' = bindings /\ running' = running
    BY <1>1, <1>6 DEF Sent, PanelSame, modelVars, IInv, Types
  <2>3. Named'
    <3> SUFFICES ASSUME NEW k \in 1 .. Len(queue), queue[k].op \in {"node", "info"}
                 PROVE  Identifies(queue[k], world', changes')
      BY <2>1 DEF Named
    <3>1. queue[k] \in Event
      BY ElementOfSeq DEF IInv, Types
    <3>2. queue[k].birth \in Nat
      BY <3>1, GraphAssumption DEF Event, Birth
    <3> QED
      BY <1>2, <1>3, <3>2 DEF NInv, Named, Identifies
  <2>4. Recorded'
    <3>1. \A i \in Ids : nodes[i].birth \in Nat
      BY GraphAssumption DEF IInv, Types, Rec, Birth
    <3> QED
      BY <1>2, <1>3, <2>1, <3>1 DEF NInv, Recorded
  <2>5. Bound'
    BY <2>1 DEF NInv, Bound
  <2>6. ASSUME running PROVE Informed'
    <3> SUFFICES ASSUME NEW m \in Names, world[m].id # 0,
                        Quiet(queue, 1, Len(queue), world[m].id)
                 PROVE  /\ [id |-> world[m].id, birth |-> world[m].birth] \in bindings
                        /\ Reported(queue, nodes[world[m].id], m, world'[m])
      BY <1>3, <2>1 DEF Informed
    <3>1. /\ [id |-> world[m].id, birth |-> world[m].birth] \in bindings
          /\ Reported(queue, nodes[world[m].id], m, world[m])
      BY <2>6 DEF NInv, Informed
    <3>2. m # n
      BY <1>6, <3>1
    <3> QED
      BY <1>3, <3>1, <3>2
  <2> QED
    BY <1>4, <2>1, <2>3, <2>4, <2>5, <2>6 DEF NInv
<1> QED
  BY <1>5, <1>6

LEMMA DaemonNamed == IInv /\ NInv /\ Daemon => NInv'
<1>1. IInv /\ Daemon => IInv'
  BY DaemonStep
<1> QED
  BY <1>1, AppearNamed, VanishNamed, SwitchNamed, ConnectNamed, DisconnectNamed, CycleNamed
     DEF Daemon
-----------------------------------------------------------------------------
(* The GUI thread again.                                                    *)

LEMMA StartNamed == IInv /\ NInv /\ Start /\ IInv' => NInv'
<1> SUFFICES ASSUME IInv, NInv, Start, IInv' PROVE NInv'
  OBVIOUS
<1> DEFINE N == {NodeEvent(n, world[n]) : n \in {m \in Names : world[m] # NoNode}}
           L == {LinkEvent(l) : l \in links}
           D == {[op |-> "done"]}
<1>1. /\ queue' = SetToSeq(N) \o SetToSeq(L) \o <<[op |-> "done"]>> /\ running' = TRUE
      /\ UNCHANGED <<world, links, changes, nodes, bindings>> /\ ~ running
  BY DEF Start, Goto, GuiSame, IInv, Silent, daemonVars, modelVars
<1>2. /\ IsFiniteSet(links) /\ Births /\ \A n \in Names : world[n] # NoNode => world[n].birth # 0
  BY DEF IInv, Types, NInv, OwnIds
<1>3. IsFiniteSet(N) /\ IsFiniteSet(L)
  BY <1>2, FewAnnounced
<1>4. \A e \in N \cup L \cup D : e.op \in {"node", "info"} => Identifies(e, world, changes)
  <2> SUFFICES ASSUME NEW e \in N \cup L \cup D, e.op \in {"node", "info"}
               PROVE  Identifies(e, world, changes)
    OBVIOUS
  <2>1. PICK n \in Names : world[n] # NoNode /\ e = NodeEvent(n, world[n])
    BY DEF LinkEvent
  <2>2. e.name = n /\ e.id = world[n].id /\ e.birth = world[n].birth
    BY <2>1 DEF NodeEvent
  <2> QED
    BY <1>2, <2>1, <2>2 DEF Births, Identifies
<1> HIDE DEF N, L, D
<1>5. SetToSeq(N) \in Seq(N) /\ SetToSeq(L) \in Seq(L) /\ <<[op |-> "done"]>> \in Seq(D)
  BY <1>3, LaidOut DEF D
<1>6. queue' \in Seq(N \cup L \cup D)
  <2>1. /\ SetToSeq(N) \in Seq(N \cup L \cup D) /\ SetToSeq(L) \in Seq(N \cup L \cup D)
        /\ <<[op |-> "done"]>> \in Seq(N \cup L \cup D)
    BY <1>5, SeqMonotonic
  <2> HIDE DEF D
  <2> QED
    BY <1>1, <2>1, ConcatProperties
<1>7. Named'
  <2>1. \A k \in 1 .. Len(queue') : queue'[k] \in N \cup L \cup D
    BY <1>6, ElementOfSeq
  <2> QED
    BY <1>1, <1>4, <2>1 DEF Named
<1>8. Informed'
  <2>1. Arrived'
    <3>1. IInv' /\ running'
      BY <1>1
    <3> QED
      BY <3>1, HasArrived, PTL
  <2>2. \A n \in Names : world[n].id # 0 => world[n].id \in Ids
    BY DEF IInv, Types, Id
  <2>3. \A i \in Ids : nodes[i].birth = 0
    BY <1>1 DEF IInv, Silent, NoRec
  <2> QED
    BY <1>1, <2>1, <2>2, <2>3 DEF Arrived, Informed
<1> QED
  BY <1>1, <1>7, <1>8 DEF NInv, Births, Recorded, Bound, Ends

LEMMA StopNamed == IInv /\ NInv /\ Stop => NInv'
<1> SUFFICES ASSUME IInv, NInv, Stop PROVE NInv'
  OBVIOUS
<1>1. /\ running' = FALSE /\ queue' = <<>> /\ nodes' = [i \in Ids |-> NoRec]
      /\ bindings' = {} /\ UNCHANGED <<world, links, changes>>
  BY DEF Stop, clear, daemonVars
<1>2. Named' /\ Bound'
  BY <1>1 DEF Named, Bound
<1>3. Recorded'
  <2>1. 0 <= changes /\ NoRec.birth = 0
    BY GraphAssumption DEF IInv, Types, Birth, NoRec
  <2> QED
    BY <1>1, <2>1 DEF Recorded
<1> QED
  BY <1>1, <1>2, <1>3 DEF NInv, Births, Ends

LEMMA ReadOnlyNamed ==
  ASSUME NInv, UNCHANGED <<daemonVars, queue, running, modelVars>> PROVE NInv'
BY DEF NInv, Births, Named, Recorded, Bound, Informed, Ends, daemonVars, modelVars

LEMMA NamedStep == IInv /\ NInv /\ [Next]_vars => NInv'
<1> SUFFICES ASSUME IInv, NInv, [Next]_vars PROVE NInv'
  OBVIOUS
<1>1. IInv'
  BY InvStep
<1>2. CASE UNCHANGED vars \/ ConnectFails \/ Wait \/ Refresh \/ Kick \/ Tick
  <2>1. CASE UNCHANGED vars
    BY <2>1, ReadOnlyNamed DEF vars
  <2>2. CASE ConnectFails \/ Kick \/ Tick
    BY <2>2, ReadOnlyNamed DEF ConnectFails, Kick, Tick, GuiSame
  <2>3. CASE Wait
    BY <2>3, ReadOnlyNamed DEF Wait, WaitSame, GuiSame
  <2>4. CASE Refresh
    <3>1. UNCHANGED <<daemonVars, queue, running, modelVars>>
      BY <2>4, Zenon DEF Refresh, RefreshDevices, RefreshName, RefreshStats,
                         RefreshConnections, RefreshSame
    <3> QED
      BY <3>1, ReadOnlyNamed
  <2> QED
    BY <1>2, <2>1, <2>2, <2>3, <2>4
<1> QED
  BY <1>1, <1>2, DaemonNamed, LoopNamed, StartNamed, StopNamed DEF Next

LEMMA InitNamed == Init => NInv
<1> SUFFICES ASSUME Init PROVE NInv
  OBVIOUS
<1>1. NoNode.birth = 0 /\ NoRec.birth = 0
  BY DEF NoNode, NoRec
<1> QED
  BY <1>1 DEF Init, NInv, Births, Named, Recorded, Bound, Ends
-----------------------------------------------------------------------------
(* What is on screen.                                                       *)

Shown ==
    [devices : SUBSET Sinks, name : Names \cup {Unnamed}, quantum : Quanta \cup {0},
     run : BOOLEAN, peers : SUBSET Names]

\* The types of the panel's own variables.
Panel ==
    /\ running \in BOOLEAN /\ syncDone \in BOOLEAN /\ posted \in BOOLEAN /\ opening \in BOOLEAN
    /\ bindings \subseteq [id : Ids, birth : Birth]
    /\ profName \in Names \cup {Unnamed}
    /\ pc \in {"closed", "wait", "devices", "name", "stats", "connections", "idle"}
    /\ coalesce \in 0 .. Interval
    /\ draft \in Shown /\ display \in Shown

\* What is shown, or collected to be, is what the model has.
NameFits(d) == d.name \in IF Target = Unnamed THEN ownNodeNames ELSE {Target}
StatsFit(d) ==
    d.quantum # 0 => prof.id # 0 /\ d.quantum = prof.quantum /\ d.run = nodes[prof.id].run
PeersFit(d) == d.peers \in IF Own # {} THEN {Peers(i) : i \in Own} ELSE {{}}
DevicesFit(d) == d.devices = audioDevices

\* A refresh that no kick has overtaken reads one state of the model, from the
\* first of its steps to the last: when the dialog opens the devices are read
\* first, later they are read last.
Fresh ==
    running /\ ~ posted =>
        /\ pc \in {"stats", "connections"} => NameFits(draft)
        /\ pc = "stats" => draft.quantum = 0
        /\ pc = "connections" => StatsFit(draft)
        /\ opening /\ pc \in {"name", "stats", "connections"} => DevicesFit(display)
        /\ pc = "devices" /\ ~ opening =>
              NameFits(display) /\ StatsFit(display) /\ PeersFit(display)
        /\ pc = "idle" /\ coalesce = 0 =>
              NameFits(display) /\ StatsFit(display) /\ PeersFit(display) /\ DevicesFit(display)

Opening == (pc = "wait" => opening) /\ (pc = "idle" => ~ opening)

SInv == Panel /\ Fresh /\ Opening

\* The panel and the model are as they were.
LEMMA PanelKept ==
  ASSUME SInv, UNCHANGED <<running, syncDone, modelVars, profName, posted, guiVars>>
  PROVE  SInv'
<1>1. Panel' /\ Opening'
  BY DEF SInv, Panel, Opening, modelVars, guiVars
<1>2. /\ ownNodeNames' = ownNodeNames /\ audioDevices' = audioDevices /\ Own' = Own
      /\ \A i : Peers(i)' = Peers(i)
  BY DEF ownNodeNames, audioDevices, Own, Peers, modelVars
<1>3. Fresh'
  BY <1>2 DEF SInv, Fresh, NameFits, StatsFit, PeersFit, DevicesFit, modelVars, guiVars
<1> QED
  BY <1>1, <1>3 DEF SInv

\* A change of the model posts a kick.
LEMMA Kicked ==
  ASSUME SInv, posted', UNCHANGED <<running, profName, guiVars>>,
         syncDone' \in BOOLEAN, posted' \in BOOLEAN,
         bindings' \subseteq [id : Ids, birth : Birth]
  PROVE  SInv'
BY DEF SInv, Panel, Fresh, Opening, guiVars

LEMMA LoopShown == IInv /\ SInv /\ LoopThread => SInv'
<1> SUFFICES ASSUME IInv, SInv, LoopThread PROVE SInv'
  OBVIOUS
<1>1. SInv => /\ bindings \subseteq [id : Ids, birth : Birth] /\ syncDone \in BOOLEAN
              /\ posted \in BOOLEAN
  BY DEF SInv, Panel
<1>2. CASE AddNode
  <2>1. Got("node") /\ LoopSame /\ posted' = TRUE /\ syncDone' = syncDone
        /\ bindings' = bindings \cup {[id |-> Head(queue).id, birth |-> Head(queue).birth]}
    BY <1>2 DEF AddNode, noteChanged
  <2>2. Head(queue) \in Event /\ Head(queue).op = "node"
    BY <2>1, Received
  <2>3. Head(queue).id \in Ids /\ Head(queue).birth \in Birth
    BY <2>2 DEF Event
  <2> QED
    BY <1>1, <2>1, <2>3, Kicked DEF LoopSame
<1>3. CASE AddLink \/ Profile \/ RemoveGlobal
  <2>1. /\ UNCHANGED <<running, profName, guiVars>> /\ posted' = TRUE /\ syncDone' = syncDone
        /\ bindings' \subseteq bindings
    BY <1>3, Zenon DEF AddLink, Profile, RemoveGlobal, noteChanged, LoopSame
  <2> QED
    BY <1>1, <2>1, Kicked
<1>4. CASE NodeInfo
  <2>1. UNCHANGED <<running, profName, guiVars, syncDone, bindings, modelLinks, prof>>
    BY <1>4 DEF NodeInfo, LoopSame
  <2>2. posted' = TRUE \/ UNCHANGED <<nodes, posted>>
    BY <1>4, Zenon DEF NodeInfo, noteChanged
  <2>3. CASE posted' = TRUE
    BY <1>1, <2>1, <2>3, Kicked
  <2>4. CASE UNCHANGED <<nodes, posted>>
    BY <2>1, <2>4, PanelKept DEF modelVars
  <2> QED
    BY <2>2, <2>3, <2>4
<1>5. CASE CoreDone
  <2>1. /\ UNCHANGED <<running, modelVars, profName, posted, guiVars>>
        /\ syncDone' = (syncDone \/ pc = "wait")
    BY <1>5 DEF CoreDone, LoopSame
  <2>2. /\ ownNodeNames' = ownNodeNames /\ audioDevices' = audioDevices /\ Own' = Own
        /\ \A i : Peers(i)' = Peers(i)
    BY <2>1 DEF ownNodeNames, audioDevices, Own, Peers, modelVars
  <2>3. Fresh'
    BY <2>1, <2>2 DEF SInv, Fresh, NameFits, StatsFit, PeersFit, DevicesFit, modelVars, guiVars
  <2>4. Panel' /\ Opening'
    BY <2>1 DEF SInv, Panel, Opening, modelVars, guiVars
  <2> QED
    BY <2>3, <2>4 DEF SInv
<1> QED
  BY <1>2, <1>3, <1>4, <1>5 DEF LoopThread

LEMMA DaemonShown == SInv /\ Daemon => SInv'
<1> SUFFICES ASSUME SInv, Daemon PROVE SInv'
  OBVIOUS
<1>1. PanelSame
  BY Zenon DEF Daemon, Appear, Vanish, Switch, Connect, Disconnect, Cycle
<1> QED
  BY <1>1, PanelKept DEF PanelSame

\* What the model has is something that can be shown.
LEMMA ModelFits ==
  ASSUME IInv, NInv
  PROVE  /\ audioDevices \subseteq Sinks
         /\ ownNodeNames \subseteq Names \cup {Unnamed}
         /\ \A i : Peers(i) \subseteq Names
<1>1. \A i \in Ids : /\ nodes[i].name \in Names \cup {Unnamed}
                     /\ nodes[i] # NoRec => /\ nodes[i].name \in Names
                                            /\ nodes[i].sink = (nodes[i].name \in Sinks)
  BY DEF IInv, Types, Rec, NInv, Recorded
<1>2. audioDevices \subseteq Sinks
  <2>1. \A i \in Ids : nodes[i].sink => nodes[i] # NoRec
    BY DEF NoRec
  <2> QED
    BY <1>1, <2>1 DEF audioDevices
<1>3. ownNodeNames \subseteq Names \cup {Unnamed}
  BY <1>1 DEF ownNodeNames, Own
<1>4. ASSUME NEW i PROVE Peers(i) \subseteq Names
  <2>1. \A l \in modelLinks : l.in \in Ids /\ l.out \in Ids
    BY DEF IInv, Types, Link
  <2> QED
    BY <1>1, <2>1 DEF Peers
<1> QED
  BY <1>2, <1>3, <1>4
\* A refresh changes neither the model nor the kicks.
LEMMA ModelSame ==
  ASSUME UNCHANGED <<running, modelVars>>
  PROVE  /\ ownNodeNames' = ownNodeNames /\ audioDevices' = audioDevices /\ Own' = Own
         /\ nodes' = nodes /\ prof' = prof /\ bindings' = bindings
         /\ \A i : Peers(i)' = Peers(i)
BY DEF ownNodeNames, audioDevices, Own, Peers, modelVars

LEMMA DevicesShown == IInv /\ NInv /\ SInv /\ RefreshDevices => SInv'
<1> SUFFICES ASSUME IInv, NInv, SInv, RefreshDevices PROVE SInv'
  OBVIOUS
<1>1. /\ pc = "devices" /\ pc' = (IF opening THEN "name" ELSE "idle")
      /\ display' = [display EXCEPT !.devices = IF running THEN audioDevices ELSE {}]
      /\ UNCHANGED <<running, syncDone, posted, coalesce, profName, opening, draft>>
      /\ UNCHANGED <<running, modelVars>>
  BY DEF RefreshDevices, RefreshSame, Goto
<1>2. /\ audioDevices' = audioDevices /\ Own' = Own /\ ownNodeNames' = ownNodeNames
      /\ nodes' = nodes /\ prof' = prof /\ bindings' = bindings
      /\ \A i : Peers(i)' = Peers(i)
  BY <1>1, ModelSame
<1>3. display \in Shown /\ opening \in BOOLEAN /\ audioDevices \subseteq Sinks
  BY ModelFits DEF SInv, Panel
<1>4. /\ display' \in Shown /\ (running => display'.devices = audioDevices)
      /\ display'.name = display.name /\ display'.quantum = display.quantum
      /\ display'.run = display.run /\ display'.peers = display.peers
  BY <1>1, <1>3 DEF Shown
<1>5. Panel' /\ Opening'
  BY <1>1, <1>2, <1>3, <1>4 DEF SInv, Panel, Opening
<1>6. Fresh'
  <2> SUFFICES ASSUME running, ~ posted
               PROVE  /\ opening => display'.devices = audioDevices
                      /\ ~ opening => /\ NameFits(display)' /\ StatsFit(display)'
                                      /\ PeersFit(display)' /\ DevicesFit(display)'
    BY <1>1, <1>2 DEF Fresh, DevicesFit
  <2>1. ~ opening => NameFits(display) /\ StatsFit(display) /\ PeersFit(display)
    BY <1>1 DEF SInv, Fresh
  <2> QED
    BY <1>2, <1>4, <2>1 DEF NameFits, StatsFit, PeersFit, DevicesFit
<1> QED
  BY <1>5, <1>6 DEF SInv

LEMMA NameShown == IInv /\ NInv /\ SInv /\ RefreshName => SInv'
<1> SUFFICES ASSUME IInv, NInv, SInv, RefreshName PROVE SInv'
  OBVIOUS
<1>1. /\ pc = "name" /\ pc' = "stats"
      /\ UNCHANGED <<running, syncDone, posted, coalesce, profName, opening, display>>
      /\ UNCHANGED <<running, modelVars>>
  BY DEF RefreshName, RefreshSame, Goto
<1>2. PICK m \in IF Target = Unnamed THEN ownNodeNames ELSE {Target} :
        draft' = [NoDisplay EXCEPT !.name = m]
  BY DEF RefreshName
<1>3. /\ audioDevices' = audioDevices /\ Own' = Own /\ ownNodeNames' = ownNodeNames
      /\ nodes' = nodes /\ prof' = prof /\ bindings' = bindings
      /\ \A i : Peers(i)' = Peers(i)
  BY <1>1, ModelSame
<1>4. m \in Names \cup {Unnamed}
  BY <1>2, ModelFits, GraphAssumption
<1>5. draft' \in Shown /\ draft'.name = m /\ draft'.quantum = 0
  BY <1>2, <1>4 DEF NoDisplay, Shown
<1>6. Panel' /\ Opening'
  BY <1>1, <1>3, <1>5 DEF SInv, Panel, Opening
<1>7. Fresh'
  BY <1>1, <1>2, <1>3, <1>5 DEF SInv, Fresh, NameFits, DevicesFit
<1> QED
  BY <1>6, <1>7 DEF SInv

LEMMA StatsShown == IInv /\ NInv /\ SInv /\ RefreshStats => SInv'
<1> SUFFICES ASSUME IInv, NInv, SInv, RefreshStats PROVE SInv'
  OBVIOUS
<1>1. /\ pc = "stats" /\ pc' = "connections"
      /\ UNCHANGED <<running, syncDone, posted, coalesce, opening, display>>
      /\ UNCHANGED <<running, modelVars>> /\ profName' \in {profName, Target}
  BY DEF RefreshStats, RefreshSame, Goto
<1>2. \/ draft' = draft
      \/ \E i \in Asked : draft' = profilerStats(i)
  BY DEF RefreshStats
<1>3. /\ audioDevices' = audioDevices /\ Own' = Own /\ ownNodeNames' = ownNodeNames
      /\ nodes' = nodes /\ prof' = prof /\ bindings' = bindings
      /\ \A i : Peers(i)' = Peers(i)
  BY <1>1, ModelSame
<1>4. /\ nodes \in [Ids -> Rec] /\ prof.quantum \in Quanta \cup {0} /\ draft \in Shown
  BY DEF IInv, Types, SInv, Panel
<1>5. /\ draft' \in Shown /\ draft'.name = draft.name
      /\ \/ draft' = draft
         \/ prof.id \in Ids /\ draft'.quantum = prof.quantum /\ draft'.run = nodes[prof.id].run
  <2>1. CASE draft' = draft
    BY <1>4, <2>1
  <2>2. CASE \E i \in Asked : draft' = profilerStats(i)
    <3>1. PICK i \in Ids : draft' = profilerStats(i)
      BY <2>2 DEF Asked
    <3>2. CASE i = prof.id
      <4>1. draft' = [draft EXCEPT !.quantum = prof.quantum, !.run = nodes[prof.id].run]
        BY <3>1, <3>2 DEF profilerStats
      <4>2. nodes[prof.id].run \in BOOLEAN
        BY <1>4, <3>2 DEF Rec
      <4> QED
        BY <1>4, <3>2, <4>1, <4>2 DEF Shown
    <3>3. CASE i # prof.id
      BY <1>4, <3>1, <3>3 DEF profilerStats
    <3> QED
      BY <3>2, <3>3
  <2> QED
    BY <1>2, <2>1, <2>2
<1>6. Panel' /\ Opening'
  BY <1>1, <1>3, <1>5, GraphAssumption DEF SInv, Panel, Opening
<1>7. Fresh'
  <2> SUFFICES ASSUME running, ~ posted
               PROVE  /\ NameFits(draft)' /\ StatsFit(draft)'
                      /\ opening => DevicesFit(display)'
    BY <1>1 DEF Fresh
  <2>1. /\ NameFits(draft) /\ draft.quantum = 0
        /\ opening => DevicesFit(display)
    BY <1>1 DEF SInv, Fresh
  <2>2. NameFits(draft)'
    BY <1>3, <1>5, <2>1 DEF NameFits
  <2>3. StatsFit(draft)'
    <3>1. 0 \notin Ids
      BY GraphAssumption
    <3> QED
      BY <1>3, <1>5, <2>1, <3>1 DEF StatsFit
  <2>4. opening => DevicesFit(display)'
    BY <1>1, <1>3, <2>1 DEF DevicesFit
  <2> QED
    BY <2>2, <2>3, <2>4
<1> QED
  BY <1>6, <1>7 DEF SInv

LEMMA ConnectionsShown == IInv /\ NInv /\ SInv /\ RefreshConnections => SInv'
<1> SUFFICES ASSUME IInv, NInv, SInv, RefreshConnections PROVE SInv'
  OBVIOUS
<1>1. /\ pc = "connections" /\ pc' = (IF opening THEN "idle" ELSE "devices") /\ opening' = FALSE
      /\ UNCHANGED <<running, syncDone, posted, coalesce, profName>>
      /\ UNCHANGED <<running, modelVars>> /\ draft' = NoDisplay
  BY DEF RefreshConnections, RefreshSame, Goto
<1>2. PICK peers \in IF running /\ Own # {} THEN {Peers(i) : i \in Own} ELSE {{}} :
        display' = [draft EXCEPT !.peers = peers, !.devices = display.devices]
  BY DEF RefreshConnections
<1>3. /\ audioDevices' = audioDevices /\ Own' = Own /\ ownNodeNames' = ownNodeNames
      /\ nodes' = nodes /\ prof' = prof /\ bindings' = bindings
      /\ \A i : Peers(i)' = Peers(i)
  BY <1>1, ModelSame
<1>4. draft \in Shown /\ display \in Shown /\ peers \subseteq Names /\ opening \in BOOLEAN
  <2>1. \A i : Peers(i) \subseteq Names
    BY ModelFits
  <2> QED
    BY <1>2, <2>1 DEF SInv, Panel
<1>5. /\ display' \in Shown /\ display'.devices = display.devices /\ display'.peers = peers
      /\ display'.name = draft.name /\ display'.quantum = draft.quantum /\ display'.run = draft.run
  BY <1>2, <1>4 DEF Shown
<1>6. NoDisplay \in Shown
  BY DEF NoDisplay, Shown
<1>7. Panel' /\ Opening'
  BY <1>1, <1>3, <1>5, <1>6 DEF SInv, Panel, Opening
<1>8. Fresh'
  <2> SUFFICES ASSUME running, ~ posted
               PROVE  /\ NameFits(display)' /\ StatsFit(display)' /\ PeersFit(display)'
                      /\ opening => DevicesFit(display)'
    BY <1>1 DEF Fresh
  <2>1. /\ NameFits(draft) /\ StatsFit(draft)
        /\ opening => DevicesFit(display)
    BY <1>1 DEF SInv, Fresh
  <2>2. NameFits(display)' /\ StatsFit(display)'
    BY <1>3, <1>5, <2>1 DEF NameFits, StatsFit
  <2>3. PeersFit(display)'
    BY <1>2, <1>3, <1>5 DEF PeersFit
  <2>4. opening => DevicesFit(display)'
    BY <1>3, <1>5, <2>1 DEF DevicesFit
  <2> QED
    BY <2>2, <2>3, <2>4
<1> QED
  BY <1>7, <1>8 DEF SInv

LEMMA OtherShown == IInv /\ SInv /\ (Start \/ ConnectFails \/ Wait \/ Stop \/ Kick \/ Tick) => SInv'
<1> SUFFICES ASSUME IInv, SInv, Start \/ ConnectFails \/ Wait \/ Stop \/ Kick \/ Tick
             PROVE  SInv'
  OBVIOUS
<1>1. Panel /\ Fresh /\ Opening
  BY DEF SInv
<1>2. CASE Start
  <2>1. /\ pc' = "wait" /\ opening' = TRUE /\ running' = TRUE /\ syncDone' = FALSE
        /\ UNCHANGED <<bindings, profName, posted, coalesce, draft, display>>
    BY <1>2 DEF Start, Goto, GuiSame, modelVars
  <2> QED
    BY <1>1, <2>1 DEF SInv, Panel, Fresh, Opening
<1>3. CASE ConnectFails
  <2>1. /\ pc' = "devices" /\ opening' = TRUE /\ ~ running
        /\ UNCHANGED <<running, syncDone, bindings, profName, posted, coalesce, draft, display>>
    BY <1>3 DEF ConnectFails, Goto, GuiSame, modelVars, IInv, Silent
  <2> QED
    BY <1>1, <2>1 DEF SInv, Panel, Fresh, Opening
<1>4. CASE Wait
  <2>1. /\ pc = "wait" /\ pc' = "devices"
        /\ UNCHANGED <<running, syncDone, bindings, profName, opening, posted, coalesce, draft,
                      display>>
    BY <1>4 DEF Wait, WaitDone, WaitOver, WaitSame, Goto, GuiSame, modelVars
  <2> QED
    BY <1>1, <2>1 DEF SInv, Panel, Fresh, Opening
<1>5. CASE Stop
  <2>1. /\ pc' = "closed" /\ running' = FALSE /\ syncDone' = FALSE /\ bindings' = {}
        /\ posted' = FALSE /\ coalesce' = 0 /\ draft' = NoDisplay /\ display' = NoDisplay
        /\ profName' = Unnamed /\ opening' = opening
    BY <1>5 DEF Stop, Goto, clear
  <2>2. NoDisplay \in Shown /\ 0 \in 0 .. Interval
    BY DEF NoDisplay, Shown, Interval
  <2> QED
    BY <1>1, <2>1, <2>2 DEF SInv, Panel, Fresh, Opening
<1>6. CASE Kick
  <2>1. /\ pc = "idle" /\ posted' = FALSE /\ coalesce' = kickCoalesce
        /\ UNCHANGED <<running, syncDone, bindings, profName, pc, opening, draft, display>>
    BY <1>6 DEF Kick, GuiSame, modelVars
  <2>2. kickCoalesce \in 0 .. Interval /\ kickCoalesce # 0
    BY <1>1 DEF Panel, kickCoalesce, Interval
  <2> QED
    BY <1>1, <2>1, <2>2 DEF SInv, Panel, Fresh, Opening
<1>7. CASE Tick
  <2>1. /\ pc = "idle" /\ coalesce > 0 /\ coalesce' = coalesce - 1
        /\ pc' = (IF coalesce = 1 THEN "name" ELSE "idle")
        /\ UNCHANGED <<running, syncDone, bindings, profName, opening, posted, draft, display>>
    BY <1>7 DEF Tick, GuiSame, modelVars, Goto
  <2>2. ~ opening /\ coalesce' \in 0 .. Interval /\ (pc' = "idle" => coalesce' # 0)
    BY <1>1, <2>1 DEF Panel, Opening, Interval
  <2> QED
    BY <1>1, <2>1, <2>2 DEF SInv, Panel, Fresh, Opening
<1> QED
  BY <1>2, <1>3, <1>4, <1>5, <1>6, <1>7

LEMMA ShownStep == IInv /\ NInv /\ SInv /\ [Next]_vars => SInv'
<1> SUFFICES ASSUME IInv, NInv, SInv, [Next]_vars PROVE SInv'
  OBVIOUS
<1>1. CASE UNCHANGED vars
  BY <1>1, PanelKept DEF vars
<1>2. CASE Refresh
  BY <1>2, DevicesShown, NameShown, StatsShown, ConnectionsShown DEF Refresh
<1> QED
  BY <1>1, <1>2, LoopShown, DaemonShown, OtherShown DEF Next

LEMMA InitShown == Init => SInv
<1>1. NoDisplay \in Shown /\ 0 \in 0 .. Interval
  BY DEF NoDisplay, Shown, Interval
<1> QED
  BY <1>1 DEF Init, SInv, Panel, Fresh, Opening

LEMMA AllAlways == Spec => [](IInv /\ NInv /\ SInv)
<1>1. Init => IInv /\ NInv /\ SInv
  BY InitInv, InitNamed, InitShown
<1>2. (IInv /\ NInv /\ SInv) /\ [Next]_vars => (IInv /\ NInv /\ SInv)'
  BY InvStep, NamedStep, ShownStep
<1> QED
  BY <1>1, <1>2, PTL DEF Spec

\* Every variable of the panel and of the graph it shows has its type.
THEOREM TypeCorrect == Spec => []TypeOK
<1>1. IInv /\ NInv /\ SInv => TypeOK
  BY DEF IInv, Types, Rec, SInv, Panel, Shown, TypeOK
<1> QED
  BY <1>1, AllAlways, PTL
-----------------------------------------------------------------------------
(* With no event left the model is the graph.                               *)

LEMMA Mirrored ==
  ASSUME IInv, NInv, running, queue = <<>>
  PROVE  /\ \A n \in Names : world[n].id # 0 =>
               LET rec == nodes[world[n].id]
               IN  /\ rec.birth = world[n].birth /\ world[n].birth # 0 /\ rec.name = n
                   /\ rec.sink = (n \in Sinks) /\ rec.own = (n \in Hosts)
                   /\ rec.run = world[n].run
         /\ \A i \in Ids : nodes[i] # NoRec => \E n \in Names : world[n].id = i
         /\ modelLinks = links
<1>1. Len(queue) = 0 /\ \A i : Quiet(queue, 1, Len(queue), i)
  BY DEF Quiet
<1>2. ASSUME NEW n \in Names, world[n].id # 0
      PROVE  LET rec == nodes[world[n].id]
             IN  /\ rec.birth = world[n].birth /\ world[n].birth # 0 /\ rec.name = n
                 /\ rec.sink = (n \in Sinks) /\ rec.own = (n \in Hosts)
                 /\ rec.run = world[n].run
  <2>1. world[n].birth # 0 /\ nodes[world[n].id].birth = world[n].birth
    BY <1>1, <1>2, HasArrived DEF Arrived
  <2>2. world[n].id \in Ids
    BY <1>2 DEF IInv, Types, Id
  <2>3. nodes[world[n].id].name = n /\ nodes[world[n].id].sink = (n \in Sinks)
    BY <2>1, <2>2 DEF NInv, Recorded
  <2>4. Reported(queue, nodes[world[n].id], n, world[n])
    BY <1>1, <1>2 DEF NInv, Informed
  <2>5. nodes[world[n].id].own = (n \in Hosts) /\ nodes[world[n].id].run = world[n].run
    BY <1>1, <2>4 DEF Reported
  <2> QED
    BY <2>1, <2>3, <2>5
<1>3. ASSUME NEW i \in Ids, NEW t, Has(i, t) PROVE Known[i] = t
  BY <1>1, <1>3 DEF IInv, Complete, Stands
<1>4. ASSUME NEW i \in Ids, nodes[i] # NoRec, \A n \in Names : world[n].id # i PROVE FALSE
  <2>1. PICK t : Has(i, t) /\ t.birth = 0
    <3>1. CASE i \in InUse
      <4>1. PICK l \in links : l.id = i
        BY <1>4, <3>1 DEF InUse
      <4>2. Has(i, Thing(0, {l})) /\ Thing(0, {l}).birth = 0
        BY <4>1 DEF Has, Thing
      <4> QED
        BY <4>2
    <3>2. CASE i \notin InUse
      <4>1. Has(i, Nothing) /\ Nothing.birth = 0
        BY <3>2 DEF Has, Nothing, Thing
      <4> QED
        BY <4>1
    <3> QED
      BY <3>1, <3>2
  <2>2. nodes[i].birth = 0
    BY <1>3, <2>1, Things
  <2> QED
    BY <1>4, <2>2 DEF NInv, Recorded
<1>5. links \subseteq modelLinks
  <2> SUFFICES ASSUME NEW l \in links PROVE l \in modelLinks
    OBVIOUS
  <2>1. l.id \in Ids /\ Has(l.id, Thing(0, {l}))
    BY DEF Has, IInv, Types, Link
  <2>2. Known[l.id] = Thing(0, {l})
    BY <1>3, <2>1
  <2>3. Known[l.id].links = {l}
    BY <2>2 DEF Thing
  <2> QED
    BY <2>1, <2>3, Things
<1>6. modelLinks \subseteq links
  <2> SUFFICES ASSUME NEW l \in modelLinks, l \notin links PROVE FALSE
    OBVIOUS
  <2>1. l.id \in Ids
    BY DEF IInv, Types, Link
  <2>2. l \in Known[l.id].links
    BY <2>1, Things
  <2>3. PICK t : Has(l.id, t) /\ l \notin t.links
    <3>1. CASE \E n \in Names : world[n].id = l.id
      <4>1. PICK n \in Names : world[n].id = l.id
        BY <3>1
      <4>2. Has(l.id, Thing(world[n].birth, {})) /\ Thing(world[n].birth, {}).links = {}
        BY <4>1 DEF Has, Thing
      <4> QED
        BY <4>2
    <3>2. CASE \E k \in links : k.id = l.id
      <4>1. PICK k \in links : k.id = l.id
        BY <3>2
      <4>2. Has(l.id, Thing(0, {k})) /\ Thing(0, {k}).links = {k}
        BY <4>1 DEF Has, Thing
      <4> QED
        BY <4>2
    <3>3. CASE l.id \notin InUse
      <4>1. Has(l.id, Nothing) /\ Nothing.links = {}
        BY <3>3 DEF Has, Nothing, Thing
      <4> QED
        BY <4>1
    <3> QED
      BY <3>1, <3>2, <3>3 DEF InUse
  <2> QED
    BY <1>3, <2>1, <2>2, <2>3
<1> QED
  BY <1>2, <1>4, <1>5, <1>6

\* The nodes that are there, as the model knows them.
LEMMA Present ==
  ASSUME IInv
  PROVE  /\ \A n \in Names : world[n] # NoNode <=> world[n].id # 0
         /\ \A n \in Names : world[n].id # 0 => world[n].id \in Ids
         /\ \A n, m \in Names : world[n].id = world[m].id /\ world[n].id # 0 => n = m
BY DEF IInv, Types, OwnIds, NoNode, Id

\* The peers of a host, by the model's records.
LEMMA PeersRight ==
  ASSUME IInv, NInv, running, queue = <<>>, NEW h \in Hosts, world[h].id # 0
  PROVE  Peers(world[h].id) = PeersOf(h)
<1>1. /\ h \in Names /\ modelLinks = links /\ \A s \in Sinks : s \in Names /\ s \notin Hosts
  BY Mirrored, GraphAssumption DEF Names
<1>2. \A n \in Names : world[n].id # 0 => /\ nodes[world[n].id].name = n
                                          /\ nodes[world[n].id] # NoRec
                                          /\ world[n].id \in Ids
  BY Mirrored, Present DEF NoRec
<1>3. \A n, m \in Names : world[n].id = world[m].id /\ world[n].id # 0 => n = m
  BY Present
<1>4. \A l \in links : l.in \in Ids /\ l.out \in Ids /\ l.in # 0 /\ l.out # 0
  BY GraphAssumption DEF IInv, Types, Link
<1>5. \A l \in links : \E g \in Hosts, s \in Sinks : l.out = world[g].id /\ l.in = world[s].id
  BY DEF NInv, Ends
<1>6. ASSUME NEW l \in links, l.in = world[h].id PROVE FALSE
  <2>1. PICK s \in Sinks : l.in = world[s].id
    BY <1>5
  <2> QED
    BY <1>1, <1>3, <1>4, <1>6, <2>1
<1>7. Peers(world[h].id) = {nodes[l.in].name : l \in {k \in links : k.out = world[h].id}}
  <2>1. \A k \in links : nodes[k.in] # NoRec
    BY <1>1, <1>2, <1>4, <1>5
  <2> QED
    BY <1>1, <1>6, <2>1 DEF Peers
<1>8. ASSUME NEW n \in Names, n \in PeersOf(h) PROVE n \in Peers(world[h].id)
  <2>1. PICK l \in links : {world[h].id, world[n].id} = {l.out, l.in} /\ n # h
    BY <1>8 DEF PeersOf
  <2>2. world[h].id = l.out /\ world[n].id = l.in
    BY <1>6, <2>1
  <2>3. nodes[l.in].name = n
    BY <1>2, <1>4, <2>2
  <2> QED
    BY <1>7, <2>2, <2>3
<1>9. ASSUME NEW n \in Peers(world[h].id) PROVE n \in PeersOf(h)
  <2>1. PICK l \in links : l.out = world[h].id /\ n = nodes[l.in].name
    BY <1>7
  <2>2. PICK s \in Sinks : l.in = world[s].id
    BY <1>5
  <2>3. n = s /\ n \in Names /\ n # h
    BY <1>1, <1>2, <1>4, <2>1, <2>2
  <2>4. {world[h].id, world[n].id} = {l.out, l.in}
    BY <2>1, <2>2, <2>3
  <2> QED
    BY <2>3, <2>4 DEF PeersOf
<1> QED
  BY <1>8, <1>9 DEF PeersOf

LEMMA ShowsWhatIs == IInv /\ NInv /\ SInv => SettledShows
<1> SUFFICES ASSUME IInv, NInv, SInv, Settled
             PROVE  /\ display.devices = There(Sinks)
                    /\ display.name \in IF Target # Unnamed THEN {Target}
                                        ELSE IF There(Hosts) = {} THEN {Unnamed} ELSE There(Hosts)
                    /\ display.peers \in IF There(Hosts) = {} THEN {{}}
                                         ELSE {PeersOf(h) : h \in There(Hosts)}
                    /\ display.quantum # 0 =>
                          /\ display.quantum = prof.quantum
                          /\ \E n \in There(Names) : world[n].id = prof.id /\ display.run = world[n].run
  BY DEF SettledShows
<1>1. running /\ pc = "idle" /\ queue = <<>> /\ ~ posted /\ coalesce = 0
  BY DEF Settled
<1>2. NameFits(display) /\ StatsFit(display) /\ PeersFit(display) /\ DevicesFit(display)
  BY <1>1 DEF SInv, Fresh
<1>3. \A n \in Names : world[n].id # 0 => /\ world[n].id \in Ids
                                          /\ nodes[world[n].id].name = n
                                          /\ nodes[world[n].id].sink = (n \in Sinks)
                                          /\ nodes[world[n].id].own = (n \in Hosts)
                                          /\ nodes[world[n].id].run = world[n].run
  BY <1>1, Mirrored, Present
<1>4. \A i \in Ids : nodes[i] # NoRec => \E n \in Names : world[n].id = i
  BY <1>1, Mirrored
<1>5. \A n \in Names : world[n] # NoNode <=> world[n].id # 0
  BY Present
<1>6. 0 \notin Ids /\ ~ NoRec.sink /\ ~ NoRec.own /\ Hosts \subseteq Names /\ Sinks \subseteq Names
  BY GraphAssumption DEF NoRec, Names
<1>7. audioDevices = There(Sinks)
  <2>1. ASSUME NEW i \in Ids, nodes[i].sink PROVE nodes[i].name \in There(Sinks)
    <3>1. PICK n \in Names : world[n].id = i
      BY <1>4, <1>6, <2>1
    <3> QED
      BY <1>3, <1>5, <1>6, <2>1, <3>1 DEF There
  <2>2. ASSUME NEW n \in There(Sinks) PROVE n \in audioDevices
    <3>1. n \in Sinks /\ n \in Names /\ world[n].id # 0
      BY <1>5, <1>6 DEF There
    <3>2. nodes[world[n].id].sink /\ nodes[world[n].id].name = n /\ world[n].id \in Ids
      BY <1>3, <3>1
    <3> QED
      BY <3>2 DEF audioDevices
  <2> QED
    BY <2>1, <2>2 DEF audioDevices
<1>8. /\ \A h \in There(Hosts) : world[h].id \in Own /\ world[h].id # 0 /\ h \in Hosts
                                 /\ nodes[world[h].id].name = h
      /\ \A i \in Own : \E h \in There(Hosts) : i = world[h].id
  <2>1. ASSUME NEW h \in There(Hosts)
        PROVE  world[h].id \in Own /\ world[h].id # 0 /\ h \in Hosts /\ nodes[world[h].id].name = h
    <3>1. h \in Hosts /\ h \in Names /\ world[h].id # 0
      BY <1>5, <1>6 DEF There
    <3> QED
      BY <1>3, <3>1 DEF Own
  <2>2. ASSUME NEW i \in Own PROVE \E h \in There(Hosts) : i = world[h].id
    <3>1. PICK n \in Names : world[n].id = i
      BY <1>4, <1>6 DEF Own
    <3> QED
      BY <1>3, <1>5, <1>6, <3>1 DEF Own, There
  <2> QED
    BY <2>1, <2>2
<1>9. Own = {} <=> There(Hosts) = {}
  BY <1>8
<1>10. display.devices = There(Sinks)
  BY <1>2, <1>7 DEF DevicesFit
<1>11. display.name \in IF Target # Unnamed THEN {Target}
                        ELSE IF There(Hosts) = {} THEN {Unnamed} ELSE There(Hosts)
  <2>1. Own # {} => {nodes[i].name : i \in Own} \subseteq There(Hosts)
    BY <1>8
  <2> QED
    BY <1>1, <1>2, <1>9, <2>1 DEF NameFits, ownNodeNames
<1>12. display.peers \in IF There(Hosts) = {} THEN {{}} ELSE {PeersOf(h) : h \in There(Hosts)}
  <2>1. CASE There(Hosts) = {}
    BY <1>2, <1>9, <2>1 DEF PeersFit
  <2>2. CASE There(Hosts) # {}
    <3>1. PICK i \in Own : display.peers = Peers(i)
      BY <1>2, <1>9, <2>2 DEF PeersFit
    <3>2. PICK h \in There(Hosts) : i = world[h].id
      BY <1>8
    <3>3. display.peers = PeersOf(h)
      BY <1>1, <1>8, <3>1, <3>2, PeersRight
    <3> QED
      BY <2>2, <3>3
  <2> QED
    BY <2>1, <2>2
<1>13. ASSUME display.quantum # 0
       PROVE  /\ display.quantum = prof.quantum
              /\ \E n \in There(Names) : world[n].id = prof.id /\ display.run = world[n].run
  <2>1. prof.id # 0 /\ display.quantum = prof.quantum /\ display.run = nodes[prof.id].run
    BY <1>2, <1>13 DEF StatsFit
  <2>2. prof.id \in Ids /\ nodes[prof.id] # NoRec
    BY <2>1 DEF IInv, Types, Measured, Id, NoRec
  <2>3. PICK n \in Names : world[n].id = prof.id
    BY <1>4, <2>2
  <2>4. n \in There(Names) /\ nodes[prof.id].run = world[n].run
    BY <1>3, <1>5, <2>1, <2>3 DEF There
  <2> QED
    BY <2>1, <2>3, <2>4
<1> QED
  BY <1>10, <1>11, <1>12, <1>13

\* With nothing left to handle the panel shows the graph as it is, and a measurement
\* is never shown for a node that was given its id later: no kick that noteChanged
\* posts (PipeWireGraph.cpp:137), no announcement, removal or change of a node's own
\* info is lost, in whatever order the daemon, the loop and the dialog take turns.
THEOREM NeverStale == Spec => []NothingStale
<1>1. IInv /\ NInv /\ SInv => SettledShows
  BY ShowsWhatIs
<1> QED
  BY <1>1, AllAlways, MeasurementsFresh, PTL DEF NothingStale
=============================================================================
