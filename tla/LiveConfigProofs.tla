-------------------------- MODULE LiveConfigProofs --------------------------
(***************************************************************************)
(* Proofs about LiveConfig for every set of sizes, rates and settings: its *)
(* types, that the backend's buffer size is the host's while buffers exist,*)
(* that a host is never refused the size it was offered, and what becomes  *)
(* of an edit or a quantum the watcher has seen.                           *)
(***************************************************************************)
EXTENDS LiveConfig, TLAPS

\* A watcher exists only while buffers do, so nothing is staged and no
\* quantum recorded between DisposeBuffers and CreateBuffers.
WatcherNeedsBuffers == driverState = "Initialized" => watchPc = "off"

IInv == TypeOK /\ WatcherNeedsBuffers /\ GraphMatchesHost /\ OfferAccepted

\* The settings a CreateBuffers would commit are settings a user can save.
LEMMA UpcomingType == ASSUME TypeOK PROVE Upcoming \in Configs
  BY DEF TypeOK, Upcoming

\* The fields of settings have their types.
LEMMA ConfigType ==
  ASSUME NEW c \in Configs
  PROVE  c.mode \in Mode /\ c.size \in Sizes /\ c.rate \in {0} \cup Rates
  BY ConfigAssumption

\* The size committed is one of the sizes.
LEMMA CommittedType == ASSUME TypeOK PROVE CommittedSize \in Sizes
  <1>1. Upcoming \in Configs
    BY UpcomingType
  <1>2. Upcoming.size \in Sizes
    BY <1>1, ConfigType
  <1> QED
    BY <1>2 DEF CommittedSize, TypeOK

\* apply_pending_config keeps the types of what it writes.
LEMMA ApplyType ==
  ASSUME TypeOK, ApplyPending
  PROVE  fields' \in Configs /\ staged' \in Configs \cup {None} /\ clientRate' \in Rates
  <1>1. Upcoming \in Configs
    BY UpcomingType
  <1>2. CASE staged = None
    BY <1>1, <1>2 DEF ApplyPending, TypeOK
  <1>3. CASE staged # None
    <2>1. staged \in Configs
      BY <1>3 DEF TypeOK
    <2>2. staged.rate \in {0} \cup Rates
      BY <2>1, ConfigType
    <2>3. PinnedOr(staged, clientRate) \in Rates
      BY <2>2 DEF PinnedOr, TypeOK
    <2> QED
      BY <1>1, <1>3, <2>3 DEF ApplyPending
  <1> QED
    BY <1>2, <1>3

\* Every step keeps the types.
LEMMA TypeStep == TypeOK /\ [Next]_vars => TypeOK'
  <1> SUFFICES ASSUME TypeOK, [Next]_vars PROVE TypeOK'
    OBVIOUS
  <1>1. CASE World
    <2>1. changes' \in 0 .. MaxChanges
      BY <1>1, ConfigAssumption
         DEF World, Save, DeviceQuantumChanges, GraphRateChanges, DefaultSwitched, Change,
             TypeOK
    <2>2. CASE Save
      BY <2>1, <2>2 DEF Save, TypeOK, cfgVars, clientVars, hostVars
    <2>3. CASE DeviceQuantumChanges \/ GraphRateChanges
      BY <2>1, <2>3 DEF DeviceQuantumChanges, GraphRateChanges, TypeOK, cfgVars,
                        clientVars, watchVars, hostVars
    <2>4. CASE DefaultSwitched
      BY <2>1, <2>4 DEF DefaultSwitched, TypeOK, cfgVars, watchVars, hostVars
    <2> QED
      BY <1>1, <2>2, <2>3, <2>4 DEF World
  <1>2. CASE Backend
    <2>1. PinnedOr(fields, graphRate) \in Rates
      <3>1. fields.rate \in {0} \cup Rates
        BY ConfigType DEF TypeOK
      <3> QED
        BY <3>1 DEF PinnedOr, TypeOK
    <2>2. CASE ObserveQuantum
      BY <2>2 DEF ObserveQuantum, TypeOK, worldVars, cfgVars, watchVars, hostVars
    <2>3. CASE IoChanged
      BY <2>1, <2>3 DEF IoChanged, TypeOK, worldVars, cfgVars, watchVars, hostVars
    <2> QED
      BY <1>2, <2>2, <2>3 DEF Backend
  <1>3. CASE Watcher
    <2>1. CASE BaselineStat \/ BaselineLoad \/ Poll
      BY <2>1 DEF BaselineStat, BaselineLoad, Poll, Goto, TypeOK, worldVars, cfgVars,
                  clientVars, hostVars
    <2>2. CASE Reload \/ CheckDefault \/ Notify
      BY <2>2 DEF Reload, CheckDefault, Notify, Goto, TypeOK, worldVars, cfgVars,
                  clientVars, hostVars
    <2>3. CASE CheckQuantum
      BY <2>3 DEF CheckQuantum, NewQuantum, Goto, TypeOK, worldVars, clientVars, hostVars
    <2> QED
      BY <1>3, <2>1, <2>2, <2>3 DEF Watcher
  <1>4. CASE HostCalls
    <2>1. CASE GetBufferSize
      <3>1. Upcoming.size \in Sizes
        BY UpcomingType, ConfigType
      <3> QED
        BY <2>1, <3>1 DEF GetBufferSize, TypeOK, worldVars, cfgVars, clientVars, watchVars
    <2>2. CASE CreateRefused
      BY <2>2, ApplyType, CommittedType
         DEF CreateRefused, TypeOK, worldVars, watchVars, hostVars
    <2>3. CASE CreateFails \/ CreateBuffers
      BY <2>3, ApplyType
         DEF CreateFails, CreateBuffers, TypeOK, worldVars, watchVars, hostVars
    <2>4. CASE Start \/ Stop \/ DisposeBuffers
      BY <2>4 DEF Start, Stop, DisposeBuffers, TypeOK, worldVars, cfgVars, clientVars,
                  watchVars, hostVars
    <2> QED
      BY <1>4, <2>1, <2>2, <2>3, <2>4 DEF HostCalls
  <1>5. CASE UNCHANGED vars
    BY <1>5 DEF vars, TypeOK, worldVars, cfgVars, clientVars, watchVars, hostVars
  <1> QED
    BY <1>1, <1>2, <1>3, <1>4, <1>5 DEF Next

\* Every step keeps a watcher from outliving the buffers.
LEMMA WatcherStep == IInv /\ [Next]_vars => WatcherNeedsBuffers'
  <1> SUFFICES ASSUME IInv, [Next]_vars PROVE WatcherNeedsBuffers'
    OBVIOUS
  <1> USE DEF IInv, WatcherNeedsBuffers
  <1>1. CASE World \/ Backend \/ UNCHANGED vars
    BY <1>1 DEF World, Save, DeviceQuantumChanges, GraphRateChanges, DefaultSwitched,
                Backend, ObserveQuantum, IoChanged, vars, watchVars
  <1>2. CASE Watcher
    BY <1>2 DEF Watcher, BaselineStat, BaselineLoad, Poll, Reload, CheckDefault,
                CheckQuantum, Notify
  <1>3. CASE HostCalls
    BY <1>3 DEF HostCalls, GetBufferSize, CreateRefused, CreateFails, CreateBuffers,
                Start, Stop, DisposeBuffers, watchVars
  <1> QED
    BY <1>1, <1>2, <1>3 DEF Next

\* Every step keeps the backend's size equal to the host's.
LEMMA SizeStep == IInv /\ [Next]_vars => GraphMatchesHost'
  <1> SUFFICES ASSUME IInv, [Next]_vars PROVE GraphMatchesHost'
    OBVIOUS
  <1> USE DEF IInv, GraphMatchesHost
  <1>1. CASE World \/ Backend \/ UNCHANGED vars
    BY <1>1 DEF World, Save, DeviceQuantumChanges, GraphRateChanges, DefaultSwitched,
                Backend, ObserveQuantum, IoChanged, vars, cfgVars, clientVars
  <1>2. CASE Watcher
    BY <1>2 DEF Watcher, BaselineStat, BaselineLoad, Poll, Reload, CheckDefault,
                CheckQuantum, Notify, cfgVars, clientVars
  <1>3. CASE HostCalls
    BY <1>3 DEF HostCalls, GetBufferSize, CreateRefused, CreateFails, CreateBuffers,
                Start, Stop, DisposeBuffers, cfgVars, clientVars
  <1> QED
    BY <1>1, <1>2, <1>3 DEF Next

\* Every step keeps a fresh offer acceptable.
LEMMA OfferStep == IInv /\ [Next]_vars => OfferAccepted'
  <1> SUFFICES ASSUME IInv, [Next]_vars PROVE OfferAccepted'
    OBVIOUS
  <1> USE DEF IInv, OfferAccepted
  <1>1. CASE World \/ Backend \/ UNCHANGED vars
    BY <1>1 DEF World, Save, DeviceQuantumChanges, GraphRateChanges, DefaultSwitched,
                Backend, ObserveQuantum, IoChanged, vars, cfgVars, hostVars,
                Accepts, CommittedSize, Upcoming
  <1>2. CASE Watcher
    <2>1. driverState # "Initialized" /\ UNCHANGED driverState
      BY <1>2 DEF WatcherNeedsBuffers, Watcher, BaselineStat, BaselineLoad, Poll, Reload,
                  CheckDefault, CheckQuantum, Notify
    <2> QED
      BY <2>1
  <1>3. CASE GetBufferSize
    BY <1>3 DEF GetBufferSize, cfgVars, Accepts, CommittedSize, Upcoming
  <1>4. CASE CreateRefused
    BY <1>4 DEF CreateRefused, hostVars
  <1>5. CASE CreateFails
    BY <1>5 DEF CreateFails, ApplyPending, hostVars, Accepts, CommittedSize, Upcoming
  <1>6. CASE CreateBuffers \/ Start \/ Stop \/ DisposeBuffers
    BY <1>6 DEF CreateBuffers, Start, Stop, DisposeBuffers
  <1> QED
    BY <1>1, <1>2, <1>3, <1>4, <1>5, <1>6 DEF Next, HostCalls

\* The conjunction of the four holds at first and is inductive.
LEMMA InitInv == Init => IInv
  <1> SUFFICES ASSUME Init PROVE IInv
    OBVIOUS
  <1>1. file.rate \in {0} \cup Rates /\ file.size \in Sizes
    BY ConfigType DEF Init
  <1>2. clientRate \in Rates
    BY <1>1, ConfigAssumption DEF Init, PinnedOr
  <1>3. TypeOK
    <2>1. changes \in 0 .. MaxChanges
      BY ConfigAssumption DEF Init
    <2> QED
      BY <1>1, <1>2, <2>1 DEF Init, TypeOK
  <1> QED
    BY <1>3 DEF Init, IInv, WatcherNeedsBuffers, GraphMatchesHost, OfferAccepted

LEMMA Invariance == Spec => []IInv
  <1>1. Init => IInv
    BY InitInv
  <1>2. IInv /\ [Next]_vars => IInv'
    BY TypeStep, WatcherStep, SizeStep, OfferStep DEF IInv
  <1> QED
    BY <1>1, <1>2, PTL DEF Spec

\* Every variable keeps its type.
THEOREM TypeCorrect == Spec => []TypeOK
  BY Invariance, PTL DEF IInv

\* While buffers exist the backend runs the graph with the size the host's
\* buffers were made for (CreateBuffers' calls of audio_set_buffer_size).
THEOREM SizesAgree == Spec => []GraphMatchesHost
  BY Invariance, PTL DEF IInv

\* A host that asks GetBufferSize after DisposeBuffers is not refused that
\* size by CreateBuffers: the look-ahead of the one is the commit of the other.
THEOREM OffersHold == Spec => []OfferAccepted
  BY Invariance, PTL DEF IInv

-----------------------------------------------------------------------------
(* What has been looked at is not forgotten.                                *)

\* The two steps that forget something: a wish for a reset is dropped because the
\* transport is stopped, and a new watcher's baseline is a file that is not in use.
Minded == ~ (Notify /\ DropsReset) /\ ~ (BaselineLoad /\ file # fields)

\* A reset is asked for, or will be at the end of the watcher's round.
Wished == resetAsked \/ (reset /\ watchPc \in {"default", "quantum", "notify"})

\* Every edit the watcher has looked at is in use, or is staged and a reset is
\* wished for, which makes CreateBuffers commit it.
EditsInSight ==
    watchPc \in {"wait", "default", "quantum", "notify"} /\ ~ unseen =>
        fields = file \/ (staged = file /\ Wished)

\* The quantum these buffers' watcher last asked to follow is what GetBufferSize
\* will offer, and a reset is wished for: it is asked for once, and not in vain.
QuantumInSight ==
    driverState # "Initialized" /\ lastReset # 0 => followerQuantum = lastReset /\ Wished

\* What the watcher compares with is what is staged, or in use if nothing is.
Compared ==
    /\ watchPc \in {"stat", "load"} => staged = None
    /\ watchPc \in {"wait", "reload", "default", "quantum", "notify"} => lastCfg = Upcoming
    /\ watchPc \in {"wait", "default", "quantum", "notify"} /\ ~ unseen => lastCfg = file

StagedWished == driverState # "Initialized" /\ staged # None => Wished

SightInv == TypeOK /\ WatcherNeedsBuffers /\ Compared /\ StagedWished /\ QuantumInSight

LEMMA ComparedStep == SightInv /\ [Next /\ Minded]_vars => Compared'
<1> SUFFICES ASSUME SightInv, [Next /\ Minded]_vars PROVE Compared'
  OBVIOUS
<1> USE DEF SightInv, Compared, Upcoming
<1>1. CASE World \/ Backend \/ UNCHANGED vars
  BY <1>1 DEF World, Save, DeviceQuantumChanges, GraphRateChanges, DefaultSwitched,
              Backend, ObserveQuantum, IoChanged, vars, worldVars, cfgVars, watchVars
<1>2. CASE Watcher
  <2>1. CASE BaselineStat \/ Poll \/ CheckDefault \/ CheckQuantum \/ Notify
    BY <2>1 DEF BaselineStat, Poll, CheckDefault, CheckQuantum, Notify, Goto, worldVars, cfgVars
  <2>2. CASE BaselineLoad
    <3>1. CASE Minded
      BY <2>2, <3>1 DEF BaselineLoad, Minded, Goto, worldVars, cfgVars
    <3>2. CASE UNCHANGED vars
      BY <1>1, <3>2
    <3> QED
      BY <3>1, <3>2
  <2>3. CASE Reload
    <3>1. file # None
      BY ConfigType DEF TypeOK, None, Mode
    <3> QED
      BY <2>3, <3>1 DEF Reload, Goto, worldVars
  <2> QED
    BY <1>2, <2>1, <2>2, <2>3 DEF Watcher
<1>3. CASE HostCalls
  BY <1>3 DEF HostCalls, GetBufferSize, CreateRefused, CreateFails, CreateBuffers, Start, Stop,
              DisposeBuffers, WatcherNeedsBuffers, ApplyPending, worldVars, cfgVars, watchVars
<1> QED
  BY <1>1, <1>2, <1>3 DEF Next

LEMMA WishedStep == SightInv /\ [Next /\ Minded]_vars => StagedWished' /\ QuantumInSight'
<1> SUFFICES ASSUME SightInv, [Next /\ Minded]_vars PROVE StagedWished' /\ QuantumInSight'
  OBVIOUS
<1> USE DEF SightInv, StagedWished, QuantumInSight, Wished
<1>1. CASE World \/ Backend \/ UNCHANGED vars
  BY <1>1 DEF World, Save, DeviceQuantumChanges, GraphRateChanges, DefaultSwitched,
              Backend, ObserveQuantum, IoChanged, vars, cfgVars, watchVars, hostVars
<1>2. CASE Watcher
  <2>1. CASE BaselineStat \/ BaselineLoad \/ Poll \/ CheckDefault
    BY <2>1 DEF BaselineStat, BaselineLoad, Poll, CheckDefault, Goto, cfgVars, hostVars
  <2>2. CASE Reload
    BY <2>2 DEF Reload, Goto, hostVars
  <2>3. CASE CheckQuantum
    BY <2>3 DEF CheckQuantum, NewQuantum, Goto, hostVars
  <2>4. CASE Notify
    <3>1. CASE Minded
      BY <2>4, <3>1 DEF Notify, Minded, DropsReset, Goto, cfgVars
    <3>2. CASE UNCHANGED vars
      BY <1>1, <3>2
    <3> QED
      BY <3>1, <3>2
  <2> QED
    BY <1>2, <2>1, <2>2, <2>3, <2>4 DEF Watcher
<1>3. CASE HostCalls
  BY <1>3 DEF HostCalls, GetBufferSize, CreateRefused, CreateFails, CreateBuffers, Start, Stop,
              DisposeBuffers, ApplyPending, cfgVars, watchVars, hostVars
<1> QED
  BY <1>1, <1>2, <1>3 DEF Next

LEMMA SightAlways == Spec /\ [][Minded]_vars => []SightInv
<1>1. Init => SightInv
  <2> SUFFICES ASSUME Init, TypeOK, WatcherNeedsBuffers PROVE SightInv
    BY InitInv DEF IInv
  <2> QED
    BY DEF Init, SightInv, Compared, StagedWished, QuantumInSight
<1>2. SightInv /\ [Next /\ Minded]_vars => StagedWished' /\ QuantumInSight' /\ Compared'
  BY ComparedStep, WishedStep
<1>3. IInv' /\ StagedWished' /\ QuantumInSight' /\ Compared' => SightInv'
  BY DEF SightInv, IInv
<1>4. [Next]_vars /\ [Minded]_vars => [Next /\ Minded]_vars
  OBVIOUS
<1> QED
  BY <1>1, <1>2, <1>3, <1>4, Invariance, PTL DEF Spec

\* An edit the watcher has looked at is in use or on its way into use, whatever
\* else changes meanwhile, unless a wish for a reset is dropped or a baseline is
\* taken of an edit not in use (asio.c:492 to 618; README.md:321 promises more).
THEOREM EditsKept == Spec /\ [][Minded]_vars => []EditsInSight
<1>1. SightInv => EditsInSight
  <2> SUFFICES ASSUME SightInv, watchPc \in {"wait", "default", "quantum", "notify"}, ~ unseen,
                      fields # file
               PROVE  staged = file /\ Wished
    BY DEF EditsInSight
  <2>1. driverState # "Initialized"
    BY DEF SightInv, WatcherNeedsBuffers
  <2>2. staged = file /\ staged # None
    BY DEF SightInv, Compared, Upcoming
  <2> QED
    BY <2>1, <2>2 DEF SightInv, StagedWished
<1> QED
  BY <1>1, SightAlways, PTL

\* A quantum the watcher asked to follow is on offer until the host has reset.
THEOREM QuantaKept == Spec /\ [][Minded]_vars => []QuantumInSight
<1>1. SightInv => QuantumInSight
  BY DEF SightInv
<1> QED
  BY <1>1, SightAlways, PTL
=============================================================================
