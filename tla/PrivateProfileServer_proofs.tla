-------------------- MODULE PrivateProfileServer_proofs --------------------
(***************************************************************************)
(* Proofs about PrivateProfileServer for every number of connection slots  *)
(* and every bound on what is in flight.                                   *)
(***************************************************************************)
EXTENDS PrivateProfileServer, SequenceTheorems, FiniteSetTheorems,
        WellFoundedInduction, TLAPS

LEMMA MessageKinds ==
  /\ \A t \in {"initializationComplete", "parametersComplete", "dataComplete",
               "setupFailed", "stateChanged", "commandFailed"} :
         Event(t) \in Messages /\ Event(t).type = t
  /\ \A p \in Peers : \A t \in {"connected", "disconnected"} :
         /\ PeerEvent(t, p) \in Messages
         /\ PeerEvent(t, p).type = t
         /\ PeerEvent(t, p).peer = p
  /\ \A p \in Peers : \A on \in BOOLEAN :
         /\ Writes(p, on) \in Messages
         /\ Writes(p, on).type = "cccdWritten"
         /\ Writes(p, on).peer = p
         /\ Writes(p, on).on = on
  /\ \A m \in Messages :
         m.type \in {"connected", "disconnected", "cccdWritten"} => m.peer \in Peers
  /\ \A m \in Messages : m.type = "cccdWritten" => m.on \in BOOLEAN
  BY DEF Messages, Event, PeerEvent, Writes

LEMMA RequestKinds ==
  /\ \A op \in {"setParameters", "setData", "start", "stop"} :
         [op |-> op] \in Requests
  /\ \A p \in Peers : [op |-> "disconnect", peer |-> p] \in Requests
  /\ \A r \in Requests : r.op = "disconnect" => r.peer \in Peers
  BY DEF Requests

LEMMA TakeMessageType ==
  ASSUME TypeOK, NEW t, TakeMessage(t)
  PROVE  /\ Head(mHostAppInputQueue) \in Messages
         /\ Head(mHostAppInputQueue).type = t
         /\ mHostAppInputQueue' \in Seq(Messages)
         /\ mAppEvent' \in BOOLEAN
  <1>1. mHostAppInputQueue \in Seq(Messages) /\ mHostAppInputQueue # <<>>
    BY DEF TypeOK, TakeMessage
  <1>2. QED
    BY <1>1, HeadTailProperties DEF TakeMessage

LEMMA RequestType ==
  ASSUME TypeOK, NEW op \in {"setParameters", "setData", "start", "stop"},
         Request(<<[op |-> op]>>)
  PROVE  commands' \in Seq(Requests)
  <1>1. commands \in Seq(Requests)
    BY DEF TypeOK
  <1>2. [op |-> op] \in Requests
    BY RequestKinds
  <1>3. <<[op |-> op]>> \in Seq(Requests)
    BY <1>2
  <1>4. commands \o <<[op |-> op]>> \in Seq(Requests)
    BY <1>1, <1>3, ConcatProperties
  <1>5. QED
    BY <1>1, <1>4 DEF Request

LEMMA ReportType ==
  ASSUME TypeOK, NEW m \in Messages, Report(m)
  PROVE  mHostAppInputQueue' \in Seq(Messages) /\ mAppEvent' \in BOOLEAN
  <1>1. mHostAppInputQueue \in Seq(Messages) /\ mAppEvent \in BOOLEAN
    BY DEF TypeOK
  <1>2. CASE mHostAppInputQueue' = Append(mHostAppInputQueue, m) /\ mAppEvent' = TRUE
    <2>1. Append(mHostAppInputQueue, m) \in Seq(Messages)
      BY <1>1, AppendProperties
    <2>2. QED
      BY <1>2, <2>1
  <1>3. CASE UNCHANGED inbox
    BY <1>1, <1>3 DEF inbox
  <1>4. QED
    BY <1>2, <1>3 DEF Report

LEMMA CarryType ==
  ASSUME TypeOK, NEW op, Carry(op)
  PROVE  /\ Head(commands) \in Requests
         /\ Head(commands).op = op
         /\ commands' \in Seq(Requests)
  <1>1. commands \in Seq(Requests) /\ commands # <<>>
    BY DEF TypeOK, Carry
  <1>2. QED
    BY <1>1, HeadTailProperties DEF Carry

\* The requests of a long key press, one for each slot of S.
LEMMA DisconnectType ==
  ASSUME NEW S \in SUBSET Peers, NEW requests \in DisconnectAll(S)
  PROVE  /\ requests \in Seq(Requests)
         /\ \A i \in 1 .. Len(requests) : requests[i].op = "disconnect"
  <1>1. IsFiniteSet(S) /\ Cardinality(S) \in Nat
    <2>1. 0 \in Int /\ gAppMaxConnections_c - 1 \in Int
      BY ServerAssumption
    <2>2. IsFiniteSet(Peers)
      BY <2>1, FS_Interval DEF Peers
    <2>3. QED
      BY <2>2, FS_Subset, FS_CardinalityType
  <1>2. PICK slot \in [1 .. Cardinality(S) -> S] :
            requests = [i \in 1 .. Cardinality(S) |->
                            [op |-> "disconnect", peer |-> slot[i]]]
    BY DEF DisconnectAll
  <1>3. \A i \in 1 .. Cardinality(S) :
            [op |-> "disconnect", peer |-> slot[i]] \in Requests
    BY RequestKinds
  <1>4. requests \in [1 .. Cardinality(S) -> Requests]
    BY <1>2, <1>3
  <1>5. requests \in Seq(Requests)
    BY <1>1, <1>4
  <1>6. Len(requests) = Cardinality(S)
    BY <1>1, <1>2
  <1>7. QED
    BY <1>2, <1>5, <1>6

-----------------------------------------------------------------------------
(* Type correctness: one lemma for the handlers, one for the callbacks of  *)
(* the timer task, one for the host and the clients.                       *)

LEMMA InitTypeOK == Init => TypeOK
  <1>1. 0 \in Peers
    BY ServerAssumption DEF Peers
  <1>2. Event("initializationComplete") \in Messages
    BY MessageKinds
  <1>3. <<Event("initializationComplete")>> \in Seq(Messages)
    BY <1>2
  <1>4. <<>> \in Seq(Requests)
    OBVIOUS
  <1>5. [advOn |-> FALSE, advType |-> "fast"]
            \in [advOn : BOOLEAN, advType : {"fast", "slow"}]
    OBVIOUS
  <1>6. SUFFICES ASSUME Init PROVE TypeOK
    OBVIOUS
  <1>7. /\ mHostAppInputQueue \in Seq(Messages) /\ commands \in Seq(Requests)
        /\ mAdvState \in [advOn : BOOLEAN, advType : {"fast", "slow"}]
    BY <1>3, <1>4, <1>5, <1>6 DEF Init
  <1>8. QED
    BY <1>1, <1>6, <1>7 DEF Init, TypeOK

LEMMA HandlersTypeOK ==
  ASSUME TypeOK, App_Thread
  PROVE  TypeOK'
  <1>1. CASE BleApp_Config
    <2>1. commands' \in Seq(Requests)
      BY <1>1, RequestType DEF BleApp_Config, BleApp_Advertise
    <2>2. mHostAppInputQueue' \in Seq(Messages) /\ mAppEvent' \in BOOLEAN
      BY <1>1, TakeMessageType DEF BleApp_Config
    <2>3. QED
      BY <1>1, <2>1, <2>2 DEF BleApp_Config, TypeOK, host
  <1>2. CASE ParametersSetupComplete \/ DataSetupComplete
    <2>1. commands' \in Seq(Requests)
      BY <1>2, RequestType DEF ParametersSetupComplete, DataSetupComplete
    <2>2. mHostAppInputQueue' \in Seq(Messages) /\ mAppEvent' \in BOOLEAN
      BY <1>2, TakeMessageType DEF ParametersSetupComplete, DataSetupComplete
    <2>3. QED
      BY <1>2, <2>1, <2>2
      DEF ParametersSetupComplete, DataSetupComplete, TypeOK, app, host
  <1>3. CASE Panic
    <2>1. mHostAppInputQueue' \in Seq(Messages) /\ mAppEvent' \in BOOLEAN
      BY <1>3, TakeMessageType DEF Panic
    <2>2. QED
      BY <1>3, <2>1 DEF Panic, TypeOK, app, host
  <1>4. CASE AdvertisingStateChanged
    <2>1. commands' \in Seq(Requests)
      BY <1>4, RequestType DEF AdvertisingStateChanged, BleApp_Advertise, TypeOK
    <2>2. mHostAppInputQueue' \in Seq(Messages) /\ mAppEvent' \in BOOLEAN
      BY <1>4, TakeMessageType DEF AdvertisingStateChanged
    <2>3. mAdvState' \in [advOn : BOOLEAN, advType : {"fast", "slow"}]
      BY <1>4 DEF AdvertisingStateChanged, TypeOK
    <2>4. running' \subseteq AppTimers
      BY <1>4 DEF AdvertisingStateChanged, TypeOK, AppTimers
    <2>5. QED
      BY <1>4, <2>1, <2>2, <2>3, <2>4 DEF AdvertisingStateChanged, TypeOK, host
  <1>5. CASE Connected
    <2>1. /\ Head(mHostAppInputQueue).peer \in Peers
          /\ mHostAppInputQueue' \in Seq(Messages) /\ mAppEvent' \in BOOLEAN
      BY <1>5, TakeMessageType, MessageKinds DEF Connected
    <2>2. mAdvState' \in [advOn : BOOLEAN, advType : {"fast", "slow"}]
      BY <1>5 DEF Connected, TypeOK
    <2>3. running' \subseteq AppTimers
      BY <1>5 DEF Connected, TimersOnConnect, TypeOK, AppTimers
    <2>4. QED
      BY <1>5, <2>1, <2>2, <2>3 DEF Connected, TypeOK, host, Bas_Subscribe,
                                               Qpp_Subscribe
  <1>6. CASE Disconnected
    <2>1. /\ Head(mHostAppInputQueue).peer \in Peers
          /\ mHostAppInputQueue' \in Seq(Messages) /\ mAppEvent' \in BOOLEAN
      BY <1>6, TakeMessageType, MessageKinds DEF Disconnected
    <2>2. mAdvState' \in [advOn : BOOLEAN, advType : {"fast", "slow"}]
      BY <1>6 DEF Disconnected, TypeOK, BleApp_Start
    <2>3. running' \subseteq AppTimers
      BY <1>6 DEF Disconnected, TimersOnDisconnect, TypeOK, AppTimers
    <2>4. commands' \in Seq(Requests)
      BY <1>6, RequestType DEF Disconnected, BleApp_Advertise, BleApp_Start
    <2>5. QED
      BY <1>6, <2>1, <2>2, <2>3, <2>4 DEF Disconnected, TypeOK, host, Bas_Unsubscribe,
                                               Qpp_Unsubscribe, ReleaseSlot
  <1>7. CASE CccdWritten
    <2>1. /\ Head(mHostAppInputQueue).peer \in Peers
          /\ mHostAppInputQueue' \in Seq(Messages) /\ mAppEvent' \in BOOLEAN
      BY <1>7, TakeMessageType, MessageKinds DEF CccdWritten
    <2>2. ntf_cfg' \subseteq Peers
      BY <1>7, <2>1 DEF CccdWritten, TypeOK
    <2>3. QED
      BY <1>7, <2>1, <2>2 DEF CccdWritten, TypeOK, host
  <1>8. QED
    BY <1>1, <1>2, <1>3, <1>4, <1>5, <1>6, <1>7 DEF App_Thread

LEMMA CallbacksTypeOK ==
  ASSUME TypeOK, PressPB1 \/ LongPB1 \/ AdvertisingTimerCallback
  PROVE  TypeOK'
  <1>1. CASE PressPB1
    <2>1. commands' \in Seq(Requests)
      BY <1>1, RequestType DEF PressPB1, BleApp_Advertise, BleApp_Start
    <2>2. mAdvState' \in [advOn : BOOLEAN, advType : {"fast", "slow"}]
      BY <1>1 DEF PressPB1, TypeOK, BleApp_Start
    <2>3. QED
      BY <1>1, <2>1, <2>2 DEF PressPB1, TypeOK, inbox, host
  <1>2. CASE LongPB1
    <2>1. PICK S \in SUBSET peers : \E requests \in DisconnectAll(S) :
              commands' = commands \o requests
      BY <1>2 DEF LongPB1
    <2>6. PICK requests \in DisconnectAll(S) : commands' = commands \o requests
      BY <2>1
    <2>2. S \in SUBSET Peers
      BY DEF TypeOK
    <2>3. requests \in Seq(Requests)
      BY <2>2, DisconnectType
    <2>4. commands' \in Seq(Requests)
      BY <2>6, <2>3, ConcatProperties DEF TypeOK
    <2>5. QED
      BY <1>2, <2>4 DEF LongPB1, TypeOK, app, inbox, host
  <1>3. CASE AdvertisingTimerCallback
    <2>1. commands' \in Seq(Requests)
      BY <1>3, RequestType DEF AdvertisingTimerCallback, Gap_StopAdvertising
    <2>2. mAdvState' \in [advOn : BOOLEAN, advType : {"fast", "slow"}]
      BY <1>3 DEF AdvertisingTimerCallback, TypeOK
    <2>3. mRestartAdv' \in BOOLEAN
      BY <1>3 DEF AdvertisingTimerCallback
    <2>4. QED
      BY <1>3, <2>1, <2>2, <2>3 DEF AdvertisingTimerCallback, TypeOK, inbox, host
  <1>4. QED
    BY <1>1, <1>2, <1>3

LEMMA HostTypeOK ==
  ASSUME TypeOK, HostTask \/ Client
  PROVE  TypeOK'
  <1>1. CASE HostSetsParameters
    <2>1. /\ Event("parametersComplete") \in Messages
          /\ Event("setupFailed") \in Messages
      BY MessageKinds
    <2>2. mHostAppInputQueue' \in Seq(Messages) /\ mAppEvent' \in BOOLEAN
      BY <1>1, <2>1, ReportType DEF HostSetsParameters, Refuse, TypeOK, inbox
    <2>3. commands' \in Seq(Requests)
      BY <1>1, CarryType DEF HostSetsParameters
    <2>4. QED
      BY <1>1, <2>2, <2>3 DEF HostSetsParameters, Refuse, TypeOK, app, host
  <1>2. CASE HostSetsData
    <2>1. Event("dataComplete") \in Messages
      BY MessageKinds
    <2>2. mHostAppInputQueue' \in Seq(Messages) /\ mAppEvent' \in BOOLEAN
      BY <1>2, <2>1, ReportType DEF HostSetsData
    <2>3. commands' \in Seq(Requests)
      BY <1>2, CarryType DEF HostSetsData
    <2>4. QED
      BY <1>2, <2>2, <2>3 DEF HostSetsData, TypeOK, app, host
  <1>3. CASE HostStarts \/ HostStops
    <2>1. /\ Event("stateChanged") \in Messages
          /\ Event("commandFailed") \in Messages
      BY MessageKinds
    <2>2. mHostAppInputQueue' \in Seq(Messages) /\ mAppEvent' \in BOOLEAN
      BY <1>3, <2>1, ReportType DEF HostStarts, HostStops, Refuse, TypeOK, inbox
    <2>3. commands' \in Seq(Requests)
      BY <1>3, CarryType DEF HostStarts, HostStops
    <2>4. hostAdv' \in BOOLEAN /\ UNCHANGED <<hostPeers, hostNtf>>
      BY <1>3 DEF HostStarts, HostStops, Refuse, TypeOK, host
    <2>5. QED
      BY <1>3, <2>2, <2>3, <2>4 DEF HostStarts, HostStops, TypeOK, app
  <1>4. ASSUME NEW p \in Peers, Leave(p), commands' \in Seq(Requests)
        PROVE  TypeOK'
    <2>1. PeerEvent("disconnected", p) \in Messages
      BY MessageKinds
    <2>2. mHostAppInputQueue' \in Seq(Messages) /\ mAppEvent' \in BOOLEAN
      BY <1>4, <2>1, ReportType DEF Leave
    <2>3. QED
      BY <1>4, <2>2 DEF Leave, TypeOK, app
  <1>5. CASE HostDisconnects
    <2>1. Head(commands) \in Requests /\ commands' \in Seq(Requests)
      BY <1>5, CarryType DEF HostDisconnects
    <2>2. Head(commands).peer \in Peers
      BY <1>5, <2>1, RequestKinds DEF HostDisconnects, Carry
    <2>3. CASE Head(commands).peer \in hostPeers
      BY <1>4, <1>5, <2>1, <2>2, <2>3 DEF HostDisconnects
    <2>4. CASE Head(commands).peer \notin hostPeers
      BY <1>5, <2>1, <2>4 DEF HostDisconnects, TypeOK, app, inbox, host
    <2>5. QED
      BY <2>3, <2>4
  <1>6. ASSUME NEW p \in Peers, ClientConnects(p)
        PROVE  TypeOK'
    <2>1. PeerEvent("connected", p) \in Messages
      BY MessageKinds
    <2>2. mHostAppInputQueue' \in Seq(Messages) /\ mAppEvent' \in BOOLEAN
      BY <1>6, <2>1, ReportType DEF ClientConnects
    <2>3. QED
      BY <1>6, <2>2 DEF ClientConnects, TypeOK, app
  <1>7. ASSUME NEW p \in Peers, ClientLeaves(p)
        PROVE  TypeOK'
    BY <1>4, <1>7 DEF ClientLeaves, TypeOK
  <1>8. ASSUME NEW p \in Peers, NEW on \in BOOLEAN, ClientWritesCccd(p, on)
        PROVE  TypeOK'
    <2>1. [type |-> "cccdWritten", peer |-> p, on |-> on] \in Messages
      BY MessageKinds DEF Writes
    <2>2. mHostAppInputQueue' \in Seq(Messages) /\ mAppEvent' \in BOOLEAN
      BY <1>8, <2>1, ReportType DEF ClientWritesCccd
    <2>3. hostNtf' \subseteq Peers
      BY <1>8 DEF ClientWritesCccd, TypeOK
    <2>4. QED
      BY <1>8, <2>2, <2>3 DEF ClientWritesCccd, TypeOK, app
  <1>9. QED
    BY <1>1, <1>2, <1>3, <1>5, <1>6, <1>7, <1>8 DEF HostTask, Client

LEMMA NextTypeOK == TypeOK /\ [Next]_vars => TypeOK'
  <1>1. SUFFICES ASSUME TypeOK, [Next]_vars PROVE TypeOK'
    OBVIOUS
  <1>2. CASE UNCHANGED vars
    BY <1>1, <1>2 DEF vars, app, inbox, host, TypeOK
  <1>3. CASE Next
    BY <1>1, <1>3, HandlersTypeOK, CallbacksTypeOK, HostTypeOK DEF Next
  <1>4. QED
    BY <1>1, <1>2, <1>3

\* Every variable of the server and of its environment keeps its type,
\* whatever is lost and in whatever order keys, clients and the host act.
THEOREM ServerTypeCorrect == Spec => []TypeOK
  BY InitTypeOK, NextTypeOK, PTL DEF Spec

-----------------------------------------------------------------------------
(* The start: until BleApp_Config has run, the queue holds nothing but the *)
(* message that triggers it, and the host has nothing to report.           *)

Boot ==
    \/ Configured
    \/ /\ mHostAppInputQueue = <<Event("initializationComplete")>>
       /\ peers = Peers /\ ntf_cfg = {} /\ running = {}
       /\ mAdvState.advOn = FALSE
       /\ hostAdv = FALSE /\ hostPeers = {} /\ hostNtf = {}
       /\ \A i \in 1 .. Len(commands) : commands[i].op = "disconnect"

LocalInv ==
    TypeOK /\ Boot /\ MessagesAreSignalled /\ TimersFollowPeers /\ SubscribersAreKnown

\* The host and the clients leave the application alone, and say at most one
\* thing to it.
LEMMA HostSteps ==
  ASSUME TypeOK, HostTask \/ Client
  PROVE  /\ UNCHANGED app
         /\ \/ UNCHANGED inbox
            \/ \E m \in Messages :
                  /\ m.type # "initializationComplete"
                  /\ mHostAppInputQueue' = Append(mHostAppInputQueue, m)
                  /\ mAppEvent' = TRUE
  <1> DEFINE Said == \/ UNCHANGED inbox
                     \/ \E m \in Messages :
                           /\ m.type # "initializationComplete"
                           /\ mHostAppInputQueue' = Append(mHostAppInputQueue, m)
                           /\ mAppEvent' = TRUE
  <1>1. ASSUME NEW m \in Messages, m.type # "initializationComplete", Report(m)
        PROVE  Said
    BY <1>1 DEF Report
  <1>2. \A t \in {"parametersComplete", "dataComplete", "setupFailed",
                  "stateChanged", "commandFailed"} : Report(Event(t)) => Said
    BY <1>1, MessageKinds
  <1>3. \A p \in Peers : \A t \in {"connected", "disconnected"} :
            Report(PeerEvent(t, p)) => Said
    BY <1>1, MessageKinds
  <1>4. \A p \in Peers : \A on \in BOOLEAN : Report(Writes(p, on)) => Said
    BY <1>1, MessageKinds
  <1>5. CASE HostSetsParameters \/ HostSetsData \/ HostStarts \/ HostStops
    <2>1. UNCHANGED app
      BY <1>5 DEF HostSetsParameters, HostSetsData, HostStarts, HostStops
    <2>2. Said
      BY <1>2, <1>5
      DEF HostSetsParameters, HostSetsData, HostStarts, HostStops, Refuse
    <2>3. QED
      BY <2>1, <2>2
  <1>6. ASSUME NEW p \in Peers, Leave(p)
        PROVE  UNCHANGED app /\ Said
    BY <1>3, <1>6 DEF Leave
  <1>7. CASE HostDisconnects
    <2>1. Head(commands).peer \in Peers
      BY <1>7, CarryType, RequestKinds DEF HostDisconnects
    <2>2. QED
      BY <1>6, <1>7, <2>1 DEF HostDisconnects
  <1>8. ASSUME NEW p \in Peers, ClientConnects(p) \/ ClientLeaves(p)
        PROVE  UNCHANGED app /\ Said
    BY <1>3, <1>6, <1>8 DEF ClientConnects, ClientLeaves
  <1>9. ASSUME NEW p \in Peers, NEW on \in BOOLEAN, ClientWritesCccd(p, on)
        PROVE  UNCHANGED app /\ Said
    BY <1>4, <1>9 DEF ClientWritesCccd, Writes
  <1>10. QED
    BY <1>5, <1>7, <1>8, <1>9 DEF HostTask, Client

LEMMA AppendKeepsConfigured ==
  ASSUME TypeOK, NEW m \in Messages, m.type # "initializationComplete",
         mHostAppInputQueue' = Append(mHostAppInputQueue, m)
  PROVE  /\ Configured' <=> Configured
         /\ mHostAppInputQueue' # <<>>
  <1>1. /\ mHostAppInputQueue \in Seq(Messages)
        /\ mHostAppInputQueue' \in Seq(Messages)
        /\ Len(mHostAppInputQueue') = Len(mHostAppInputQueue) + 1
        /\ \A i \in 1 .. Len(mHostAppInputQueue) :
              mHostAppInputQueue'[i] = mHostAppInputQueue[i]
        /\ mHostAppInputQueue'[Len(mHostAppInputQueue) + 1] = m
        /\ mHostAppInputQueue' # <<>>
    BY AppendProperties DEF TypeOK
  <1>2. /\ DOMAIN mHostAppInputQueue = 1 .. Len(mHostAppInputQueue)
        /\ DOMAIN mHostAppInputQueue' = 1 .. Len(mHostAppInputQueue')
        /\ Len(mHostAppInputQueue) \in Nat
    BY <1>1, LenProperties
  <1>3. QED
    BY <1>1, <1>2 DEF Configured, Pending

LEMMA TakeKeepsConfigured ==
  ASSUME TypeOK, NEW t, TakeMessage(t), Boot
  PROVE  Configured'
  <1>1. /\ mHostAppInputQueue \in Seq(Messages)
        /\ mHostAppInputQueue' \in Seq(Messages)
        /\ Len(mHostAppInputQueue') = Len(mHostAppInputQueue) - 1
        /\ \A i \in 1 .. Len(mHostAppInputQueue') :
              mHostAppInputQueue'[i] = mHostAppInputQueue[i + 1]
    BY HeadTailProperties DEF TypeOK, TakeMessage
  <1>2. /\ DOMAIN mHostAppInputQueue = 1 .. Len(mHostAppInputQueue)
        /\ DOMAIN mHostAppInputQueue' = 1 .. Len(mHostAppInputQueue')
        /\ Len(mHostAppInputQueue) \in Nat
    BY <1>1, LenProperties
  <1>3. CASE Configured
    BY <1>1, <1>2, <1>3 DEF Configured, Pending
  <1>4. CASE mHostAppInputQueue = <<Event("initializationComplete")>>
    <2>1. Len(mHostAppInputQueue) = 1
      BY <1>4
    <2>2. QED
      BY <1>1, <1>2, <2>1 DEF Configured, Pending
  <1>5. QED
    BY <1>3, <1>4 DEF Boot

\* Only BleApp_Config can run first.
LEMMA ConfigRunsFirst ==
  ASSUME TypeOK, Boot, ~Configured, NEW t, TakeMessage(t)
  PROVE  t = "initializationComplete"
  <1>1. mHostAppInputQueue = <<Event("initializationComplete")>>
    BY DEF Boot
  <1>2. Head(mHostAppInputQueue) = Event("initializationComplete")
    BY <1>1
  <1>3. QED
    BY <1>2, MessageKinds DEF TakeMessage

-----------------------------------------------------------------------------
(* What holds even when messages are lost: the signal of the task, and the *)
(* agreement of timers and battery subscribers with the slots.             *)

LEMMA InitLocalInv == Init => LocalInv
  <1>1. SUFFICES ASSUME Init PROVE LocalInv
    OBVIOUS
  <1>2. TypeOK
    BY <1>1, InitTypeOK
  <1>3. Boot
    BY <1>1 DEF Init, Boot
  <1>4. ~Configured
    <2>1. /\ DOMAIN mHostAppInputQueue = 1 .. 1
          /\ mHostAppInputQueue[1] = Event("initializationComplete")
      BY <1>1 DEF Init
    <2>2. QED
      BY <2>1, MessageKinds DEF Configured, Pending
  <1>5. QED
    BY <1>1, <1>2, <1>3, <1>4
    DEF LocalInv, Init, MessagesAreSignalled, TimersFollowPeers, SubscribersAreKnown

LEMMA HandlersLocal ==
  ASSUME LocalInv, App_Thread
  PROVE  Boot' /\ MessagesAreSignalled' /\ TimersFollowPeers' /\ SubscribersAreKnown'
  <1>1. PICK t : TakeMessage(t)
    BY DEF App_Thread, BleApp_Config, ParametersSetupComplete, DataSetupComplete,
           Panic, AdvertisingStateChanged, Connected, Disconnected, CccdWritten
  <1>2. Configured' /\ Boot'
    BY <1>1, TakeKeepsConfigured DEF LocalInv, Boot
  <1>3. MessagesAreSignalled'
    BY <1>1 DEF TakeMessage, MessagesAreSignalled
  <1>4. CASE BleApp_Config
    <2>1. running \cap {"battery", "qpps"} = {}
      <3>1. CASE Configured
        <4>1. mHostAppInputQueue \in Seq(Messages) /\ mHostAppInputQueue # <<>>
          BY <1>1 DEF LocalInv, TypeOK, TakeMessage
        <4>2. 1 \in DOMAIN mHostAppInputQueue
              /\ Head(mHostAppInputQueue) = mHostAppInputQueue[1]
          BY <4>1
        <4>3. QED
          BY <1>4, <3>1, <4>2 DEF BleApp_Config, TakeMessage, Configured, Pending
      <3>2. QED
        BY <3>1 DEF LocalInv, Boot
    <2>2. QED
      BY <1>2, <1>3, <1>4, <2>1
      DEF BleApp_Config, TimersFollowPeers, SubscribersAreKnown
  <1>5. CASE ~BleApp_Config
    <2>1. Configured
      <3>1. ASSUME ~Configured PROVE FALSE
        <4>1. \A u : TakeMessage(u) => u = "initializationComplete"
          BY <3>1, ConfigRunsFirst DEF LocalInv
        <4>2. QED
          BY <1>5, <4>1
          DEF App_Thread, ParametersSetupComplete, DataSetupComplete, Panic,
              AdvertisingStateChanged, Connected, Disconnected, CccdWritten
      <3>2. QED
        BY <3>1
    <2>2. /\ running \cap {"battery", "qpps"}
                = IF peers = {} THEN {} ELSE {"battery", "qpps"}
          /\ basValidClientList = peers
      BY <2>1 DEF LocalInv, TimersFollowPeers, SubscribersAreKnown
    <2>3. CASE ParametersSetupComplete \/ DataSetupComplete \/ Panic \/ CccdWritten
      BY <2>2, <2>3, <1>2, <1>3
      DEF ParametersSetupComplete, DataSetupComplete, Panic, CccdWritten, app,
          TimersFollowPeers, SubscribersAreKnown
    <2>4. CASE AdvertisingStateChanged
      <3>1. running' \cap {"battery", "qpps"} = running \cap {"battery", "qpps"}
            /\ UNCHANGED <<peers, basValidClientList>>
        BY <2>4 DEF AdvertisingStateChanged
      <3>2. QED
        BY <2>2, <3>1, <1>2, <1>3 DEF TimersFollowPeers, SubscribersAreKnown
    <2>5. CASE Connected
      <3>1. peers' # {} /\ basValidClientList' = peers'
        BY <2>2, <2>5 DEF Connected, Bas_Subscribe
      <3>2. running' \cap {"battery", "qpps"} = {"battery", "qpps"}
        BY <2>5 DEF Connected, TimersOnConnect
      <3>3. QED
        BY <3>1, <3>2, <1>2, <1>3 DEF TimersFollowPeers, SubscribersAreKnown
    <2>6. CASE Disconnected
      <3>1. basValidClientList' = peers' /\ peers' \subseteq peers
        BY <2>2, <2>6 DEF Disconnected, Bas_Unsubscribe, ReleaseSlot
      <3>2. running' \cap {"battery", "qpps"}
                = IF peers' = {} THEN {} ELSE {"battery", "qpps"}
        BY <2>2, <2>6, <3>1 DEF Disconnected, TimersOnDisconnect
      <3>3. QED
        BY <3>1, <3>2, <1>2, <1>3 DEF TimersFollowPeers, SubscribersAreKnown
    <2>7. QED
      BY <1>5, <2>3, <2>4, <2>5, <2>6 DEF App_Thread
  <1>6. QED
    BY <1>2, <1>3, <1>4, <1>5

LEMMA CallbacksLocal ==
  ASSUME LocalInv, PressPB1 \/ LongPB1 \/ AdvertisingTimerCallback
  PROVE  Boot' /\ MessagesAreSignalled' /\ TimersFollowPeers' /\ SubscribersAreKnown'
  <1>1. /\ UNCHANGED <<inbox, peers, basValidClientList, ntf_cfg, host>>
        /\ running' \cap {"battery", "qpps"} = running \cap {"battery", "qpps"}
    BY DEF PressPB1, LongPB1, AdvertisingTimerCallback, app
  <1>2. Configured' <=> Configured
    BY <1>1 DEF inbox, Configured, Pending
  <1>3. MessagesAreSignalled' /\ TimersFollowPeers' /\ SubscribersAreKnown'
    BY <1>1, <1>2
    DEF LocalInv, inbox, MessagesAreSignalled, TimersFollowPeers, SubscribersAreKnown
  <1>4. ASSUME ~Configured
        PROVE  /\ UNCHANGED <<running, mAdvState>>
               /\ \A i \in 1 .. Len(commands') : commands'[i].op = "disconnect"
    <2>1. peers = Peers /\ running = {}
          /\ \A i \in 1 .. Len(commands) : commands[i].op = "disconnect"
      BY <1>4 DEF LocalInv, Boot
    <2>2. LongPB1
      BY <2>1 DEF PressPB1, AdvertisingTimerCallback
    <2>3. PICK S \in SUBSET peers : \E requests \in DisconnectAll(S) :
              commands' = commands \o requests
      BY <2>2 DEF LongPB1
    <2>4. PICK requests \in DisconnectAll(S) : commands' = commands \o requests
      BY <2>3
    <2>5. /\ requests \in Seq(Requests)
          /\ \A i \in 1 .. Len(requests) : requests[i].op = "disconnect"
      BY <2>1, DisconnectType
    <2>6. commands \in Seq(Requests)
      BY DEF LocalInv, TypeOK
    <2>7. /\ Len(commands') = Len(commands) + Len(requests)
          /\ \A i \in 1 .. Len(commands) + Len(requests) :
                commands'[i] = IF i <= Len(commands) THEN commands[i]
                                                    ELSE requests[i - Len(commands)]
      BY <2>4, <2>5, <2>6, ConcatProperties
    <2>8. Len(commands) \in Nat /\ Len(requests) \in Nat
      BY <2>5, <2>6, LenProperties
    <2>9. \A i \in 1 .. Len(commands') : commands'[i].op = "disconnect"
      BY <2>1, <2>5, <2>7, <2>8
    <2>10. QED
      BY <2>2, <2>9 DEF LongPB1, app
  <1>5. Boot'
    BY <1>1, <1>2, <1>4 DEF LocalInv, Boot, inbox, host
  <1>6. QED
    BY <1>3, <1>5

LEMMA HostLocal ==
  ASSUME LocalInv, HostTask \/ Client
  PROVE  Boot' /\ MessagesAreSignalled' /\ TimersFollowPeers' /\ SubscribersAreKnown'
  <1>1. TypeOK
    BY DEF LocalInv
  <1>2. UNCHANGED app
    BY <1>1, HostSteps
  <1>3. (Configured' <=> Configured) /\ MessagesAreSignalled'
    <2>1. CASE UNCHANGED inbox
      BY <2>1 DEF inbox, Configured, Pending, LocalInv, MessagesAreSignalled
    <2>2. CASE ~UNCHANGED inbox
      <3>1. PICK m \in Messages :
                /\ m.type # "initializationComplete"
                /\ mHostAppInputQueue' = Append(mHostAppInputQueue, m)
                /\ mAppEvent' = TRUE
        BY <1>1, <2>2, HostSteps
      <3>2. QED
        BY <1>1, <3>1, AppendKeepsConfigured DEF MessagesAreSignalled
    <2>3. QED
      BY <2>1, <2>2
  <1>4. TimersFollowPeers' /\ SubscribersAreKnown'
    BY <1>2, <1>3 DEF LocalInv, app, TimersFollowPeers, SubscribersAreKnown
  <1>5. ASSUME ~Configured
        PROVE  /\ UNCHANGED <<inbox, host>>
               /\ \A i \in 1 .. Len(commands') : commands'[i].op = "disconnect"
    <2>1. /\ hostAdv = FALSE /\ hostPeers = {}
          /\ \A i \in 1 .. Len(commands) : commands[i].op = "disconnect"
      BY <1>5 DEF LocalInv, Boot
    <2>2. ~Client
      BY <2>1 DEF Client, ClientConnects, ClientLeaves, ClientWritesCccd
    <2>3. PICK op : Carry(op)
      BY <2>2 DEF HostTask, HostSetsParameters, HostSetsData, HostStarts, HostStops,
                  HostDisconnects
    <2>4. /\ commands \in Seq(Requests) /\ commands # <<>>
          /\ commands' = Tail(commands)
      BY <1>1, <2>3 DEF TypeOK, Carry
    <2>5. /\ Len(commands') = Len(commands) - 1
          /\ \A i \in 1 .. Len(commands') : commands'[i] = commands[i + 1]
      BY <2>4, HeadTailProperties
    <2>6. Len(commands) \in Nat \ {0}
      BY <2>4, EmptySeq
    <2>7. \A i \in 1 .. Len(commands') : commands'[i].op = "disconnect"
      BY <2>1, <2>5, <2>6
    <2>8. Head(commands).op = "disconnect"
      BY <2>1, <2>4, <2>6
    <2>9. HostDisconnects
      BY <2>2, <2>8 DEF HostTask, HostSetsParameters, HostSetsData, HostStarts,
                        HostStops, Carry
    <2>10. QED
      BY <2>1, <2>7, <2>9 DEF HostDisconnects
  <1>6. Boot'
    BY <1>2, <1>3, <1>5 DEF LocalInv, Boot, app, inbox, host
  <1>7. QED
    BY <1>3, <1>4, <1>6

LEMMA NextLocalInv == LocalInv /\ [Next]_vars => LocalInv'
  <1>1. SUFFICES ASSUME LocalInv, [Next]_vars PROVE LocalInv'
    OBVIOUS
  <1>2. TypeOK'
    BY <1>1, NextTypeOK DEF LocalInv
  <1>3. CASE Next
    BY <1>1, <1>2, <1>3, HandlersLocal, CallbacksLocal, HostLocal DEF Next, LocalInv
  <1>4. CASE UNCHANGED vars
    <2>1. UNCHANGED <<mHostAppInputQueue, mAppEvent, peers, ntf_cfg, running,
                      mAdvState, hostAdv, hostPeers, hostNtf, commands,
                      basValidClientList>>
      BY <1>4 DEF vars, app, inbox, host
    <2>2. Configured' <=> Configured
      BY <2>1 DEF Configured, Pending
    <2>3. Boot'
      BY <1>1, <2>1, <2>2 DEF LocalInv, Boot
    <2>4. MessagesAreSignalled' /\ TimersFollowPeers' /\ SubscribersAreKnown'
      BY <1>1, <2>1, <2>2
      DEF LocalInv, MessagesAreSignalled, TimersFollowPeers, SubscribersAreKnown
    <2>5. QED
      BY <1>2, <2>3, <2>4 DEF LocalInv
  <1>5. QED
    BY <1>1, <1>3, <1>4

\* App_Thread is never left asleep with messages in its queue.
THEOREM MessagesSignalled == Spec => []MessagesAreSignalled
  <1>1. LocalInv => MessagesAreSignalled
    BY DEF LocalInv
  <1>2. QED
    BY <1>1, InitLocalInv, NextLocalInv, PTL DEF Spec

\* The battery and sensor timers run exactly while a client is known, even
\* when messages of the host are lost.
THEOREM TimersFollow == Spec => []TimersFollowPeers
  <1>1. LocalInv => TimersFollowPeers
    BY DEF LocalInv
  <1>2. QED
    BY <1>1, InitLocalInv, NextLocalInv, PTL DEF Spec

\* The battery service serves exactly the known clients, even then.
THEOREM SubscribersKnown == Spec => []SubscribersAreKnown
  <1>1. LocalInv => SubscribersAreKnown
    BY DEF LocalInv
  <1>2. QED
    BY <1>1, InitLocalInv, NextLocalInv, PTL DEF Spec

-----------------------------------------------------------------------------
(***************************************************************************)
(* While no message is lost, the application is a replica of the host that *)
(* lags behind by its queue.  Every step is one of three: the application  *)
(* handles the first message and changes as that message says (Handles),   *)
(* the host changes and queues the message that says so (Reports), or      *)
(* neither side nor the queue changes (Quiet).  Each of the three keeps    *)
(* the slots, the notifications and advOn in agreement with the host.      *)
(***************************************************************************)
queue == mHostAppInputQueue

Handles ==
    /\ queue # <<>>
    /\ queue' = Tail(queue)
    /\ \A p \in Peers :
          /\ p \in peers' <=> Joins(p, Head(queue))
                              \/ (p \in peers /\ ~Leaves(p, Head(queue)))
          /\ p \in ntf_cfg' <=> TurnsOn(p, Head(queue))
                                \/ (p \in ntf_cfg /\ ~TurnsOff(p, Head(queue)))
    /\ mAdvState'.advOn =
          CASE Head(queue).type = "stateChanged" -> ~mAdvState.advOn
            [] Head(queue).type = "connected"    -> FALSE
            [] OTHER                             -> mAdvState.advOn
    /\ UNCHANGED host

Reports(m) ==
    /\ queue' = Append(queue, m)
    /\ \A p \in Peers :
          /\ p \in hostPeers' <=> Joins(p, m) \/ (p \in hostPeers /\ ~Leaves(p, m))
          /\ p \in hostNtf' <=> TurnsOn(p, m) \/ (p \in hostNtf /\ ~TurnsOff(p, m))
    /\ hostAdv' = CASE m.type = "stateChanged" -> ~hostAdv
                    [] m.type = "connected"    -> FALSE
                    [] OTHER                   -> hostAdv
    /\ UNCHANGED <<peers, ntf_cfg, mAdvState>>

Quiet ==
    /\ UNCHANGED <<queue, peers, ntf_cfg, host>>
    /\ mAdvState'.advOn = mAdvState.advOn

-----------------------------------------------------------------------------
\* What each kind of message says.

LEMMA WhatMessagesSay ==
  ASSUME NEW m \in Messages, NEW p \in Peers
  PROVE  /\ Joins(p, m) <=> m.type = "connected" /\ m.peer = p
         /\ Leaves(p, m) <=> m.type = "disconnected" /\ m.peer = p
         /\ TurnsOn(p, m) <=> m.type = "cccdWritten" /\ m.peer = p /\ m.on = TRUE
         /\ TurnsOff(p, m) <=> \/ m.type = "cccdWritten" /\ m.peer = p /\ m.on = FALSE
                               \/ m.type = "disconnected" /\ m.peer = p
  <1>1. CASE m \in [type : {"initializationComplete", "parametersComplete",
                            "dataComplete", "setupFailed", "stateChanged",
                            "commandFailed"}]
    BY <1>1 DEF Joins, Leaves, TurnsOn, TurnsOff, PeerEvent, Writes
  <1>2. CASE m \in [type : {"connected", "disconnected"}, peer : Peers]
    <2>1. m = [type |-> m.type, peer |-> m.peer]
      BY <1>2
    <2>2. QED
      BY <1>2, <2>1 DEF Joins, Leaves, TurnsOn, TurnsOff, PeerEvent, Writes
  <1>3. CASE m \in [type : {"cccdWritten"}, peer : Peers, on : BOOLEAN]
    <2>1. m = [type |-> m.type, peer |-> m.peer, on |-> m.on]
      BY <1>3
    <2>2. QED
      BY <1>3, <2>1 DEF Joins, Leaves, TurnsOn, TurnsOff, PeerEvent, Writes
  <1>4. QED
    BY <1>1, <1>2, <1>3 DEF Messages

-----------------------------------------------------------------------------
(* Every step is one of the three.                                         *)

LEMMA HandlersLockstep ==
  ASSUME TypeOK, App_Thread, ~BleApp_Config
  PROVE  Handles
  <1> DEFINE m == Head(queue)
  <1>1. PICK t : TakeMessage(t)
    BY DEF App_Thread, ParametersSetupComplete, DataSetupComplete, Panic,
           AdvertisingStateChanged, Connected, Disconnected, CccdWritten
  <1>2. m \in Messages /\ queue # <<>> /\ queue' = Tail(queue)
    BY <1>1, TakeMessageType DEF queue, TakeMessage
  <1>3. UNCHANGED host
    BY DEF App_Thread, ParametersSetupComplete, DataSetupComplete, Panic,
           AdvertisingStateChanged, Connected, Disconnected, CccdWritten
  <1>4. CASE ParametersSetupComplete \/ DataSetupComplete \/ Panic
    <2>1. m.type \notin {"connected", "disconnected", "cccdWritten", "stateChanged"}
      BY <1>4 DEF ParametersSetupComplete, DataSetupComplete, Panic, TakeMessage, queue
    <2>2. UNCHANGED <<peers, ntf_cfg, mAdvState>>
      BY <1>4 DEF ParametersSetupComplete, DataSetupComplete, Panic, app
    <2>3. QED
      BY <1>2, <1>3, <2>1, <2>2, WhatMessagesSay DEF Handles
  <1>5. CASE AdvertisingStateChanged
    <2>1. m.type = "stateChanged" /\ UNCHANGED <<peers, ntf_cfg>>
      BY <1>5 DEF AdvertisingStateChanged, TakeMessage, queue
    <2>2. mAdvState'.advOn = ~mAdvState.advOn
      BY <1>5 DEF AdvertisingStateChanged, TypeOK
    <2>3. QED
      BY <1>2, <1>3, <2>1, <2>2, WhatMessagesSay DEF Handles
  <1>6. CASE Connected
    <2>1. /\ m.type = "connected"
          /\ peers' = peers \cup {m.peer} /\ ntf_cfg' = ntf_cfg
      BY <1>6 DEF Connected, TakeMessage, queue
    <2>2. mAdvState'.advOn = FALSE
      BY <1>6 DEF Connected, TypeOK
    <2>3. QED
      BY <1>2, <1>3, <2>1, <2>2, WhatMessagesSay DEF Handles
  <1>7. CASE Disconnected
    <2>1. /\ m.type = "disconnected"
          /\ peers' = peers \ {m.peer} /\ ntf_cfg' = ntf_cfg \ {m.peer}
      BY <1>7 DEF Disconnected, TakeMessage, queue, ReleaseSlot
    <2>2. mAdvState'.advOn = mAdvState.advOn
      BY <1>7 DEF Disconnected, TypeOK, BleApp_Start
    <2>3. QED
      BY <1>2, <1>3, <2>1, <2>2, WhatMessagesSay DEF Handles
  <1>8. CASE CccdWritten
    <2>1. /\ m.type = "cccdWritten"
          /\ peers' = peers /\ mAdvState' = mAdvState
          /\ m.on => ntf_cfg' = ntf_cfg \cup {m.peer}
          /\ ~m.on => ntf_cfg' = ntf_cfg \ {m.peer}
      BY <1>8 DEF CccdWritten, TakeMessage, queue
    <2>2. m.on \in BOOLEAN
      BY <1>2, <2>1, MessageKinds
    <2>3. QED
      BY <1>2, <1>3, <2>1, <2>2, WhatMessagesSay DEF Handles
  <1>9. QED
    BY <1>4, <1>5, <1>6, <1>7, <1>8 DEF App_Thread

LEMMA CallbacksLockstep ==
  ASSUME TypeOK, PressPB1 \/ LongPB1 \/ AdvertisingTimerCallback
  PROVE  Quiet
  <1>1. UNCHANGED <<queue, peers, ntf_cfg, host>>
    BY DEF PressPB1, LongPB1, AdvertisingTimerCallback, app, inbox, queue
  <1>2. mAdvState'.advOn = mAdvState.advOn
    BY DEF PressPB1, LongPB1, AdvertisingTimerCallback, app, TypeOK, BleApp_Start
  <1>3. QED
    BY <1>1, <1>2 DEF Quiet

\* A message that no slot and no advertising state depends on.
LEMMA Remark ==
  ASSUME TypeOK, UNCHANGED <<app, host>>,
         NEW t \in {"parametersComplete", "dataComplete", "setupFailed", "commandFailed"},
         queue' = Append(queue, Event(t))
  PROVE  Reports(Event(t))
  <1>1. Event(t) \in Messages /\ Event(t).type = t
    BY MessageKinds
  <1>2. QED
    BY <1>1, WhatMessagesSay DEF Reports, app, host

LEMMA HostLockstep ==
  ASSUME TypeOK, ~CanRunOutOfMemory, HostTask \/ Client
  PROVE  Quiet \/ \E m \in Messages : m.type # "initializationComplete" /\ Reports(m)
  <1> DEFINE Said == \E m \in Messages : m.type # "initializationComplete" /\ Reports(m)
  <1>1. UNCHANGED app
    BY HostSteps
  <1>2. \A m : Report(m) => queue' = Append(queue, m)
    BY DEF Report, queue
  <1>3. ASSUME UNCHANGED <<inbox, host>> PROVE Quiet
    BY <1>1, <1>3 DEF Quiet, inbox, app, queue
  <1>4. ASSUME NEW t \in {"parametersComplete", "dataComplete", "setupFailed",
                         "commandFailed"},
               Report(Event(t)), UNCHANGED host
        PROVE  Said
    <2>1. Reports(Event(t))
      BY <1>1, <1>2, <1>4, Remark
    <2>2. QED
      BY <2>1, MessageKinds
  <1>5. ASSUME NEW p \in Peers, p \in hostPeers, Leave(p)
        PROVE  Said
    <2>1. /\ PeerEvent("disconnected", p) \in Messages
          /\ PeerEvent("disconnected", p).type = "disconnected"
          /\ PeerEvent("disconnected", p).peer = p
      BY MessageKinds
    <2>2. Reports(PeerEvent("disconnected", p))
      BY <1>1, <1>2, <1>5, <2>1, WhatMessagesSay DEF Leave, Reports, app
    <2>3. QED
      BY <2>1, <2>2
  <1>6. CASE HostSetsParameters \/ HostSetsData
    BY <1>3, <1>4, <1>6 DEF HostSetsParameters, HostSetsData, Refuse
  <1>7. CASE HostStarts \/ HostStops
    <2>1. ASSUME Report(Event("stateChanged")), hostAdv' = ~hostAdv,
                 UNCHANGED <<hostPeers, hostNtf>>
          PROVE  Said
      <3>1. /\ Event("stateChanged") \in Messages
            /\ Event("stateChanged").type = "stateChanged"
        BY MessageKinds
      <3>2. Reports(Event("stateChanged"))
        BY <1>1, <1>2, <2>1, <3>1, WhatMessagesSay DEF Reports, app
      <3>3. QED
        BY <3>1, <3>2
    <2>2. CASE Refuse("commandFailed")
      BY <1>3, <1>4, <2>2 DEF Refuse
    <2>3. CASE ~Refuse("commandFailed")
      BY <1>7, <2>1, <2>3 DEF HostStarts, HostStops, TypeOK
    <2>4. QED
      BY <2>2, <2>3
  <1>8. CASE HostDisconnects
    <2>1. Head(commands).peer \in Peers
      BY <1>8, CarryType, RequestKinds DEF HostDisconnects
    <2>2. QED
      BY <1>3, <1>5, <1>8, <2>1 DEF HostDisconnects
  <1>9. ASSUME NEW p \in Peers, ClientConnects(p)
        PROVE  Said
    <2>1. /\ PeerEvent("connected", p) \in Messages
          /\ PeerEvent("connected", p).type = "connected"
          /\ PeerEvent("connected", p).peer = p
      BY MessageKinds
    <2>2. Reports(PeerEvent("connected", p))
      BY <1>1, <1>2, <1>9, <2>1, WhatMessagesSay DEF ClientConnects, Reports, app
    <2>3. QED
      BY <2>1, <2>2
  <1>10. ASSUME NEW p \in Peers, ClientLeaves(p)
         PROVE  Said
    BY <1>5, <1>10 DEF ClientLeaves
  <1>11. ASSUME NEW p \in Peers, NEW on \in BOOLEAN, ClientWritesCccd(p, on)
         PROVE  Said
    <2>1. /\ Writes(p, on) \in Messages
          /\ Writes(p, on).type = "cccdWritten"
          /\ Writes(p, on).peer = p
          /\ Writes(p, on).on = on
      BY MessageKinds
    <2>2. Reports(Writes(p, on))
      BY <1>1, <1>2, <1>11, <2>1, WhatMessagesSay
      DEF ClientWritesCccd, Writes, Reports, app
    <2>3. QED
      BY <2>1, <2>2
  <1>12. QED
    BY <1>6, <1>7, <1>8, <1>9, <1>10, <1>11 DEF HostTask, Client

-----------------------------------------------------------------------------
(* The slots: handling a message moves the witness i of PeersCatchUp one   *)
(* place towards the front, queueing one adds a place at the end.          *)

LEMMA PeersHandled ==
  ASSUME TypeOK, Handles, NEW p \in Peers,
         p \in hostPeers <=>
             \E i \in 0 .. Len(queue) :
                 /\ IF i = 0 THEN p \in peers ELSE Joins(p, queue[i])
                 /\ \A j \in i + 1 .. Len(queue) : ~Leaves(p, queue[j])
  PROVE  p \in hostPeers' <=>
             \E i \in 0 .. Len(queue') :
                 /\ IF i = 0 THEN p \in peers' ELSE Joins(p, queue'[i])
                 /\ \A j \in i + 1 .. Len(queue') : ~Leaves(p, queue'[j])
  <1> DEFINE Old(i) == /\ IF i = 0 THEN p \in peers ELSE Joins(p, queue[i])
                       /\ \A j \in i + 1 .. Len(queue) : ~Leaves(p, queue[j])
             New(i) == /\ IF i = 0 THEN p \in peers' ELSE Joins(p, queue'[i])
                       /\ \A j \in i + 1 .. Len(queue') : ~Leaves(p, queue'[j])
  <1>1. PICK n \in Nat \ {0} : n = Len(queue)
    BY EmptySeq DEF Handles, TypeOK, queue
  <1>2. /\ Len(queue') = n - 1
        /\ \A i \in 1 .. n - 1 : queue'[i] = queue[i + 1]
        /\ Head(queue) = queue[1]
    BY <1>1, HeadTailProperties DEF Handles, TypeOK, queue
  <1>3. p \in peers' <=> Joins(p, queue[1]) \/ (p \in peers /\ ~Leaves(p, queue[1]))
    BY <1>2 DEF Handles
  <1>4. ASSUME NEW i \in 0 .. n, Old(i) PROVE \E k \in 0 .. n - 1 : New(k)
    <2>1. CASE i = 0
      <3>1. p \in peers'
        BY <1>1, <1>3, <1>4, <2>1
      <3>2. \A j \in 1 .. n - 1 : ~Leaves(p, queue'[j])
        BY <1>1, <1>2, <1>4, <2>1
      <3>3. New(0)
        BY <1>1, <1>2, <3>1, <3>2
      <3>4. 0 \in 0 .. n - 1
        OBVIOUS
      <3> HIDE DEF New
      <3>5. QED
        BY <3>3, <3>4
    <2>2. CASE i > 0
      <3>1. \A j \in i .. n - 1 : ~Leaves(p, queue'[j])
        BY <1>1, <1>2, <1>4, <2>2
      <3>2. IF i - 1 = 0 THEN p \in peers' ELSE Joins(p, queue'[i - 1])
        BY <1>2, <1>3, <1>4, <2>2
      <3>3. New(i - 1)
        BY <1>2, <2>2, <3>1, <3>2
      <3>4. i - 1 \in 0 .. n - 1
        BY <2>2
      <3> HIDE DEF New
      <3>5. QED
        BY <3>3, <3>4
    <2>3. QED
      BY <2>1, <2>2
  <1>5. ASSUME NEW i \in 0 .. n - 1, New(i) PROVE \E k \in 0 .. n : Old(k)
    <2>1. \A j \in i + 2 .. n : ~Leaves(p, queue[j])
      <3>1. SUFFICES ASSUME NEW j \in i + 2 .. n PROVE ~Leaves(p, queue[j])
        OBVIOUS
      <3>2. j - 1 \in i + 1 .. Len(queue') /\ queue'[j - 1] = queue[j]
        BY <1>2
      <3>3. QED
        BY <1>5, <3>2
    <2>2. CASE i = 0 /\ ~Joins(p, queue[1])
      <3>1. p \in peers /\ ~Leaves(p, queue[1])
        BY <1>3, <1>5, <2>2
      <3>2. Old(0)
        BY <1>1, <2>1, <2>2, <3>1
      <3>3. 0 \in 0 .. n
        OBVIOUS
      <3> HIDE DEF Old
      <3>4. QED
        BY <3>2, <3>3
    <2>3. CASE i > 0 \/ Joins(p, queue[1])
      <3>1. Joins(p, queue[i + 1])
        BY <1>2, <1>5, <2>3
      <3>2. Old(i + 1)
        BY <1>1, <2>1, <3>1
      <3>3. i + 1 \in 0 .. n
        OBVIOUS
      <3> HIDE DEF Old
      <3>4. QED
        BY <3>2, <3>3
    <2>4. QED
      BY <2>2, <2>3
  <1>6. hostPeers' = hostPeers
    BY DEF Handles, host
  <1>7. QED
    BY <1>1, <1>2, <1>4, <1>5, <1>6

LEMMA PeersReported ==
  ASSUME TypeOK, NEW m \in Messages, Reports(m), NEW p \in Peers,
         p \in hostPeers <=>
             \E i \in 0 .. Len(queue) :
                 /\ IF i = 0 THEN p \in peers ELSE Joins(p, queue[i])
                 /\ \A j \in i + 1 .. Len(queue) : ~Leaves(p, queue[j])
  PROVE  p \in hostPeers' <=>
             \E i \in 0 .. Len(queue') :
                 /\ IF i = 0 THEN p \in peers' ELSE Joins(p, queue'[i])
                 /\ \A j \in i + 1 .. Len(queue') : ~Leaves(p, queue'[j])
  <1> DEFINE Old(i) == /\ IF i = 0 THEN p \in peers ELSE Joins(p, queue[i])
                       /\ \A j \in i + 1 .. Len(queue) : ~Leaves(p, queue[j])
             New(i) == /\ IF i = 0 THEN p \in peers' ELSE Joins(p, queue'[i])
                       /\ \A j \in i + 1 .. Len(queue') : ~Leaves(p, queue'[j])
  <1>1. PICK n \in Nat : n = Len(queue)
    BY LenProperties DEF TypeOK, queue
  <1>2. /\ Len(queue') = n + 1
        /\ \A i \in 1 .. n : queue'[i] = queue[i]
        /\ queue'[n + 1] = m
    BY <1>1, AppendProperties DEF Reports, TypeOK, queue
  <1>3. /\ peers' = peers
        /\ p \in hostPeers' <=> Joins(p, m) \/ (p \in hostPeers /\ ~Leaves(p, m))
    BY DEF Reports
  <1>4. New(n + 1) <=> Joins(p, m)
    BY <1>1, <1>2
  <1>5. \A i \in 0 .. n : New(i) <=> Old(i) /\ ~Leaves(p, m)
    <2>1. SUFFICES ASSUME NEW i \in 0 .. n PROVE New(i) <=> Old(i) /\ ~Leaves(p, m)
      OBVIOUS
    <2>2. (IF i = 0 THEN p \in peers' ELSE Joins(p, queue'[i]))
              <=> (IF i = 0 THEN p \in peers ELSE Joins(p, queue[i]))
      BY <1>2, <1>3
    <2>3. (\A j \in i + 1 .. n + 1 : ~Leaves(p, queue'[j]))
              <=> (\A j \in i + 1 .. n : ~Leaves(p, queue[j])) /\ ~Leaves(p, m)
      BY <1>2
    <2>4. QED
      BY <1>1, <1>2, <2>2, <2>3
  <1>6. (\E i \in 0 .. n + 1 : New(i)) <=> New(n + 1) \/ \E i \in 0 .. n : New(i)
    <2>1. 0 .. n + 1 = (0 .. n) \cup {n + 1}
      BY <1>1
    <2>2. QED
      BY <2>1
  <1>7. QED
    BY <1>1, <1>2, <1>3, <1>4, <1>5, <1>6

(* The notifications, along the same line.                                 *)

LEMMA NotificationsHandled ==
  ASSUME TypeOK, Handles, NEW p \in Peers,
         p \in hostNtf <=>
             \E i \in 0 .. Len(queue) :
                 /\ IF i = 0 THEN p \in ntf_cfg ELSE TurnsOn(p, queue[i])
                 /\ \A j \in i + 1 .. Len(queue) : ~TurnsOff(p, queue[j])
  PROVE  p \in hostNtf' <=>
             \E i \in 0 .. Len(queue') :
                 /\ IF i = 0 THEN p \in ntf_cfg' ELSE TurnsOn(p, queue'[i])
                 /\ \A j \in i + 1 .. Len(queue') : ~TurnsOff(p, queue'[j])
  <1> DEFINE Old(i) == /\ IF i = 0 THEN p \in ntf_cfg ELSE TurnsOn(p, queue[i])
                       /\ \A j \in i + 1 .. Len(queue) : ~TurnsOff(p, queue[j])
             New(i) == /\ IF i = 0 THEN p \in ntf_cfg' ELSE TurnsOn(p, queue'[i])
                       /\ \A j \in i + 1 .. Len(queue') : ~TurnsOff(p, queue'[j])
  <1>1. PICK n \in Nat \ {0} : n = Len(queue)
    BY EmptySeq DEF Handles, TypeOK, queue
  <1>2. /\ Len(queue') = n - 1
        /\ \A i \in 1 .. n - 1 : queue'[i] = queue[i + 1]
        /\ Head(queue) = queue[1]
    BY <1>1, HeadTailProperties DEF Handles, TypeOK, queue
  <1>3. p \in ntf_cfg' <=> TurnsOn(p, queue[1]) \/ (p \in ntf_cfg /\ ~TurnsOff(p, queue[1]))
    BY <1>2 DEF Handles
  <1>4. ASSUME NEW i \in 0 .. n, Old(i) PROVE \E k \in 0 .. n - 1 : New(k)
    <2>1. CASE i = 0
      <3>1. p \in ntf_cfg'
        BY <1>1, <1>3, <1>4, <2>1
      <3>2. \A j \in 1 .. n - 1 : ~TurnsOff(p, queue'[j])
        BY <1>1, <1>2, <1>4, <2>1
      <3>3. New(0)
        BY <1>1, <1>2, <3>1, <3>2
      <3>4. 0 \in 0 .. n - 1
        OBVIOUS
      <3> HIDE DEF New
      <3>5. QED
        BY <3>3, <3>4
    <2>2. CASE i > 0
      <3>1. \A j \in i .. n - 1 : ~TurnsOff(p, queue'[j])
        BY <1>1, <1>2, <1>4, <2>2
      <3>2. IF i - 1 = 0 THEN p \in ntf_cfg' ELSE TurnsOn(p, queue'[i - 1])
        BY <1>2, <1>3, <1>4, <2>2
      <3>3. New(i - 1)
        BY <1>2, <2>2, <3>1, <3>2
      <3>4. i - 1 \in 0 .. n - 1
        BY <2>2
      <3> HIDE DEF New
      <3>5. QED
        BY <3>3, <3>4
    <2>3. QED
      BY <2>1, <2>2
  <1>5. ASSUME NEW i \in 0 .. n - 1, New(i) PROVE \E k \in 0 .. n : Old(k)
    <2>1. \A j \in i + 2 .. n : ~TurnsOff(p, queue[j])
      <3>1. SUFFICES ASSUME NEW j \in i + 2 .. n PROVE ~TurnsOff(p, queue[j])
        OBVIOUS
      <3>2. j - 1 \in i + 1 .. Len(queue') /\ queue'[j - 1] = queue[j]
        BY <1>2
      <3>3. QED
        BY <1>5, <3>2
    <2>2. CASE i = 0 /\ ~TurnsOn(p, queue[1])
      <3>1. p \in ntf_cfg /\ ~TurnsOff(p, queue[1])
        BY <1>3, <1>5, <2>2
      <3>2. Old(0)
        BY <1>1, <2>1, <2>2, <3>1
      <3>3. 0 \in 0 .. n
        OBVIOUS
      <3> HIDE DEF Old
      <3>4. QED
        BY <3>2, <3>3
    <2>3. CASE i > 0 \/ TurnsOn(p, queue[1])
      <3>1. TurnsOn(p, queue[i + 1])
        BY <1>2, <1>5, <2>3
      <3>2. Old(i + 1)
        BY <1>1, <2>1, <3>1
      <3>3. i + 1 \in 0 .. n
        OBVIOUS
      <3> HIDE DEF Old
      <3>4. QED
        BY <3>2, <3>3
    <2>4. QED
      BY <2>2, <2>3
  <1>6. hostNtf' = hostNtf
    BY DEF Handles, host
  <1>7. QED
    BY <1>1, <1>2, <1>4, <1>5, <1>6

LEMMA NotificationsReported ==
  ASSUME TypeOK, NEW m \in Messages, Reports(m), NEW p \in Peers,
         p \in hostNtf <=>
             \E i \in 0 .. Len(queue) :
                 /\ IF i = 0 THEN p \in ntf_cfg ELSE TurnsOn(p, queue[i])
                 /\ \A j \in i + 1 .. Len(queue) : ~TurnsOff(p, queue[j])
  PROVE  p \in hostNtf' <=>
             \E i \in 0 .. Len(queue') :
                 /\ IF i = 0 THEN p \in ntf_cfg' ELSE TurnsOn(p, queue'[i])
                 /\ \A j \in i + 1 .. Len(queue') : ~TurnsOff(p, queue'[j])
  <1> DEFINE Old(i) == /\ IF i = 0 THEN p \in ntf_cfg ELSE TurnsOn(p, queue[i])
                       /\ \A j \in i + 1 .. Len(queue) : ~TurnsOff(p, queue[j])
             New(i) == /\ IF i = 0 THEN p \in ntf_cfg' ELSE TurnsOn(p, queue'[i])
                       /\ \A j \in i + 1 .. Len(queue') : ~TurnsOff(p, queue'[j])
  <1>1. PICK n \in Nat : n = Len(queue)
    BY LenProperties DEF TypeOK, queue
  <1>2. /\ Len(queue') = n + 1
        /\ \A i \in 1 .. n : queue'[i] = queue[i]
        /\ queue'[n + 1] = m
    BY <1>1, AppendProperties DEF Reports, TypeOK, queue
  <1>3. /\ ntf_cfg' = ntf_cfg
        /\ p \in hostNtf' <=> TurnsOn(p, m) \/ (p \in hostNtf /\ ~TurnsOff(p, m))
    BY DEF Reports
  <1>4. New(n + 1) <=> TurnsOn(p, m)
    BY <1>1, <1>2
  <1>5. \A i \in 0 .. n : New(i) <=> Old(i) /\ ~TurnsOff(p, m)
    <2>1. SUFFICES ASSUME NEW i \in 0 .. n PROVE New(i) <=> Old(i) /\ ~TurnsOff(p, m)
      OBVIOUS
    <2>2. (IF i = 0 THEN p \in ntf_cfg' ELSE TurnsOn(p, queue'[i]))
              <=> (IF i = 0 THEN p \in ntf_cfg ELSE TurnsOn(p, queue[i]))
      BY <1>2, <1>3
    <2>3. (\A j \in i + 1 .. n + 1 : ~TurnsOff(p, queue'[j]))
              <=> (\A j \in i + 1 .. n : ~TurnsOff(p, queue[j])) /\ ~TurnsOff(p, m)
      BY <1>2
    <2>4. QED
      BY <1>1, <1>2, <2>2, <2>3
  <1>6. (\E i \in 0 .. n + 1 : New(i)) <=> New(n + 1) \/ \E i \in 0 .. n : New(i)
    <2>1. 0 .. n + 1 = (0 .. n) \cup {n + 1}
      BY <1>1
    <2>2. QED
      BY <2>1
  <1>7. QED
    BY <1>1, <1>2, <1>3, <1>4, <1>5, <1>6

-----------------------------------------------------------------------------
(* The advertising state: the sequence of values loses its first element   *)
(* when a message is handled and gains one when a message is queued.       *)

LEMMA AdvOnHandled ==
  ASSUME TypeOK, Handles, AdvOnCatchesUp
  PROVE  AdvOnCatchesUp'
  <1>1. PICK n \in Nat \ {0} : n = Len(queue)
    BY EmptySeq DEF Handles, TypeOK, queue
  <1>2. /\ Len(queue') = n - 1
        /\ \A i \in 1 .. n - 1 : queue'[i] = queue[i + 1]
        /\ Head(queue) = queue[1]
    BY <1>1, HeadTailProperties DEF Handles, TypeOK, queue
  <1>3. PICK on \in [0 .. n -> BOOLEAN] :
            /\ on[0] = mAdvState.advOn
            /\ on[n] = hostAdv
            /\ \A i \in 1 .. n :
                   on[i] = CASE queue[i].type = "stateChanged" -> ~on[i-1]
                             [] queue[i].type = "connected"    -> FALSE
                             [] OTHER                          -> on[i-1]
    BY <1>1 DEF AdvOnCatchesUp, queue
  <1> DEFINE rest == [i \in 0 .. n - 1 |-> on[i + 1]]
  <1>4. rest \in [0 .. n - 1 -> BOOLEAN]
    <2>1. SUFFICES ASSUME NEW i \in 0 .. n - 1 PROVE on[i + 1] \in BOOLEAN
      OBVIOUS
    <2>2. i + 1 \in 0 .. n
      OBVIOUS
    <2>3. QED
      BY <2>2
  <1>5. rest[0] = mAdvState'.advOn
    <2>1. /\ 1 \in 1 .. n /\ 1 - 1 = 0 /\ 0 \in 0 .. n - 1 /\ 0 + 1 = 1
      OBVIOUS
    <2>2. on[1] = CASE queue[1].type = "stateChanged" -> ~on[0]
                    [] queue[1].type = "connected"    -> FALSE
                    [] OTHER                          -> on[0]
      BY <1>3, <2>1
    <2>3. on[1] = mAdvState'.advOn
      BY <1>2, <1>3, <2>2 DEF Handles
    <2>4. rest[0] = on[1]
      BY <2>1
    <2>5. QED
      BY <2>3, <2>4
  <1>6. rest[n - 1] = hostAdv'
    <2>1. n - 1 \in 0 .. n - 1 /\ (n - 1) + 1 = n
      OBVIOUS
    <2>2. rest[n - 1] = on[n]
      BY <2>1
    <2>3. QED
      BY <1>3, <2>2 DEF Handles, host
  <1>7. ASSUME NEW i \in 1 .. n - 1
        PROVE  rest[i] = CASE queue'[i].type = "stateChanged" -> ~rest[i-1]
                           [] queue'[i].type = "connected"    -> FALSE
                           [] OTHER                           -> rest[i-1]
    <2>1. /\ i + 1 \in 1 .. n /\ (i + 1) - 1 = i
          /\ i \in 0 .. n - 1 /\ i - 1 \in 0 .. n - 1 /\ (i - 1) + 1 = i
      OBVIOUS
    <2>2. rest[i] = on[i + 1] /\ rest[i - 1] = on[i] /\ queue'[i] = queue[i + 1]
      BY <1>2, <2>1
    <2>3. on[i + 1] = CASE queue[i + 1].type = "stateChanged" -> ~on[i]
                        [] queue[i + 1].type = "connected"    -> FALSE
                        [] OTHER                              -> on[i]
      BY <1>3, <2>1
    <2>4. QED
      BY <2>2, <2>3
  <1>8. QED
    <2>1. Len(mHostAppInputQueue') = n - 1 /\ queue' = mHostAppInputQueue'
      BY <1>2 DEF queue
    <2> HIDE DEF rest
    <2>2. \E f \in [0 .. n - 1 -> BOOLEAN] :
             /\ f[0] = mAdvState'.advOn
             /\ f[n - 1] = hostAdv'
             /\ \A i \in 1 .. n - 1 :
                    f[i] = CASE queue'[i].type = "stateChanged" -> ~f[i-1]
                             [] queue'[i].type = "connected"    -> FALSE
                             [] OTHER                           -> f[i-1]
      BY <1>4, <1>5, <1>6, <1>7
    <2>3. QED
      BY <2>1, <2>2 DEF AdvOnCatchesUp

LEMMA AdvOnReported ==
  ASSUME TypeOK, NEW m \in Messages, Reports(m), AdvOnCatchesUp
  PROVE  AdvOnCatchesUp'
  <1>1. PICK n \in Nat : n = Len(queue)
    BY LenProperties DEF TypeOK, queue
  <1>2. /\ Len(queue') = n + 1
        /\ \A i \in 1 .. n : queue'[i] = queue[i]
        /\ queue'[n + 1] = m
    BY <1>1, AppendProperties DEF Reports, TypeOK, queue
  <1>3. PICK on \in [0 .. n -> BOOLEAN] :
            /\ on[0] = mAdvState.advOn
            /\ on[n] = hostAdv
            /\ \A i \in 1 .. n :
                   on[i] = CASE queue[i].type = "stateChanged" -> ~on[i-1]
                             [] queue[i].type = "connected"    -> FALSE
                             [] OTHER                          -> on[i-1]
    BY <1>1 DEF AdvOnCatchesUp, queue
  <1> DEFINE more == [i \in 0 .. n + 1 |-> IF i = n + 1 THEN hostAdv' ELSE on[i]]
  <1>4. hostAdv' = CASE m.type = "stateChanged" -> ~hostAdv
                     [] m.type = "connected"    -> FALSE
                     [] OTHER                   -> hostAdv
    BY DEF Reports
  <1>5. hostAdv' \in BOOLEAN
    BY <1>4 DEF TypeOK
  <1>6. more \in [0 .. n + 1 -> BOOLEAN]
    <2>1. SUFFICES ASSUME NEW i \in 0 .. n + 1, i # n + 1 PROVE on[i] \in BOOLEAN
      BY <1>5
    <2>2. i \in 0 .. n
      BY <2>1
    <2>3. QED
      BY <2>2
  <1>7. more[0] = mAdvState'.advOn
    <2>1. 0 \in 0 .. n + 1 /\ 0 # n + 1
      OBVIOUS
    <2>2. more[0] = on[0]
      BY <2>1
    <2>3. QED
      BY <1>3, <2>2 DEF Reports
  <1>8. more[n + 1] = hostAdv'
    <2>1. n + 1 \in 0 .. n + 1
      OBVIOUS
    <2>2. QED
      BY <2>1
  <1>9. ASSUME NEW i \in 1 .. n + 1
        PROVE  more[i] = CASE queue'[i].type = "stateChanged" -> ~more[i-1]
                           [] queue'[i].type = "connected"    -> FALSE
                           [] OTHER                           -> more[i-1]
    <2>1. i - 1 \in 0 .. n + 1 /\ i - 1 # n + 1 /\ i \in 0 .. n + 1
      OBVIOUS
    <2>2. more[i - 1] = on[i - 1]
      BY <2>1
    <2>3. CASE i = n + 1
      <3>1. more[i - 1] = hostAdv /\ more[i] = hostAdv' /\ queue'[i] = m
        <4>1. i - 1 = n
          BY <2>3
        <4>2. QED
          BY <1>2, <1>3, <1>8, <2>2, <2>3, <4>1
      <3>2. QED
        BY <1>4, <3>1
    <2>4. CASE i # n + 1
      <3>1. i \in 1 .. n
        BY <2>4
      <3>2. more[i] = on[i] /\ queue'[i] = queue[i]
        BY <1>2, <2>1, <2>4, <3>1
      <3>3. QED
        BY <1>3, <2>2, <3>1, <3>2
    <2>5. QED
      BY <2>3, <2>4
  <1>10. QED
    <2>1. Len(mHostAppInputQueue') = n + 1 /\ queue' = mHostAppInputQueue'
      BY <1>2 DEF queue
    <2> HIDE DEF more
    <2>2. \E f \in [0 .. n + 1 -> BOOLEAN] :
             /\ f[0] = mAdvState'.advOn
             /\ f[n + 1] = hostAdv'
             /\ \A i \in 1 .. n + 1 :
                    f[i] = CASE queue'[i].type = "stateChanged" -> ~f[i-1]
                             [] queue'[i].type = "connected"    -> FALSE
                             [] OTHER                           -> f[i-1]
      BY <1>6, <1>7, <1>8, <1>9
    <2>3. QED
      BY <2>1, <2>2 DEF AdvOnCatchesUp

-----------------------------------------------------------------------------
(* The start, and the three kinds of step together.                        *)

Agree == PeersCatchUp /\ NotificationsCatchUp /\ AdvOnCatchesUp
ReplicaInv == LocalInv /\ Agree

\* With an empty queue the application must already agree with the host.
LEMMA AgreeWhenEmpty ==
  ASSUME mHostAppInputQueue' = <<>>, peers' = hostPeers', ntf_cfg' = hostNtf',
         mAdvState'.advOn = hostAdv', hostAdv' \in BOOLEAN
  PROVE  Agree'
  <1>1. Len(mHostAppInputQueue') = 0
    OBVIOUS
  <1>2. PeersCatchUp' /\ NotificationsCatchUp'
    BY <1>1 DEF PeersCatchUp, NotificationsCatchUp
  <1>3. AdvOnCatchesUp'
    <2> DEFINE only == [i \in 0 .. 0 |-> hostAdv']
    <2>1. only \in [0 .. 0 -> BOOLEAN] /\ only[0] = hostAdv'
      OBVIOUS
    <2>2. \A i \in 1 .. 0 : FALSE
      OBVIOUS
    <2> HIDE DEF only
    <2>3. QED
      BY <1>1, <2>1, <2>2 DEF AdvOnCatchesUp
  <1>4. QED
    BY <1>2, <1>3 DEF Agree

LEMMA ConfigAgrees ==
  ASSUME LocalInv, BleApp_Config
  PROVE  Agree'
  <1>1. mHostAppInputQueue \in Seq(Messages) /\ mHostAppInputQueue # <<>>
    BY DEF LocalInv, TypeOK, BleApp_Config, TakeMessage
  <1>2. Pending("initializationComplete")
    <2>1. /\ 1 \in DOMAIN mHostAppInputQueue
          /\ mHostAppInputQueue[1] = Head(mHostAppInputQueue)
      BY <1>1, EmptySeq, HeadTailProperties, LenProperties
    <2>2. QED
      BY <2>1 DEF Pending, BleApp_Config, TakeMessage
  <1>3. /\ mHostAppInputQueue = <<Event("initializationComplete")>>
        /\ hostAdv = FALSE /\ hostPeers = {} /\ hostNtf = {} /\ ntf_cfg = {}
    BY <1>2 DEF LocalInv, Boot, Configured
  <1>4. mHostAppInputQueue' = <<>>
    BY <1>3 DEF BleApp_Config, TakeMessage
  <1>5. mAdvState'.advOn = FALSE
    BY DEF BleApp_Config
  <1>6. QED
    BY <1>3, <1>4, <1>5, AgreeWhenEmpty DEF BleApp_Config, host

LEMMA InitReplicaInv == Init => ReplicaInv
  <1>1. SUFFICES ASSUME Init PROVE ReplicaInv
    OBVIOUS
  <1>2. LocalInv
    BY <1>1, InitLocalInv
  <1>3. /\ Len(mHostAppInputQueue) = 1
        /\ mHostAppInputQueue[1] = Event("initializationComplete")
    BY <1>1 DEF Init
  <1>4. ~Configured
    <2>1. 1 \in DOMAIN mHostAppInputQueue
      BY <1>1 DEF Init
    <2>2. Event("initializationComplete").type = "initializationComplete"
      BY DEF Event
    <2>3. QED
      BY <1>3, <2>1, <2>2 DEF Configured, Pending
  <1>5. AdvOnCatchesUp
    <2> DEFINE off == [i \in 0 .. 1 |-> FALSE]
    <2>1. off \in [0 .. 1 -> BOOLEAN] /\ off[0] = FALSE /\ off[1] = FALSE
      OBVIOUS
    <2>2. mHostAppInputQueue[1].type = "initializationComplete"
      BY <1>3 DEF Event
    <2>3. mAdvState.advOn = FALSE /\ hostAdv = FALSE
      BY <1>1 DEF Init
    <2>4. ASSUME NEW i \in 1 .. 1
          PROVE  off[i] = CASE mHostAppInputQueue[i].type = "stateChanged" -> ~off[i-1]
                            [] mHostAppInputQueue[i].type = "connected"    -> FALSE
                            [] OTHER                                       -> off[i-1]
      <3>1. i = 1 /\ i - 1 = 0
        OBVIOUS
      <3> HIDE DEF off
      <3>2. QED
        BY <2>1, <2>2, <3>1
    <2> HIDE DEF off
    <2>5. QED
      BY <1>3, <2>1, <2>3, <2>4 DEF AdvOnCatchesUp
  <1>6. QED
    BY <1>2, <1>4, <1>5 DEF ReplicaInv, Agree, PeersCatchUp, NotificationsCatchUp

LEMMA QuietAgrees ==
  ASSUME Agree, Quiet
  PROVE  Agree'
  <1>1. UNCHANGED <<mHostAppInputQueue, peers, ntf_cfg, hostAdv, hostPeers, hostNtf>>
        /\ mAdvState'.advOn = mAdvState.advOn
    BY DEF Quiet, queue, host
  <1>2. Configured' <=> Configured
    BY <1>1 DEF Configured, Pending
  <1>3. PeersCatchUp' /\ NotificationsCatchUp'
    BY <1>1, <1>2 DEF Agree, PeersCatchUp, NotificationsCatchUp
  <1>4. AdvOnCatchesUp'
    BY <1>1 DEF Agree, AdvOnCatchesUp
  <1>5. QED
    BY <1>3, <1>4 DEF Agree

LEMMA HandlesAgrees ==
  ASSUME TypeOK, Agree, Configured, Handles
  PROVE  Agree'
  <1>1. PeersCatchUp'
    BY PeersHandled DEF Agree, PeersCatchUp, queue
  <1>2. NotificationsCatchUp'
    BY NotificationsHandled DEF Agree, NotificationsCatchUp, queue
  <1>3. QED
    BY <1>1, <1>2, AdvOnHandled DEF Agree

LEMMA ReportsAgrees ==
  ASSUME TypeOK, Agree, NEW m \in Messages, m.type # "initializationComplete",
         Reports(m)
  PROVE  Agree'
  <1>1. Configured' <=> Configured
    BY AppendKeepsConfigured DEF Reports, queue
  <1>2. PeersCatchUp'
    BY <1>1, PeersReported DEF Agree, PeersCatchUp, queue
  <1>3. NotificationsCatchUp'
    BY <1>1, NotificationsReported DEF Agree, NotificationsCatchUp, queue
  <1>4. QED
    BY <1>2, <1>3, AdvOnReported DEF Agree

LEMMA NextReplicaInv ==
  ASSUME ~CanRunOutOfMemory, ReplicaInv, [Next]_vars
  PROVE  ReplicaInv'
  <1>1. LocalInv' /\ LocalInv /\ TypeOK /\ Agree
    BY NextLocalInv DEF ReplicaInv, LocalInv
  <1>2. CASE App_Thread
    <2>1. CASE BleApp_Config
      BY <1>1, <2>1, ConfigAgrees DEF ReplicaInv
    <2>2. CASE ~BleApp_Config
      <3>1. PICK t : TakeMessage(t) /\ t # "initializationComplete"
        BY <1>2, <2>2 DEF App_Thread, ParametersSetupComplete, DataSetupComplete,
           Panic, AdvertisingStateChanged, Connected, Disconnected, CccdWritten
      <3>2. Configured
        BY <1>1, <3>1, ConfigRunsFirst DEF LocalInv
      <3>3. QED
        BY <1>1, <1>2, <2>2, <3>2, HandlersLockstep, HandlesAgrees DEF ReplicaInv
    <2>3. QED
      BY <2>1, <2>2
  <1>3. CASE PressPB1 \/ LongPB1 \/ AdvertisingTimerCallback
    BY <1>1, <1>3, CallbacksLockstep, QuietAgrees DEF ReplicaInv
  <1>4. CASE HostTask \/ Client
    BY <1>1, <1>4, HostLockstep, QuietAgrees, ReportsAgrees DEF ReplicaInv
  <1>5. CASE UNCHANGED vars
    <2>1. Quiet
      BY <1>5 DEF vars, app, inbox, host, Quiet, queue
    <2>2. QED
      BY <1>1, <2>1, QuietAgrees DEF ReplicaInv
  <1>6. QED
    BY <1>2, <1>3, <1>4, <1>5 DEF Next

LEMMA ReplicaInvariant ==
  ASSUME ~CanRunOutOfMemory
  PROVE  Spec => []ReplicaInv
  <1>1. ReplicaInv /\ [Next]_vars => ReplicaInv'
    BY NextReplicaInv
  <1>2. QED
    BY <1>1, InitReplicaInv, PTL DEF Spec

-----------------------------------------------------------------------------

\* Whatever the order of connections and disconnections, the slot table
\* agrees with the host once the queued messages are handled, provided that
\* no message is lost for want of memory.
THEOREM SlotsCatchUp == ~CanRunOutOfMemory => (Spec => []PeersCatchUp)
  <1>1. SUFFICES ASSUME ~CanRunOutOfMemory PROVE Spec => []PeersCatchUp
    OBVIOUS
  <1>2. ReplicaInv => PeersCatchUp
    BY DEF ReplicaInv, Agree
  <1>3. Spec => []ReplicaInv
    BY <1>1, ReplicaInvariant
  <1>4. QED
    BY <1>2, <1>3, PTL

\* Under the same proviso, a slot's notifications are those its present
\* client asked for.
THEOREM NotificationsFollow == ~CanRunOutOfMemory => (Spec => []NotificationsCatchUp)
  <1>1. SUFFICES ASSUME ~CanRunOutOfMemory PROVE Spec => []NotificationsCatchUp
    OBVIOUS
  <1>2. ReplicaInv => NotificationsCatchUp
    BY DEF ReplicaInv, Agree
  <1>3. Spec => []ReplicaInv
    BY <1>1, ReplicaInvariant
  <1>4. QED
    BY <1>2, <1>3, PTL

\* And advOn, only ever toggled, never loses count of the host's changes.
THEOREM AdvOnFollows == ~CanRunOutOfMemory => (Spec => []AdvOnCatchesUp)
  <1>1. SUFFICES ASSUME ~CanRunOutOfMemory PROVE Spec => []AdvOnCatchesUp
    OBVIOUS
  <1>2. ReplicaInv => AdvOnCatchesUp
    BY DEF ReplicaInv, Agree
  <1>3. Spec => []ReplicaInv
    BY <1>1, ReplicaInvariant
  <1>4. QED
    BY <1>2, <1>3, PTL
-----------------------------------------------------------------------------
(* Advertising ends: whoever advertises has a timer, a change of state to  *)
(* hear of, or a stop in flight.                                           *)

\* With no change left to hear of, an application that believes that nobody
\* advertises is right: the least message after which it would believe the
\* contrary does not exist.
LEMMA OffStaysOff ==
  TypeOK /\ AdvOnCatchesUp /\ ~mAdvState.advOn /\ ~Pending("stateChanged") => ~hostAdv
  <1> SUFFICES ASSUME TypeOK, AdvOnCatchesUp, ~mAdvState.advOn, ~Pending("stateChanged"),
                      hostAdv
               PROVE  FALSE
    OBVIOUS
  <1> DEFINE n == Len(mHostAppInputQueue)
  <1>1. n \in Nat /\ DOMAIN mHostAppInputQueue = 1 .. n
    BY LenProperties DEF TypeOK
  <1>2. PICK on \in [0 .. n -> BOOLEAN] :
             /\ on[0] = mAdvState.advOn
             /\ on[n] = hostAdv
             /\ \A i \in 1 .. n :
                  on[i] = CASE mHostAppInputQueue[i].type = "stateChanged" -> ~on[i-1]
                            [] mHostAppInputQueue[i].type = "connected"    -> FALSE
                            [] OTHER                                       -> on[i-1]
    BY DEF AdvOnCatchesUp
  <1>3. \A i \in 1 .. n : mHostAppInputQueue[i].type # "stateChanged"
    BY <1>1 DEF Pending
  <1> HIDE DEF n
  <1>4. ASSUME NEW i \in 1 .. n, on[i] PROVE on[i - 1]
    <2>1. CASE mHostAppInputQueue[i].type = "connected"
      BY <1>2, <1>4, <2>1
    <2>2. CASE mHostAppInputQueue[i].type # "connected"
      <3>1. on[i] = on[i - 1]
        BY <1>2, <1>3, <2>2
      <3>2. QED
        BY <1>4, <3>1
    <2>3. QED
      BY <2>1, <2>2
  <1> DEFINE On == {i \in 0 .. n : on[i]}
  <1>5. On \subseteq Nat /\ On # {}
    <2>1. n \in 0 .. n
      BY <1>1
    <2>2. on[n]
      BY <1>2
    <2>3. QED
      BY <2>1, <2>2
  <1>6. PICK i \in On : \A j \in On : ~(<<j, i>> \in OpToRel(<, Nat))
    <2> HIDE DEF On
    <2> QED BY <1>5, WFMin, NatLessThanWellFounded
  <1>7. \A j \in On : ~(j < i)
    BY <1>5, <1>6 DEF OpToRel
  <1>8. i # 0
    BY <1>2, <1>7
  <1>9. i - 1 \in On
    BY <1>1, <1>4, <1>7, <1>8
  <1>10. QED
    BY <1>1, <1>7, <1>9

LEMMA PendingAfterTake ==
  ASSUME TypeOK, NEW t, TakeMessage(t), t # "stateChanged", Pending("stateChanged")
  PROVE  Pending("stateChanged")'
  <1>1. /\ mHostAppInputQueue \in Seq(Messages) /\ mHostAppInputQueue # <<>>
        /\ mHostAppInputQueue' = Tail(mHostAppInputQueue)
        /\ Head(mHostAppInputQueue).type = t
    BY DEF TypeOK, TakeMessage
  <1>2. PICK n \in Nat \ {0} : n = Len(mHostAppInputQueue)
    BY <1>1, EmptySeq
  <1>3. /\ Len(mHostAppInputQueue') = n - 1
        /\ \A i \in 1 .. n - 1 : mHostAppInputQueue'[i] = mHostAppInputQueue[i + 1]
        /\ Head(mHostAppInputQueue) = mHostAppInputQueue[1]
        /\ mHostAppInputQueue' \in Seq(Messages)
    BY <1>1, <1>2, HeadTailProperties
  <1>4. PICK i \in 1 .. n : mHostAppInputQueue[i].type = "stateChanged"
    BY <1>2, <1>1, LenProperties DEF Pending
  <1>5. i # 1
    BY <1>1, <1>3, <1>4
  <1>6. i - 1 \in 1 .. n - 1 /\ mHostAppInputQueue'[i - 1].type = "stateChanged"
    BY <1>3, <1>4, <1>5
  <1>7. i - 1 \in DOMAIN mHostAppInputQueue'
    BY <1>3, <1>6, LenProperties
  <1>8. QED
    BY <1>6, <1>7 DEF Pending

LEMMA PendingAfterAppend ==
  ASSUME TypeOK, NEW m \in Messages,
         mHostAppInputQueue' = Append(mHostAppInputQueue, m)
  PROVE  /\ Pending("stateChanged") => Pending("stateChanged")'
         /\ m.type = "stateChanged" => Pending("stateChanged")'
  <1>1. mHostAppInputQueue \in Seq(Messages)
    BY DEF TypeOK
  <1>2. PICK n \in Nat : n = Len(mHostAppInputQueue)
    BY <1>1
  <1>3. /\ DOMAIN mHostAppInputQueue = 1 .. n
        /\ DOMAIN mHostAppInputQueue' = 1 .. n + 1
        /\ \A i \in 1 .. n : mHostAppInputQueue'[i] = mHostAppInputQueue[i]
        /\ mHostAppInputQueue'[n + 1] = m
    BY <1>1, <1>2, AppendProperties, LenProperties
  <1>4. QED
    BY <1>2, <1>3 DEF Pending

LEMMA StopsAfterRequest ==
  ASSUME TypeOK, NEW requests \in Seq(Requests),
         commands' = commands \o requests
  PROVE  /\ (\E i \in DOMAIN commands : commands[i].op = "stop")
               => \E i \in DOMAIN commands' : commands'[i].op = "stop"
         /\ requests # <<>> /\ requests[1].op = "stop"
               => \E i \in DOMAIN commands' : commands'[i].op = "stop"
  <1>1. commands \in Seq(Requests)
    BY DEF TypeOK
  <1>2. PICK n \in Nat, k \in Nat : n = Len(commands) /\ k = Len(requests)
    BY <1>1
  <1>3. /\ DOMAIN commands = 1 .. n
        /\ DOMAIN commands' = 1 .. n + k
        /\ \A i \in 1 .. n : commands'[i] = commands[i]
        /\ k > 0 => commands'[n + 1] = requests[1]
    BY <1>1, <1>2, ConcatProperties, LenProperties
  <1>4. requests # <<>> => k > 0
    BY <1>2, EmptySeq
  <1>5. QED
    BY <1>2, <1>3, <1>4

LEMMA StopsAfterCarry ==
  ASSUME TypeOK, NEW op, Carry(op), op # "stop",
         \E i \in DOMAIN commands : commands[i].op = "stop"
  PROVE  \E i \in DOMAIN commands' : commands'[i].op = "stop"
  <1>1. /\ commands \in Seq(Requests) /\ commands # <<>>
        /\ commands' = Tail(commands)
        /\ Head(commands).op = op
    BY DEF TypeOK, Carry
  <1>2. PICK n \in Nat \ {0} : n = Len(commands)
    BY <1>1, EmptySeq
  <1>3. /\ Len(commands') = n - 1
        /\ \A i \in 1 .. n - 1 : commands'[i] = commands[i + 1]
        /\ Head(commands) = commands[1]
        /\ commands' \in Seq(Requests)
    BY <1>1, <1>2, HeadTailProperties
  <1>4. PICK i \in 1 .. n : commands[i].op = "stop"
    BY <1>1, <1>2, LenProperties
  <1>5. i # 1
    BY <1>1, <1>3, <1>4
  <1>6. i - 1 \in 1 .. n - 1 /\ commands'[i - 1].op = "stop"
    BY <1>3, <1>4, <1>5
  <1>7. i - 1 \in DOMAIN commands'
    BY <1>3, <1>6, LenProperties
  <1>8. QED
    BY <1>6, <1>7

LEMMA HandlersTimed ==
  ASSUME ~CanRunOutOfMemory, ReplicaInv, AdvertisingIsTimed, App_Thread,
         TypeOK', AdvOnCatchesUp'
  PROVE  AdvertisingIsTimed'
  <1>1. TypeOK
    BY DEF ReplicaInv, LocalInv
  <1>2. hostAdv' = hostAdv
    BY DEF App_Thread, BleApp_Config, ParametersSetupComplete, DataSetupComplete, Panic,
           AdvertisingStateChanged, Connected, Disconnected, CccdWritten, host
  <1>3. (\E i \in DOMAIN commands : commands[i].op = "stop")
           => \E i \in DOMAIN commands' : commands'[i].op = "stop"
    <2>1. CASE UNCHANGED commands
      BY <2>1
    <2>2. CASE \E op \in {"setParameters", "setData", "start"} : Request(<<[op |-> op]>>)
      <3>1. PICK op \in {"setParameters", "setData", "start"} :
                    commands' = commands \o <<[op |-> op]>>
        BY <2>2 DEF Request
      <3>2. <<[op |-> op]>> \in Seq(Requests)
        BY RequestKinds
      <3>3. QED
        BY <1>1, <3>1, <3>2, StopsAfterRequest
    <2>3. QED
      BY <2>1, <2>2 DEF App_Thread, BleApp_Config, ParametersSetupComplete,
         DataSetupComplete, Panic, AdvertisingStateChanged, Connected, Disconnected,
         CccdWritten, BleApp_Advertise, BleApp_Start
  <1>4. CASE AdvertisingStateChanged \/ Connected
    <2>1. CASE mAdvState'.advOn
      <3>1. AdvertisingStateChanged
        BY <1>1, <1>4, <2>1 DEF Connected, TypeOK
      <3>2. "adv" \in running'
        BY <2>1, <3>1 DEF AdvertisingStateChanged
      <3>3. QED
        BY <3>2 DEF AdvertisingIsTimed
    <2>2. CASE ~mAdvState'.advOn /\ ~Pending("stateChanged")'
      <3>1. (TypeOK /\ AdvOnCatchesUp /\ ~mAdvState.advOn /\ ~Pending("stateChanged")
               => ~hostAdv)'
        BY OffStaysOff, PTL
      <3>2. ~hostAdv'
        BY <2>2, <3>1
      <3>3. QED
        BY <3>2 DEF AdvertisingIsTimed
    <2>3. CASE Pending("stateChanged")'
      BY <2>3 DEF AdvertisingIsTimed
    <2>4. QED
      BY <2>1, <2>2, <2>3
  <1>5. CASE ~AdvertisingStateChanged /\ ~Connected
    <2>1. "adv" \in running => "adv" \in running'
      BY <1>5 DEF App_Thread, BleApp_Config, ParametersSetupComplete, DataSetupComplete,
         Panic, Disconnected, CccdWritten, TimersOnDisconnect, app
    <2>2. PICK t : TakeMessage(t) /\ t # "stateChanged"
      BY <1>5 DEF App_Thread, BleApp_Config, ParametersSetupComplete, DataSetupComplete,
         Panic, Disconnected, CccdWritten
    <2>3. Pending("stateChanged") => Pending("stateChanged")'
      BY <1>1, <2>2, PendingAfterTake
    <2>4. QED
      BY <1>2, <1>3, <2>1, <2>3 DEF AdvertisingIsTimed
  <1>6. QED
    BY <1>4, <1>5

LEMMA CallbacksTimed ==
  ASSUME ~CanRunOutOfMemory, TypeOK, AdvertisingIsTimed,
         PressPB1 \/ LongPB1 \/ AdvertisingTimerCallback
  PROVE  AdvertisingIsTimed'
  <1>1. UNCHANGED <<hostAdv, mHostAppInputQueue>>
    BY DEF PressPB1, LongPB1, AdvertisingTimerCallback, host, inbox
  <1>2. PICK requests \in Seq(Requests) : commands' = commands \o requests
    <2>1. CASE PressPB1
      <3>1. commands' = commands \o <<[op |-> "setParameters"]>>
        BY <2>1 DEF PressPB1, BleApp_Start, BleApp_Advertise, Request
      <3>2. <<[op |-> "setParameters"]>> \in Seq(Requests)
        BY RequestKinds
      <3>3. QED
        BY <3>1, <3>2
    <2>2. CASE LongPB1
      <3>1. PICK S \in SUBSET peers : \E requests \in DisconnectAll(S) :
                                          commands' = commands \o requests
        BY <2>2 DEF LongPB1
      <3>2. S \in SUBSET Peers
        BY DEF TypeOK
      <3>3. QED
        BY <3>1, <3>2, DisconnectType
    <2>3. CASE AdvertisingTimerCallback
      <3>1. commands' = commands \o <<[op |-> "stop"]>>
        BY <2>3 DEF AdvertisingTimerCallback, Gap_StopAdvertising, Request
      <3>2. <<[op |-> "stop"]>> \in Seq(Requests)
        BY RequestKinds
      <3>3. QED
        BY <3>1, <3>2
    <2>4. QED
      BY <2>1, <2>2, <2>3
  <1>3. (\E i \in DOMAIN commands : commands[i].op = "stop")
           => \E i \in DOMAIN commands' : commands'[i].op = "stop"
    BY <1>2, StopsAfterRequest
  <1>4. CASE AdvertisingTimerCallback
    <2>1. commands' = commands \o <<[op |-> "stop"]>>
      BY <1>4 DEF AdvertisingTimerCallback, Gap_StopAdvertising, Request
    <2>2. <<[op |-> "stop"]>> \in Seq(Requests)
      BY RequestKinds
    <2>3. \E i \in DOMAIN commands' : commands'[i].op = "stop"
      BY <2>1, <2>2, StopsAfterRequest
    <2>4. QED
      BY <2>3 DEF AdvertisingIsTimed
  <1>5. CASE PressPB1 \/ LongPB1
    <2>1. UNCHANGED running
      BY <1>5 DEF PressPB1, LongPB1, app
    <2>2. QED
      BY <1>1, <1>3, <2>1 DEF AdvertisingIsTimed, Pending
  <1>6. QED
    BY <1>4, <1>5

LEMMA HostTimed ==
  ASSUME ~CanRunOutOfMemory, TypeOK, AdvertisingIsTimed, HostTask \/ Client
  PROVE  AdvertisingIsTimed'
  <1>1. UNCHANGED running
    BY HostSteps DEF app
  <1>2. Pending("stateChanged") => Pending("stateChanged")'
    <2>1. CASE UNCHANGED inbox
      BY <2>1 DEF inbox, Pending
    <2>2. QED
      BY <2>1, HostSteps, PendingAfterAppend
  <1>3. CASE HostStarts
    <2>1. CASE hostAdv' = hostAdv
      <3>1. (\E i \in DOMAIN commands : commands[i].op = "stop")
               => \E i \in DOMAIN commands' : commands'[i].op = "stop"
        BY <1>3, StopsAfterCarry DEF HostStarts
      <3>2. QED
        BY <1>1, <1>2, <2>1, <3>1 DEF AdvertisingIsTimed
    <2>2. CASE hostAdv' # hostAdv
      <3>1. mHostAppInputQueue' = Append(mHostAppInputQueue, Event("stateChanged"))
        BY <1>3, <2>2 DEF HostStarts, Refuse, Report, host
      <3>2. Pending("stateChanged")'
        BY <3>1, PendingAfterAppend, MessageKinds
      <3>3. QED
        BY <3>2 DEF AdvertisingIsTimed
    <2>3. QED
      BY <2>1, <2>2
  <1>4. CASE HostStops
    <2>1. ~hostAdv'
      BY <1>4 DEF HostStops, Refuse, host
    <2>2. QED
      BY <2>1 DEF AdvertisingIsTimed
  <1>5. CASE HostSetsParameters \/ HostSetsData \/ HostDisconnects
    <2>1. hostAdv' = hostAdv
      BY <1>5 DEF HostSetsParameters, HostSetsData, HostDisconnects, Refuse, Leave, host
    <2>2. (\E i \in DOMAIN commands : commands[i].op = "stop")
             => \E i \in DOMAIN commands' : commands'[i].op = "stop"
      BY <1>5, StopsAfterCarry DEF HostSetsParameters, HostSetsData, HostDisconnects
    <2>3. QED
      BY <1>1, <1>2, <2>1, <2>2 DEF AdvertisingIsTimed
  <1>6. CASE Client
    <2>1. UNCHANGED commands /\ (hostAdv' => hostAdv)
      <3>1. PICK p \in Peers : \/ ClientConnects(p) \/ ClientLeaves(p)
                               \/ \E on \in BOOLEAN : ClientWritesCccd(p, on)
        BY <1>6 DEF Client
      <3>2. CASE ClientConnects(p)
        BY <3>2 DEF ClientConnects
      <3>3. CASE ClientLeaves(p)
        BY <3>3 DEF ClientLeaves, Leave
      <3>4. CASE \E on \in BOOLEAN : ClientWritesCccd(p, on)
        BY <3>4 DEF ClientWritesCccd
      <3>5. QED
        BY <3>1, <3>2, <3>3, <3>4
    <2>2. QED
      BY <1>1, <1>2, <2>1 DEF AdvertisingIsTimed
  <1>7. QED
    BY <1>3, <1>4, <1>5, <1>6 DEF HostTask

\* Advertising never goes on for ever: while the host advertises, the timer
\* that ends it runs, or the change of state that starts it is still to be
\* heard of, or a stop is on its way - whatever connections, refusals and keys
\* come in between, provided that no message is lost for want of memory.
THEOREM AdvertisingTimed == ~CanRunOutOfMemory => (Spec => []AdvertisingIsTimed)
  <1>1. SUFFICES ASSUME ~CanRunOutOfMemory PROVE Spec => []AdvertisingIsTimed
    OBVIOUS
  <1>2. Init => AdvertisingIsTimed
    BY DEF Init, AdvertisingIsTimed
  <1>3. ReplicaInv /\ ReplicaInv' /\ AdvertisingIsTimed /\ [Next]_vars
            => AdvertisingIsTimed'
    <2>1. SUFFICES ASSUME ReplicaInv, ReplicaInv', AdvertisingIsTimed, [Next]_vars
                   PROVE  AdvertisingIsTimed'
      OBVIOUS
    <2>2. TypeOK /\ TypeOK' /\ AdvOnCatchesUp'
      BY <2>1 DEF ReplicaInv, LocalInv, Agree
    <2>3. CASE Next
      BY <1>1, <2>1, <2>2, <2>3, HandlersTimed, CallbacksTimed, HostTimed DEF Next
    <2>4. CASE UNCHANGED vars
      BY <2>1, <2>4 DEF vars, app, inbox, host, AdvertisingIsTimed, Pending
    <2>5. QED
      BY <2>1, <2>3, <2>4
  <1>4. Spec => []ReplicaInv
    BY <1>1, ReplicaInvariant
  <1>5. QED
    BY <1>2, <1>3, <1>4, PTL DEF Spec
=============================================================================
