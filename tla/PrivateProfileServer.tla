------------------------ MODULE PrivateProfileServer ------------------------
(***************************************************************************)
(* The sensor application (private_profile_server.c): a GAP peripheral     *)
(* that advertises until a client connects, keeps one slot per client,     *)
(* runs the battery and sensor timers while some client is connected, and  *)
(* advertises again when a client leaves.                                  *)
(*                                                                         *)
(* The BLE host is another task (a binary library, modelled from how the   *)
(* application uses it).  The application sends it commands and does not   *)
(* wait; the host answers later, with a message that App_*Callback         *)
(* (ApplMain.c) puts in mHostAppInputQueue and App_Thread handles, one per *)
(* run of the task.  The scheduler is cooperative, so a handler is atomic, *)
(* but between a command and its answer, and between an event and its      *)
(* handler, anything may happen: connections, disconnections, keys, the    *)
(* advertising timer.                                                      *)
(***************************************************************************)
EXTENDS Integers, Sequences, FiniteSets, SequencesExt

CONSTANTS
    gAppMaxConnections_c, \* connection slots
    CanRunOutOfMemory,    \* whether MSG_Alloc (and a Gap_ call) may fail
    MaxPending            \* bound: commands and messages in flight

ASSUME ServerAssumption ==
    /\ gAppMaxConnections_c \in Nat \ {0}
    /\ CanRunOutOfMemory \in BOOLEAN
    /\ MaxPending \in Nat \ {0}

\* A client is known by its slot: its deviceId is an index of mPeerInformation.
Peers == 0 .. gAppMaxConnections_c - 1
gInvalidDeviceId_c == 255
AppTimers == {"adv", "battery", "qpps"}

VARIABLES
    mAdvState,          \* [advOn, advType]
    mRestartAdv,
    peers,              \* slots of mPeerInformation whose deviceId is valid
    ntf_cfg,            \* slots whose ntf_cfg is QPPS_VALUE_NTF_ON
    basValidClientList, \* slots subscribed to the battery service
    mQpp_SubscribedClientId,
    running,            \* the application's timers that are running
    mHostAppInputQueue,
    mAppEvent,          \* some flag of the task's event is set
    commands,           \* Gap_ requests the host has yet to carry out
    hostAdv,            \* the controller is advertising
    hostPeers,          \* the clients the host is connected to
    hostNtf             \* those that have enabled the sensor notifications

app   == <<mAdvState, mRestartAdv, peers, ntf_cfg, basValidClientList,
           mQpp_SubscribedClientId, running>>
inbox == <<mHostAppInputQueue, mAppEvent>>
host  == <<hostAdv, hostPeers, hostNtf>>
vars  == <<app, inbox, commands, host>>

Requests == [op : {"setParameters", "setData", "start", "stop"}]
                \cup [op : {"disconnect"}, peer : Peers]

Event(t)        == [type |-> t]
PeerEvent(t, p) == [type |-> t, peer |-> p]
Messages ==
    [type : {"initializationComplete", "parametersComplete", "dataComplete",
             "setupFailed", "stateChanged", "commandFailed"}]
        \cup [type : {"connected", "disconnected"}, peer : Peers]
        \cup [type : {"cccdWritten"}, peer : Peers, on : BOOLEAN]

TypeOK ==
    /\ mAdvState \in [advOn : BOOLEAN, advType : {"fast", "slow"}]
    /\ mRestartAdv \in BOOLEAN
    /\ peers \subseteq Peers
    /\ ntf_cfg \subseteq Peers
    /\ basValidClientList \subseteq Peers
    /\ mQpp_SubscribedClientId \in Peers \cup {gInvalidDeviceId_c}
    /\ running \subseteq AppTimers
    /\ mHostAppInputQueue \in Seq(Messages)
    /\ mAppEvent \in BOOLEAN
    /\ commands \in Seq(Requests)
    /\ hostAdv \in BOOLEAN
    /\ hostPeers \subseteq Peers
    /\ hostNtf \subseteq Peers

\* After Ble_Initialize.  Static storage is zero: every slot holds deviceId 0,
\* which is not gInvalidDeviceId_c, until BleApp_Config clears the slots.
Init ==
    /\ mAdvState = [advOn |-> FALSE, advType |-> "fast"]
    /\ mRestartAdv = FALSE
    /\ peers = Peers
    /\ ntf_cfg = {}
    /\ basValidClientList = {}
    /\ mQpp_SubscribedClientId = 0
    /\ running = {}
    /\ mHostAppInputQueue = <<Event("initializationComplete")>>
    /\ mAppEvent = TRUE
    /\ commands = <<>>
    /\ hostAdv = FALSE
    /\ hostPeers = {}
    /\ hostNtf = {}

-----------------------------------------------------------------------------
(* Commands to the host; their results are ignored everywhere.             *)

Request(requests) ==
    \/ commands' = commands \o requests
    \/ CanRunOutOfMemory /\ commands' = commands

BleApp_Advertise == Request(<<[op |-> "setParameters"]>>)

\* Mutants: the whole state is reset; others' connections are taken for a reason
\* not to advertise.
BleApp_StartAfresh ==
    mAdvState' = [advOn |-> FALSE, advType |-> "fast"] /\ BleApp_Advertise
BleApp_StartWhenAlone ==
    /\ mAdvState' = [mAdvState EXCEPT !.advType = "fast"]
    /\ IF Cardinality(peers) > 1 THEN UNCHANGED commands ELSE BleApp_Advertise

BleApp_Start ==
    /\ mAdvState' = [mAdvState EXCEPT !.advType = "fast"]
    /\ BleApp_Advertise

KeepAdvertising == UNCHANGED commands  \* mutant: the end is never asked for
Gap_StopAdvertising == Request(<<[op |-> "stop"]>>)

\* Mutant: the event is not set again for the messages left.
TakeMessageAndSleep(t) ==
    /\ mAppEvent /\ mHostAppInputQueue # <<>>
    /\ Head(mHostAppInputQueue).type = t
    /\ mHostAppInputQueue' = Tail(mHostAppInputQueue)
    /\ mAppEvent' = FALSE

\* What App_Thread does about the queue: it takes one message and, if more
\* are waiting, sets its own event again.
TakeMessage(t) ==
    /\ mAppEvent
    /\ mHostAppInputQueue # <<>>
    /\ Head(mHostAppInputQueue).type = t
    /\ mHostAppInputQueue' = Tail(mHostAppInputQueue)
    /\ mAppEvent' = (Tail(mHostAppInputQueue) # <<>>)

-----------------------------------------------------------------------------
(* The handlers of App_Thread, one per kind of message.                    *)

BleApp_Config ==
    /\ TakeMessage("initializationComplete")
    /\ mAdvState' = [advOn |-> FALSE, advType |-> "fast"]
    /\ peers' = {}
    /\ basValidClientList' = {}
    /\ BleApp_Advertise
    /\ UNCHANGED <<mRestartAdv, ntf_cfg, mQpp_SubscribedClientId, running, host>>

\* The answers that continue the sequence parameters, data, start.
ParametersSetupComplete ==
    /\ TakeMessage("parametersComplete")
    /\ Request(<<[op |-> "setData"]>>)
    /\ UNCHANGED <<app, host>>

DataSetupComplete ==
    /\ TakeMessage("dataComplete")
    /\ Request(<<[op |-> "start"]>>)
    /\ UNCHANGED <<app, host>>

\* panic() returns: gUsePanic_c is 0 in this build.
Panic ==
    /\ TakeMessage("setupFailed") \/ TakeMessage("commandFailed")
    /\ UNCHANGED <<app, commands, host>>

AdvertisingStateChanged ==
    /\ TakeMessage("stateChanged")
    /\ mAdvState' = [mAdvState EXCEPT !.advOn = ~@]
    /\ IF mAdvState'.advOn
       THEN running' = running \cup {"adv"} /\ UNCHANGED commands
       ELSE /\ IF mRestartAdv THEN BleApp_Advertise ELSE UNCHANGED commands
            /\ UNCHANGED running
    /\ UNCHANGED <<mRestartAdv, peers, ntf_cfg, basValidClientList,
                   mQpp_SubscribedClientId, host>>

Bas_Subscribe(p)   == basValidClientList' = basValidClientList \cup {p}
Bas_UnsubscribeNobody(p) == UNCHANGED basValidClientList  \* mutant
Bas_Unsubscribe(p) == basValidClientList' = basValidClientList \ {p}
Qpp_Subscribe(p)   == mQpp_SubscribedClientId' = p
Qpp_Unsubscribe    == mQpp_SubscribedClientId' = gInvalidDeviceId_c

\* The timers the code stops and (re)starts when a client connects.
TimersOnConnect == (running \ {"adv"}) \cup {"battery", "qpps"}

Connected ==
    /\ TakeMessage("connected")
    /\ LET p == Head(mHostAppInputQueue).peer
       IN  peers' = peers \cup {p} /\ Bas_Subscribe(p) /\ Qpp_Subscribe(p)
    /\ mAdvState' = [mAdvState EXCEPT !.advOn = FALSE]
    /\ running' = TimersOnConnect
    /\ UNCHANGED <<mRestartAdv, ntf_cfg, commands, host>>

ReleaseSlotOnly(p) == peers' = peers \ {p} /\ UNCHANGED ntf_cfg  \* mutant
ReleaseSlot(p) == peers' = peers \ {p} /\ ntf_cfg' = ntf_cfg \ {p}

StopTimersOnDisconnect(left) == running \ {"battery", "qpps"}  \* mutant
TimersOnDisconnect(left) ==
    IF left = {} THEN running \ {"battery", "qpps"} ELSE running

Disconnected ==
    /\ TakeMessage("disconnected")
    /\ LET p == Head(mHostAppInputQueue).peer
       IN  Bas_Unsubscribe(p) /\ Qpp_Unsubscribe /\ ReleaseSlot(p)
    /\ running' = TimersOnDisconnect(peers')
    /\ BleApp_Start
    /\ UNCHANGED <<mRestartAdv, host>>

CccdWritten ==
    /\ TakeMessage("cccdWritten")
    /\ LET m == Head(mHostAppInputQueue)
       IN  ntf_cfg' = IF m.on THEN ntf_cfg \cup {m.peer} ELSE ntf_cfg \ {m.peer}
    /\ UNCHANGED <<mAdvState, mRestartAdv, peers, basValidClientList,
                   mQpp_SubscribedClientId, running, commands, host>>

App_Thread ==
    \/ BleApp_Config
    \/ ParametersSetupComplete \/ DataSetupComplete \/ Panic
    \/ AdvertisingStateChanged
    \/ Connected \/ Disconnected \/ CccdWritten

-----------------------------------------------------------------------------
(* Callbacks of the timer task: the keyboard and the advertising timer.    *)

InFlight == Len(commands) + Len(mHostAppInputQueue)

PressPB1 ==
    /\ InFlight < MaxPending
    /\ peers # Peers
    /\ BleApp_Start
    /\ UNCHANGED <<mRestartAdv, peers, ntf_cfg, basValidClientList,
                   mQpp_SubscribedClientId, running, inbox, host>>

\* One request for each valid slot, in slot order.
DisconnectAll(S) ==
    {[i \in 1 .. Cardinality(S) |-> [op |-> "disconnect", peer |-> slot[i]]] :
        slot \in {f \in [1 .. Cardinality(S) -> S] :
                     \A i, j \in 1 .. Cardinality(S) : i < j => f[i] < f[j]}}

LongPB1 ==
    /\ InFlight + Cardinality(peers) <= MaxPending
    /\ \E S \in SUBSET peers :
           /\ CanRunOutOfMemory \/ S = peers
           /\ \E requests \in DisconnectAll(S) : commands' = commands \o requests
    /\ UNCHANGED <<app, inbox, host>>

AdvertisingTimerCallback ==
    /\ "adv" \in running
    /\ InFlight <= MaxPending
    /\ running' = running \ {"adv"}
    /\ Gap_StopAdvertising
    /\ IF mAdvState.advType = "fast"
       THEN /\ mAdvState' = [mAdvState EXCEPT !.advType = "slow"]
            /\ mRestartAdv' = TRUE
       ELSE mRestartAdv' = FALSE /\ UNCHANGED mAdvState
    /\ UNCHANGED <<peers, ntf_cfg, basValidClientList, mQpp_SubscribedClientId,
                   inbox, host>>

-----------------------------------------------------------------------------
(* The host task: it carries out the requests in order and reports.  A     *)
(* request that is out of place is refused, with a failure event or with   *)
(* an error code that the application ignores.                             *)

\* Mutant: the last message is handled first.
ReportUrgently(message) ==
    \/ mHostAppInputQueue' = <<message>> \o mHostAppInputQueue /\ mAppEvent' = TRUE
    \/ CanRunOutOfMemory /\ UNCHANGED inbox

\* App_GenericCallback, App_AdvertisingCallback, App_ConnectionCallback and
\* App_GattServerCallback: the event is dropped when there is no buffer.
Report(message) ==
    \/ /\ mHostAppInputQueue' = Append(mHostAppInputQueue, message)
       /\ mAppEvent' = TRUE
    \/ CanRunOutOfMemory /\ UNCHANGED inbox

Carry(op) ==
    /\ commands # <<>>
    /\ Head(commands).op = op
    /\ commands' = Tail(commands)

Refuse(failure) == (Report(Event(failure)) \/ UNCHANGED inbox) /\ UNCHANGED host

HostSetsParameters ==
    /\ Carry("setParameters")
    /\ IF hostAdv
       THEN Refuse("setupFailed")
       ELSE Report(Event("parametersComplete")) /\ UNCHANGED host
    /\ UNCHANGED app

HostSetsData ==
    /\ Carry("setData")
    /\ Report(Event("dataComplete"))
    /\ UNCHANGED <<app, host>>

HostStarts ==
    /\ Carry("start")
    /\ \/ (hostAdv \/ hostPeers = Peers) /\ Refuse("commandFailed")
       \/ /\ ~hostAdv
          /\ hostAdv' = TRUE
          /\ Report(Event("stateChanged"))
          /\ UNCHANGED <<hostPeers, hostNtf>>
    /\ UNCHANGED app

HostStops ==
    /\ Carry("stop")
    /\ IF hostAdv
       THEN /\ hostAdv' = FALSE
            /\ Report(Event("stateChanged"))
            /\ UNCHANGED <<hostPeers, hostNtf>>
       ELSE Refuse("commandFailed")
    /\ UNCHANGED app

\* The connection to p ends and its configuration is forgotten: no bonding.
Leave(p) ==
    /\ hostPeers' = hostPeers \ {p}
    /\ hostNtf' = hostNtf \ {p}
    /\ Report(PeerEvent("disconnected", p))
    /\ UNCHANGED <<hostAdv, app>>

HostDisconnects ==
    /\ Carry("disconnect")
    /\ LET p == Head(commands).peer
       IN  IF p \in hostPeers THEN Leave(p) ELSE UNCHANGED <<app, inbox, host>>

HostTask ==
    \/ HostSetsParameters \/ HostSetsData
    \/ HostStarts \/ HostStops \/ HostDisconnects

\* What clients do.  Advertising ends when one connects, with no event of
\* its own: BleApp_ConnectionCallback clears advOn itself.
ClientConnects(p) ==
    /\ InFlight < MaxPending
    /\ hostAdv /\ p \notin hostPeers
    /\ hostAdv' = FALSE
    /\ hostPeers' = hostPeers \cup {p}
    /\ Report(PeerEvent("connected", p))
    /\ UNCHANGED <<app, commands, hostNtf>>

ClientLeaves(p) ==
    /\ InFlight < MaxPending
    /\ p \in hostPeers
    /\ Leave(p)
    /\ UNCHANGED commands

ClientWritesCccd(p, on) ==
    /\ InFlight < MaxPending
    /\ p \in hostPeers
    /\ hostNtf' = IF on THEN hostNtf \cup {p} ELSE hostNtf \ {p}
    /\ Report([type |-> "cccdWritten", peer |-> p, on |-> on])
    /\ UNCHANGED <<app, commands, hostAdv, hostPeers>>

Client ==
    \E p \in Peers :
        \/ ClientConnects(p) \/ ClientLeaves(p)
        \/ \E on \in BOOLEAN : ClientWritesCccd(p, on)

Next ==
    \/ App_Thread
    \/ PressPB1 \/ LongPB1 \/ AdvertisingTimerCallback
    \/ HostTask
    \/ Client

Spec == Init /\ [][Next]_vars

\* The tasks run when they have work, and a running timer expires
\* (TimersManager, EventuallyExpires).  Clients and keys owe nothing.
FairSpec ==
    /\ Spec
    /\ WF_vars(App_Thread)
    /\ WF_vars(HostTask)
    /\ WF_vars(AdvertisingTimerCallback)

-----------------------------------------------------------------------------
(* Properties.                                                             *)

Pending(t) == \E i \in DOMAIN mHostAppInputQueue : mHostAppInputQueue[i].type = t
Configured == ~Pending("initializationComplete")

\* What a message says of the client of slot p.
Joins(p, m)    == m = PeerEvent("connected", p)
Leaves(p, m)   == m = PeerEvent("disconnected", p)
Writes(p, on)  == [type |-> "cccdWritten", peer |-> p, on |-> on]
TurnsOn(p, m)  == m = Writes(p, TRUE)
TurnsOff(p, m) == m = Writes(p, FALSE) \/ Leaves(p, m)

\* Nothing sits in mHostAppInputQueue with the task asleep: App_Thread handles
\* one message per run and must set its own event when it leaves others.
MessagesAreSignalled == mHostAppInputQueue # <<>> => mAppEvent

\* The battery and sensor timers run exactly while some client is known, in
\* whatever order clients come, go and reuse slots.
TimersFollowPeers ==
    Configured =>
        running \cap {"battery", "qpps"}
            = IF peers = {} THEN {} ELSE {"battery", "qpps"}

\* The battery service serves exactly the known clients.
SubscribersAreKnown == Configured => basValidClientList = peers

\* The slot table lags behind the host and never disagrees with it: once the
\* messages in the queue are handled, the slots are the host's connections.
\* The client of slot p will be known if it is (0) or a message says it has
\* connected (i), and no later message says that it has disconnected.
PeersCatchUp ==
    Configured =>
        \A p \in Peers :
            p \in hostPeers <=>
                \E i \in 0 .. Len(mHostAppInputQueue) :
                    /\ IF i = 0 THEN p \in peers ELSE Joins(p, mHostAppInputQueue[i])
                    /\ \A j \in i + 1 .. Len(mHostAppInputQueue) :
                           ~Leaves(p, mHostAppInputQueue[j])

\* So does ntf_cfg with what the clients wrote: in particular a client that
\* takes over a slot never inherits its predecessor's notifications.
NotificationsCatchUp ==
    Configured =>
        \A p \in Peers :
            p \in hostNtf <=>
                \E i \in 0 .. Len(mHostAppInputQueue) :
                    /\ IF i = 0 THEN p \in ntf_cfg
                                ELSE TurnsOn(p, mHostAppInputQueue[i])
                    /\ \A j \in i + 1 .. Len(mHostAppInputQueue) :
                           ~TurnsOff(p, mHostAppInputQueue[j])

\* advOn is never set from an event, only toggled: it must not lose count of
\* the changes through restarts, refusals and connections.  Some sequence of
\* values leads from advOn, message by message, to the host's state.
AdvOnCatchesUp ==
    \E on \in [0 .. Len(mHostAppInputQueue) -> BOOLEAN] :
        /\ on[0] = mAdvState.advOn
        /\ on[Len(mHostAppInputQueue)] = hostAdv
        /\ \A i \in 1 .. Len(mHostAppInputQueue) :
               on[i] = CASE mHostAppInputQueue[i].type = "stateChanged" -> ~on[i-1]
                         [] mHostAppInputQueue[i].type = "connected"    -> FALSE
                         [] OTHER                                       -> on[i-1]

\* Advertising is always bounded by its timer: while the controller
\* advertises, the timer runs, or is about to be started, or has just asked
\* for the end.
AdvertisingIsTimed ==
    hostAdv =>
        \/ "adv" \in running
        \/ Pending("stateChanged")
        \/ \E i \in DOMAIN commands : commands[i].op = "stop"

\* A client that leaves makes room: advertising starts again, unless others
\* have taken every slot meanwhile.
DisconnectResumesAdvertising ==
    (mHostAppInputQueue # <<>> /\ Head(mHostAppInputQueue).type = "disconnected")
        ~> (hostAdv \/ hostPeers = Peers)

\* Advertising never goes on for ever.
AdvertisingEnds == hostAdv ~> ~hostAdv
=============================================================================
