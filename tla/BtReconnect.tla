---------------------------- MODULE BtReconnect ----------------------------
(***************************************************************************)
(* The Bluetooth manager's return to the last device (bt_manager.c), the   *)
(* callbacks of the profiles that drive it, and the opening and closing of *)
(* Bluetooth by the modes (BtFastPowerOn, BtFastPowerOff).  This is the    *)
(* build without TWS.                                                      *)
(*                                                                         *)
(* The manager's fields are one record, m; a function of the code that     *)
(* changes them is an operator from m to m.  Callbacks and timers run in   *)
(* the Bluetooth task, one after the other (Loops).  The main task has the *)
(* same priority, so it may run between the reading and the writing of     *)
(* btScanPageState; the mode task has a lower one and may be interrupted   *)
(* in BtStartReconnectDevice.                                              *)
(*                                                                         *)
(* The stack and the phones are external: one link at a time, no access    *)
(* while it is open, and callbacks in any order a link allows.  Timers may *)
(* fire at any time after they were set.  "ready" is IsBtReconnectReady.   *)
(***************************************************************************)
EXTENDS Naturals, FiniteSets

CONSTANTS
    Device,      \* addresses of the phones
    None,        \* no device, no request
    PorTries,    \* BT_POR_TRY_COUNTS
    LostTries,   \* BT_BLR_TRY_COUNTS
    AbortTries,  \* the tries of BtLinkStateDisconnect
    MaxActs      \* bound: what users and phones do of their own accord

ASSUME DeviceAssumption == None \notin Device
ASSUME TriesAssumption == {PorTries, LostTries, AbortTries} \subseteq Nat /\ MaxActs \in Nat

VARIABLES
    m,       \* btManager and the event list
    mode,    \* GetSystemMode: "waiting", "bt", "call", or "other"
    resume,  \* serviceWaitResume
    scan,    \* btScanPageState
    check,   \* what BtScanPageStateCheck still has to write, or "none"
    keyed,   \* the connect key has armed the manager, not yet asked for a profile
    rst      \* btRstState
VARIABLES    \* the stack and the phones
    acl,     \* the device the link is open to
    fate,    \* of the link: "held", being closed ("hangup"), "lost", or "aborted"
    access,  \* btDeviceConnState is ALL
    wanted,  \* the access mode asked for is GeneralAccessible
    report,  \* a report of the access mode is due
    acts

link == <<acl, fate>>
scanning == <<access, wanted, report>>
app == <<mode, resume, scan, check, keyed, rst>>
vars == <<m, app, link, scanning, acts>>

Profile == {"HFP", "A2DP", "AVRCP"}
Address == Device \cup {None}
Request == [dev : Address, profile : Profile]

Manager == [up : SUBSET Profile, peer : Address, last : Address, lastProfiles : SUBSET Profile,
            used : BOOLEAN, started : BOOLEAN, tries : Nat,
            powerOn : BOOLEAN, delay : BOOLEAN, protect : BOOLEAN, link : BOOLEAN,
            aborted : BOOLEAN, stale : {"off", "armed", "lost"}, due : BOOLEAN, drop : BOOLEAN,
            page : Request \cup {None}, asked : Nat]

\* "asked" counts the requests since the manager was armed or a profile came up.
MaxTries == IF PorTries > LostTries THEN PorTries ELSE LostTries
MaxAsked == MaxTries + 4

\* The values the code gives its variables.  Whatever mixture of page timeouts, access
\* reports and busy answers drives it, between two successes the manager asks at most
\* three times more than it has tries: when it is armed, for a connect key that was
\* interrupted meanwhile, and for AVRCP when that is due.  "asked" never comes to
\* MaxAsked.
TypeOK ==
    /\ m.asked < MaxAsked
    /\ m \in Manager
    /\ mode \in {"waiting", "bt", "call", "other"} /\ resume \in BOOLEAN
    /\ scan \in {"none", "closing", "disconnecting", "disable", "opening", "enable"}
    /\ check \in {"none", "disconnecting", "disable", "enable"}
    /\ keyed \in BOOLEAN /\ rst \in {"none", "start", "waiting", "finished"}
    /\ acl \in Address /\ fate \in {"held", "hangup", "lost", "aborted"}
    /\ access \in BOOLEAN /\ wanted \in BOOLEAN /\ report \in BOOLEAN
    /\ acts \in 0 .. MaxActs

-----------------------------------------------------------------------------
(* Reconnecting: operators on the manager's record. *)

\* btReconnectTimer.timerFlag is not TIMER_UNUSED: used is its TIMER_USED, started its
\* TIMER_STARTED, which a reset between ConnectKey's two steps leaves alone.
TimerSet(b) == b.used \/ b.started

BtStopReconnect(b) ==
    [b EXCEPT !.used = FALSE, !.started = FALSE, !.tries = 0, !.aborted = FALSE]

Asks(b, d, p) ==
    [b EXCEPT !.page = [dev |-> d, profile |-> p], !.asked = IF @ < MaxAsked THEN @ + 1 ELSE @]

\* The profile to ask for: one the last device had and that is not up, hands-free
\* first.  Asking waits while the phone itself uses the service discovery.
Missing(b) == b.lastProfiles \ b.up
NextProfile(b) ==
    CASE "HFP" \in Missing(b) -> "HFP"
      [] "HFP" \notin Missing(b) /\ "A2DP" \in Missing(b) -> "A2DP"
      [] OTHER -> "AVRCP"
BtReconnectProfile(b, ready) ==
    IF Missing(b) = {} THEN BtStopReconnect(b)
    ELSE IF ~ready THEN [b EXCEPT !.started = TRUE]
    ELSE Asks(b, b.last, NextProfile(b))

Armed(b, n) ==
    [b EXCEPT !.used = TRUE, !.started = FALSE, !.tries = n, !.asked = 0]
BtStartReconnectDevice(b, n, ready) == BtReconnectProfile(Armed(b, n), ready)

\* A slip of BtReconnectCB: the last try is counted below zero.
BtReconnectCBBelow(b) ==
    IF ~TimerSet(b) THEN b
    ELSE IF b.tries >= 0 THEN [b EXCEPT !.tries = @ - 1, !.started = TRUE]
    ELSE BtStopReconnect(b)
\* A slip of BtReconnectCB: the tries are not counted.
BtReconnectCBForever(b) ==
    IF ~TimerSet(b) THEN b
    ELSE IF b.tries > 0 THEN [b EXCEPT !.started = TRUE]
    ELSE BtStopReconnect(b)
\* A try failed: the next one is due after the interval, or there is none left.
BtReconnectCB(b) ==
    IF ~TimerSet(b) THEN b
    ELSE IF b.tries > 0 THEN [b EXCEPT !.tries = @ - 1, !.started = TRUE]
    ELSE BtStopReconnect(b)

BtReconnectDevice(b, ready) ==
    IF b.protect THEN b
    ELSE IF b.powerOn THEN BtReconnectCB(b)
    ELSE IF mode = "waiting" THEN [b EXCEPT !.delay = TRUE]
    ELSE LET on == [b EXCEPT !.powerOn = TRUE]
         IN  IF b.last = None THEN on ELSE BtStartReconnectDevice(on, PorTries, ready)

\* A profile came up while reconnecting: the next one follows in 200 ms.
BtStartReconnectProfile(b) ==
    IF ~TimerSet(b) THEN b
    ELSE IF b.up = Profile THEN BtStopReconnect(b)
    ELSE [b EXCEPT !.started = TRUE]

CheckBtReconnectTimer(b, ready) == BtReconnectProfile([b EXCEPT !.started = FALSE], ready)

\* Called by the stack when a phone connects of its own accord.
BtCancelReconnect(b) ==
    IF ~TimerSet(b) THEN b
    ELSE [b EXCEPT !.used = FALSE, !.started = FALSE, !.tries = 0,
                   !.protect = TRUE]

-----------------------------------------------------------------------------
(* What the callbacks of the profiles do. *)

\* A slip of SetBtConnectedProfile: a device met while reconnecting is not the last one.
SetBtConnectedProfileKeeps(b, p, d) ==
    LET on == [b EXCEPT !.up = @ \cup {p}, !.peer = d, !.asked = 0]
    IN  IF on.up # {p} THEN [on EXCEPT !.lastProfiles = @ \cup {p}]
        ELSE IF TimerSet(b) \/ (b.last = d /\ p \in b.lastProfiles) THEN on
        ELSE [on EXCEPT !.last = d, !.lastProfiles = {p}]
\* A slip of SetBtConnectedProfile: only the profile is compared, not the address.
SetBtConnectedProfileAny(b, p, d) ==
    LET on == [b EXCEPT !.up = @ \cup {p}, !.peer = d, !.asked = 0]
    IN  IF on.up # {p} THEN [on EXCEPT !.lastProfiles = @ \cup {p}]
        ELSE IF p \in b.lastProfiles THEN on
        ELSE [(IF TimerSet(b) THEN BtStopReconnect(on) ELSE on)
                  EXCEPT !.last = d, !.lastProfiles = {p}]
\* The first profile of a device makes it the last device; if that is a new one,
\* the manager gives up the old one.
SetBtConnectedProfile(b, p, d) ==
    LET on == [b EXCEPT !.up = @ \cup {p}, !.peer = d, !.asked = 0]
    IN  IF on.up # {p} THEN [on EXCEPT !.lastProfiles = @ \cup {p}]
        ELSE IF b.last = d /\ p \in b.lastProfiles THEN on
        ELSE [(IF TimerSet(b) THEN BtStopReconnect(on) ELSE on)
                  EXCEPT !.last = d, !.lastProfiles = {p}]

BtLinkStateConnect(b) ==
    IF ~b.link /\ {"A2DP", "AVRCP"} \subseteq b.up
    THEN [b EXCEPT !.link = TRUE, !.protect = FALSE] ELSE b

\* The event of an abort is looked at after BtStopReconnect.
BtLinkStateDisconnect(b) ==
    IF b.link /\ b.up = {}
    THEN LET stopped == BtStopReconnect([b EXCEPT !.link = FALSE])
         IN  IF stopped.aborted
             THEN [Armed(stopped, AbortTries) EXCEPT !.started = TRUE] ELSE stopped
    ELSE b

Connected(b, p) ==
    LET set == SetBtConnectedProfile(b, p, acl)
        asks == IF p = "A2DP" /\ ~TimerSet(set) /\ "AVRCP" \notin set.up
                THEN [set EXCEPT !.due = TRUE] ELSE set
        next == BtStartReconnectProfile(asks)
    IN  IF p = "HFP" THEN next ELSE BtLinkStateConnect(next)

\* A slip of Disconnected: the end of hands-free is not looked at.
DisconnectedUnseen(b, p) ==
    LET off == [b EXCEPT !.up = @ \ {p}]
        down == IF p = "HFP" THEN off ELSE BtLinkStateDisconnect(off)
    IN  CASE p = "A2DP" /\ "AVRCP" \in down.up -> [down EXCEPT !.stale = "armed"]
          [] p = "AVRCP" -> [down EXCEPT !.stale = "off", !.drop = FALSE]
          [] OTHER -> down
Disconnected(b, p) ==
    LET down == BtLinkStateDisconnect([b EXCEPT !.up = @ \ {p}])
    IN  CASE p = "A2DP" /\ "AVRCP" \in down.up -> [down EXCEPT !.stale = "armed"]
          [] p = "AVRCP" -> [down EXCEPT !.stale = "off", !.drop = FALSE]
          [] OTHER -> down

Answered(b, p) == IF b.page # None /\ b.page.profile = p THEN [b EXCEPT !.page = None] ELSE b

-----------------------------------------------------------------------------
(* The stack's callbacks. *)

\* The Bluetooth task is in its loop, not in the midst of BtScanPageStateCheck.
Loops == check = "none"

\* BT_STACK_EVENT_COMMON_ACCESS_MODE.  The first report of all starts the closing or
\* opening of Bluetooth (MSG_BT_MID_STATE_FAST_ENABLE).
AccessReported ==
    /\ Loops /\ report /\ acl = None
    /\ report' = FALSE /\ access' = wanted
    /\ IF wanted THEN \E ready \in BOOLEAN : m' = BtReconnectDevice(m, ready) ELSE UNCHANGED m
    /\ IF scan = "none" THEN scan' = (IF mode = "bt" THEN "opening" ELSE "closing")
       ELSE UNCHANGED scan
    /\ UNCHANGED <<mode, resume, check, keyed, rst, link, wanted, acts>>

LinkOpens(d) ==
    /\ Loops /\ acl = None
    /\ acl' = d /\ fate' = "held" /\ access' = FALSE
    /\ UNCHANGED <<app, wanted, report>>

\* A phone connects; the stack gives up its own request and may tell the manager.
Incoming(d) ==
    /\ access /\ acts < MaxActs /\ acts' = acts + 1
    /\ LinkOpens(d)
    /\ \E b \in {m, BtCancelReconnect(m)} : m' = [b EXCEPT !.page = None]

PageAnswered ==
    /\ m.page # None /\ m.page.dev # None
    /\ LinkOpens(m.page.dev)
    /\ UNCHANGED <<m, acts>>

\* BT_STACK_EVENT_COMMON_PAGE_TIME_OUT
PageTimeOut ==
    /\ Loops /\ m.page # None /\ acl = None
    /\ m' = BtReconnectCB([m EXCEPT !.page = None])
    /\ UNCHANGED <<app, link, scanning, acts>>

\* BT_STACK_EVENT_SIMPLE_PAIRING_FAILURE: the phone refuses.
PairingFailure ==
    /\ Loops /\ m.page # None /\ acl # None
    /\ m' = (IF TimerSet(m) THEN BtStopReconnect([m EXCEPT !.page = None])
             ELSE [m EXCEPT !.page = None])
    /\ UNCHANGED <<app, link, scanning, acts>>

\* BT_STACK_EVENT_A2DP_CONNECT_TIMEOUT: nothing is done when A2DP was not up.
A2dpConnectTimeout ==
    /\ Loops /\ acl # None /\ "A2DP" \notin m.up /\ m.page # None /\ m.page.profile = "A2DP"
    /\ m' = Answered(m, "A2DP")
    /\ UNCHANGED <<app, link, scanning, acts>>

\* BT_STACK_EVENT_HFP_CONNECTED, ..._A2DP_CONNECTED, ..._AVRCP_CONNECTED.  No profile
\* gets through in the one pass of the task that the reset spends in FINISHED.
ProfileUp(p) ==
    /\ Loops /\ acl # None /\ fate = "held" /\ p \notin m.up /\ rst # "finished"
    /\ m' = Answered(Connected(m, p), p)
    /\ UNCHANGED <<app, link, scanning, acts>>

\* ..._DISCONNECTED: the phone ends a profile, or the link is going down.
ProfileDown(p) ==
    /\ Loops /\ p \in m.up
    /\ m' = Disconnected(m, p)
    /\ UNCHANGED <<app, link, scanning>>
ProfileEnded(p) == acts < MaxActs /\ acts' = acts + 1 /\ fate = "held" /\ ProfileDown(p)
ProfileFalls(p) ==
    /\ fate # "held" \/ (p = "AVRCP" /\ m.drop)
    /\ ProfileDown(p) /\ UNCHANGED acts

\* The link is gone.  A lost one is reported first (..._BB_LOST_CONNECTION); then the
\* stack returns to the access mode asked for.
LinkCloses ==
    /\ Loops /\ acl # None /\ m.up = {}
    /\ LET gone == [m EXCEPT !.page = None]
       IN  IF fate = "lost" THEN \E ready \in BOOLEAN :
                                     m' = BtStartReconnectDevice(gone, LostTries, ready)
           ELSE m' = gone
    /\ acl' = None /\ fate' = "held" /\ report' = TRUE
    /\ UNCHANGED <<app, access, wanted, acts>>

\* The phone hangs up, goes out of reach, or breaks the protocol
\* (BT_STACK_EVENT_COMMON_CONNECTION_ABORTED, after which the stack hangs up).
LinkFails(f) ==
    /\ Loops /\ acl # None /\ fate = "held" /\ acts < MaxActs /\ acts' = acts + 1
    /\ fate' = f
    /\ m' = (IF f = "aborted" THEN [m EXCEPT !.aborted = TRUE] ELSE m)
    /\ UNCHANGED <<app, acl, scanning>>

-----------------------------------------------------------------------------
(* Timers of the Bluetooth task (CheckBtEventTimer, CheckBtErrorState). *)

Timed == Loops /\ UNCHANGED <<app, link, scanning, acts>>

ProtectOver == m.protect /\ m' = [m EXCEPT !.protect = FALSE] /\ Timed

DelayOver(ready) ==
    m.delay /\ m' = BtReconnectDevice([m EXCEPT !.delay = FALSE], ready) /\ Timed

TimerFires(ready) == m.started /\ m' = CheckBtReconnectTimer(m, ready) /\ Timed

\* The 30 s of an abort end; the count that is cleared is that of AVRCP.
AbortOver ==
    /\ m.aborted
    /\ m' = [m EXCEPT !.aborted = FALSE, !.stale = IF @ = "armed" THEN "lost" ELSE @]
    /\ Timed

AvrcpOver ==
    /\ m.stale = "armed"
    /\ m' = [m EXCEPT !.stale = "off", !.drop = "AVRCP" \in m.up]
    /\ Timed

AvrcpDue ==
    /\ m.due
    /\ LET over == [m EXCEPT !.due = FALSE]
       IN  m' = IF "AVRCP" \notin m.up /\ "A2DP" \in m.up
                THEN Asks(over, m.peer, "AVRCP") ELSE over
    /\ Timed

-----------------------------------------------------------------------------
(* Opening and closing (BtScanPageStateCheck), and the factory reset. *)

BTDisconnect == fate' = IF acl # None /\ fate = "held" THEN "hangup" ELSE fate
BTSetAccessMode(general) == wanted' = general /\ report' = TRUE /\ UNCHANGED access

\* The state is read and acted on ...
CheckClosing ==
    /\ Loops /\ scan = "closing"
    /\ m' = IF TimerSet(m) THEN BtStopReconnect(m) ELSE m
    /\ IF m.up # {} THEN BTDisconnect /\ check' = "disconnecting" /\ UNCHANGED scanning
       ELSE BTSetAccessMode(FALSE) /\ check' = "disable" /\ UNCHANGED fate
    /\ UNCHANGED <<mode, resume, scan, keyed, rst, acl, acts>>
CheckDisconnecting ==
    /\ Loops /\ scan = "disconnecting"
    /\ \/ access /\ BTSetAccessMode(FALSE) /\ check' = "disable" /\ UNCHANGED fate
       \/ ~access /\ m.up # {} /\ BTDisconnect /\ check' = "disconnecting" /\ UNCHANGED scanning
    /\ UNCHANGED <<m, mode, resume, scan, keyed, rst, acl, acts>>
CheckDisable ==
    /\ Loops /\ scan = "disable" /\ m.up # {}
    /\ BTDisconnect /\ check' = "disconnecting"
    /\ UNCHANGED <<m, mode, resume, scan, keyed, rst, acl, scanning, acts>>
CheckOpening ==
    /\ Loops /\ scan = "opening"
    /\ BTSetAccessMode(TRUE) /\ check' = "enable"
    /\ UNCHANGED <<m, mode, resume, scan, keyed, rst, link, acts>>
\* ... and written; after ENABLE comes the reconnecting.
CheckWritten ==
    /\ check # "none"
    /\ scan' = check /\ check' = "none"
    /\ IF check = "enable"
       THEN \E ready \in BOOLEAN : m' = BtReconnectDevice([m EXCEPT !.powerOn = FALSE], ready)
       ELSE UNCHANGED m
    /\ UNCHANGED <<mode, resume, keyed, rst, link, scanning, acts>>

RstStart ==
    /\ Loops /\ rst = "start" /\ rst' = "waiting"
    /\ m' = IF TimerSet(m) THEN BtStopReconnect(m) ELSE m
    /\ IF m.up # {} THEN BTDisconnect ELSE UNCHANGED fate
    /\ UNCHANGED <<mode, resume, scan, check, keyed, acl, scanning, acts>>
RstWaited ==
    /\ Loops /\ rst = "waiting"
    /\ \/ m.up # {} /\ BTDisconnect /\ UNCHANGED rst
       \/ m.up = {} /\ access /\ rst' = "finished" /\ UNCHANGED fate
    /\ UNCHANGED <<m, mode, resume, scan, check, keyed, acl, scanning, acts>>
RstFinished ==
    /\ Loops /\ rst = "finished" /\ rst' = "none"
    /\ m' = [m EXCEPT !.last = None, !.peer = None]
    /\ UNCHANGED <<mode, resume, scan, check, keyed, link, scanning, acts>>

-----------------------------------------------------------------------------
(* The modes and their keys. *)

Acts == acts < MaxActs /\ acts' = acts + 1 /\ UNCHANGED <<link, scanning>>

\* BtPlayCreate, and BtPlayKill on the way to another mode or to a call
BtFastPowerOn ==
    IF resume THEN resume' = FALSE /\ UNCHANGED scan ELSE scan' = "opening" /\ UNCHANGED resume
EnterBt ==
    /\ mode \in {"waiting", "other"} /\ Acts
    /\ mode' = "bt" /\ BtFastPowerOn
    /\ UNCHANGED <<m, check, keyed, rst>>
LeaveBt ==
    /\ mode = "bt" /\ ~keyed /\ Acts
    /\ mode' \in {"waiting", "other"} /\ scan' = "closing"
    /\ UNCHANGED <<m, resume, check, keyed, rst>>
LeaveForCall ==
    /\ mode = "bt" /\ ~keyed /\ "HFP" \in m.up /\ Acts
    /\ mode' = "call" /\ resume' = TRUE
    /\ UNCHANGED <<m, scan, check, keyed, rst>>
CallOver ==
    /\ mode = "call" /\ Acts
    /\ \/ mode' = "bt" /\ BtFastPowerOn
       \/ mode' = "other" /\ UNCHANGED <<resume, scan>>
    /\ UNCHANGED <<m, check, keyed, rst>>

\* MSG_BT_CONNECT_CTRL: hang up, or reconnect; the manager is armed first.
HangUp ==
    /\ mode = "bt" /\ ~keyed /\ m.up # {} /\ acts < MaxActs /\ acts' = acts + 1
    /\ m' = IF TimerSet(m) THEN BtStopReconnect(m) ELSE m
    /\ fate' = IF acl = m.last /\ fate = "held" THEN "hangup" ELSE fate
    /\ UNCHANGED <<app, acl, scanning>>
ConnectKey ==
    /\ mode = "bt" /\ ~keyed /\ m.up = {} /\ Acts
    /\ m' = Armed(m, PorTries) /\ keyed' = TRUE
    /\ UNCHANGED <<mode, resume, scan, check, rst>>
ConnectKeyAsks ==
    /\ keyed /\ keyed' = FALSE
    /\ \E ready \in BOOLEAN : m' = BtReconnectProfile(m, ready)
    /\ UNCHANGED <<mode, resume, scan, check, rst, link, scanning, acts>>

\* MSG_BT_RST
ResetKey ==
    /\ mode = "bt" /\ ~keyed /\ rst = "none" /\ Acts
    /\ rst' = "start"
    /\ UNCHANGED <<m, mode, resume, scan, check, keyed>>

-----------------------------------------------------------------------------
Init ==
    /\ \E d \in Address, up \in {{"HFP", "A2DP", "AVRCP"}, {"A2DP", "AVRCP"}} :
         m = [up |-> {}, peer |-> None, last |-> d,
              lastProfiles |-> IF d = None THEN {} ELSE up,
              used |-> FALSE, started |-> FALSE, tries |-> 0,
              powerOn |-> FALSE, delay |-> FALSE, protect |-> FALSE, link |-> FALSE,
              aborted |-> FALSE, stale |-> "off", due |-> FALSE, drop |-> FALSE,
              page |-> None, asked |-> 0]
    /\ mode = "waiting" /\ resume = FALSE /\ scan = "none" /\ check = "none"
    /\ keyed = FALSE /\ rst = "none"
    /\ acl = None /\ fate = "held"
    /\ access = FALSE /\ wanted = FALSE /\ report = TRUE
    /\ acts = 0

Stack ==
    \/ AccessReported \/ PageAnswered \/ PageTimeOut \/ PairingFailure \/ A2dpConnectTimeout
    \/ LinkCloses
    \/ \E d \in Device : Incoming(d)
    \/ \E p \in Profile : ProfileUp(p) \/ ProfileEnded(p) \/ ProfileFalls(p)
    \/ \E f \in {"hangup", "lost", "aborted"} : LinkFails(f)
Timers ==
    \/ ProtectOver \/ AbortOver \/ AvrcpOver \/ AvrcpDue
    \/ \E ready \in BOOLEAN : DelayOver(ready) \/ TimerFires(ready)
Checks ==
    \/ CheckClosing \/ CheckDisconnecting \/ CheckDisable \/ CheckOpening \/ CheckWritten
    \/ RstStart \/ RstWaited \/ RstFinished
Modes ==
    \/ EnterBt \/ LeaveBt \/ LeaveForCall \/ CallOver
    \/ HangUp \/ ConnectKey \/ ConnectKeyAsks \/ ResetKey

Next == Stack \/ Timers \/ Checks \/ Modes

Spec == Init /\ [][Next]_vars

\* The Bluetooth task runs every millisecond: its timers and checks come.  The service
\* discovery is free in the end.  Every request is answered or times out, a link that
\* is going down goes down, and one without a profile is closed.
Fairness ==
    /\ WF_vars(AccessReported) /\ WF_vars(PageAnswered \/ PageTimeOut) /\ WF_vars(LinkCloses)
    /\ \A p \in Profile : WF_vars(ProfileFalls(p))
    /\ WF_vars(DelayOver(TRUE)) /\ WF_vars(TimerFires(TRUE))
    /\ WF_vars(ProtectOver) /\ WF_vars(AbortOver) /\ WF_vars(AvrcpOver) /\ WF_vars(AvrcpDue)
    /\ WF_vars(CheckClosing) /\ WF_vars(CheckDisconnecting) /\ WF_vars(CheckDisable)
    /\ WF_vars(CheckOpening) /\ WF_vars(CheckWritten)
    /\ WF_vars(RstStart) /\ WF_vars(RstWaited) /\ WF_vars(RstFinished) /\ WF_vars(ConnectKeyAsks)
FairSpec == Spec /\ Fairness

-----------------------------------------------------------------------------
(* Properties. *)

\* btLinkState follows the profiles: it is off without any, and on with A2DP and AVRCP,
\* in whatever order they come and go (BtLinkStateConnect, BtLinkStateDisconnect).
LinkHonest == (m.up = {} => ~m.link) /\ ({"A2DP", "AVRCP"} \subseteq m.up => m.link)

\* While a profile is up, the last device and the remote device are the one linked, also
\* when another phone came first (SetBtConnectedProfile, BtRstStateCheck).
LastIsLinked == m.up # {} => m.last = acl /\ m.peer = acl

\* While a phone is connected, no other one is asked: a reconnecting that another phone
\* overtook has ended (SetBtConnectedProfile, BtReconnectProfile, CheckBtEventTimer).
NoStranger == [][(m'.page \notin {m.page, None} /\ m'.up # {}) => m'.page.dev = m'.peer]_vars

\* When no phone answers any more, the paging ends (BtReconnectCB).
PagingEnds == <>[](acl = None) => <>[](m.page = None)

\* The comment at BtLinkStateDisconnect: when L2CAP breaks off all the protocols, the
\* return to the device starts.
AbortReconnects == [][(m.link /\ ~m'.link /\ m.aborted) => m'.used]_vars

=============================================================================
