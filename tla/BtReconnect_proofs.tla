------------------------- MODULE BtReconnect_proofs -------------------------
(***************************************************************************)
(* The link state follows the profiles, the last device is the one linked, *)
(* and no stranger is asked while a phone is connected: for every set of   *)
(* phones and every number of tries.  The reconnecting itself never moves  *)
(* what these say (Quiet); the callbacks of the profiles do, and the reset *)
(* does only when no profile is up.  And the asking is bounded: what has   *)
(* been asked and what may still be asked never grows (Within).            *)
(***************************************************************************)
EXTENDS BtReconnect, TLAPS

\* What the reconnecting leaves alone, and whom it asks: the last device.
Quiet(b, c) ==
    /\ c \in Manager
    /\ c.up = b.up /\ c.link = b.link /\ c.peer = b.peer /\ c.last = b.last
    /\ c.page \in {b.page, None} \/ c.page.dev = b.last

\* The invariant.  A profile needs a link; the reset forgets a device only when none
\* is up.
Linked(b, a) ==
    /\ (b.up = {} => ~b.link) /\ ({"A2DP", "AVRCP"} \subseteq b.up => b.link)
    /\ b.up # {} => b.last = a /\ b.peer = a /\ a # None
IInv ==
    /\ m \in Manager /\ acl \in Address /\ rst \in {"none", "start", "waiting", "finished"}
    /\ Linked(m, acl)
    /\ rst = "finished" => m.up = {}

-----------------------------------------------------------------------------
(* The reconnecting. *)

LEMMA MaxAskedIsNat == MaxAsked \in Nat
BY TriesAssumption DEF MaxAsked, MaxTries

LEMMA StopIsQuiet ==
  ASSUME NEW b \in Manager PROVE Quiet(b, BtStopReconnect(b))
BY DEF Manager, Quiet, BtStopReconnect

LEMMA StopKeepsPage ==
  ASSUME NEW b \in Manager PROVE BtStopReconnect(b).page = b.page
BY DEF Manager, BtStopReconnect

LEMMA AsksIsAsked ==
  ASSUME NEW b \in Manager, NEW d \in Address, NEW p \in Profile
  PROVE  /\ Asks(b, d, p) \in Manager
         /\ Asks(b, d, p).page.dev = d
         /\ Asks(b, d, p).up = b.up /\ Asks(b, d, p).link = b.link
         /\ Asks(b, d, p).peer = b.peer /\ Asks(b, d, p).last = b.last
<1>1. (IF b.asked < MaxAsked THEN b.asked + 1 ELSE b.asked) \in Nat
  BY MaxAskedIsNat DEF Manager
<1>2. [dev |-> d, profile |-> p] \in Request
  BY DEF Request
<1> QED BY <1>1, <1>2 DEF Manager, Asks

LEMMA NextIsProfile == ASSUME NEW b \in Manager PROVE NextProfile(b) \in Profile
BY DEF NextProfile, Profile

LEMMA ProfileIsQuiet ==
  ASSUME NEW b \in Manager, NEW ready \in BOOLEAN
  PROVE  Quiet(b, BtReconnectProfile(b, ready))
<1>1. CASE Missing(b) = {}
  BY <1>1, StopIsQuiet DEF BtReconnectProfile
<1>2. CASE Missing(b) # {} /\ ~ready
  BY <1>2 DEF BtReconnectProfile, Manager, Quiet
<1>3. CASE Missing(b) # {} /\ ready
  <2>1. b.last \in Address
    BY DEF Manager
  <2>2. BtReconnectProfile(b, ready) = Asks(b, b.last, NextProfile(b))
    BY <1>3 DEF BtReconnectProfile
  <2> DEFINE asked == Asks(b, b.last, NextProfile(b))
  <2>3. /\ asked \in Manager /\ asked.page.dev = b.last
        /\ asked.up = b.up /\ asked.link = b.link
        /\ asked.peer = b.peer /\ asked.last = b.last
    BY <2>1, AsksIsAsked, NextIsProfile
  <2> HIDE DEF asked
  <2>4. Quiet(b, asked)
    BY <2>3 DEF Quiet
  <2> QED BY <2>2, <2>4 DEF asked
<1> QED BY <1>1, <1>2, <1>3

LEMMA QuietChains ==
  ASSUME NEW b \in Manager, NEW c \in Manager, NEW e, Quiet(b, c), Quiet(c, e)
  PROVE  Quiet(b, e)
BY DEF Quiet

LEMMA ArmedIsQuiet ==
  ASSUME NEW b \in Manager, NEW n \in Nat PROVE Quiet(b, Armed(b, n))
BY DEF Manager, Quiet, Armed

LEMMA StartIsQuiet ==
  ASSUME NEW b \in Manager, NEW n \in Nat, NEW ready \in BOOLEAN
  PROVE  Quiet(b, BtStartReconnectDevice(b, n, ready))
<1>1. Quiet(b, Armed(b, n))
  BY ArmedIsQuiet
<1>2. Armed(b, n) \in Manager
  BY <1>1 DEF Quiet
<1>3. Quiet(Armed(b, n), BtStartReconnectDevice(b, n, ready))
  BY <1>2, ProfileIsQuiet DEF BtStartReconnectDevice
<1> QED BY <1>1, <1>2, <1>3, QuietChains

LEMMA TryIsQuiet ==
  ASSUME NEW b \in Manager PROVE Quiet(b, BtReconnectCB(b))
<1>1. CASE ~TimerSet(b)
  BY <1>1 DEF BtReconnectCB, Quiet
<1>2. CASE TimerSet(b) /\ b.tries > 0
  <2> DEFINE next == [b EXCEPT !.tries = @ - 1, !.started = TRUE]
  <2>1. b.tries - 1 \in Nat
    BY <1>2 DEF Manager
  <2>2. Quiet(b, next)
    BY <2>1 DEF Quiet, Manager
  <2> QED BY <1>2, <2>2 DEF BtReconnectCB
<1>3. CASE TimerSet(b) /\ ~(b.tries > 0)
  BY <1>3, StopIsQuiet DEF BtReconnectCB
<1> QED BY <1>1, <1>2, <1>3

LEMMA DeviceIsQuiet ==
  ASSUME NEW b \in Manager, NEW ready \in BOOLEAN
  PROVE  Quiet(b, BtReconnectDevice(b, ready))
<1> DEFINE on == [b EXCEPT !.powerOn = TRUE]
<1>1. Quiet(b, on) /\ Quiet(b, b) /\ Quiet(b, [b EXCEPT !.delay = TRUE])
  BY DEF Quiet, Manager
<1>2. Quiet(on, BtStartReconnectDevice(on, PorTries, ready))
  BY <1>1, StartIsQuiet, TriesAssumption DEF Quiet
<1>3. Quiet(b, BtStartReconnectDevice(on, PorTries, ready))
  BY <1>1, <1>2, QuietChains DEF Quiet
<1> HIDE DEF on
<1> QED BY <1>1, <1>3, TryIsQuiet DEF BtReconnectDevice, on

LEMMA CallbacksAreQuiet ==
  ASSUME NEW b \in Manager, NEW ready \in BOOLEAN, NEW p \in Profile
  PROVE  /\ Quiet(b, BtStartReconnectProfile(b))
         /\ Quiet(b, CheckBtReconnectTimer(b, ready))
         /\ Quiet(b, BtCancelReconnect(b))
         /\ Quiet(b, Answered(b, p))
<1>1. Quiet(b, [b EXCEPT !.started = TRUE]) /\ Quiet(b, b)
  BY DEF Quiet, Manager
<1>2. Quiet(b, BtStartReconnectProfile(b))
  BY <1>1, StopIsQuiet DEF BtStartReconnectProfile
<1>3. Quiet(b, CheckBtReconnectTimer(b, ready))
  <2> DEFINE off == [b EXCEPT !.started = FALSE]
  <2>1. Quiet(b, off)
    BY DEF Quiet, Manager
  <2>2. off \in Manager
    BY <2>1 DEF Quiet
  <2>3. Quiet(off, BtReconnectProfile(off, ready))
    BY <2>2, ProfileIsQuiet
  <2> HIDE DEF off
  <2>4. Quiet(b, BtReconnectProfile(off, ready))
    BY <2>1, <2>2, <2>3, QuietChains
  <2> QED BY <2>4 DEF CheckBtReconnectTimer, off
<1>4. Quiet(b, BtCancelReconnect(b))
  BY DEF BtCancelReconnect, Quiet, Manager
<1>5. Quiet(b, Answered(b, p))
  BY DEF Answered, Quiet, Manager
<1> QED BY <1>2, <1>3, <1>4, <1>5

-----------------------------------------------------------------------------
(* The callbacks of the profiles. *)

\* Whom the manager asks after a step from b to c: nobody new, or the device linked.
AsksLinked(b, c) == c.page \in {b.page, None} \/ c.page.dev = c.peer

LEMMA SetIsLast ==
  ASSUME NEW b \in Manager, NEW d \in Device, NEW p \in Profile, p \notin b.up,
         b.up # {} => b.last = d
  PROVE  LET set == SetBtConnectedProfile(b, p, d)
         IN  /\ set \in Manager
             /\ set.up = b.up \cup {p} /\ set.peer = d /\ set.last = d
             /\ set.link = b.link /\ set.page = b.page
<1> DEFINE on == [b EXCEPT !.up = @ \cup {p}, !.peer = d, !.asked = 0]
<1>1. /\ on \in Manager /\ on.up = b.up \cup {p} /\ on.peer = d
      /\ on.last = b.last /\ on.link = b.link /\ on.page = b.page
  BY DEF Manager, Address
<1>2. CASE on.up # {p}
  <2>1. b.up # {}
    BY <1>1, <1>2
  <2>2. SetBtConnectedProfile(b, p, d) = [on EXCEPT !.lastProfiles = @ \cup {p}]
    BY <1>2 DEF SetBtConnectedProfile
  <2> HIDE DEF on
  <2> QED BY <1>1, <2>1, <2>2 DEF Manager
<1>3. CASE on.up = {p} /\ b.last = d /\ p \in b.lastProfiles
  <2>1. SetBtConnectedProfile(b, p, d) = on
    BY <1>3 DEF SetBtConnectedProfile
  <2> HIDE DEF on
  <2> QED BY <1>1, <1>3, <2>1
<1>4. CASE on.up = {p} /\ ~(b.last = d /\ p \in b.lastProfiles)
  <2> DEFINE free == IF TimerSet(b) THEN BtStopReconnect(on) ELSE on
  <2>1. SetBtConnectedProfile(b, p, d) = [free EXCEPT !.last = d, !.lastProfiles = {p}]
    BY <1>4 DEF SetBtConnectedProfile
  <2> HIDE DEF on
  <2>2. /\ free \in Manager /\ free.up = b.up \cup {p} /\ free.peer = d
        /\ free.link = b.link /\ free.page = b.page
    <3>1. CASE TimerSet(b)
      BY <1>1, <3>1, StopIsQuiet, StopKeepsPage DEF Quiet
    <3>2. CASE ~TimerSet(b)
      BY <1>1, <3>2
    <3> QED BY <3>1, <3>2
  <2> HIDE DEF free
  <2> QED BY <2>1, <2>2 DEF Manager, Address
<1> QED BY <1>2, <1>3, <1>4

LEMMA ConnectedIsLinked ==
  ASSUME NEW b \in Manager, NEW p \in Profile, p \notin b.up, acl \in Device, Linked(b, acl)
  PROVE  /\ Connected(b, p) \in Manager /\ Connected(b, p).up # {}
         /\ Linked(Connected(b, p), acl) /\ AsksLinked(b, Connected(b, p))
<1> DEFINE set  == SetBtConnectedProfile(b, p, acl)
           asks == IF p = "A2DP" /\ ~TimerSet(set) /\ "AVRCP" \notin set.up
                   THEN [set EXCEPT !.due = TRUE] ELSE set
           next == BtStartReconnectProfile(asks)
<1>1. /\ set \in Manager
      /\ set.up = b.up \cup {p} /\ set.peer = acl /\ set.last = acl
      /\ set.link = b.link /\ set.page = b.page
  BY SetIsLast DEF Linked
<1>2. Connected(b, p) = IF p = "HFP" THEN next ELSE BtLinkStateConnect(next)
  BY DEF Connected
<1> HIDE DEF set
<1>3. /\ asks \in Manager
      /\ asks.up = b.up \cup {p} /\ asks.peer = acl /\ asks.last = acl
      /\ asks.link = b.link /\ asks.page = b.page
  BY <1>1 DEF Manager
<1> HIDE DEF asks
<1>4. Quiet(asks, next)
  BY <1>3, CallbacksAreQuiet
<1> HIDE DEF next
<1>5. /\ next \in Manager
      /\ next.up = b.up \cup {p} /\ next.peer = acl /\ next.last = acl
      /\ next.link = b.link /\ (next.page \in {b.page, None} \/ next.page.dev = acl)
  BY <1>3, <1>4 DEF Quiet
<1>6. acl # None
  BY DeviceAssumption
<1>7. CASE p = "HFP"
  BY <1>2, <1>5, <1>6, <1>7 DEF Linked, AsksLinked
<1>8. CASE p # "HFP"
  <2> DEFINE c == BtLinkStateConnect(next)
  <2>1. /\ c \in Manager /\ c.up = next.up /\ c.peer = acl /\ c.last = acl
        /\ c.page = next.page
        /\ next.link => c.link
        /\ ~next.link => (c.link => next.up # {})
        /\ {"A2DP", "AVRCP"} \subseteq next.up => c.link
    <3>1. CASE ~next.link /\ {"A2DP", "AVRCP"} \subseteq next.up
      <4>1. c = [next EXCEPT !.link = TRUE, !.protect = FALSE]
        BY <3>1 DEF BtLinkStateConnect
      <4> QED BY <1>5, <3>1, <4>1 DEF Manager
    <3>2. CASE ~(~next.link /\ {"A2DP", "AVRCP"} \subseteq next.up)
      <4>1. c = next
        BY <3>2 DEF BtLinkStateConnect
      <4> QED BY <1>5, <3>2, <4>1
    <3> QED BY <3>1, <3>2
  <2>2. Connected(b, p) = c
    BY <1>2, <1>8
  <2> HIDE DEF c
  <2> QED BY <1>5, <1>6, <2>1, <2>2 DEF Linked, AsksLinked
<1> QED BY <1>7, <1>8

LEMMA DisconnectedIsLinked ==
  ASSUME NEW b \in Manager, NEW p \in Profile, p \in b.up, Linked(b, acl)
  PROVE  /\ Disconnected(b, p) \in Manager
         /\ Disconnected(b, p).up \subseteq b.up
         /\ Linked(Disconnected(b, p), acl) /\ AsksLinked(b, Disconnected(b, p))
<1> DEFINE off  == [b EXCEPT !.up = @ \ {p}]
           down == BtLinkStateDisconnect(off)
<1>1. /\ off \in Manager /\ off.up = b.up \ {p} /\ off.peer = b.peer
      /\ off.last = b.last /\ off.link = b.link /\ off.page = b.page
  BY DEF Manager
<1> HIDE DEF off
<1>2. /\ down \in Manager /\ down.up = off.up /\ down.peer = off.peer
      /\ down.last = off.last /\ down.page = off.page
      /\ off.up = {} => ~down.link
      /\ off.up # {} => down.link = off.link
  <2> DEFINE cut     == [off EXCEPT !.link = FALSE]
             stopped == BtStopReconnect(cut)
  <2>1. CASE off.link /\ off.up = {}
    <3>1. /\ cut \in Manager /\ cut.up = off.up /\ cut.peer = off.peer
          /\ cut.last = off.last /\ cut.page = off.page /\ ~cut.link
      BY <1>1 DEF Manager
    <3>2. down = stopped
      <4>1. ~stopped.aborted
        BY <3>1 DEF BtStopReconnect, Manager
      <4> QED BY <2>1, <4>1 DEF BtLinkStateDisconnect
    <3> HIDE DEF cut
    <3> QED BY <2>1, <3>1, <3>2, StopIsQuiet, StopKeepsPage DEF Quiet
  <2>2. CASE ~(off.link /\ off.up = {})
    <3>1. down = off
      BY <2>2 DEF BtLinkStateDisconnect
    <3> QED BY <1>1, <2>2, <3>1
  <2> QED BY <2>1, <2>2
<1>3. Disconnected(b, p) =
        CASE p = "A2DP" /\ "AVRCP" \in down.up -> [down EXCEPT !.stale = "armed"]
          [] p = "AVRCP" -> [down EXCEPT !.stale = "off", !.drop = FALSE]
          [] OTHER -> down
  BY DEF Disconnected, off
<1> HIDE DEF down
<1> DEFINE c == Disconnected(b, p)
<1>4. /\ c \in Manager /\ c.up = down.up /\ c.peer = down.peer
      /\ c.last = down.last /\ c.page = down.page /\ c.link = down.link
  BY <1>2, <1>3 DEF Manager
<1> HIDE DEF c
<1>5. Linked(c, acl) /\ AsksLinked(b, c) /\ c.up \subseteq b.up
  BY <1>1, <1>2, <1>4 DEF Linked, AsksLinked
<1> QED BY <1>4, <1>5 DEF c

-----------------------------------------------------------------------------
(* The steps. *)

\* What every step is shown to do: the invariant, and whom the manager asks.
Good == IInv' /\ (m'.up # {} => AsksLinked(m, m'))

LEMMA EditsAreQuiet ==
  ASSUME NEW b \in Manager
  PROVE  /\ Quiet(b, b)
         /\ Quiet(b, [b EXCEPT !.page = None])
         /\ Quiet(b, [b EXCEPT !.aborted = TRUE])
         /\ Quiet(b, [b EXCEPT !.protect = FALSE])
         /\ Quiet(b, [b EXCEPT !.delay = FALSE])
         /\ Quiet(b, [b EXCEPT !.powerOn = FALSE])
         /\ Quiet(b, [b EXCEPT !.due = FALSE])
BY DEF Manager, Quiet

\* A step that only reconnects, or leaves the manager alone.
LEMMA QuietIsGood ==
  ASSUME IInv, Quiet(m, m'), acl' = acl,
         rst' \in {rst, "none", "start", "waiting"} \/ (rst' = "finished" /\ m.up = {})
  PROVE  Good
<1>1. m' \in Manager /\ (m'.up # {} => AsksLinked(m, m'))
  BY DEF IInv, Linked, Quiet, AsksLinked
<1>2. Linked(m', acl') /\ (rst' = "finished" => m'.up = {})
  BY DEF IInv, Linked, Quiet
<1>3. acl' \in Address /\ rst' \in {"none", "start", "waiting", "finished"}
  BY DEF IInv
<1> QED BY <1>1, <1>2, <1>3 DEF Good, IInv, Linked

\* A step of the link finds no profile up, or takes none up.
LEMMA LinkIsGood ==
  ASSUME IInv, Quiet(m, m'), m.up = {}, acl' \in Address, rst' = rst
  PROVE  Good
BY DEF Good, IInv, Linked, Quiet

LEMMA StackIsGood ==
  ASSUME IInv, Stack PROVE Good
<1> USE DEF link, scanning, app
<1>0. m \in Manager /\ Linked(m, acl) /\ (acl = None => m.up = {})
  BY DEF IInv, Linked
<1> DEFINE gone == [m EXCEPT !.page = None]
<1>1. Quiet(m, gone) /\ gone \in Manager /\ Quiet(m, m)
  BY <1>0, EditsAreQuiet DEF Quiet
<1> HIDE DEF gone
<1>2. CASE AccessReported
  BY <1>2, <1>0, <1>1, DeviceIsQuiet, QuietIsGood DEF AccessReported
<1>3. CASE PageAnswered
  <2>1. m.page # None /\ m.page.dev \in Address /\ acl = None
    BY <1>0, <1>3 DEF PageAnswered, LinkOpens, Manager, Request
  <2> QED BY <1>3, <2>1, <1>0, <1>1, LinkIsGood DEF PageAnswered, LinkOpens
<1>4. CASE PageTimeOut
  <2>1. Quiet(gone, BtReconnectCB(gone))
    BY <1>1, TryIsQuiet
  <2>2. Quiet(m, BtReconnectCB(gone))
    BY <1>0, <1>1, <2>1, QuietChains
  <2> QED BY <1>4, <2>2, QuietIsGood DEF PageTimeOut, gone
<1>5. CASE PairingFailure
  <2>1. Quiet(gone, BtStopReconnect(gone))
    BY <1>1, StopIsQuiet
  <2>2. Quiet(m, BtStopReconnect(gone))
    BY <1>0, <1>1, <2>1, QuietChains
  <2> QED BY <1>5, <1>1, <2>2, QuietIsGood DEF PairingFailure, gone
<1>6. CASE A2dpConnectTimeout
  BY <1>6, <1>0, CallbacksAreQuiet, QuietIsGood DEF A2dpConnectTimeout, Profile
<1>7. CASE LinkCloses
  <2>1. ASSUME NEW ready \in BOOLEAN PROVE Quiet(m, BtStartReconnectDevice(gone, LostTries, ready))
    <3>1. Quiet(gone, BtStartReconnectDevice(gone, LostTries, ready))
      BY <1>1, StartIsQuiet, TriesAssumption
    <3> QED BY <1>0, <1>1, <3>1, QuietChains
  <2>2. Quiet(m, m')
    BY <1>7, <1>1, <2>1 DEF LinkCloses, gone
  <2> QED BY <1>7, <2>2, LinkIsGood DEF LinkCloses, Address
<1>8. ASSUME NEW d \in Device, Incoming(d) PROVE Good
  <2>1. PICK b \in {m, BtCancelReconnect(m)} : m' = [b EXCEPT !.page = None]
    BY <1>8 DEF Incoming
  <2>2. Quiet(m, b) /\ b \in Manager
    <3>1. "HFP" \in Profile /\ TRUE \in BOOLEAN
      BY DEF Profile
    <3>2. Quiet(m, BtCancelReconnect(m))
      BY <1>0, <3>1, CallbacksAreQuiet
    <3> QED BY <1>1, <2>1, <3>2 DEF Quiet
  <2>3. Quiet(m, m')
    BY <1>0, <2>1, <2>2, EditsAreQuiet, QuietChains
  <2> QED BY <1>8, <1>0, <2>3, LinkIsGood DEF Incoming, LinkOpens, Address
<1>9. ASSUME NEW p \in Profile, ProfileUp(p) PROVE Good
  <2> DEFINE c == Connected(m, p)
  <2>1. acl \in Device /\ p \notin m.up /\ rst # "finished" /\ m' = Answered(c, p)
        /\ acl' = acl /\ rst' = rst
    BY <1>9 DEF ProfileUp, IInv, Address
  <2>2. c \in Manager /\ c.up # {} /\ Linked(c, acl) /\ AsksLinked(m, c)
    BY <1>0, <2>1, ConnectedIsLinked
  <2> HIDE DEF c
  <2>3. /\ m' \in Manager /\ m'.up = c.up /\ m'.link = c.link /\ m'.peer = c.peer
        /\ m'.last = c.last /\ m'.page \in {c.page, None}
    BY <2>1, <2>2 DEF Answered, Manager
  <2> QED BY <2>1, <2>2, <2>3 DEF Good, IInv, Linked, AsksLinked
<1>10. ASSUME NEW p \in Profile, ProfileDown(p) PROVE Good
  <2>1. p \in m.up /\ m' = Disconnected(m, p) /\ acl' = acl /\ rst' = rst
    BY <1>10 DEF ProfileDown
  <2>2. m' \in Manager /\ m'.up \subseteq m.up /\ Linked(m', acl) /\ AsksLinked(m, m')
    BY <1>0, <2>1, DisconnectedIsLinked
  <2> QED BY <2>1, <2>2 DEF Good, IInv, Linked
<1>11. ASSUME NEW f, LinkFails(f) PROVE Good
  BY <1>11, <1>0, <1>1, EditsAreQuiet, QuietIsGood DEF LinkFails
<1> QED BY <1>2, <1>3, <1>4, <1>5, <1>6, <1>7, <1>8, <1>9, <1>10, <1>11
        DEF Stack, ProfileEnded, ProfileFalls

LEMMA TimersAreGood ==
  ASSUME IInv, Timers PROVE Good
<1> USE DEF link, scanning, app, Timed
<1>0. m \in Manager /\ Linked(m, acl)
  BY DEF IInv
<1>1. CASE ProtectOver
  BY <1>1, <1>0, EditsAreQuiet, QuietIsGood DEF ProtectOver
<1>2. ASSUME NEW ready \in BOOLEAN, DelayOver(ready) PROVE Good
  <2> DEFINE on == [m EXCEPT !.delay = FALSE]
  <2>1. Quiet(m, on) /\ on \in Manager
    BY <1>0, EditsAreQuiet DEF Quiet
  <2>2. m' = BtReconnectDevice(on, ready) /\ acl' = acl /\ rst' = rst
    BY <1>2 DEF DelayOver
  <2> HIDE DEF on
  <2>3. Quiet(m, m')
    BY <1>0, <2>1, <2>2, DeviceIsQuiet, QuietChains
  <2> QED BY <2>2, <2>3, QuietIsGood
<1>3. ASSUME NEW ready \in BOOLEAN, TimerFires(ready) PROVE Good
  <2>1. "HFP" \in Profile
    BY DEF Profile
  <2>2. Quiet(m, CheckBtReconnectTimer(m, ready))
    BY <1>0, <2>1, CallbacksAreQuiet
  <2> QED BY <1>3, <2>2, QuietIsGood DEF TimerFires
<1>4. CASE AbortOver
  <2>1. Quiet(m, [m EXCEPT !.aborted = FALSE, !.stale = IF @ = "armed" THEN "lost" ELSE @])
    BY <1>0 DEF Quiet, Manager
  <2> QED BY <1>4, <2>1, QuietIsGood DEF AbortOver
<1>5. CASE AvrcpOver
  <2>1. \A drop \in BOOLEAN : Quiet(m, [m EXCEPT !.stale = "off", !.drop = drop])
    BY <1>0 DEF Quiet, Manager
  <2>2. ("AVRCP" \in m.up) \in BOOLEAN
    OBVIOUS
  <2>3. Quiet(m, [m EXCEPT !.stale = "off", !.drop = "AVRCP" \in m.up])
    BY <2>1, <2>2, Zenon
  <2> QED BY <1>5, <2>3, QuietIsGood DEF AvrcpOver
<1>6. CASE AvrcpDue
  <2> DEFINE over == [m EXCEPT !.due = FALSE]
             asked == Asks(over, m.peer, "AVRCP")
  <2>1. /\ over \in Manager /\ over.up = m.up /\ over.link = m.link
        /\ over.peer = m.peer /\ over.last = m.last /\ over.page = m.page
    BY <1>0 DEF Manager
  <2>2. m' = (IF "AVRCP" \notin m.up /\ "A2DP" \in m.up THEN asked ELSE over)
        /\ acl' = acl /\ rst' = rst
    BY <1>6 DEF AvrcpDue
  <2>3. m.peer \in Address /\ "AVRCP" \in Profile
    BY <1>0 DEF Manager, Profile
  <2> HIDE DEF over
  <2>4. /\ asked \in Manager /\ asked.up = m.up /\ asked.link = m.link
        /\ asked.peer = m.peer /\ asked.last = m.last /\ asked.page.dev = m.peer
    BY <2>1, <2>3, AsksIsAsked
  <2> HIDE DEF asked
  <2> QED BY <1>0, <2>1, <2>2, <2>4 DEF Good, IInv, Linked, AsksLinked
<1> QED BY <1>1, <1>2, <1>3, <1>4, <1>5, <1>6 DEF Timers

\* Only the reset changes what Linked speaks of, when no profile is up.
LEMMA ChecksAreGood ==
  ASSUME IInv, Checks PROVE Good
<1> USE DEF link, scanning, app, BTDisconnect, BTSetAccessMode
<1>0. m \in Manager /\ Linked(m, acl)
  BY DEF IInv
<1>1. Quiet(m, m) /\ Quiet(m, BtStopReconnect(m))
  BY <1>0, EditsAreQuiet, StopIsQuiet
<1>2. CASE CheckClosing
  BY <1>2, <1>1, QuietIsGood DEF CheckClosing
<1>3. CASE CheckDisconnecting
  BY <1>3, <1>1, QuietIsGood DEF CheckDisconnecting
<1>4. CASE CheckDisable
  BY <1>4, <1>1, QuietIsGood DEF CheckDisable
<1>5. CASE CheckOpening
  BY <1>5, <1>1, QuietIsGood DEF CheckOpening
<1>6. CASE CheckWritten
  <2> DEFINE off == [m EXCEPT !.powerOn = FALSE]
  <2>1. Quiet(m, off) /\ off \in Manager
    BY <1>0, EditsAreQuiet DEF Quiet
  <2> HIDE DEF off
  <2>2. \A ready \in BOOLEAN : Quiet(m, BtReconnectDevice(off, ready))
    <3> TAKE ready \in BOOLEAN
    <3>1. Quiet(off, BtReconnectDevice(off, ready))
      BY <2>1, DeviceIsQuiet
    <3> QED BY <1>0, <2>1, <3>1, QuietChains
  <2>3. Quiet(m, m')
    BY <1>6, <1>1, <2>2 DEF CheckWritten, off
  <2> QED BY <1>6, <2>3, QuietIsGood DEF CheckWritten
<1>7. CASE RstStart
  BY <1>7, <1>1, QuietIsGood DEF RstStart
<1>8. CASE RstWaited
  BY <1>8, <1>1, QuietIsGood DEF RstWaited
<1>9. CASE RstFinished
  <2>1. m.up = {} /\ m' = [m EXCEPT !.last = None, !.peer = None]
        /\ acl' = acl /\ rst' = "none"
    BY <1>9 DEF RstFinished, IInv
  <2>2. m' \in Manager /\ m'.up = {} /\ m'.link = m.link
    BY <1>0, <2>1 DEF Manager, Address
  <2> QED BY <1>0, <2>1, <2>2 DEF Good, IInv, Linked
<1> QED BY <1>2, <1>3, <1>4, <1>5, <1>6, <1>7, <1>8, <1>9 DEF Checks

LEMMA ModesAreGood ==
  ASSUME IInv, Modes PROVE Good
<1> USE DEF link, scanning, app, Acts, BtFastPowerOn
<1>0. m \in Manager /\ Linked(m, acl)
  BY DEF IInv
<1>1. Quiet(m, m) /\ Quiet(m, BtStopReconnect(m))
  BY <1>0, EditsAreQuiet, StopIsQuiet
<1>2. CASE EnterBt \/ LeaveBt \/ LeaveForCall \/ CallOver
  BY <1>2, <1>1, QuietIsGood DEF EnterBt, LeaveBt, LeaveForCall, CallOver
<1>3. CASE HangUp
  BY <1>3, <1>1, QuietIsGood DEF HangUp
<1>4. CASE ConnectKey
  BY <1>4, <1>0, ArmedIsQuiet, TriesAssumption, QuietIsGood DEF ConnectKey
<1>5. CASE ConnectKeyAsks
  BY <1>5, <1>0, ProfileIsQuiet, QuietIsGood DEF ConnectKeyAsks
<1>6. CASE ResetKey
  BY <1>6, <1>1, QuietIsGood DEF ResetKey
<1> QED BY <1>2, <1>3, <1>4, <1>5, <1>6 DEF Modes

LEMMA InitIsLinked == Init => IInv
<1> SUFFICES ASSUME Init PROVE IInv
  OBVIOUS
<1>1. PICK d \in Address, up \in {{"HFP", "A2DP", "AVRCP"}, {"A2DP", "AVRCP"}} :
         m = [up |-> {}, peer |-> None, last |-> d,
              lastProfiles |-> IF d = None THEN {} ELSE up,
              used |-> FALSE, started |-> FALSE, tries |-> 0,
              powerOn |-> FALSE, delay |-> FALSE, protect |-> FALSE, link |-> FALSE,
              aborted |-> FALSE, stale |-> "off", due |-> FALSE, drop |-> FALSE,
              page |-> None, asked |-> 0]
  BY DEF Init
<1>2. m \in Manager
  BY <1>1 DEF Manager, Address, Profile
<1>3. m.up = {} /\ ~m.link
  BY <1>1
<1>4. acl \in Address /\ rst = "none"
  BY DEF Init, Address
<1> QED BY <1>2, <1>3, <1>4 DEF IInv, Linked

LEMMA StepsAreGood == IInv /\ [Next]_vars => IInv' /\ (m'.up # {} => AsksLinked(m, m'))
<1>1. ASSUME IInv, Next PROVE Good
  BY <1>1, StackIsGood, TimersAreGood, ChecksAreGood, ModesAreGood DEF Next
<1>2. ASSUME IInv, UNCHANGED vars PROVE Good
  <2>1. m' = m /\ acl' = acl /\ rst' = rst
    BY <1>2 DEF vars, app, link
  <2>2. m \in Manager
    BY <1>2 DEF IInv
  <2> QED BY <1>2, <2>1, <2>2, EditsAreQuiet, QuietIsGood
<1> QED BY <1>1, <1>2 DEF Good

LEMMA AlwaysLinked == Spec => []IInv
BY InitIsLinked, StepsAreGood, PTL DEF Spec

-----------------------------------------------------------------------------
\* The link state follows the profiles, in whatever order the callbacks of A2DP, AVRCP
\* and hands-free come (BtLinkStateConnect, BtLinkStateDisconnect).
THEOREM LinkFollowsProfiles == Spec => []LinkHonest
<1>1. IInv => LinkHonest
  BY DEF IInv, Linked, LinkHonest
<1> QED BY <1>1, AlwaysLinked, PTL

\* Whichever phone came first, reset or not: while a profile is up the last device and
\* the remote device are the one linked (SetBtConnectedProfile, BtRstStateCheck).
THEOREM LastDeviceIsLinked == Spec => []LastIsLinked
<1>1. IInv => LastIsLinked
  BY DEF IInv, Linked, LastIsLinked
<1> QED BY <1>1, AlwaysLinked, PTL

\* While a phone is connected the manager asks no other one, whatever timer, key or
\* callback makes it ask (BtReconnectProfile, CheckBtEventTimer).
THEOREM StrangersAreNotAsked == Spec => NoStranger
<1>1. IInv /\ [Next]_vars => [(m'.page \notin {m.page, None} /\ m'.up # {}) => m'.page.dev = m'.peer]_vars
  BY StepsAreGood DEF AsksLinked
<1> QED BY <1>1, AlwaysLinked, PTL DEF Spec, NoStranger

-----------------------------------------------------------------------------
(* How often the manager asks.  What has been asked and what may still be asked *)
(* without a success or a new arming never grows: a try, a running timer and a *)
(* due AVRCP are each worth one request.                                        *)

Bit(x) == IF x THEN 1 ELSE 0
Within(b, k) == /\ b.tries <= MaxTries
                /\ b.asked + b.tries + Bit(b.started) + Bit(b.due) <= k

\* A connect key that has armed the manager has its request to come.
Bound  == IF keyed THEN MaxTries + 2 ELSE MaxTries + 3
AskInv == m \in Manager /\ Within(m, Bound)

LEMMA TriesAreNat == MaxTries \in Nat /\ {PorTries, LostTries} \subseteq 0 .. MaxTries
BY TriesAssumption DEF MaxTries

\* Whoever stops, or leaves the four counts alone, asks no more.
LEMMA CountsDecide ==
  ASSUME NEW b \in Manager, NEW c \in Manager, NEW k \in Nat, Within(b, k),
         c.asked = b.asked, c.tries <= b.tries,
         c.started => b.started, c.due => b.due
  PROVE  Within(c, k)
BY TriesAreNat DEF Within, Bit, Manager

LEMMA StopIsWithin ==
  ASSUME NEW b \in Manager, NEW k \in Nat, Within(b, k)
  PROVE  Within(BtStopReconnect(b), k)
<1>1. /\ BtStopReconnect(b) \in Manager
      /\ BtStopReconnect(b).asked = b.asked /\ BtStopReconnect(b).tries = 0
      /\ ~BtStopReconnect(b).started /\ BtStopReconnect(b).due = b.due
  BY DEF BtStopReconnect, Manager
<1>2. 0 <= b.tries
  BY DEF Manager
<1> QED BY <1>1, <1>2, CountsDecide

LEMMA AskIsWithin ==
  ASSUME NEW b \in Manager, NEW d \in Address, NEW p \in Profile,
         NEW k \in Nat, Within(b, k), k < MaxAsked
  PROVE  Within(Asks(b, d, p), k + 1)
<1>1. /\ Asks(b, d, p).asked <= b.asked + 1 /\ Asks(b, d, p).tries = b.tries
      /\ Asks(b, d, p).started = b.started /\ Asks(b, d, p).due = b.due
      /\ Asks(b, d, p).asked \in Nat
  BY MaxAskedIsNat DEF Asks, Manager
<1> QED BY <1>1, TriesAreNat DEF Within, Bit, Manager

LEMMA ProfileIsWithin ==
  ASSUME NEW b \in Manager, NEW ready \in BOOLEAN, NEW k \in Nat, Within(b, k), k < MaxAsked
  PROVE  Within(BtReconnectProfile(b, ready), k + 1)
<1>1. CASE Missing(b) = {}
  <2>1. BtStopReconnect(b) \in Manager /\ Within(BtStopReconnect(b), k)
    BY StopIsWithin, StopIsQuiet DEF Quiet
  <2>2. BtReconnectProfile(b, ready) = BtStopReconnect(b)
    BY <1>1 DEF BtReconnectProfile
  <2> HIDE DEF Manager
  <2>3. \A c : Within(c, k) /\ c \in Manager => Within(c, k + 1)
    BY TriesAreNat DEF Within, Bit, Manager
  <2> QED BY <2>1, <2>2, <2>3
<1>2. CASE Missing(b) # {} /\ ~ready
  <2>1. BtReconnectProfile(b, ready) = [b EXCEPT !.started = TRUE]
    BY <1>2 DEF BtReconnectProfile
  <2> DEFINE c == [b EXCEPT !.started = TRUE]
  <2>2. c.asked = b.asked /\ c.tries = b.tries /\ c.due = b.due /\ c.started
    BY DEF Manager
  <2> HIDE DEF c
  <2>3. Within(c, k + 1)
    BY <2>2, TriesAreNat DEF Within, Bit, Manager
  <2> QED BY <2>1, <2>3 DEF c
<1>3. CASE Missing(b) # {} /\ ready
  <2>1. BtReconnectProfile(b, ready) = Asks(b, b.last, NextProfile(b)) /\ b.last \in Address
    BY <1>3 DEF BtReconnectProfile, Manager
  <2> QED BY <2>1, AskIsWithin, NextIsProfile
<1> QED BY <1>1, <1>2, <1>3

LEMMA ArmedIsWithin ==
  ASSUME NEW b \in Manager, NEW n \in 0 .. MaxTries
  PROVE  Within(Armed(b, n), MaxTries + 1)
<1>1. /\ Armed(b, n).asked = 0 /\ Armed(b, n).tries = n /\ ~Armed(b, n).started
      /\ Armed(b, n).due = b.due
  BY DEF Armed, Manager
<1> QED BY <1>1, TriesAreNat DEF Within, Bit, Manager

LEMMA StartIsWithin ==
  ASSUME NEW b \in Manager, NEW n \in 0 .. MaxTries, NEW ready \in BOOLEAN
  PROVE  Within(BtStartReconnectDevice(b, n, ready), MaxTries + 2)
<1>1. Armed(b, n) \in Manager /\ n \in Nat
  BY ArmedIsQuiet, TriesAreNat DEF Quiet
<1>2. MaxTries + 1 \in Nat /\ MaxTries + 1 < MaxAsked /\ MaxTries + 1 + 1 = MaxTries + 2
  BY TriesAreNat DEF MaxAsked
<1> QED BY <1>1, <1>2, ArmedIsWithin, ProfileIsWithin DEF BtStartReconnectDevice

\* A try that failed becomes a running timer.
LEMMA TryIsWithin ==
  ASSUME NEW b \in Manager, NEW k \in Nat, Within(b, k)
  PROVE  Within(BtReconnectCB(b), k)
<1>1. CASE TimerSet(b) /\ b.tries > 0
  <2> DEFINE c == [b EXCEPT !.tries = @ - 1, !.started = TRUE]
  <2>1. BtReconnectCB(b) = c
    BY <1>1 DEF BtReconnectCB
  <2>2. c.asked = b.asked /\ c.tries = b.tries - 1 /\ c.started /\ c.due = b.due
    BY DEF Manager
  <2> HIDE DEF c
  <2>3. Within(c, k)
    BY <2>2, TriesAreNat DEF Within, Bit, Manager
  <2> QED BY <2>1, <2>3
<1> QED BY <1>1, StopIsWithin DEF BtReconnectCB

LEMMA DeviceIsWithin ==
  ASSUME NEW b \in Manager, NEW ready \in BOOLEAN, NEW k \in Nat, Within(b, k),
         MaxTries + 2 <= k
  PROVE  Within(BtReconnectDevice(b, ready), k)
<1> DEFINE on == [b EXCEPT !.powerOn = TRUE]
           later == [b EXCEPT !.delay = TRUE]
<1>1. /\ on \in Manager /\ on.asked = b.asked /\ on.tries = b.tries
      /\ on.started = b.started /\ on.due = b.due
      /\ later \in Manager /\ later.asked = b.asked /\ later.tries = b.tries
      /\ later.started = b.started /\ later.due = b.due
  BY DEF Manager
<1> HIDE DEF on, later
<1>2. Within(on, k) /\ Within(later, k)
  BY <1>1, CountsDecide DEF Manager
<1>3. Within(BtStartReconnectDevice(on, PorTries, ready), k)
  <2>1. Within(BtStartReconnectDevice(on, PorTries, ready), MaxTries + 2)
    BY <1>1, StartIsWithin, TriesAreNat
  <2>2. BtStartReconnectDevice(on, PorTries, ready) \in Manager
    BY <1>1, StartIsQuiet, TriesAssumption DEF Quiet
  <2> QED BY <2>1, <2>2, TriesAreNat DEF Within, Bit, Manager
<1> QED BY <1>2, <1>3, TryIsWithin DEF BtReconnectDevice, on, later

\* The timer that ran out pays for the request.
LEMMA TimerIsWithin ==
  ASSUME NEW b \in Manager, NEW ready \in BOOLEAN, NEW k \in Nat, Within(b, k), b.started,
         k <= MaxAsked
  PROVE  Within(CheckBtReconnectTimer(b, ready), k)
<1> DEFINE off == [b EXCEPT !.started = FALSE]
<1>1. /\ off \in Manager /\ off.asked = b.asked /\ off.tries = b.tries
      /\ ~off.started /\ off.due = b.due
  BY DEF Manager
<1> HIDE DEF off
<1>2. k - 1 \in Nat /\ Within(off, k - 1) /\ k - 1 < MaxAsked /\ k - 1 + 1 = k
  BY <1>1, TriesAreNat, MaxAskedIsNat DEF Within, Bit, Manager
<1>3. Within(BtReconnectProfile(off, ready), k - 1 + 1)
  BY <1>1, <1>2, ProfileIsWithin
<1> QED BY <1>2, <1>3 DEF CheckBtReconnectTimer, off

\* A profile that comes up begins the count anew.
LEMMA ConnectedIsWithin ==
  ASSUME NEW b \in Manager, NEW p \in Profile, p \notin b.up, acl \in Device, Linked(b, acl),
         b.tries <= MaxTries
  PROVE  Within(Connected(b, p), MaxTries + 2)
<1> DEFINE on   == [b EXCEPT !.up = @ \cup {p}, !.peer = acl, !.asked = 0]
           set  == SetBtConnectedProfile(b, p, acl)
           asks == IF p = "A2DP" /\ ~TimerSet(set) /\ "AVRCP" \notin set.up
                   THEN [set EXCEPT !.due = TRUE] ELSE set
           next == BtStartReconnectProfile(asks)
<1>1. set \in Manager
  BY SetIsLast DEF Linked
<1>2. on \in Manager /\ on.asked = 0 /\ on.tries = b.tries
  BY DEF Manager, Address
<1> HIDE DEF on
<1>3. set.asked = 0 /\ set.tries <= MaxTries
  <2> DEFINE free == IF TimerSet(b) THEN BtStopReconnect(on) ELSE on
  <2>1. free \in Manager /\ free.asked = 0 /\ free.tries <= MaxTries
    <3>1. BtStopReconnect(on) \in Manager
          /\ BtStopReconnect(on).asked = on.asked /\ BtStopReconnect(on).tries = 0
      BY <1>2 DEF BtStopReconnect, Manager
    <3> QED BY <1>2, <3>1, TriesAreNat
  <2>2. \/ set = [on EXCEPT !.lastProfiles = @ \cup {p}]
        \/ set = on
        \/ set = [free EXCEPT !.last = acl, !.lastProfiles = {p}]
    BY DEF SetBtConnectedProfile, on
  <2> HIDE DEF free, set
  <2>3. /\ [on EXCEPT !.lastProfiles = @ \cup {p}].asked = on.asked
        /\ [on EXCEPT !.lastProfiles = @ \cup {p}].tries = on.tries
        /\ [free EXCEPT !.last = acl, !.lastProfiles = {p}].asked = free.asked
        /\ [free EXCEPT !.last = acl, !.lastProfiles = {p}].tries = free.tries
    BY <1>2, <2>1 DEF Manager
  <2> QED BY <1>2, <2>1, <2>2, <2>3
<1> HIDE DEF set
<1>4. asks \in Manager /\ asks.asked = 0 /\ asks.tries <= MaxTries
  BY <1>1, <1>3 DEF Manager
<1> HIDE DEF asks
<1>5. next \in Manager /\ next.asked = 0 /\ next.tries <= MaxTries
  <2>1. BtStopReconnect(asks) \in Manager
        /\ BtStopReconnect(asks).asked = asks.asked /\ BtStopReconnect(asks).tries = 0
    BY <1>4 DEF BtStopReconnect, Manager
  <2>2. [asks EXCEPT !.started = TRUE] \in Manager
        /\ [asks EXCEPT !.started = TRUE].asked = asks.asked
        /\ [asks EXCEPT !.started = TRUE].tries = asks.tries
    BY <1>4 DEF Manager
  <2> QED BY <1>4, <2>1, <2>2, TriesAreNat DEF BtStartReconnectProfile
<1> HIDE DEF next
<1> DEFINE c == Connected(b, p)
<1>6. c \in Manager /\ c.asked = 0 /\ c.tries <= MaxTries
  <2>1. [next EXCEPT !.link = TRUE, !.protect = FALSE] \in Manager
        /\ [next EXCEPT !.link = TRUE, !.protect = FALSE].asked = next.asked
        /\ [next EXCEPT !.link = TRUE, !.protect = FALSE].tries = next.tries
    BY <1>5 DEF Manager
  <2>2. c \in {next, [next EXCEPT !.link = TRUE, !.protect = FALSE]}
    BY DEF Connected, BtLinkStateConnect, next, asks, set
  <2> HIDE DEF c
  <2> QED BY <1>5, <2>1, <2>2
<1> HIDE DEF c
<1>7. Within(c, MaxTries + 2)
  BY <1>6, TriesAreNat DEF Within, Bit, Manager
<1> QED BY <1>7 DEF c

LEMMA DisconnectedIsWithin ==
  ASSUME NEW b \in Manager, NEW p \in Profile, p \in b.up, Linked(b, acl),
         NEW k \in Nat, Within(b, k)
  PROVE  Within(Disconnected(b, p), k)
<1> DEFINE off  == [b EXCEPT !.up = @ \ {p}]
           cut  == [off EXCEPT !.link = FALSE]
           down == BtLinkStateDisconnect(off)
<1>1. /\ off \in Manager /\ off.asked = b.asked /\ off.tries = b.tries
      /\ off.started = b.started /\ off.due = b.due
  BY DEF Manager
<1> HIDE DEF off
<1>2. /\ cut \in Manager /\ cut.asked = off.asked /\ cut.tries = off.tries
      /\ cut.started = off.started /\ cut.due = off.due
  BY <1>1 DEF Manager
<1> HIDE DEF cut
<1>3. Within(off, k) /\ Within(cut, k)
  BY <1>1, <1>2, CountsDecide DEF Manager
<1>4. down \in Manager /\ Within(down, k)
  <2>1. BtStopReconnect(cut) \in Manager /\ ~BtStopReconnect(cut).aborted
        /\ Within(BtStopReconnect(cut), k)
    BY <1>2, <1>3, StopIsWithin DEF BtStopReconnect, Manager
  <2>2. down \in {off, BtStopReconnect(cut)}
    BY <2>1 DEF BtLinkStateDisconnect, cut
  <2> HIDE DEF down
  <2> QED BY <1>1, <1>3, <2>1, <2>2
<1>5. Disconnected(b, p) \in {down, [down EXCEPT !.stale = "armed"],
                              [down EXCEPT !.stale = "off", !.drop = FALSE]}
  BY DEF Disconnected, off
<1> HIDE DEF down
<1>6. \A c \in {down, [down EXCEPT !.stale = "armed"],
                [down EXCEPT !.stale = "off", !.drop = FALSE]} :
        /\ c \in Manager /\ c.asked = down.asked /\ c.tries = down.tries
        /\ c.started = down.started /\ c.due = down.due
  BY <1>4 DEF Manager
<1> DEFINE c == Disconnected(b, p)
<1>7. /\ c \in Manager /\ c.asked = down.asked /\ c.tries = down.tries
      /\ c.started = down.started /\ c.due = down.due
  BY <1>5, <1>6, Zenon
<1>8. c.tries <= down.tries
  BY <1>4, <1>7 DEF Manager
<1> HIDE DEF c
<1>9. Within(c, k)
  BY <1>4, <1>7, <1>8, CountsDecide
<1> QED BY <1>9 DEF c

\* The steps of the Bluetooth task, which leave the connect key alone.
LEMMA StackIsWithin ==
  ASSUME IInv, AskInv, Stack PROVE Within(m', Bound)
<1> USE DEF link, scanning, app
<1>0. /\ m \in Manager /\ Within(m, Bound) /\ Linked(m, acl)
      /\ Bound \in Nat /\ MaxTries + 2 <= Bound
  BY TriesAreNat DEF IInv, AskInv, Bound
<1> DEFINE gone == [m EXCEPT !.page = None]
<1>1. /\ gone \in Manager /\ gone.asked = m.asked /\ gone.tries = m.tries
      /\ gone.started = m.started /\ gone.due = m.due
  BY <1>0 DEF Manager
<1> HIDE DEF gone
<1>2. Within(gone, Bound)
  BY <1>0, <1>1, CountsDecide DEF Manager
<1> HIDE DEF Bound
<1>3. CASE AccessReported
  BY <1>0, <1>3, DeviceIsWithin DEF AccessReported
<1>4. CASE PageAnswered
  BY <1>0, <1>4 DEF PageAnswered
<1>5. CASE PageTimeOut
  BY <1>0, <1>1, <1>2, <1>5, TryIsWithin DEF PageTimeOut, gone
<1>6. CASE PairingFailure
  BY <1>0, <1>1, <1>2, <1>6, StopIsWithin DEF PairingFailure, gone
<1>7. CASE A2dpConnectTimeout
  BY <1>0, <1>2, <1>7 DEF A2dpConnectTimeout, Answered, gone
<1>8. CASE LinkCloses
  <2>1. \A ready \in BOOLEAN : Within(BtStartReconnectDevice(gone, LostTries, ready), Bound)
    <3> TAKE ready \in BOOLEAN
    <3> DEFINE c == BtStartReconnectDevice(gone, LostTries, ready)
    <3>1. Within(c, MaxTries + 2) /\ c \in Manager
      BY <1>1, StartIsWithin, StartIsQuiet, TriesAreNat, TriesAssumption DEF Quiet
    <3> HIDE DEF c
    <3>2. Within(c, Bound)
      BY <1>0, <3>1, TriesAreNat DEF Within, Bit, Manager
    <3> QED BY <3>2 DEF c
  <2> QED BY <1>2, <1>8, <2>1 DEF LinkCloses, gone
<1>9. ASSUME NEW d \in Device, Incoming(d) PROVE Within(m', Bound)
  <2>1. PICK b \in {m, BtCancelReconnect(m)} : m' = [b EXCEPT !.page = None]
    BY <1>9 DEF Incoming
  <2>2. /\ BtCancelReconnect(m) \in Manager /\ BtCancelReconnect(m).asked = m.asked
        /\ BtCancelReconnect(m).tries <= m.tries
        /\ (BtCancelReconnect(m).started => m.started) /\ BtCancelReconnect(m).due = m.due
    <3>1. CASE TimerSet(m)
      <4> DEFINE off == [m EXCEPT !.used = FALSE, !.started = FALSE, !.tries = 0,
                                  !.protect = TRUE]
      <4>1. off \in Manager
        BY <1>0 DEF Manager
      <4>2. off.asked = m.asked /\ off.tries = 0 /\ off.started = FALSE /\ off.due = m.due
        BY <1>0 DEF Manager
      <4>3. 0 <= m.tries
        BY <1>0 DEF Manager
      <4>4. BtCancelReconnect(m) = off
        BY <3>1 DEF BtCancelReconnect
      <4> HIDE DEF off
      <4> QED BY <4>1, <4>2, <4>3, <4>4
    <3>2. CASE ~TimerSet(m)
      BY <1>0, <3>2 DEF BtCancelReconnect, Manager
    <3> QED BY <3>1, <3>2
  <2>3. /\ b \in Manager /\ b.asked = m.asked /\ b.tries <= m.tries
        /\ (b.started => m.started) /\ b.due = m.due
    BY <1>0, <2>1, <2>2 DEF Manager
  <2>4. /\ m' \in Manager /\ m'.asked = b.asked /\ m'.tries = b.tries
        /\ m'.started = b.started /\ m'.due = b.due
    BY <2>1, <2>3 DEF Manager
  <2> QED BY <1>0, <2>3, <2>4, CountsDecide
<1>10. ASSUME NEW p \in Profile, ProfileUp(p) PROVE Within(m', Bound)
  <2> DEFINE c == Connected(m, p)
  <2>1. acl \in Device /\ p \notin m.up /\ m' = Answered(c, p)
    BY <1>10 DEF ProfileUp, IInv, Address
  <2>2. c \in Manager /\ Within(c, MaxTries + 2)
    BY <1>0, <2>1, ConnectedIsLinked, ConnectedIsWithin DEF Within
  <2> HIDE DEF c
  <2>3. Within(c, Bound)
    BY <1>0, <2>2, TriesAreNat DEF Within, Bit, Manager
  <2>4. /\ m' \in Manager /\ m'.asked = c.asked /\ m'.tries = c.tries
        /\ m'.started = c.started /\ m'.due = c.due
    BY <2>1, <2>2 DEF Answered, Manager
  <2>5. m'.tries <= c.tries
    BY <2>4 DEF Manager
  <2> QED BY <1>0, <2>2, <2>3, <2>4, <2>5, CountsDecide
<1>11. ASSUME NEW p \in Profile, ProfileDown(p) PROVE Within(m', Bound)
  BY <1>0, <1>11, DisconnectedIsWithin DEF ProfileDown
<1>12. ASSUME NEW f, LinkFails(f) PROVE Within(m', Bound)
  <2>1. m' \in {m, [m EXCEPT !.aborted = TRUE]}
    BY <1>12 DEF LinkFails
  <2>2. /\ m' \in Manager /\ m'.asked = m.asked /\ m'.tries = m.tries
        /\ m'.started = m.started /\ m'.due = m.due
    BY <1>0, <2>1 DEF Manager
  <2>3. m'.tries <= m.tries
    BY <2>2 DEF Manager
  <2> QED BY <1>0, <2>2, <2>3, CountsDecide
<1> QED BY <1>3, <1>4, <1>5, <1>6, <1>7, <1>8, <1>9, <1>10, <1>11, <1>12
        DEF Stack, ProfileEnded, ProfileFalls

LEMMA TimersAreWithin ==
  ASSUME IInv, AskInv, Timers PROVE Within(m', Bound)
<1>0. /\ m \in Manager /\ Within(m, Bound) /\ Bound \in Nat
      /\ MaxTries + 2 <= Bound /\ Bound < MaxAsked
  BY TriesAreNat DEF AskInv, Bound, MaxAsked
<1> HIDE DEF Bound
\* All but the asking timers leave the four counts alone.
<1>1. ASSUME NEW c \in Manager, c.asked = m.asked, c.tries = m.tries,
             c.started = m.started, c.due => m.due
      PROVE  Within(c, Bound)
  BY <1>0, <1>1, CountsDecide DEF Manager
<1>2. CASE ProtectOver
  <2>1. /\ m' \in Manager /\ m'.asked = m.asked /\ m'.tries = m.tries
        /\ m'.started = m.started /\ m'.due = m.due
    BY <1>0, <1>2 DEF ProtectOver, Manager
  <2> QED BY <1>1, <2>1
<1>3. ASSUME NEW ready \in BOOLEAN, DelayOver(ready) PROVE Within(m', Bound)
  <2> DEFINE on == [m EXCEPT !.delay = FALSE]
  <2>1. /\ on \in Manager /\ on.asked = m.asked /\ on.tries = m.tries
        /\ on.started = m.started /\ on.due = m.due
    BY <1>0 DEF Manager
  <2>2. m' = BtReconnectDevice(on, ready)
    BY <1>3 DEF DelayOver
  <2> HIDE DEF on
  <2> QED BY <1>0, <1>1, <2>1, <2>2, DeviceIsWithin
<1>4. ASSUME NEW ready \in BOOLEAN, TimerFires(ready) PROVE Within(m', Bound)
  BY <1>0, <1>4, TimerIsWithin, MaxAskedIsNat DEF TimerFires
<1>5. CASE AbortOver
  <2>1. /\ m' \in Manager /\ m'.asked = m.asked /\ m'.tries = m.tries
        /\ m'.started = m.started /\ m'.due = m.due
    BY <1>0, <1>5 DEF AbortOver, Manager
  <2> QED BY <1>1, <2>1
<1>6. CASE AvrcpOver
  <2>1. \A drop \in BOOLEAN :
          LET c == [m EXCEPT !.stale = "off", !.drop = drop]
          IN  /\ c \in Manager /\ c.asked = m.asked /\ c.tries = m.tries
              /\ c.started = m.started /\ c.due = m.due
    BY <1>0 DEF Manager
  <2>2. ("AVRCP" \in m.up) \in BOOLEAN
    OBVIOUS
  <2>3. \E drop \in BOOLEAN : m' = [m EXCEPT !.stale = "off", !.drop = drop]
    BY <1>6, <2>2, Zenon DEF AvrcpOver
  <2> QED BY <1>1, <2>1, <2>3
<1>7. CASE AvrcpDue
  <2> DEFINE over  == [m EXCEPT !.due = FALSE]
             asked == Asks(over, m.peer, "AVRCP")
  <2>1. /\ over \in Manager /\ over.asked = m.asked /\ over.tries = m.tries
        /\ over.started = m.started /\ ~over.due
    BY <1>0 DEF Manager
  <2>2. m' \in {asked, over} /\ m.due
    BY <1>7 DEF AvrcpDue
  <2>3. m.peer \in Address /\ "AVRCP" \in Profile
    BY <1>0 DEF Manager, Profile
  <2> HIDE DEF over
  <2>4. Bound - 1 \in Nat /\ Within(over, Bound - 1) /\ Bound - 1 < MaxAsked
        /\ Bound - 1 + 1 = Bound
    BY <1>0, <2>1, <2>2, TriesAreNat, MaxAskedIsNat DEF Within, Bit, Manager
  <2>5. Within(asked, Bound - 1 + 1)
    BY <2>1, <2>3, <2>4, AskIsWithin
  <2> HIDE DEF asked
  <2> QED BY <1>1, <2>1, <2>2, <2>4, <2>5
<1> QED BY <1>2, <1>3, <1>4, <1>5, <1>6, <1>7 DEF Timers

LEMMA ChecksAreWithin ==
  ASSUME IInv, AskInv, Checks PROVE Within(m', Bound)
<1> USE DEF link, scanning, app, BTDisconnect, BTSetAccessMode
<1>0. /\ m \in Manager /\ Within(m, Bound) /\ Bound \in Nat /\ MaxTries + 2 <= Bound
  BY TriesAreNat DEF AskInv, Bound
<1> HIDE DEF Bound
<1>1. Within(BtStopReconnect(m), Bound)
  BY <1>0, StopIsWithin
<1>2. CASE CheckClosing \/ RstStart
  BY <1>0, <1>1, <1>2 DEF CheckClosing, RstStart
<1>3. CASE CheckDisconnecting \/ CheckDisable \/ CheckOpening \/ RstWaited
  BY <1>0, <1>3 DEF CheckDisconnecting, CheckDisable, CheckOpening, RstWaited
<1>4. CASE CheckWritten
  <2> DEFINE off == [m EXCEPT !.powerOn = FALSE]
  <2>1. /\ off \in Manager /\ off.asked = m.asked /\ off.tries = m.tries
        /\ off.started = m.started /\ off.due = m.due
    BY <1>0 DEF Manager
  <2>2. m' = m \/ \E ready \in BOOLEAN : m' = BtReconnectDevice(off, ready)
    BY <1>4 DEF CheckWritten
  <2> HIDE DEF off
  <2>3. Within(off, Bound)
    BY <1>0, <2>1, CountsDecide DEF Manager
  <2> QED BY <1>0, <2>1, <2>2, <2>3, DeviceIsWithin
<1>5. CASE RstFinished
  <2>1. /\ m' \in Manager /\ m'.asked = m.asked /\ m'.tries = m.tries
        /\ m'.started = m.started /\ m'.due = m.due
    BY <1>0, <1>5 DEF RstFinished, Manager, Address
  <2> QED BY <1>0, <2>1, CountsDecide DEF Manager
<1> QED BY <1>2, <1>3, <1>4, <1>5 DEF Checks

\* Only the connect key moves what it owes.
LEMMA ModesAreWithin ==
  ASSUME IInv, AskInv, Modes PROVE Within(m', Bound')
<1>0. /\ m \in Manager /\ Within(m, Bound) /\ Bound \in Nat /\ Bound < MaxAsked
  BY TriesAreNat DEF AskInv, Bound, MaxAsked
<1>1. CASE ConnectKey
  <2>1. Bound' = MaxTries + 2 /\ m' = Armed(m, PorTries)
    BY <1>1 DEF ConnectKey, Bound, MaxTries
  <2>2. Within(m', MaxTries + 1) /\ m' \in Manager
    BY <1>0, <2>1, ArmedIsWithin, ArmedIsQuiet, TriesAreNat, TriesAssumption DEF Quiet
  <2> QED BY <2>1, <2>2, TriesAreNat DEF Within, Bit, Manager
<1>2. CASE ConnectKeyAsks
  <2>1. Bound = MaxTries + 2 /\ Bound' = MaxTries + 3
    BY <1>2 DEF ConnectKeyAsks, Bound, MaxTries
  <2>2. \A ready \in BOOLEAN : Within(BtReconnectProfile(m, ready), Bound + 1)
    BY <1>0, ProfileIsWithin
  <2>3. Within(m', Bound + 1) /\ Bound + 1 = Bound'
    BY <1>2, <2>1, <2>2, TriesAreNat DEF ConnectKeyAsks
  <2> QED BY <2>3, Zenon
<1>3. CASE ~ConnectKey /\ ~ConnectKeyAsks
  <2>1. keyed' = keyed /\ m' \in {m, BtStopReconnect(m)}
    BY <1>3 DEF Modes, EnterBt, LeaveBt, LeaveForCall, CallOver, HangUp, ResetKey, app
  <2>2. Bound' = Bound
    BY <2>1 DEF Bound, MaxTries
  <2>3. Within(m', Bound)
    <3> HIDE DEF Bound
    <3> QED BY <1>0, <2>1, StopIsWithin
  <2> QED BY <2>2, <2>3
<1> QED BY <1>1, <1>2, <1>3

LEMMA AlwaysWithin == Spec => []AskInv
<1>1. Init => AskInv
  <2> SUFFICES ASSUME Init PROVE AskInv
    OBVIOUS
  <2>1. m.asked = 0 /\ m.tries = 0 /\ ~m.started /\ ~m.due /\ ~keyed
    BY DEF Init
  <2> QED BY <2>1, InitIsLinked, TriesAreNat DEF AskInv, IInv, Within, Bit, Bound
<1>2. IInv /\ AskInv /\ [Next]_vars => AskInv'
  <2>1. ASSUME IInv, AskInv, Next PROVE Within(m', Bound')
    <3>1. CASE Stack \/ Timers \/ Checks
      <4>1. keyed' = keyed
        BY <3>1 DEF Stack, AccessReported, PageAnswered, PageTimeOut, PairingFailure,
           A2dpConnectTimeout, LinkCloses, Incoming, LinkOpens, ProfileUp, ProfileEnded,
           ProfileFalls, ProfileDown, LinkFails, Timers, ProtectOver, AbortOver, AvrcpOver,
           AvrcpDue, DelayOver, TimerFires, Timed, Checks, CheckClosing, CheckDisconnecting,
           CheckDisable, CheckOpening, CheckWritten, RstStart, RstWaited, RstFinished, app
      <4>2. Bound' = Bound
        BY <4>1 DEF Bound, MaxTries
      <4> QED BY <2>1, <3>1, <4>2, StackIsWithin, TimersAreWithin, ChecksAreWithin
    <3> QED BY <2>1, <3>1, ModesAreWithin DEF Next
  <2>2. ASSUME IInv, AskInv, UNCHANGED vars PROVE Within(m', Bound')
    BY <2>2 DEF vars, app, AskInv, Within, Bit, Bound, MaxTries
  <2>3. IInv /\ [Next]_vars => m' \in Manager
    BY StepsAreGood DEF IInv
  <2> QED BY <2>1, <2>2, <2>3 DEF AskInv, Within
<1> QED BY <1>1, <1>2, AlwaysLinked, PTL DEF Spec

\* The values of the variables other than the manager's record.
Others ==
  /\ mode \in {"waiting", "bt", "call", "other"} /\ resume \in BOOLEAN
  /\ scan \in {"none", "closing", "disconnecting", "disable", "opening", "enable"}
  /\ check \in {"none", "disconnecting", "disable", "enable"}
  /\ keyed \in BOOLEAN /\ fate \in {"held", "hangup", "lost", "aborted"}
  /\ access \in BOOLEAN /\ wanted \in BOOLEAN /\ report \in BOOLEAN
  /\ acts \in 0 .. MaxActs

LEMMA OthersKeep == Others /\ [Next]_vars => Others'
<1> SUFFICES ASSUME Others, [Next]_vars PROVE Others'
  OBVIOUS
<1>0. Others /\ acts < MaxActs => acts + 1 \in 0 .. MaxActs
  <2>1. MaxActs \in Nat
    BY TriesAssumption
  <2> QED BY <2>1 DEF Others
<1> USE <1>0 DEF Others, link, scanning, app
<1>1. CASE Stack
  <2>1. CASE AccessReported
    <3>1. scan' \in {scan, "opening", "closing"}
      BY <2>1 DEF AccessReported
    <3>2. UNCHANGED <<mode, resume, check, keyed, fate, wanted, acts>>
      BY <2>1 DEF AccessReported
    <3>3. access' = wanted /\ report' = FALSE
      BY <2>1 DEF AccessReported
    <3> QED BY <3>1, <3>2, <3>3
  <2>2. CASE PageTimeOut \/ PairingFailure \/ A2dpConnectTimeout
    <3>1. UNCHANGED <<app, link, scanning, acts>>
      BY <2>2 DEF PageTimeOut, PairingFailure, A2dpConnectTimeout
    <3> QED BY <3>1
  <2>3. CASE PageAnswered
    BY <2>3 DEF PageAnswered, LinkOpens
  <2>4. CASE LinkCloses
    <3>1. UNCHANGED <<app, access, wanted, acts>> /\ fate' = "held" /\ report' = TRUE
      BY <2>4 DEF LinkCloses
    <3> QED BY <3>1
  <2>5. ASSUME NEW d \in Device, Incoming(d) PROVE Others'
    <3>1. UNCHANGED <<app, wanted, report>> /\ fate' = "held" /\ access' = FALSE
      BY <2>5 DEF Incoming, LinkOpens
    <3>2. acts < MaxActs /\ acts' = acts + 1
      BY <2>5 DEF Incoming
    <3> QED BY <3>1, <3>2
  <2>6. ASSUME NEW p \in Profile, ProfileUp(p) \/ ProfileEnded(p) \/ ProfileFalls(p)
        PROVE  Others'
    BY <2>6 DEF ProfileUp, ProfileEnded, ProfileFalls, ProfileDown
  <2>7. ASSUME NEW f \in {"hangup", "lost", "aborted"}, LinkFails(f)
        PROVE  Others'
    BY <2>7 DEF LinkFails
  <2> QED BY <1>1, <2>1, <2>2, <2>3, <2>4, <2>5, <2>6, <2>7 DEF Stack
<1>2. CASE Timers
  BY <1>2 DEF Timers, ProtectOver, AbortOver, AvrcpOver, AvrcpDue, DelayOver, TimerFires, Timed
<1>3. CASE Checks
  <2> USE DEF BTDisconnect, BTSetAccessMode
  <2>1. CASE CheckClosing \/ CheckDisconnecting \/ CheckDisable \/ CheckOpening
    BY <2>1 DEF CheckClosing, CheckDisconnecting, CheckDisable, CheckOpening
  <2>2. CASE CheckWritten \/ RstStart \/ RstWaited \/ RstFinished
    BY <2>2 DEF CheckWritten, RstStart, RstWaited, RstFinished
  <2> QED BY <1>3, <2>1, <2>2 DEF Checks
<1>4. CASE Modes
  <2>1. CASE EnterBt \/ CallOver
    BY <2>1 DEF EnterBt, CallOver, Acts, BtFastPowerOn
  <2>2. CASE LeaveBt \/ LeaveForCall
    BY <2>2 DEF LeaveBt, LeaveForCall, Acts
  <2>3. CASE HangUp
    <3>1. UNCHANGED <<app, scanning>> /\ fate' \in {fate, "hangup"}
      BY <2>3 DEF HangUp
    <3>2. acts < MaxActs /\ acts' = acts + 1
      BY <2>3 DEF HangUp
    <3> QED BY <3>1, <3>2
  <2>4. CASE ConnectKey \/ ResetKey
    <3>1. UNCHANGED <<mode, resume, scan, check, link, scanning>> /\ keyed' \in BOOLEAN
      BY <2>4 DEF ConnectKey, ResetKey, Acts
    <3>2. acts < MaxActs /\ acts' = acts + 1
      BY <2>4 DEF ConnectKey, ResetKey, Acts
    <3> QED BY <3>1, <3>2
  <2>5. CASE ConnectKeyAsks
    <3>1. UNCHANGED <<mode, resume, scan, check, link, scanning, acts>> /\ keyed' = FALSE
      BY <2>5 DEF ConnectKeyAsks
    <3> QED BY <3>1
  <2> QED BY <1>4, <2>1, <2>2, <2>3, <2>4, <2>5 DEF Modes
<1>5. CASE UNCHANGED vars
  BY <1>5 DEF vars
<1> QED BY <1>1, <1>2, <1>3, <1>4, <1>5 DEF Next

\* However page timeouts, access reports, busy answers, keys, losses and the timers of
\* the Bluetooth task are mixed (bt_manager.c:2475-2784, bt_stack_service.c:396-424), the
\* manager asks at most three times more than it has tries between two successes, and
\* every variable keeps to its values.
THEOREM AskingIsBounded == Spec => []TypeOK
<1>1. Init => Others
  <2> SUFFICES ASSUME Init PROVE Others
    OBVIOUS
  <2>1. /\ mode = "waiting" /\ resume = FALSE /\ scan = "none" /\ check = "none"
        /\ keyed = FALSE /\ fate = "held"
        /\ access = FALSE /\ wanted = FALSE /\ report = TRUE /\ acts = 0
    BY DEF Init
  <2>2. 0 \in 0 .. MaxActs
    BY TriesAssumption
  <2> QED BY <2>1, <2>2 DEF Others
<1>2. Spec => []Others
  BY <1>1, OthersKeep, PTL DEF Spec
<1>3. IInv /\ AskInv /\ Others => TypeOK
  <2> SUFFICES ASSUME IInv, AskInv, Others PROVE TypeOK
    OBVIOUS
  <2>1. m.asked < MaxAsked
    BY TriesAreNat DEF AskInv, Within, Bit, Bound, MaxAsked, Manager
  <2> QED BY <2>1, Zenon DEF IInv, Others, TypeOK
<1> QED BY <1>2, <1>3, AlwaysLinked, AlwaysWithin, PTL

=============================================================================
