------------------------------ MODULE ModeTable ------------------------------
(***************************************************************************)
(* Which application mode can run, and which comes next:                    *)
(* apps/mode_switch_api.c.  A mode is available when every resource of its  *)
(* row in ResourcesAppMask is registered in the bit set ModeResourceReady,  *)
(* here the parameter ready.  The searches are stated by what they return;  *)
(* ModeSearch has the loops of the code and compares the two.               *)
(***************************************************************************)
EXTENDS Integers, Sequences

CONSTANT ModeLoop   \* the modes the MODE key walks through, in order

Idle    == "Idle"      \* AppModeIdle: no backup mode
Waiting == "Waiting"   \* AppModeWaitingPlay: first row, what a search finds
                       \* when it finds nothing

Row(m, p, n) == [mode |-> m, prio |-> p, need |-> n]

ResourcesAppMask == <<
  Row("Waiting",       0, {"Dac"}),
  Row("Rest",          1, {"Rest"}),
  Row("Line",          3, {"LineIn"}),
  Row("Card",          6, {"Card", "CardForPlay"}),
  Row("UDisk",         6, {"UDisk", "UDiskForPlay"}),
  Row("BtPlay",        2, {"BtPlay"}),
  Row("BtHf",          3, {"BtHf"}),
  Row("BtRecord",      3, {"BtRecord"}),
  Row("Hdmi",          3, {"HdmiIn"}),
  Row("UsbDevice",     3, {"UsbDevice"}),
  Row("UsbPhone",      3, {"UsbDevice"}),
  Row("Radio",         3, {"Radio"}),
  Row("Optical",       3, {"Spdif"}),
  Row("Coaxial",       3, {"Spdif"}),
  Row("CardPlayBack",  0, {"Card"}),
  Row("UDiskPlayBack", 0, {"UDisk"}),
  Row("I2SIn",         2, {"I2SIn"}) >>

Lines     == DOMAIN ResourcesAppMask
Modes     == {ResourcesAppMask[j].mode : j \in Lines}
Resources == UNION {ResourcesAppMask[j].need : j \in Lines}
LineOf(mode) == CHOOSE j \in Lines : ResourcesAppMask[j].mode = mode

Places == DOMAIN ModeLoop
N      == Len(ModeLoop)

ASSUME LoopAssumption ==
  /\ ModeLoop \in Seq(Modes \ {Waiting}) /\ N > 0
  /\ \A i, j \in Places : ModeLoop[i] = ModeLoop[j] => i = j

\* The modes a card or a disk recording is played back in; never resumed from
\* a power-off or a sleep, and neither is a call.
PlayBackModes        == {"CardPlayBack", "UDiskPlayBack"}
ModeResumeMask(mode) == mode \in PlayBackModes \cup {"BtHf"}

CheckModeResource(mode, ready) ==
  \E j \in Lines : /\ ResourcesAppMask[j].mode = mode
                   /\ ResourcesAppMask[j].need \subseteq ready

-------------------------------------------------------------------------------
\* FindPriorityMode: of the available modes of the loop, the one of highest
\* priority and, among equals, the last of the loop.
Open(ready) == {i \in Places : CheckModeResource(ModeLoop[i], ready)}
Prio(i)     == ResourcesAppMask[LineOf(ModeLoop[i])].prio

FindPriorityMode(ready) ==
  IF Open(ready) = {} THEN Waiting
  ELSE ModeLoop[CHOOSE i \in Open(ready) :
                  \A j \in Open(ready) : \/ Prio(j) < Prio(i)
                                         \/ Prio(j) = Prio(i) /\ j <= i]

\* FindResourceMode: the same over the modes that use what was plugged in, the
\* last row of the table among equals.
Users(res, ready) ==
  {j \in Lines : /\ res \in ResourcesAppMask[j].need
                 /\ ResourcesAppMask[j].need \subseteq ready
                 /\ \E i \in Places : ModeLoop[i] = ResourcesAppMask[j].mode}

FindResourceMode(res, ready) ==
  IF Users(res, ready) = {} THEN Waiting
  ELSE ResourcesAppMask[
         CHOOSE j \in Users(res, ready) :
           \A k \in Users(res, ready) :
             \/ ResourcesAppMask[k].prio < ResourcesAppMask[j].prio
             \/ ResourcesAppMask[k].prio = ResourcesAppMask[j].prio /\ k <= j].mode

\* NextAppMode: the first available mode of the loop after the given one, going
\* round; from the start of the loop for a mode that is not in it.
PlaceOf(mode) == IF \E i \in Places : ModeLoop[i] = mode
                   THEN CHOOSE i \in Places : ModeLoop[i] = mode
                   ELSE 0
After(mode, k) == ModeLoop[((PlaceOf(mode) + k - 1) % N) + 1]
Steps(mode, ready) == {k \in 1 .. N : CheckModeResource(After(mode, k), ready)}

NextAppMode(mode, ready) ==
  IF Steps(mode, ready) = {} THEN Waiting
  ELSE After(mode, CHOOSE k \in Steps(mode, ready) :
                     \A j \in Steps(mode, ready) : k <= j)

\* What a plug registers (device_service.c) and the resource FindModeByPlugInMsg
\* searches with.
Plugs    == {"LINE", "CARD", "DISK", "USB_DEVICE", "HDMI"}
Gives(p) == CASE p = "LINE"       -> {"LineIn"}
              [] p = "CARD"       -> {"Card", "CardForPlay"}
              [] p = "DISK"       -> {"UDisk", "UDiskForPlay"}
              [] p = "USB_DEVICE" -> {"UsbDevice"}
              [] p = "HDMI"       -> {"HdmiIn"}

FindModeByPlugInMsg(p, ready) ==
  CASE p = "LINE"       -> FindResourceMode("LineIn", ready)
    [] p = "CARD"       -> FindResourceMode("Card", ready)
    [] p = "DISK"       -> FindResourceMode("UDisk", ready)
    [] p = "USB_DEVICE" -> FindResourceMode("UsbDevice", ready)
    [] p = "HDMI"       -> FindResourceMode("HdmiIn", ready)
===============================================================================
