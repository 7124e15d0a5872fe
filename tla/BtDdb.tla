------------------------------- MODULE BtDdb -------------------------------
(***************************************************************************)
(* The database of paired devices (bt_ddb_flash.c) with its callers in the *)
(* Bluetooth manager: the list in RAM, the log of whole lists in two flash *)
(* sectors, the log of last connected devices in a third one, and a power  *)
(* cut between any two calls of the flash driver.                          *)
(*                                                                         *)
(* A handler computes the calls of the flash driver it makes ("todo"); the *)
(* calls are carried out one at a time, in order, before the next handler  *)
(* of the Bluetooth task runs.  A call of the driver is atomic here.       *)
(*                                                                         *)
(* Flash programming clears bits, it never sets one: a cell programmed     *)
(* twice with two values holds neither (Mixed).  Not modelled: the test    *)
(* modes (btDutModeEnable, btLastAddrUpgradeIgnored) that suppress writes. *)
(***************************************************************************)
EXTENDS Naturals, Sequences

CONSTANTS
    Device,     \* addresses of the remote devices
    Key,        \* link keys the stack can negotiate
    Profile,    \* A2DP, AVRCP, HFP
    MaxDevices, \* MAX_BT_DEVICE_NUM
    Blocks,     \* copies of the list that fit in the two sectors
    Straddling, \* the block that begins in the low sector, ends in the high one
    LastSlots,  \* entries of the log of last devices
    MaxPairings, \* bound: changes of the list by pairing
    Blank,      \* bytes that read 0xFF
    Mixed,      \* bytes that are the AND of two different values
    None        \* no record, no device

ASSUME GeometryAssumption ==
    /\ MaxDevices \in Nat \ {0}
    /\ Blocks \in Nat /\ Straddling \in 2 .. Blocks
    /\ LastSlots \in Nat \ {0} /\ MaxPairings \in Nat
ASSUME DistinctAssumption ==
    /\ Blank # Mixed /\ None \notin {Blank, Mixed} /\ Blank \notin 0 .. MaxDevices
    /\ Device \cap {Blank, Mixed, None} = {}
    /\ Key \cap {Blank, Mixed, None} = {}

VARIABLES
    records,      \* the two sectors of whole lists
    last,         \* the sector of last devices
    list,         \* btLinkDeviceInfo: a record, or None where UsedFlag is 0
    ddbUpdate,    \* the list changed since it was saved
    lastAddr,     \* btDdbLastAddr
    lastProfiles, \* btDdbLastProfile
    lastSlot,     \* btDdbLastInfoOffset, 0 when no entry was found or written
    remote,       \* remoteAddr: the device on the line
    connected,    \* btConnectedProfile
    linkUp,       \* btLinkState
    todo          \* calls of the flash driver still to be made
VARIABLES         \* history, read by the properties only
    saving,       \* the list the calls in todo write
    committed,    \* the list the last completed save wrote
    pairings,     \* changes of the list by pairing, bounded by MaxPairings
    halfErased    \* the low sector was erased, the high one was not

flash == <<records, last>>
link == <<remote, connected, linkUp>>
lastRam == <<lastAddr, lastProfiles, lastSlot>>
history == <<saving, committed, pairings, halfErased>>
vars == <<flash, list, ddbUpdate, lastRam, link, todo, history>>

Slot == 1 .. MaxDevices
Cell == [addr : Device \cup {Blank, Mixed}, key : Key \cup {Blank, Mixed}]
ASSUME RecordAssumption == None \notin Cell
BlankCell == [addr |-> Blank, key |-> Blank]
BlankBlock == [count |-> Blank, cells |-> [i \in Slot |-> BlankCell]]
BlankLast == [addr |-> Blank, profiles |-> {}]
EmptyList == [i \in Slot |-> None]

TypeOK ==
    /\ records \in [1 .. Blocks -> [count : 0 .. MaxDevices \cup {Blank},
                                    cells : [Slot -> Cell]]]
    /\ last \in [1 .. LastSlots -> [addr : Device \cup {Blank},
                                    profiles : SUBSET Profile]]
    /\ {list, saving, committed} \subseteq [Slot -> Cell \cup {None}]
    /\ ddbUpdate \in BOOLEAN /\ linkUp \in BOOLEAN /\ halfErased \in BOOLEAN
    /\ lastAddr \in Device \cup {None} /\ remote \in Device \cup {None}
    /\ lastProfiles \subseteq Profile /\ connected \subseteq Profile
    /\ lastSlot \in 0 .. LastSlots /\ pairings \in 0 .. MaxPairings
    /\ \A n \in DOMAIN todo : todo[n].call \in
           {"eraseLow", "eraseHigh", "eraseLast", "header", "record", "last", "profile"}

-----------------------------------------------------------------------------
(* Reading the two logs. *)

First(S) == CHOOSE n \in S : \A m \in S : n <= m

\* FlshLoad1of8Dev for every index: the lowest block with the flag wins.
Loaded ==
    LET flagged == {b \in 1 .. Blocks : records[b].count # Blank}
    IN  [i \in Slot |->
            IF flagged = {} THEN None
            ELSE LET block == records[First(flagged)]
                 IN  IF i > block.count THEN None ELSE block.cells[i]]

\* BtDdb_GetLastBtAddr: the lowest slot that is not blank, 0 when there is none.
NewestLast ==
    LET used == {s \in 1 .. LastSlots : last[s].addr # Blank}
    IN  IF used = {} THEN 0 ELSE First(used)

\* GetCurTotaBtRecNum: the records before the first unused slot.
TotalIn(l) ==
    LET unused == {i \in Slot : l[i] = None}
    IN  IF unused = {} THEN MaxDevices ELSE First(unused) - 1

\* DdbFindRecord, 0 for DDB_NOT_FOUND.
Find(d) ==
    LET hits == {i \in Slot : list[i] # None /\ list[i].addr = d}
    IN  IF hits = {} THEN 0 ELSE First(hits)

-----------------------------------------------------------------------------
(* The calls of the flash driver a handler makes. *)

EraseLists == <<[call |-> "eraseLow"], [call |-> "eraseHigh"]>>

\* FlshGetPairingInfoWriteOffset: the block below the lowest one in use; the top
\* one when none is, and, after erasing both sectors, when there is none below.
UsedBlocks == {b \in 1 .. Blocks : records[b].count # Blank}
ListsAreFull == 1 \in UsedBlocks

\* A slip of WriteBlock: the step down is forgotten.
WriteBlockInPlace ==
    IF UsedBlocks = {} \/ ListsAreFull THEN Blocks ELSE First(UsedBlocks)

WriteBlock ==
    IF UsedBlocks = {} \/ ListsAreFull THEN Blocks ELSE First(UsedBlocks) - 1

\* A slip of SaveCalls: the count is the size of the list.
SaveCallsFullCount ==
    (IF ListsAreFull THEN EraseLists ELSE <<>>)
    \o <<[call |-> "header", block |-> WriteBlock, count |-> MaxDevices]>>
    \o [i \in 1 .. TotalIn(list) |-> [call |-> "record", block |-> WriteBlock,
                                       index |-> i, cell |-> list[i]]]

\* SaveTotalDevRec2Flash: flag and count first, then the records one by one.
SaveCalls ==
    LET total == TotalIn(list)
    IN  (IF ListsAreFull THEN EraseLists ELSE <<>>)
        \o <<[call |-> "header", block |-> WriteBlock, count |-> total]>>
        \o [i \in 1 .. total |-> [call |-> "record", block |-> WriteBlock,
                                  index |-> i, cell |-> list[i]]]

\* BtDdb_GetLastAddrWriteOffset
LastIsFull == last[1].addr # Blank

\* A slip of LastWriteSlot: the top entry lies behind the area.
LastWriteSlotBehind ==
    IF NewestLast = 0 \/ LastIsFull THEN LastSlots + 1 ELSE NewestLast - 1

LastWriteSlot ==
    IF NewestLast = 0 \/ LastIsFull THEN LastSlots ELSE NewestLast - 1

\* BtDdb_UpgradeLastBtAddr
LastCalls(d, profiles) ==
    (IF LastIsFull THEN <<[call |-> "eraseLast"]>> ELSE <<>>)
    \o <<[call |-> "last", slot |-> LastWriteSlot, addr |-> d, profiles |-> profiles]>>

\* A slip of ProfileCalls: a second profile is kept in RAM only.
ProfileCallsNever(d, profiles) == <<>>

\* BtDdb_UpgradeLastBtProfile: only if the remembered slot still names the device.
ProfileCalls(d, profiles) ==
    IF lastSlot # 0 /\ last[lastSlot].addr = d
    THEN <<[call |-> "profile", slot |-> lastSlot, profiles |-> profiles]>>
    ELSE <<>>

-----------------------------------------------------------------------------
(* One call of the flash driver. *)

And(old, new) ==
    IF old = Blank THEN new ELSE IF new \in {Blank, old} THEN old ELSE Mixed

\* Erasing the low sector leaves the tail of the straddling block: all but the
\* flag, the count, the first address and a part of the first key.
Scarred(block) ==
    [block EXCEPT !.count = Blank,
                  !.cells[1] = [addr |-> Blank,
                                key |-> IF @.key = Blank THEN Blank ELSE Mixed]]

Effect(c) ==
    CASE c.call = "eraseLow" ->
            /\ records' = [b \in 1 .. Blocks |->
                              IF b < Straddling THEN BlankBlock
                              ELSE IF b = Straddling THEN Scarred(records[b])
                              ELSE records[b]]
            /\ halfErased' = TRUE
            /\ UNCHANGED <<last, lastSlot>>
      [] c.call = "eraseHigh" ->
            /\ records' = [b \in 1 .. Blocks |-> BlankBlock]
            /\ halfErased' = FALSE
            /\ UNCHANGED <<last, lastSlot>>
      [] c.call = "header" ->
            /\ records' = [records EXCEPT ![c.block].count = c.count]
            /\ UNCHANGED <<last, lastSlot, halfErased>>
      [] c.call = "record" ->
            /\ records' = [records EXCEPT ![c.block].cells[c.index] =
                              [addr |-> And(@.addr, c.cell.addr),
                               key |-> And(@.key, c.cell.key)]]
            /\ UNCHANGED <<last, lastSlot, halfErased>>
      [] c.call = "eraseLast" ->
            /\ last' = [s \in 1 .. LastSlots |-> BlankLast]
            /\ UNCHANGED <<records, lastSlot, halfErased>>
      [] c.call = "last" ->
            /\ last' = [last EXCEPT ![c.slot] = [addr |-> c.addr, profiles |-> c.profiles]]
            /\ lastSlot' = c.slot
            /\ UNCHANGED <<records, halfErased>>
      [] c.call = "profile" ->
            /\ last' = [last EXCEPT ![c.slot].profiles = @ \cup c.profiles]
            /\ UNCHANGED <<records, lastSlot, halfErased>>

FlashStep ==
    /\ todo # <<>>
    /\ Effect(Head(todo))
    /\ todo' = Tail(todo)
    /\ committed' = IF Len(todo) = 1 THEN saving ELSE committed
    /\ UNCHANGED <<list, ddbUpdate, lastAddr, lastProfiles, link, saving, pairings>>

-----------------------------------------------------------------------------
(* The handlers of the Bluetooth task. *)

Idle == todo = <<>>

\* DbdAllocateRecord: the first unused slot, else the last one after the first
\* record is dropped and the others move up.
DropFirst == [i \in Slot |-> IF i < MaxDevices THEN list[i + 1] ELSE None]
Allocated(cell) ==
    IF \E i \in Slot : list[i] = None
    THEN [list EXCEPT ![First({i \in Slot : list[i] = None})] = cell]
    ELSE [DropFirst EXCEPT ![MaxDevices] = cell]

\* A slip of AddOneRecord: a new key for a known device does not mark the list.
AddOneRecordUnmarked(d, k) ==
    LET cell == [addr |-> d, key |-> k]
    IN  /\ Idle /\ remote = d
        /\ list' = IF Find(d) = 0 THEN Allocated(cell) ELSE [list EXCEPT ![Find(d)] = cell]
        /\ list' # list
        /\ ddbUpdate' = (ddbUpdate \/ Find(d) = 0)
        /\ pairings < MaxPairings /\ pairings' = pairings + 1
        /\ UNCHANGED <<flash, lastRam, link, todo, saving, committed, halfErased>>

\* AddBtRecord, BtDdb_AddOneRecord: the stack has negotiated a key.
AddOneRecord(d, k) ==
    LET cell == [addr |-> d, key |-> k]
    IN  /\ Idle /\ remote = d
        /\ list' = IF Find(d) = 0 THEN Allocated(cell) ELSE [list EXCEPT ![Find(d)] = cell]
        /\ list' # list
        /\ ddbUpdate' = TRUE
        /\ pairings < MaxPairings /\ pairings' = pairings + 1
        /\ UNCHANGED <<flash, lastRam, link, todo, saving, committed, halfErased>>

\* DeleteBtRecord, DdbDeleteRecord: records behind the deleted one move up.  For
\* the last slot the code clears slot "count", which is still 0, not the slot.
DeleteRecord(d) ==
    /\ Idle /\ Find(d) # 0
    /\ list' = IF Find(d) # MaxDevices
               THEN [i \in Slot |-> IF i < Find(d) THEN list[i]
                                    ELSE IF i < MaxDevices THEN list[i + 1] ELSE None]
               ELSE [list EXCEPT ![1] = None]
    /\ UNCHANGED <<flash, ddbUpdate, lastRam, link, todo, history>>

\* A device comes on the line (external).
Arrive(d) ==
    /\ Idle /\ connected = {} /\ ~linkUp
    /\ remote' = d
    /\ UNCHANGED <<flash, list, ddbUpdate, lastRam, connected, linkUp, todo, history>>

\* SetBtConnectedProfile
ProfileConnected(p) ==
    LET now == connected \cup {p}
    IN  /\ Idle /\ remote # None /\ p \notin connected
        /\ connected' = now
        /\ IF now = {p}
           THEN IF lastAddr = remote /\ p \in lastProfiles
                THEN UNCHANGED <<lastAddr, lastProfiles, todo>>
                ELSE /\ lastProfiles' = now
                     /\ lastAddr' = remote
                     /\ todo' = LastCalls(remote, now)
           ELSE /\ lastProfiles' = lastProfiles \cup {p}
                /\ todo' = IF p \in lastProfiles THEN <<>>
                           ELSE ProfileCalls(remote, lastProfiles')
                /\ UNCHANGED lastAddr
        /\ saving' = committed
        /\ UNCHANGED <<flash, list, ddbUpdate, lastSlot, remote, linkUp, committed, pairings, halfErased>>

\* BtLinkStateConnect, once A2DP and AVRCP are up: a changed list is saved.
LinkConnected ==
    /\ Idle /\ ~linkUp /\ {"a2dp", "avrcp"} \subseteq connected
    /\ linkUp' = TRUE
    /\ ddbUpdate' = FALSE
    /\ IF ddbUpdate
       THEN /\ todo' = SaveCalls
            /\ saving' = [i \in Slot |-> IF i <= TotalIn(list) THEN list[i] ELSE None]
       ELSE UNCHANGED <<todo, saving>>
    /\ UNCHANGED <<flash, list, lastRam, remote, connected, committed, pairings, halfErased>>

\* SetBtDisconnectProfile, BtLinkStateDisconnect
ProfileDisconnected(p) ==
    /\ Idle /\ p \in connected
    /\ connected' = connected \ {p}
    /\ linkUp' = (linkUp /\ connected' # {})
    /\ UNCHANGED <<flash, list, ddbUpdate, lastRam, remote, todo, history>>

\* BtRstStateCheck, BT_RST_STATE_FINISHED: back to the factory settings.
FactoryReset ==
    /\ Idle /\ connected = {}
    /\ remote' = None
    /\ lastAddr' = None
    /\ todo' = EraseLists \o <<[call |-> "eraseLast"]>>
    /\ saving' = EmptyList
    /\ UNCHANGED <<flash, list, ddbUpdate, lastProfiles, lastSlot, connected, linkUp,
                   committed, pairings, halfErased>>

\* The power fails; at the next start ClearBtManagerReg zeroes the manager and
\* OpenBtRecord loads the list and the last device.
PowerCut ==
    /\ todo' = <<>>
    /\ list' = Loaded
    /\ lastSlot' = NewestLast
    /\ lastAddr' = IF NewestLast = 0 THEN None ELSE last[NewestLast].addr
    /\ lastProfiles' = IF NewestLast = 0 THEN {} ELSE last[NewestLast].profiles
    /\ ddbUpdate' = FALSE /\ linkUp' = FALSE
    /\ remote' = None /\ connected' = {}
    /\ saving' = Loaded /\ committed' = Loaded
    /\ UNCHANGED <<flash, pairings, halfErased>>

-----------------------------------------------------------------------------
Init ==
    /\ records = [b \in 1 .. Blocks |-> BlankBlock]
    /\ last = [s \in 1 .. LastSlots |-> BlankLast]
    /\ list = EmptyList /\ saving = EmptyList /\ committed = EmptyList
    /\ ddbUpdate = FALSE /\ linkUp = FALSE /\ halfErased = FALSE
    /\ lastAddr = None /\ lastProfiles = {} /\ lastSlot = 0
    /\ remote = None /\ connected = {} /\ pairings = 0
    /\ todo = <<>>

Next ==
    \/ FlashStep
    \/ \E d \in Device, k \in Key : AddOneRecord(d, k)
    \/ \E d \in Device : DeleteRecord(d) \/ Arrive(d)
    \/ \E p \in Profile : ProfileConnected(p) \/ ProfileDisconnected(p)
    \/ LinkConnected
    \/ FactoryReset
    \/ PowerCut

Spec == Init /\ [][Next]_vars

-----------------------------------------------------------------------------
(* Properties. *)

\* When no save is under way a restart finds the list the last completed save
\* wrote: the scan for the newest block, the place of the next one, the erasing
\* of full sectors and blocks torn by earlier power cuts fit together.
SavedListSurvives == (Idle /\ ~halfErased) => Loaded = committed

\* A power cut in the middle of a save leaves the old list, no list at all (the
\* sectors were full and are being rewritten), or the first records of the new
\* list followed by blank ones: never records of two lists, never a wrong key.
Torn(n) == [i \in Slot |-> IF i <= n \/ saving[i] = None THEN saving[i] ELSE BlankCell]
CutLeavesOldOrNew ==
    (~Idle /\ ~halfErased) =>
        Loaded \in {committed, EmptyList} \cup {Torn(n) : n \in 0 .. MaxDevices}

\* The device and the profiles a restart would reconnect are those the manager
\* holds in RAM, and the slot it remembers for the next profile is that entry.
LastDeviceAgrees ==
    (Idle /\ lastAddr # None) =>
        /\ NewestLast # 0 /\ lastSlot = NewestLast
        /\ last[lastSlot] = [addr |-> lastAddr, profiles |-> lastProfiles]

\* Once the link to a device is up and its record saved, a restart knows the
\* device by the same key: it reconnects without pairing again.
LinkedDeviceIsKnown ==
     /\ Idle /\ ~halfErased /\ committed # EmptyList
     /\ linkUp /\ ~ddbUpdate /\ Find(remote) \in 1 .. TotalIn(list)
    =>
        \E i \in Slot : Loaded[i] = list[Find(remote)]
=============================================================================
