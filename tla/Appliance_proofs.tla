--------------------------- MODULE Appliance_proofs ---------------------------
(***************************************************************************)
(* The appliance, for every mode loop, queue length, set of plugs and number *)
(* of outside acts, and whether or not answers beat their protection timer:  *)
(* the types, the mode that is entered has its source and the living task is *)
(* the current mode's.  Then the life of a mode's task as the main task      *)
(* follows it, in four parts: what a deep sleep finds at rest, why the exit  *)
(* flag of a call dies with the hands-free task, whose answers the main task *)
(* hears, and that all of it implements ModeLife, in which modes take turns. *)
(***************************************************************************)
EXTENDS Appliance, WellFoundedInduction, TLAPS

-------------------------------------------------------------------------------
(* What the mode searches return, for every mode loop and every content of the registry: *)
(* a mode of the table that is available, and Waiting only when nothing else is.          *)

\* A set of numbers has a least one: what the CHOOSE of a search relies on.
LEMMA LeastExists ==
  ASSUME NEW S \in SUBSET Nat, S # {}
  PROVE  \E k \in S : \A j \in S : k <= j
<1>1. PICK k \in S : \A j \in S : ~(<<j, k>> \in OpToRel(<, Nat))
  BY NatLessThanWellFounded, WFMin, Zenon
<1>2. \A j \in S : k <= j
  <2>1. \A j \in S : ~(j < k)
    BY <1>1, Zenon DEF OpToRel
  <2> QED BY <2>1, SMT
<1> QED BY <1>2

LEMMA GreatestExists ==
  ASSUME NEW S, NEW b \in Nat, \A x \in S : x \in 0 .. b, S # {}
  PROVE  \E k \in S : \A j \in S : j <= k
<1> DEFINE T == {x \in 0 .. b : b - x \in S}
<1>1. T \in SUBSET Nat
  BY SMT
<1>2. T # {}
  <2>1. PICK x \in S : x \in 0 .. b
    OBVIOUS
  <2>2. b - x \in T
    BY <2>1, SMT
  <2> QED BY <2>2
<1>3. PICK k \in T : \A j \in T : k <= j
  <2> HIDE DEF T
  <2> QED BY <1>1, <1>2, LeastExists
<1>4. \A j \in S : j <= b - k
  <2> TAKE j \in S
  <2>1. b - j \in T /\ j \in 0 .. b
    BY SMT
  <2> QED BY <1>3, <2>1, SMT
<1> QED BY <1>3, <1>4

LEMMA TableRows ==
  /\ Lines = 1 .. 17
  /\ \A j \in Lines : /\ ResourcesAppMask[j].mode \in Modes
                      /\ ResourcesAppMask[j].prio \in 0 .. 6
                      /\ ResourcesAppMask[j].need \subseteq Resources
<1>1. Lines = 1 .. 17
  BY SMT DEF Lines, ResourcesAppMask
<1>2. \A j \in 1 .. 17 : ResourcesAppMask[j].prio \in 0 .. 6
  BY SMT DEF ResourcesAppMask, Row
<1> QED BY <1>1, <1>2 DEF Modes, Resources

LEMMA ModeNames ==
  /\ Modes = {"Waiting", "Rest", "Line", "Card", "UDisk", "BtPlay", "BtHf",
              "BtRecord", "Hdmi", "UsbDevice", "UsbPhone", "Radio", "Optical", "Coaxial",
              "CardPlayBack", "UDiskPlayBack", "I2SIn"}
  /\ Idle \notin Modes
  BY TableRows, SMT DEF Modes, ResourcesAppMask, Row, Idle

\* The mode loop is a non-empty sequence of rows of the table.
LEMMA LoopPlaces ==
  /\ N \in Nat \ {0} /\ Places = 1 .. N
  /\ \A i \in Places : ModeLoop[i] \in Modes \ {Waiting}
  BY LoopAssumption, SMT DEF N, Places

LEMMA WaitingIsReady ==
  ASSUME NEW registry, "Dac" \in registry
  PROVE  Waiting \in Modes /\ CheckModeResource(Waiting, registry)
<1>1. /\ 1 \in Lines
      /\ ResourcesAppMask[1].mode = Waiting
      /\ ResourcesAppMask[1].need = {"Dac"}
  BY TableRows, SMT DEF ResourcesAppMask, Row, Waiting
<1> QED BY <1>1 DEF Modes, CheckModeResource

LEMMA PlaceRange ==
  ASSUME NEW mode
  PROVE  PlaceOf(mode) \in 0 .. N
<1>1. CASE \E i \in Places : ModeLoop[i] = mode
  <2> DEFINE p == CHOOSE i \in Places : ModeLoop[i] = mode
  <2>1. p \in Places
    BY <1>1
  <2>2. PlaceOf(mode) = p
    BY <1>1 DEF PlaceOf
  <2> HIDE DEF p
  <2> QED BY <2>1, <2>2, LoopPlaces, SMT
<1>2. CASE ~ \E i \in Places : ModeLoop[i] = mode
  <2>1. PlaceOf(mode) = 0
    BY <1>2, Zenon DEF PlaceOf
  <2> QED BY <2>1, LoopPlaces, SMT
<1> QED BY <1>1, <1>2

\* The index NextAppMode wraps stays in the loop, and every place is reached.
LEMMA AfterRange ==
  ASSUME NEW mode, NEW k \in 1 .. N
  PROVE  \E i \in Places : After(mode, k) = ModeLoop[i]
<1>1. PlaceOf(mode) + k - 1 \in Nat
  BY PlaceRange, LoopPlaces, SMT
<1>2. ((PlaceOf(mode) + k - 1) % N) + 1 \in Places
  <2> DEFINE n == PlaceOf(mode) + k - 1
  <2>1. n \in Nat
    BY <1>1
  <2> HIDE DEF n
  <2>2. (n % N) + 1 \in Places
    BY <2>1, LoopPlaces, SMT
  <2> QED BY <2>2 DEF n
<1> QED BY <1>2 DEF After

LEMMA AfterReaches ==
  ASSUME NEW mode, NEW i \in Places
  PROVE  \E k \in 1 .. N : After(mode, k) = ModeLoop[i]
<1> DEFINE p == PlaceOf(mode)
           k == IF i > p THEN i - p ELSE i - p + N
<1>1. p \in 0 .. N /\ i \in 1 .. N /\ N \in Nat \ {0}
  BY PlaceRange, LoopPlaces
<1>2. k \in 1 .. N /\ p + k - 1 = (IF i > p THEN i - 1 ELSE i - 1 + N)
  <2> HIDE DEF p
  <2> QED BY <1>1, SMT
<1>3. (p + k - 1) % N = i - 1
  <2>1. CASE i > p
    <3>1. p + k - 1 = i - 1
      BY <1>2, <2>1
    <3>2. (i - 1) % N = i - 1
      BY <1>1, SMT
    <3> HIDE DEF p, k
    <3> QED BY <3>1, <3>2, Zenon
  <2>2. CASE ~(i > p)
    <3>1. p + k - 1 = i - 1 + N
      BY <1>2, <2>2
    <3>2. (i - 1 + N) % N = i - 1
      BY <1>1, SMT
    <3> HIDE DEF p, k
    <3> QED BY <3>1, <3>2, Zenon
  <2> QED BY <2>1, <2>2
<1>4. ((p + k - 1) % N) + 1 = i
  <2> DEFINE r == (p + k - 1) % N
  <2>1. r = i - 1
    BY <1>3
  <2> HIDE DEF r
  <2>2. r + 1 = i
    BY <2>1, <1>1, SMT
  <2> QED BY <2>2 DEF r
<1> QED BY <1>2, <1>4 DEF After

\* NextAppMode returns an available mode, and Waiting only when no mode of the
\* loop is available (mode_switch_api.c:840).
THEOREM NextIsAvailable ==
  ASSUME NEW mode, NEW registry, "Dac" \in registry
  PROVE  /\ NextAppMode(mode, registry) \in Modes
         /\ CheckModeResource(NextAppMode(mode, registry), registry)
         /\ NextAppMode(mode, registry) = Waiting <=> Open(registry) = {}
<1> DEFINE S == Steps(mode, registry)
<1>1. S \in SUBSET Nat
  BY LoopPlaces, SMT DEF Steps
<1>2. CASE S = {}
  <2>1. NextAppMode(mode, registry) = Waiting
    BY <1>2 DEF NextAppMode
  <2>2. Open(registry) = {}
    <3> SUFFICES ASSUME NEW i \in Open(registry) PROVE FALSE
      OBVIOUS
    <3>1. i \in Places /\ CheckModeResource(ModeLoop[i], registry)
      BY DEF Open
    <3>2. PICK k \in 1 .. N : After(mode, k) = ModeLoop[i]
      BY <3>1, AfterReaches
    <3>3. k \in S
      BY <3>1, <3>2 DEF Steps
    <3> QED BY <3>3, <1>2
  <2> QED BY <2>1, <2>2, WaitingIsReady
<1>3. CASE S # {}
  <2> DEFINE k == CHOOSE k \in S : \A j \in S : k <= j
  <2>1. k \in S
    <3> HIDE DEF S
    <3> QED BY <1>1, <1>3, LeastExists
  <2>2. NextAppMode(mode, registry) = After(mode, k)
    BY <1>3 DEF NextAppMode
  <2>3. k \in 1 .. N /\ CheckModeResource(After(mode, k), registry)
    BY <2>1 DEF Steps
  <2> HIDE DEF k
  <2>4. PICK i \in Places : After(mode, k) = ModeLoop[i]
    BY <2>3, AfterRange
  <2>5. i \in Open(registry)
    BY <2>3, <2>4 DEF Open
  <2> QED BY <2>2, <2>3, <2>4, <2>5, LoopPlaces
<1> QED BY <1>2, <1>3

\* FindPriorityMode returns an available mode of the loop that no other one
\* exceeds in priority, and Waiting only when none is available
\* (mode_switch_api.c:778).
THEOREM PriorityIsAvailable ==
  ASSUME NEW registry, "Dac" \in registry
  PROVE  /\ FindPriorityMode(registry) \in Modes
         /\ CheckModeResource(FindPriorityMode(registry), registry)
         /\ FindPriorityMode(registry) = Waiting <=> Open(registry) = {}
         /\ Open(registry) # {} =>
              \E i \in Open(registry) : /\ FindPriorityMode(registry) = ModeLoop[i]
                                     /\ \A j \in Open(registry) : Prio(j) <= Prio(i)
<1> DEFINE O == Open(registry)
           Best(i) == \A j \in O : \/ Prio(j) < Prio(i)
                                   \/ Prio(j) = Prio(i) /\ j <= i
<1>1. \A i \in O : /\ i \in 1 .. N /\ ModeLoop[i] \in Modes \ {Waiting}
                   /\ CheckModeResource(ModeLoop[i], registry)
                   /\ Prio(i) \in 0 .. 6
  <2> TAKE i \in O
  <2>1. /\ i \in 1 .. N /\ ModeLoop[i] \in Modes \ {Waiting}
        /\ CheckModeResource(ModeLoop[i], registry)
    BY LoopPlaces DEF Open
  <2>2. \E j \in Lines : ResourcesAppMask[j].mode = ModeLoop[i]
    BY <2>1 DEF Modes
  <2>3. LineOf(ModeLoop[i]) \in Lines
    BY <2>2 DEF LineOf
  <2>4. Prio(i) \in 0 .. 6
    BY <2>3, TableRows DEF Prio
  <2> QED BY <2>1, <2>4
<1>2. CASE O = {}
  <2>1. FindPriorityMode(registry) = Waiting
    BY <1>2 DEF FindPriorityMode
  <2> QED BY <1>2, <2>1, WaitingIsReady
<1>3. CASE O # {}
  <2>1. \E i \in O : Best(i)
    <3> DEFINE P == {Prio(i) : i \in O}
    <3>1. \A x \in P : x \in 0 .. 6
      BY <1>1
    <3>2. PICK p \in P : \A x \in P : x <= p
      <4>1. P # {}
        BY <1>3
      <4> HIDE DEF P
      <4> QED BY <3>1, <4>1, GreatestExists
    <3> DEFINE T == {i \in O : Prio(i) = p}
    <3>3. PICK i \in T : \A j \in T : j <= i
      <4>1. T # {} /\ \A x \in T : x \in 0 .. N
        BY <3>2, <1>1, LoopPlaces, SMT
      <4>2. N \in Nat
        BY LoopPlaces
      <4> HIDE DEF T
      <4> QED BY <4>1, <4>2, GreatestExists
    <3>4. Best(i)
      <4> SUFFICES ASSUME NEW j \in O
                   PROVE  \/ Prio(j) < Prio(i)
                          \/ Prio(j) = Prio(i) /\ j <= i
        OBVIOUS
      <4>1. Prio(j) \in 0 .. 6 /\ Prio(i) \in 0 .. 6 /\ Prio(j) <= p /\ Prio(i) = p
        BY <1>1, <3>2, <3>3
      <4>2. Prio(j) = p => j <= i
        BY <3>3
      <4> QED BY <4>1, <4>2, SMT
    <3> QED BY <3>3, <3>4
  <2> DEFINE i == CHOOSE i \in O : Best(i)
  <2>2. i \in O /\ Best(i)
    <3> HIDE DEF O, Best
    <3> QED BY <2>1
  <2>3. FindPriorityMode(registry) = ModeLoop[i]
    BY <1>3 DEF FindPriorityMode
  <2>4. \A j \in O : Prio(j) <= Prio(i)
    <3> HIDE DEF i
    <3> QED BY <2>2, <1>1, SMT
  <2> HIDE DEF i
  <2> QED BY <1>1, <1>3, <2>2, <2>3, <2>4
<1> QED BY <1>2, <1>3

\* FindResourceMode returns an available mode that uses what was plugged in, or
\* Waiting (mode_switch_api.c:802).
THEOREM ResourceIsAvailable ==
  ASSUME NEW res, NEW registry, "Dac" \in registry
  PROVE  /\ FindResourceMode(res, registry) \in Modes
         /\ CheckModeResource(FindResourceMode(res, registry), registry)
<1> DEFINE U == Users(res, registry)
           prio(j) == ResourcesAppMask[j].prio
           Best(j) == \A k \in U : \/ prio(k) < prio(j)
                                   \/ prio(k) = prio(j) /\ k <= j
<1>1. \A j \in U : /\ j \in 1 .. 17 /\ j \in Lines
                   /\ ResourcesAppMask[j].mode \in Modes
                   /\ ResourcesAppMask[j].need \subseteq registry
                   /\ prio(j) \in 0 .. 6
  BY TableRows DEF Users
<1>2. CASE U = {}
  BY <1>2, WaitingIsReady DEF FindResourceMode
<1>3. CASE U # {}
  <2>1. \E j \in U : Best(j)
    <3> DEFINE P == {prio(j) : j \in U}
    <3>1. \A x \in P : x \in 0 .. 6
      BY <1>1
    <3>2. PICK p \in P : \A x \in P : x <= p
      <4>1. P # {}
        BY <1>3
      <4> HIDE DEF P
      <4> QED BY <3>1, <4>1, GreatestExists
    <3> DEFINE T == {j \in U : prio(j) = p}
    <3>3. PICK j \in T : \A k \in T : k <= j
      <4>1. T # {} /\ \A x \in T : x \in 0 .. 17
        BY <3>2, <1>1, SMT
      <4> HIDE DEF T
      <4> QED BY <4>1, GreatestExists
    <3>4. Best(j)
      <4> SUFFICES ASSUME NEW k \in U
                   PROVE  \/ prio(k) < prio(j)
                          \/ prio(k) = prio(j) /\ k <= j
        OBVIOUS
      <4>1. prio(k) \in 0 .. 6 /\ prio(j) \in 0 .. 6 /\ prio(k) <= p /\ prio(j) = p
        BY <1>1, <3>2, <3>3
      <4>2. prio(k) = p => k <= j
        BY <3>3
      <4> HIDE DEF prio
      <4> QED BY <4>1, <4>2, SMT
    <3> QED BY <3>3, <3>4
  <2> DEFINE j == CHOOSE j \in U : Best(j)
  <2>2. j \in U
    <3> HIDE DEF U, Best
    <3> QED BY <2>1
  <2>3. FindResourceMode(res, registry) = ResourcesAppMask[j].mode
    BY <1>3 DEF FindResourceMode
  <2> HIDE DEF j
  <2> QED BY <1>1, <2>2, <2>3 DEF CheckModeResource
<1> QED BY <1>2, <1>3

-------------------------------------------------------------------------------
(* The appliance. *)

LEMMA Bounds == MainQLen \in Nat \ {0} /\ MaxActs \in Nat
  BY QueueAssumption, BoundAssumption

LEMMA ModesAreWanted == Modes \subseteq Wanted /\ Idle \in Wanted /\ Waiting \in Wanted
                        /\ "BtHf" \in Wanted /\ "BtPlay" \in Wanted
                        /\ "CardPlayBack" \in Wanted /\ "UDiskPlayBack" \in Wanted
  BY ModeNames, SMT DEF Wanted, Waiting

LEMMA PlugGives ==
  ASSUME NEW p \in Plugs
  PROVE  Gives(p) \subseteq Resources /\ "Dac" \notin Gives(p)
<1>1. \A r \in {"LineIn", "Card", "CardForPlay", "UDisk", "UDiskForPlay",
                "UsbDevice", "HdmiIn"} : \E j \in 1 .. 17 : r \in ResourcesAppMask[j].need
  BY SMT DEF ResourcesAppMask, Row
<1>2. {"LineIn", "Card", "CardForPlay", "UDisk", "UDiskForPlay",
       "UsbDevice", "HdmiIn"} \subseteq Resources
  BY <1>1, TableRows DEF Resources
<1> QED BY <1>2, SMT DEF Gives, Plugs

LEMMA CallResource == "BtHf" \in Resources /\ "Dac" \in Resources
<1>1. "BtHf" \in ResourcesAppMask[7].need /\ "Dac" \in ResourcesAppMask[1].need
  BY SMT DEF ResourcesAppMask, Row
<1> QED BY <1>1, TableRows DEF Resources

-------------------------------------------------------------------------------
(* Messages and queues. *)

LEMMA PlainMessage ==
  ASSUME NEW id \in PlainIds
  PROVE  Message(id) \in Messages
  BY DEF Message, Messages

LEMMA SentIsQueue ==
  ASSUME NEW q \in Seq(Messages), Len(q) <= MainQLen, NEW m \in Messages
  PROVE  Sent(q, m) \in Seq(Messages) /\ Len(Sent(q, m)) <= MainQLen
<1> HIDE DEF Messages
<1> QED BY Bounds, SMT DEF Sent

LEMMA TakenIsQueue ==
  ASSUME TypeOK, mainQ # <<>>
  PROVE  /\ Tail(mainQ) \in Seq(Messages) /\ Len(Tail(mainQ)) <= MainQLen
         /\ Head(mainQ) \in Messages
<1>1. mainQ \in Seq(Messages) /\ Len(mainQ) <= MainQLen
  BY DEF TypeOK
<1> HIDE DEF Messages
<1> QED BY <1>1, Bounds, SMT

LEMMA PlainMessages == \A id \in PlainIds : Message(id) \in Messages
  BY PlainMessage

\* A task by its fields, and with one of them changed.
LEMMA TaskFields ==
  ASSUME NEW a \in AppTasks
  PROVE  /\ a.mode \in Wanted /\ a.st \in AppStates /\ a.todo \in Words /\ a.note \in Notes
         /\ a.dsync \in BOOLEAN /\ a.dec \in DecStates /\ a.orders \in Orders
         /\ a.heir \in BOOLEAN
         /\ \A x \in AppStates :
              /\ [a EXCEPT !.st = x] \in AppTasks
              /\ [a EXCEPT !.st = x].st = x /\ [a EXCEPT !.st = x].mode = a.mode
         /\ \A x \in Words :
              /\ [a EXCEPT !.todo = x] \in AppTasks
              /\ [a EXCEPT !.todo = x].st = a.st /\ [a EXCEPT !.todo = x].mode = a.mode
         /\ \A x \in Notes :
              /\ [a EXCEPT !.note = x] \in AppTasks
              /\ [a EXCEPT !.note = x].st = a.st /\ [a EXCEPT !.note = x].mode = a.mode
         /\ \A x \in BOOLEAN :
              /\ [a EXCEPT !.dsync = x] \in AppTasks
              /\ [a EXCEPT !.dsync = x].st = a.st /\ [a EXCEPT !.dsync = x].mode = a.mode
         /\ \A x \in DecStates :
              /\ [a EXCEPT !.dec = x] \in AppTasks
              /\ [a EXCEPT !.dec = x].st = a.st /\ [a EXCEPT !.dec = x].mode = a.mode
         /\ \A x \in Orders :
              /\ [a EXCEPT !.orders = x] \in AppTasks
              /\ [a EXCEPT !.orders = x].st = a.st /\ [a EXCEPT !.orders = x].mode = a.mode
<1> HIDE DEF Wanted, AppStates, Words, Notes, DecStates, Orders
<1>1. /\ a.mode \in Wanted /\ a.st \in AppStates /\ a.todo \in Words /\ a.note \in Notes
      /\ a.dsync \in BOOLEAN /\ a.dec \in DecStates /\ a.orders \in Orders
      /\ a.heir \in BOOLEAN
  BY Zenon DEF AppTasks
<1>2. \A x \in AppStates :
              /\ [a EXCEPT !.st = x] \in AppTasks
              /\ [a EXCEPT !.st = x].st = x /\ [a EXCEPT !.st = x].mode = a.mode
  BY Zenon DEF AppTasks
<1>3. \A x \in Words :
              /\ [a EXCEPT !.todo = x] \in AppTasks
              /\ [a EXCEPT !.todo = x].st = a.st /\ [a EXCEPT !.todo = x].mode = a.mode
  BY Zenon DEF AppTasks
<1>4. \A x \in Notes :
              /\ [a EXCEPT !.note = x] \in AppTasks
              /\ [a EXCEPT !.note = x].st = a.st /\ [a EXCEPT !.note = x].mode = a.mode
  BY Zenon DEF AppTasks
<1>5. \A x \in BOOLEAN :
              /\ [a EXCEPT !.dsync = x] \in AppTasks
              /\ [a EXCEPT !.dsync = x].st = a.st /\ [a EXCEPT !.dsync = x].mode = a.mode
  BY Zenon DEF AppTasks
<1>6. \A x \in DecStates :
              /\ [a EXCEPT !.dec = x] \in AppTasks
              /\ [a EXCEPT !.dec = x].st = a.st /\ [a EXCEPT !.dec = x].mode = a.mode
  BY Zenon DEF AppTasks
<1>7. \A x \in Orders :
              /\ [a EXCEPT !.orders = x] \in AppTasks
              /\ [a EXCEPT !.orders = x].st = a.st /\ [a EXCEPT !.orders = x].mode = a.mode
  BY Zenon DEF AppTasks
<1> QED BY <1>1, <1>2, <1>3, <1>4, <1>5, <1>6, <1>7

\* What may be added to, and taken from, the two queues of a task.
LEMMA TaskQueues ==
  ASSUME NEW w \in Words, NEW o \in Orders
  PROVE  /\ <<>> \in Words /\ <<>> \in Orders
         /\ Append(w, "STOP") \in Words /\ Append(w, "START") \in Words
         /\ Append(w, "DECODER_CREATED") \in Words /\ Append(w, "DECODER_STARTED") \in Words
         /\ Append(w, "DECODER_STOPPED") \in Words
         /\ Append(o, "STOP") \in Orders /\ Append(o, "START") \in Orders
         /\ w # <<>> => Tail(w) \in Words
         /\ o # <<>> => Tail(o) \in Orders
  BY SMT DEF Words, Orders

LEMMA TaskStates ==
  /\ "none" \in AppStates /\ "failed" \in AppStates /\ "Creating" \in AppStates
  /\ "Ready" \in AppStates /\ "Starting" \in AppStates /\ "Running" \in AppStates
  /\ "Stopping" \in AppStates /\ "Stopped" \in AppStates
  /\ "none" \in DecStates /\ "Creating" \in DecStates /\ "Ready" \in DecStates
  /\ "Running" \in DecStates /\ "Stopped" \in DecStates /\ "hung" \in DecStates
  /\ "fresh" \in Notes /\ "failing" \in Notes /\ "failed" \in Notes /\ "configured" \in Notes
  BY DEF AppStates, DecStates, Notes

\* No task, and the task that is created.
LEMMA NoTask == NoApp \in AppTasks /\ NoApp.st = "none"
<1>1. <<>> \in Words /\ <<>> \in Orders
  BY SMT DEF Words, Orders
<1> HIDE DEF Wanted, AppStates, Words, Notes, DecStates, Orders
<1> QED BY <1>1, TaskStates, ModesAreWanted, Zenon DEF NoApp, AppTasks

LEMMA TaskOfMode ==
  ASSUME NEW mode \in Wanted
  PROVE  /\ [NoApp EXCEPT !.mode = mode] \in AppTasks
         /\ [NoApp EXCEPT !.mode = mode].mode = mode
         /\ [NoApp EXCEPT !.mode = mode].st = "none"
<1> HIDE DEF Wanted, AppStates, Words, Notes, DecStates, Orders
<1>1. \A a \in AppTasks : /\ [a EXCEPT !.mode = mode] \in AppTasks
                          /\ [a EXCEPT !.mode = mode].mode = mode
                          /\ [a EXCEPT !.mode = mode].st = a.st
  BY Zenon DEF AppTasks
<1> QED BY <1>1, NoTask, Zenon

\* The mode's task after a word to it.
LEMMA AppWords ==
  ASSUME app \in AppTasks
  PROVE  /\ Stopped \in AppTasks /\ Started \in AppTasks /\ Killed \in AppTasks
         /\ Stopped.mode = app.mode /\ Started.mode = app.mode /\ Killed.mode = app.mode
         /\ Stopped.st = app.st /\ Started.st = app.st /\ Killed.st = "none"
<1>1. app.todo \in Words /\ app.orders \in Orders /\ app.mode \in Wanted
  BY TaskFields
<1>2. Append(app.todo, "STOP") \in Words /\ Append(app.todo, "START") \in Words
  BY <1>1, TaskQueues
<1>3. Killed \in AppTasks /\ Killed.mode = app.mode /\ Killed.st = "none"
  BY <1>1, TaskOfMode DEF Killed
<1>4. Stopped \in AppTasks /\ Stopped.mode = app.mode /\ Stopped.st = app.st
  BY <1>2, TaskFields DEF Stopped
<1>5. Started \in AppTasks /\ Started.mode = app.mode /\ Started.st = app.st
  BY <1>2, TaskFields DEF Started
<1> QED BY <1>3, <1>4, <1>5

LEMMA CreatedTask ==
  ASSUME NEW mode \in Wanted, NEW ok \in BOOLEAN
  PROVE  /\ Created(mode, ok) \in AppTasks
         /\ Created(mode, ok).mode = mode /\ Created(mode, ok).st # "none"
<1>1. CASE ok
  <2>1. Created(mode, ok) = NewTask(mode)
    BY <1>1 DEF Created
  <2>2. /\ (mode \in StopsBlindly \cup {"BtPlay"}) \in BOOLEAN
        /\ (IF mode = "BtHf" THEN "none" ELSE "Creating") \in DecStates
        /\ <<>> \in Words /\ <<>> \in Orders /\ Owing(mainQ) \in BOOLEAN
    BY TaskStates, SMT DEF Words, Orders, Owing
  <2>3. NewTask(mode) \in AppTasks /\ NewTask(mode).mode = mode
        /\ NewTask(mode).st = "Creating"
    <3> HIDE DEF Wanted, AppStates, Words, Notes, DecStates, Orders, StopsBlindly, Owing
    <3> QED BY <2>2, TaskStates, Zenon DEF NewTask, AppTasks
  <2> QED BY <2>1, <2>3
<1>2. CASE ~ok
  <2> DEFINE failed == [NoApp EXCEPT !.mode = mode, !.st = "failed", !.heir = Owing(mainQ)]
  <2>1. Created(mode, ok) = failed
    BY <1>2 DEF Created
  <2>2. failed \in AppTasks
    <3>1. Owing(mainQ) \in BOOLEAN
      BY DEF Owing
    <3> HIDE DEF Wanted, AppStates, Words, Notes, DecStates, Orders, Owing
    <3> QED BY <3>1, NoTask, TaskStates, Zenon DEF AppTasks
  <2>3. failed.mode = mode /\ failed.st = "failed"
    BY Zenon DEF NoApp
  <2> QED BY <2>1, <2>2, <2>3
<1> QED BY <1>1, <1>2

\* The four flags of a call, some of them changed.
LEMMA CallFields ==
  ASSUME NEW h \in CallFlags, NEW b \in BOOLEAN, NEW c \in BOOLEAN, NEW d \in BOOLEAN
  PROVE  /\ h.g \in BOOLEAN /\ h.enter \in BOOLEAN /\ h.exit \in BOOLEAN /\ h.list \in BOOLEAN
         /\ [h EXCEPT !.g = b] \in CallFlags
         /\ [h EXCEPT !.enter = b] \in CallFlags
         /\ [h EXCEPT !.list = b] \in CallFlags
         /\ [h EXCEPT !.exit = b, !.list = c] \in CallFlags
         /\ [h EXCEPT !.enter = b, !.exit = c, !.list = d] \in CallFlags
<1>1. h.g \in BOOLEAN /\ h.enter \in BOOLEAN /\ h.exit \in BOOLEAN /\ h.list \in BOOLEAN
  BY Zenon DEF CallFlags
<1>2. [h EXCEPT !.g = b] \in CallFlags
  BY Zenon DEF CallFlags
<1>3. \A k \in CallFlags, e \in BOOLEAN : [k EXCEPT !.enter = e] \in CallFlags
  BY Zenon DEF CallFlags
<1>4. \A k \in CallFlags, e \in BOOLEAN : [k EXCEPT !.exit = e] \in CallFlags
  BY Zenon DEF CallFlags
<1>5. \A k \in CallFlags, e \in BOOLEAN : [k EXCEPT !.list = e] \in CallFlags
  BY Zenon DEF CallFlags
<1>6. [h EXCEPT !.exit = b, !.list = c] = [[h EXCEPT !.exit = b] EXCEPT !.list = c]
  BY SMT DEF CallFlags
<1>7. [h EXCEPT !.enter = b, !.exit = c, !.list = d]
        = [[[h EXCEPT !.enter = b] EXCEPT !.exit = c] EXCEPT !.list = d]
  BY SMT DEF CallFlags
<1>8. [[h EXCEPT !.exit = b] EXCEPT !.list = c] \in CallFlags
  BY <1>4, <1>5, Zenon
<1>9. [[[h EXCEPT !.enter = b] EXCEPT !.exit = c] EXCEPT !.list = d] \in CallFlags
  BY <1>3, <1>4, <1>5, Zenon
<1> QED BY <1>1, <1>2, <1>3, <1>5, <1>6, <1>7, <1>8, <1>9, Zenon

\* What the tasks do to the flags of a call.
LEMMA CallChanges ==
  ASSUME hf \in CallFlags
  PROVE  /\ AtEntrance \in CallFlags /\ AtKill \in CallFlags
         /\ \A b \in BOOLEAN : [hf EXCEPT !.g = b] \in CallFlags
<1> USE CallFields
<1>1. [hf EXCEPT !.list = FALSE] \in CallFlags
  BY Zenon
<1>2. [hf EXCEPT !.exit = FALSE, !.list = FALSE] \in CallFlags
  BY Zenon
<1>3. \A b \in BOOLEAN : [hf EXCEPT !.g = b] \in CallFlags
  BY Zenon
<1> QED BY <1>1, <1>2, <1>3, Zenon DEF AtEntrance, AtKill
-------------------------------------------------------------------------------
(* What a request may ask for. *)

\* The registry never loses the converter, on which Waiting depends.
HasDac == "Dac" \in ready

Good(r) == r.target \in Wanted /\ r.backup \in Wanted /\ r.g \in BOOLEAN

LEMMA NextModeIsAvailable ==
  ASSUME HasDac
  PROVE  NextModeProcess \in Wanted /\ CheckModeResource(NextModeProcess, ready)
<1>1. CASE backup # Idle /\ CheckModeResource(backup, ready)
  <2>1. NextModeProcess = backup
    BY <1>1 DEF NextModeProcess
  <2>2. backup \in Modes
    BY <1>1 DEF CheckModeResource, Modes
  <2> QED BY <1>1, <2>1, <2>2, ModesAreWanted
<1>2. CASE backup # Idle /\ ~CheckModeResource(backup, ready)
  <2>1. NextModeProcess = NextAppMode(backup, ready)
    BY <1>2 DEF NextModeProcess
  <2> QED BY <2>1, NextIsAvailable, ModesAreWanted DEF HasDac
<1>3. CASE backup = Idle
  <2>1. NextModeProcess = NextAppMode(cur, ready)
    BY <1>3 DEF NextModeProcess
  <2> QED BY <2>1, NextIsAvailable, ModesAreWanted DEF HasDac
<1> QED BY <1>1, <1>2, <1>3

\* The three operations that change the flags of a call leave queue, registry and
\* flags what they are.
Kept == /\ mainQ' \in Seq(Messages) /\ Len(mainQ') <= MainQLen
        /\ ready' \subseteq Resources /\ "Dac" \in ready'
        /\ hf' \in CallFlags

LEMMA ConfigKeeps ==
  ASSUME TypeOK, HasDac, RunConfig
  PROVE  Kept
<1>1. hf.enter \in BOOLEAN /\ hf.exit \in BOOLEAN /\ hf.list \in BOOLEAN /\ hf \in CallFlags
  BY CallFields DEF TypeOK
<1>2. (hf.exit \/ hf.list) \in BOOLEAN
  BY <1>1, Zenon
<1>3. hf' \in CallFlags
  BY <1>1, <1>2, CallFields, Zenon DEF RunConfig
<1>4. mainQ' \in Seq(Messages) /\ Len(mainQ') <= MainQLen
  BY PlainMessages, SentIsQueue DEF RunConfig, TypeOK, PlainIds
<1>5. ready' \subseteq Resources /\ "Dac" \in ready'
  BY SMT DEF RunConfig, TypeOK, HasDac
<1> QED BY <1>3, <1>4, <1>5 DEF Kept

LEMMA EnterKeeps ==
  ASSUME TypeOK, HasDac, NEW linked \in BOOLEAN,
         NEW q \in Seq(Messages), Len(q) <= MainQLen, EnterBtHfMode(q, linked)
  PROVE  Kept /\ flags' \subseteq FlagSet
<1> DEFINE enters == linked /\ ~hf.exit /\ cur # "BtHf" /\ ~hf.enter
<1>1. hf.enter \in BOOLEAN /\ hf.exit \in BOOLEAN /\ hf \in CallFlags
  BY CallFields DEF TypeOK
<1>2. (hf.enter \/ enters) \in BOOLEAN
  BY <1>1, Zenon
<1>3. hf' = [hf EXCEPT !.enter = hf.enter \/ enters]
  BY Zenon DEF EnterBtHfMode
<1>4. hf' \in CallFlags
  BY <1>1, <1>2, <1>3, CallFields, Zenon
<1>5. mainQ' \in Seq(Messages) /\ Len(mainQ') <= MainQLen
  BY PlainMessages, SentIsQueue DEF EnterBtHfMode, PlainIds
<1>6. ready' \subseteq Resources /\ "Dac" \in ready'
  BY CallResource, SMT DEF EnterBtHfMode, TypeOK, HasDac
<1>7. flags' \subseteq FlagSet
  BY SMT DEF EnterBtHfMode, TypeOK, FlagSet
<1> QED BY <1>4, <1>5, <1>6, <1>7 DEF Kept

LEMMA ExitKeeps ==
  ASSUME TypeOK, HasDac, NEW h \in CallFlags, NEW fl \in SUBSET FlagSet,
         NEW q \in Seq(Messages), Len(q) <= MainQLen, ExitBtHfMode(q, fl, h)
  PROVE  Kept /\ flags' \subseteq FlagSet
<1> DEFINE leaves == ~h.exit /\ cur = "BtHf" /\ HasQueue /\ ~h.enter
           later  == ~h.exit /\ ~leaves /\ (cur = "BtHf" \/ h.enter)
<1>1. h.exit \in BOOLEAN /\ h.list \in BOOLEAN
  BY CallFields
<1>2. (h.exit \/ leaves) \in BOOLEAN /\ (h.list \/ later) \in BOOLEAN
  BY <1>1, Zenon
<1>3. hf' = [h EXCEPT !.exit = h.exit \/ leaves, !.list = h.list \/ later]
  BY Zenon DEF ExitBtHfMode
<1>4. hf' \in CallFlags
  BY <1>2, <1>3, CallFields, Zenon
<1>5. mainQ' \in Seq(Messages) /\ Len(mainQ') <= MainQLen
  BY PlainMessages, SentIsQueue DEF ExitBtHfMode, PlainIds
<1>6. ready' \subseteq Resources /\ "Dac" \in ready'
  BY SMT DEF ExitBtHfMode, TypeOK, HasDac
<1>7. flags' \subseteq FlagSet
  BY SMT DEF ExitBtHfMode
<1> QED BY <1>4, <1>5, <1>6, <1>7 DEF Kept

LEMMA PlainRequests ==
  ASSUME TypeOK
  PROVE  /\ Good(NoRequest)
         /\ \A t \in Wanted, b \in Wanted :
              /\ Good(Request(t, b))
              /\ Good([Request(t, b) EXCEPT !.g = TRUE])
              /\ Good([Request(t, b) EXCEPT !.g = FALSE])
              /\ Good([Request(t, b) EXCEPT !.play = TRUE])
         /\ KeepCur \in Wanted
<1>1. hf.g \in BOOLEAN /\ target \in Wanted /\ backup \in Wanted /\ cur \in Wanted
  BY Zenon DEF TypeOK, CallFlags
<1>2. Good(NoRequest)
  BY <1>1, Zenon DEF Good, NoRequest
<1>3. \A t \in Wanted, b \in Wanted :
         /\ Good(Request(t, b))
         /\ Good([Request(t, b) EXCEPT !.g = TRUE])
         /\ Good([Request(t, b) EXCEPT !.g = FALSE])
         /\ Good([Request(t, b) EXCEPT !.play = TRUE])
  BY <1>1, SMT DEF Good, Request, NoRequest
<1> QED BY <1>1, <1>2, <1>3 DEF KeepCur

LEMMA RequestIsGood ==
  ASSUME TypeOK, HasDac, NEW m \in Messages, m.id \in Requests
  PROVE  Good(Asked(m))
<1>1. m.id = "IN" => m.of \in Plugs
  BY SMT DEF Messages, PlugMsgs, PlainIds
<1>2. cur \in Wanted /\ backup \in Wanted
  BY DEF TypeOK
<1>3. CASE m.id = "IN"
  <2>1. FindModeByPlugInMsg(m.of, ready) \in Wanted
    BY <1>1, <1>3, ResourceIsAvailable, ModesAreWanted, SMT
    DEF FindModeByPlugInMsg, HasDac, Plugs
  <2>2. Good(PlugInAsked(m.of))
    BY <2>1, PlainRequests DEF PlugInAsked
  <2> QED BY <1>3, <2>2, PlainRequests DEF Asked, MsgProcessModeResource
<1>4. Good(PlugOutAsked)
  BY <1>2, PlainRequests, NextModeIsAvailable DEF PlugOutAsked
<1>5. Good(CallInAsked)
  BY <1>2, PlainRequests, ModesAreWanted DEF CallInAsked
<1>6. Good(CallOutAsked)
  BY <1>2, PlainRequests, ModesAreWanted DEF CallOutAsked
<1>7. Good(ModeKeyAsked)
  BY <1>2, PlainRequests, NextModeIsAvailable, ModesAreWanted DEF ModeKeyAsked
<1>8. Good(PlayBackAsked)
  BY <1>2, PlainRequests, NextModeIsAvailable, ModesAreWanted DEF PlayBackAsked
<1>9. Good(AlarmAsked)
  <2>1. "Rest" \in Wanted
    BY ModeNames, SMT DEF Wanted
  <2> QED BY <1>2, <2>1, PlainRequests, ModesAreWanted DEF AlarmAsked
<1>10. CASE m.id # "IN"
  <2>1. \/ MsgProcessModeResource(m) = PlugOutAsked
        \/ MsgProcessModeResource(m) = CallInAsked
        \/ MsgProcessModeResource(m) = CallOutAsked
        \/ MsgProcessModeResource(m) = ModeKeyAsked
        \/ MsgProcessModeResource(m) = PlayBackAsked
        \/ MsgProcessModeResource(m) = AlarmAsked
    BY <1>10 DEF MsgProcessModeResource, Requests
  <2>2. Good(MsgProcessModeResource(m))
    BY <2>1, <1>4, <1>5, <1>6, <1>7, <1>8, <1>9
  <2> QED BY <2>2, PlainRequests DEF Asked
<1> QED BY <1>3, <1>10
-------------------------------------------------------------------------------
(* The types, the converter and the current task, action by action. *)

Inv1 == TypeOK /\ HasDac /\ AppIsCurrent

\* A step of the decoder changes neither the mode of the task nor its state.
LEMMA DecoderKeepsState ==
  ASSUME app \in AppTasks, DecoderCreated \/ DecoderStarted \/ DecoderStopped
  PROVE  app' \in AppTasks /\ app'.mode = app.mode /\ app'.st = app.st
<1>0. app.todo \in Words /\ app.orders \in Orders
  BY TaskFields
<1>1. CASE DecoderCreated
  <2>1. Append(app.todo, "DECODER_CREATED") \in Words
    BY <1>0, TaskQueues
  <2>2. app' = [app EXCEPT !.dec = "Ready", !.todo = Append(app.todo, "DECODER_CREATED")]
    BY <1>1 DEF DecoderCreated
  <2> QED BY <1>0, <2>1, <2>2, TaskStates, Zenon DEF AppTasks
<1>2. CASE DecoderStarted
  <2>1. Append(app.todo, "DECODER_STARTED") \in Words /\ Tail(app.orders) \in Orders
    BY <1>2, <1>0, TaskQueues DEF DecoderStarted
  <2>2. CASE app' = [app EXCEPT !.dec = "Running",
                                !.todo = Append(app.todo, "DECODER_STARTED"),
                                !.orders = Tail(app.orders)]
    BY <1>0, <2>1, <2>2, TaskStates, Zenon DEF AppTasks
  <2>3. CASE app' = [app EXCEPT !.orders = Tail(app.orders)]
    BY <1>0, <2>1, <2>3, TaskFields, Zenon
  <2> QED BY <1>2, <2>2, <2>3 DEF DecoderStarted
<1>3. CASE DecoderStopped
  <2>1. Append(app.todo, "DECODER_STOPPED") \in Words /\ <<>> \in Orders
    BY <1>0, TaskQueues
  <2>2. app' = [app EXCEPT !.dec = "Stopped",
                           !.todo = Append(app.todo, "DECODER_STOPPED"), !.orders = <<>>]
    BY <1>3 DEF DecoderStopped
  <2> QED BY <1>0, <2>1, <2>2, TaskStates, Zenon DEF AppTasks
<1> QED BY <1>1, <1>2, <1>3

\* What the mode's task and its decoder do leaves the rest as it is.
LEMMA AppTask ==
  ASSUME Inv1, AppStep
  PROVE  Inv1'
<1> USE DEF Inv1
<1>1. /\ app \in AppTasks /\ app.note \in Notes /\ app.st \in AppStates
      /\ app.todo \in Words /\ app.orders \in Orders /\ app.dsync \in BOOLEAN
  BY TaskFields DEF TypeOK
<1>2. ASSUME NEW id \in PlainIds
      PROVE  Sent(mainQ, Message(id)) \in Seq(Messages) /\ Len(Sent(mainQ, Message(id))) <= MainQLen
  BY PlainMessages, SentIsQueue DEF TypeOK
<1>3. \A word : Hears(word) => Tail(app.todo) \in Words /\ app.st # "none"
  BY <1>1, TaskQueues DEF Hears, Alive
<1>4. /\ "CREATED" \in PlainIds /\ "STARTED" \in PlainIds /\ "STOPPED" \in PlainIds
      /\ "PERMISSION" \in PlainIds /\ "FAILURE" \in PlainIds /\ "BTHF_OUT" \in PlainIds
  BY DEF PlainIds
<1>5. CASE AppCreated
  <2>1. app' \in AppTasks /\ app'.mode = app.mode /\ app.st # "none"
    <3>1. CASE app.st = "Creating" /\ app' = [app EXCEPT !.st = "Ready"]
      BY <1>1, <3>1, TaskFields, TaskStates
    <3>2. CASE Hears("DECODER_CREATED")
               /\ app' = [app EXCEPT !.st = "Ready", !.dsync = TRUE, !.todo = Tail(app.todo)]
      BY <1>1, <1>3, <3>2, TaskStates, Zenon DEF AppTasks
    <3> QED BY <1>5, <3>1, <3>2 DEF AppCreated
  <2>2. hf' \in CallFlags
    BY <1>5, CallChanges DEF AppCreated, TypeOK
  <2>3. mainQ' \in Seq(Messages) /\ Len(mainQ') <= MainQLen
    BY <1>2, <1>4, <1>5 DEF AppCreated, Says
  <2> QED BY <1>5, <2>1, <2>2, <2>3, SMT DEF AppCreated, TypeOK, HasDac, AppIsCurrent, mainVars
<1>6. CASE DecoderCreated \/ DecoderStarted \/ DecoderStopped
  <2>1. app' \in AppTasks /\ app'.mode = app.mode /\ app'.st = app.st
    BY <1>1, <1>6, DecoderKeepsState
  <2>2. UNCHANGED <<mainVars, ready, flags, mainQ, svc, plug, hf, acts>>
    BY <1>6 DEF DecoderCreated, DecoderStarted, DecoderStopped
  <2> QED BY <2>1, <2>2, SMT DEF TypeOK, HasDac, AppIsCurrent, mainVars
<1>7. CASE AppStart
  <2>1. Append(app.orders, "START") \in Orders /\ Tail(app.todo) \in Words /\ app.st # "none"
    BY <1>1, <1>3, <1>7, TaskQueues DEF AppStart
  <2>2. app' = [app EXCEPT !.st = "Starting", !.dsync = TRUE, !.todo = Tail(app.todo),
                           !.orders = Append(app.orders, "START")]
    BY <1>7 DEF AppStart
  <2>3. app' \in AppTasks /\ app'.mode = app.mode
    BY <1>1, <2>1, <2>2, TaskStates, Zenon DEF AppTasks
  <2> QED BY <1>7, <2>1, <2>3, SMT DEF AppStart, TypeOK, HasDac, AppIsCurrent, mainVars
<1>8. CASE AppStop
  <2>1. Append(app.orders, "STOP") \in Orders /\ Tail(app.todo) \in Words /\ app.st # "none"
    BY <1>1, <1>3, <1>8, TaskQueues DEF AppStop
  <2>2. app' = [app EXCEPT !.st = "Stopping", !.todo = Tail(app.todo),
                           !.orders = Append(app.orders, "STOP")]
    BY <1>8 DEF AppStop
  <2>3. app' \in AppTasks /\ app'.mode = app.mode
    BY <1>1, <2>1, <2>2, TaskStates, Zenon DEF AppTasks
  <2> QED BY <1>8, <2>1, <2>3, SMT DEF AppStop, TypeOK, HasDac, AppIsCurrent, mainVars
<1>9. CASE AppStarted
  <2>1. Tail(app.todo) \in Words /\ app.st # "none" /\ (app.mode # "BtHf") \in BOOLEAN
    BY <1>3, <1>9 DEF AppStarted
  <2>2. app' = [app EXCEPT !.st = "Running", !.dsync = app.mode # "BtHf", !.todo = Tail(app.todo)]
    BY <1>9 DEF AppStarted
  <2>3. app' \in AppTasks /\ app'.mode = app.mode
    BY <1>1, <2>1, <2>2, TaskStates, Zenon DEF AppTasks
  <2>4. mainQ' \in Seq(Messages) /\ Len(mainQ') <= MainQLen
    BY <1>2, <1>4, <1>9 DEF AppStarted, Says
  <2> QED BY <1>9, <2>1, <2>3, <2>4, SMT DEF AppStarted, TypeOK, HasDac, AppIsCurrent, mainVars
<1>10. CASE AppStopped
  <2>1. <<>> \in Words /\ app.st # "none"
    BY <1>1, <1>3, <1>10, TaskQueues DEF AppStopped
  <2>2. app' = [app EXCEPT !.st = "Stopped", !.dsync = FALSE, !.todo = <<>>]
    BY <1>10 DEF AppStopped
  <2>3. app' \in AppTasks /\ app'.mode = app.mode
    BY <1>1, <2>1, <2>2, TaskStates, Zenon DEF AppTasks
  <2>4. mainQ' \in Seq(Messages) /\ Len(mainQ') <= MainQLen
    BY <1>2, <1>4, <1>10 DEF AppStopped, Says
  <2> QED BY <1>10, <2>1, <2>3, <2>4, SMT DEF AppStopped, TypeOK, HasDac, AppIsCurrent, mainVars
<1>14. CASE AppDrops
  <2> DEFINE kept == app.dsync /\ (Head(app.todo) # "DECODER_STOPPED" \/ ~Heeds)
  <2>1. Tail(app.todo) \in Words /\ app.st # "none"
    BY <1>3, <1>14 DEF AppDrops
  <2>2. app' = [app EXCEPT !.dsync = kept, !.todo = Tail(app.todo)]
    BY <1>14 DEF AppDrops
  <2>3. kept \in BOOLEAN
    BY Zenon
  <2>4. app' \in AppTasks /\ app'.mode = app.mode
    <3> HIDE DEF kept, Heeds
    <3> QED BY <1>1, <2>1, <2>2, <2>3, TaskStates, Zenon DEF AppTasks
  <2> QED BY <1>14, <2>1, <2>4, SMT DEF AppDrops, TypeOK, HasDac, AppIsCurrent, mainVars
<1>11. CASE DetectOver \/ PromptOver
  <2>1. mainQ' \in Seq(Messages) /\ Len(mainQ') <= MainQLen
    BY <1>2, <1>4, <1>11 DEF DetectOver, PromptOver, WaitOver, Says, TypeOK
  <2>2. flags' \subseteq flags
    BY <1>11 DEF DetectOver, PromptOver, WaitOver
  <2> QED BY <1>11, <2>1, <2>2, SMT DEF DetectOver, PromptOver, TypeOK, HasDac, AppIsCurrent, mainVars
<1>12. CASE MediaStruck
  <2>1. app' \in AppTasks /\ app'.mode = app.mode /\ app'.st = app.st
    BY <1>1, <1>12, TaskFields DEF MediaStruck, Notes
  <2>2. ready' \subseteq ready /\ "Dac" \in ready'
    BY <1>12, SMT DEF MediaStruck, HasDac
  <2> QED BY <1>12, <2>1, <2>2, SMT DEF MediaStruck, TypeOK, HasDac, AppIsCurrent, mainVars
<1>13. CASE CallConfigured
  <2>1. app' \in AppTasks /\ app'.mode = app.mode /\ app'.st = app.st
    BY <1>1, <1>13, TaskFields DEF CallConfigured, Notes
  <2>2. Kept
    BY <1>13, ConfigKeeps DEF CallConfigured
  <2> QED BY <1>13, <2>1, <2>2, SMT
          DEF CallConfigured, Kept, TypeOK, HasDac, AppIsCurrent, mainVars
<1> QED BY <1>5, <1>6, <1>7, <1>8, <1>9, <1>10, <1>11, <1>12, <1>13, <1>14 DEF AppStep

\* What the services and the outside world do.
LEMMA ServicesKeep ==
  ASSUME Inv1, ServiceStep
  PROVE  Inv1'
<1> USE DEF Inv1
<1>1. ASSUME NEW s \in Services, Pauses(s)
      PROVE  Inv1'
  <2>1. svc[s].box \in Seq({"PAUSE", "RESUME"}) /\ svc[s].box # <<>>
    BY <1>1, SMT DEF Pauses, TypeOK, SvcTasks
  <2>2. Tail(svc[s].box) \in Seq({"PAUSE", "RESUME"})
    BY <2>1, SMT
  <2>3. PICK st \in {"Running", "Paused"} :
             svc' = [svc EXCEPT ![s] = [st |-> st, box |-> Tail(svc[s].box)]]
    <3> DEFINE st == IF Head(svc[s].box) = "PAUSE" THEN "Paused" ELSE "Running"
    <3>1. svc' = [svc EXCEPT ![s] = [st |-> st, box |-> Tail(svc[s].box)]]
      BY <1>1, Zenon DEF Pauses
    <3>2. st \in {"Running", "Paused"}
      BY Zenon
    <3> HIDE DEF st
    <3> QED BY <3>1, <3>2, Zenon
  <2>4. svc' \in [Services -> SvcTasks]
    <3>1. [st |-> st, box |-> Tail(svc[s].box)] \in SvcTasks
      BY <2>2, SMT DEF SvcTasks
    <3> QED BY <2>3, <3>1, Zenon DEF TypeOK
  <2>5. About("PAUSED", s) \in Messages
    BY DEF About, Messages
  <2>6. mainQ' \in Seq(Messages) /\ Len(mainQ') <= MainQLen
    BY <1>1, <2>5, SentIsQueue DEF Pauses, TypeOK
  <2> QED BY <1>1, <2>4, <2>6, SMT DEF Pauses, TypeOK, HasDac, AppIsCurrent, mainVars
<1>2. CASE PlugSent
  <2>1. plug \in Messages
    BY <1>2, SMT DEF PlugSent, TypeOK, Messages
  <2>2. mainQ' \in Seq(Messages) /\ Len(mainQ') <= MainQLen
    BY <1>2, <2>1, SentIsQueue DEF PlugSent, TypeOK
  <2> QED BY <1>2, <2>2, SMT DEF PlugSent, TypeOK, HasDac, AppIsCurrent, mainVars
<1>3. CASE RemindEnds
  <2>1. mainQ' \in Seq(Messages) /\ Len(mainQ') <= MainQLen
    BY <1>3, PlainMessages, SentIsQueue DEF RemindEnds, Says, TypeOK, PlainIds
  <2> QED BY <1>3, <2>1, SMT DEF RemindEnds, TypeOK, HasDac, AppIsCurrent, mainVars
<1> QED BY <1>1, <1>2, <1>3 DEF ServiceStep

LEMMA ActCounts ==
  ASSUME NEW kind, Act(kind), acts \in 0 .. MaxActs
  PROVE  acts' \in 0 .. MaxActs
  BY Bounds, SMT DEF Act

LEMMA OutsideKeeps ==
  ASSUME Inv1, Outside
  PROVE  Inv1'
<1> USE DEF Inv1
<1>1. ASSUME NEW p \in PlugSet, PlugMoves(p)
      PROVE  Inv1'
  <2>1. p \in Plugs
    BY PlugAssumption
  <2>2. ready' \subseteq Resources /\ "Dac" \in ready'
    BY <1>1, <2>1, PlugGives DEF PlugMoves, TypeOK, HasDac
  <2>3. plug' \in PlugMsgs
    BY <1>1, <2>1, SMT DEF PlugMoves, About, PlugMsgs
  <2>4. acts' \in 0 .. MaxActs
    BY <1>1, ActCounts DEF PlugMoves, TypeOK
  <2> QED BY <1>1, <2>2, <2>3, <2>4, SMT DEF PlugMoves, TypeOK, HasDac, AppIsCurrent, mainVars
<1>2. ASSUME NEW kind, NEW id \in PlainIds, Key(kind, id)
      PROVE  Inv1'
  <2>1. mainQ' \in Seq(Messages) /\ Len(mainQ') <= MainQLen
    BY <1>2, PlainMessages, SentIsQueue DEF Key, Says, TypeOK
  <2>2. acts' \in 0 .. MaxActs
    BY <1>2, ActCounts DEF Key, TypeOK
  <2> QED BY <1>2, <2>1, <2>2, SMT DEF Key, TypeOK, HasDac, AppIsCurrent, mainVars
<1>3. ASSUME \/ Key("mode", "MODE") \/ Key("playback", "REC_PLAYBACK")
             \/ Key("sleep", "DEEPSLEEP") \/ Key("alarm", "ALARM")
      PROVE  Inv1'
  <2>1. /\ "MODE" \in PlainIds /\ "REC_PLAYBACK" \in PlainIds /\ "DEEPSLEEP" \in PlainIds
        /\ "ALARM" \in PlainIds
    BY DEF PlainIds
  <2> QED BY <1>2, <1>3, <2>1
<1>4. CASE MediaFails
  <2>1. app \in AppTasks /\ "failing" \in Notes
    BY DEF TypeOK, Notes
  <2>2. app' \in AppTasks /\ app'.mode = app.mode /\ app'.st = app.st
    BY <1>4, <2>1, TaskFields DEF MediaFails
  <2>3. mainQ' \in Seq(Messages) /\ Len(mainQ') <= MainQLen
    BY <1>4, PlainMessages, SentIsQueue DEF MediaFails, Says, TypeOK, PlainIds
  <2>4. acts' \in 0 .. MaxActs
    BY <1>4, ActCounts DEF MediaFails, TypeOK
  <2> QED BY <1>4, <2>2, <2>3, <2>4, SMT DEF MediaFails, TypeOK, HasDac, AppIsCurrent, mainVars
<1>5. CASE Records
  <2>1. flags' \subseteq FlagSet
    BY <1>5, SMT DEF Records, TypeOK, FlagSet
  <2>2. acts' \in 0 .. MaxActs
    BY <1>5, ActCounts DEF Records, TypeOK
  <2> QED BY <1>5, <2>1, <2>2, SMT DEF Records, TypeOK, HasDac, AppIsCurrent, mainVars
<1>6. CASE DecoderHangs
  <2>1. app' \in AppTasks /\ app'.mode = app.mode /\ app'.st = app.st
    BY <1>6, TaskFields, TaskStates DEF DecoderHangs, TypeOK
  <2>2. acts' \in 0 .. MaxActs
    BY <1>6, ActCounts DEF DecoderHangs, TypeOK
  <2> QED BY <1>6, <2>1, <2>2, SMT DEF DecoderHangs, TypeOK, HasDac, AppIsCurrent, mainVars
<1>7. mainQ \in Seq(Messages) /\ Len(mainQ) <= MainQLen /\ flags \in SUBSET FlagSet
      /\ hf \in CallFlags
  BY DEF TypeOK
<1>8. ASSUME NEW linked \in BOOLEAN, CallBegins(linked)
      PROVE  Inv1'
  <2>1. Kept /\ flags' \subseteq FlagSet
    BY <1>7, <1>8, EnterKeeps DEF CallBegins
  <2>2. acts' \in 0 .. MaxActs
    BY <1>8, ActCounts DEF CallBegins, TypeOK
  <2> QED BY <1>8, <2>1, <2>2, SMT DEF CallBegins, Kept, TypeOK, HasDac, AppIsCurrent, mainVars
<1>9. CASE CallEnds
  <2>1. Kept /\ flags' \subseteq FlagSet
    BY <1>7, <1>9, ExitKeeps DEF CallEnds
  <2>2. acts' \in 0 .. MaxActs
    BY <1>9, ActCounts DEF CallEnds, TypeOK
  <2> QED BY <1>9, <2>1, <2>2, SMT DEF CallEnds, Kept, TypeOK, HasDac, AppIsCurrent, mainVars
<1>10. CASE HfpConnects
  <2>1. hf' \in CallFlags
    BY <1>10, CallChanges DEF HfpConnects, TypeOK
  <2>2. acts' \in 0 .. MaxActs
    BY <1>10, ActCounts DEF HfpConnects, TypeOK
  <2> QED BY <1>10, <2>1, <2>2, SMT DEF HfpConnects, TypeOK, HasDac, AppIsCurrent, mainVars
<1> QED BY <1>1, <1>3, <1>4, <1>5, <1>6, <1>8, <1>9, <1>10 DEF Outside

\* What SelectModeBeforeEnter finds has its source, held in Waiting or not.
LEMMA SelectFinds ==
  ASSUME TypeOK, HasDac, SelectModeBeforeEnter
  PROVE  /\ cur' \in Wanted /\ target' \in Wanted /\ backup' \in Wanted /\ at' = "create"
         /\ cur' = target' /\ CheckModeResource(cur', ready)
<1>1. target \in Wanted /\ backup \in Wanted
  BY DEF TypeOK
<1>2. Selected.t \in Wanted /\ Selected.b \in Wanted /\ CheckModeResource(Selected.t, ready)
  <2>1. CASE CheckModeResource(target, ready)
    <3>1. Selected.t = target /\ Selected.b \in {Idle, backup}
      BY <2>1, SMT DEF Selected
    <3> QED BY <1>1, <2>1, <3>1, ModesAreWanted
  <2>2. CASE ~CheckModeResource(target, ready)
    <3>1. Selected.t = NextModeProcess /\ Selected.b = Idle
      BY <2>2, SMT DEF Selected
    <3> QED BY <3>1, NextModeIsAvailable, ModesAreWanted
  <2> QED BY <2>1, <2>2
<1>3. CheckModeResource(Waiting, ready)
  BY WaitingIsReady DEF HasDac
<1>4. target' \in {Waiting, Selected.t} /\ backup' \in {Selected.t, Selected.b}
  BY Zenon DEF SelectModeBeforeEnter
<1> QED BY <1>1, <1>2, <1>3, <1>4, ModesAreWanted DEF SelectModeBeforeEnter

LEMMA ExitEnds ==
  ASSUME Inv1, EndModeExit, UNCHANGED <<svc, plug, acts>>,
         mainQ' \in Seq(Messages), Len(mainQ') <= MainQLen
  PROVE  Inv1'
<1> USE DEF Inv1
<1>1. app' \in AppTasks /\ app'.st = "none"
  BY AppWords DEF EndModeExit, TypeOK
<1>2. hf' \in CallFlags
  BY CallChanges DEF EndModeExit, TypeOK
<1>3. /\ cur' \in Wanted /\ target' \in Wanted /\ backup' \in Wanted
      /\ at' \in {"recv", "create", "sleep"} /\ MState' \in {"Exit", "Pause"}
  BY SelectFinds DEF EndModeExit, TypeOK
<1>4. flags' \subseteq FlagSet /\ ready' = ready /\ state' = state /\ sync' = sync
  BY SMT DEF EndModeExit, TypeOK
<1> QED BY <1>1, <1>2, <1>3, <1>4, SMT DEF TypeOK, HasDac, AppIsCurrent

\* What the main task does.
LEMMA MainKeeps ==
  ASSUME Inv1, MainStep
  PROVE  Inv1'
<1> USE DEF Inv1
<1>1. /\ mainQ \in Seq(Messages) /\ Len(mainQ) <= MainQLen /\ flags \in SUBSET FlagSet
      /\ hf \in CallFlags /\ app \in AppTasks
  BY DEF TypeOK
<1>2. \A id \in PlainIds : Sent(mainQ, Message(id)) \in Seq(Messages)
                           /\ Len(Sent(mainQ, Message(id))) <= MainQLen
  BY <1>1, PlainMessages, SentIsQueue
<1>3. Stopped \in AppTasks /\ Stopped.mode = app.mode /\ Stopped.st = app.st
      /\ Started \in AppTasks /\ Started.mode = app.mode /\ Started.st = app.st
  BY <1>1, AppWords
<1>4. ASSUME NEW ok \in BOOLEAN, CanFail(ok)
      PROVE  acts' \in 0 .. MaxActs
  BY <1>4, ActCounts DEF CanFail, TypeOK
<1>5. ASSUME NEW ok \in BOOLEAN, CreateMode(ok)
      PROVE  Inv1'
  <2>1. app' \in AppTasks /\ app'.mode = cur
    BY <1>5, CreatedTask DEF CreateMode, TypeOK
  <2>2. mainQ' \in Seq(Messages) /\ Len(mainQ') <= MainQLen /\ MState' \in {"Enter", "Exit"}
    BY <1>1, <1>2, <1>5 DEF CreateMode, PlainIds
  <2>3. acts' \in 0 .. MaxActs
    BY <1>4, <1>5 DEF CreateMode
  <2> QED BY <1>5, <2>1, <2>2, <2>3, SMT DEF CreateMode, TypeOK, HasDac, AppIsCurrent
<1>6. ASSUME NEW ok \in BOOLEAN, Boot(ok)
      PROVE  Inv1'
  <2>1. app' \in AppTasks /\ app'.mode = Waiting
    BY <1>6, CreatedTask, ModesAreWanted DEF Boot
  <2>2. mainQ' \in Seq(Messages) /\ Len(mainQ') <= MainQLen
        /\ MState' \in {"Enter", "Exit"} /\ state' \in {"Running", state}
    BY <1>1, <1>2, <1>6 DEF Boot, PlainIds
  <2>3. acts' \in 0 .. MaxActs
    BY <1>4, <1>6 DEF Boot
  <2>4. flags' \subseteq FlagSet
    BY <1>1, <1>6, SMT DEF Boot, WaitModeMask, FlagSet
  <2> QED BY <1>6, <2>1, <2>2, <2>3, <2>4, ModesAreWanted, SMT
          DEF Boot, TypeOK, HasDac, AppIsCurrent
<1>7. ASSUME NEW ok \in BOOLEAN, Wake(ok)
      PROVE  Inv1'
  <2>1. cur' \in {"BtPlay", NextModeProcess, cur} /\ backup' \in {Idle, backup}
    BY <1>7, Zenon DEF Wake
  <2>2. cur' \in Wanted /\ backup' \in Wanted
    BY <2>1, NextModeIsAvailable, ModesAreWanted DEF TypeOK
  <2>3. app' \in AppTasks /\ app'.mode = cur'
    BY <1>7, <2>2, CreatedTask DEF Wake
  <2>4. svc' \in [Services -> SvcTasks]
    <3>1. svc' = [s \in Services |-> [svc[s] EXCEPT !.box = Append(@, "RESUME")]]
      BY <1>7 DEF Wake
    <3>2. \A t \in SvcTasks : [t EXCEPT !.box = Append(@, "RESUME")] \in SvcTasks
      BY SMT DEF SvcTasks
    <3>3. svc \in [Services -> SvcTasks]
      BY DEF TypeOK
    <3> HIDE DEF Inv1
    <3> QED BY <3>1, <3>2, <3>3, Zenon
  <2>5. acts' \in 0 .. MaxActs
    BY <1>4, <1>7 DEF Wake
  <2>6. flags' \subseteq flags
    BY <1>7 DEF Wake
  <2> QED BY <1>7, <2>2, <2>3, <2>4, <2>5, <2>6, SMT DEF Wake, TypeOK, HasDac, AppIsCurrent
<1>8. CASE EnterTimeout \/ JitterOver
  BY <1>3, <1>8, SMT DEF EnterTimeout, JitterOver, StartModeExit, TypeOK, HasDac, AppIsCurrent
<1>9. CASE ExitTimeout
  BY <1>1, <1>9, ExitEnds DEF ExitTimeout
<1>10. ASSUME mainQ # <<>>
       PROVE  Tail(mainQ) \in Seq(Messages) /\ Len(Tail(mainQ)) <= MainQLen
              /\ Head(mainQ) \in Messages
  BY <1>10, TakenIsQueue
<1>11. ASSUME NEW m, HandleRequest(m)
       PROVE  Inv1'
  <2>1. m \in Messages /\ m.id \in Requests /\ mainQ' = Tail(mainQ) /\ mainQ # <<>>
    BY <1>10, <1>11 DEF HandleRequest, Receive, Taken
  <2>2. Good(Asked(m))
    BY <2>1, RequestIsGood
  <2>3. hf' \in CallFlags
    BY <1>1, <1>11, <2>2, CallChanges, Zenon DEF HandleRequest, Good
  <2>4. flags' \subseteq FlagSet
    BY <1>1, <1>11, SMT DEF HandleRequest, FlagSet
  <2>5. target' \in Wanted /\ backup' \in Wanted
    BY <1>11, <2>2, Zenon DEF HandleRequest, Good
  <2> QED BY <1>10, <1>11, <2>1, <2>3, <2>4, <2>5, SMT
          DEF HandleRequest, TypeOK, HasDac, AppIsCurrent
<1>12. ASSUME NEW m, HandleCreated(m) \/ HandleStarted(m)
       PROVE  Inv1'
  <2>1. app' \in {app, Started, Stopped} /\ MState' \in {MState, "Work", "Exit"}
        /\ mainQ' = Tail(mainQ) /\ mainQ # <<>>
    BY <1>12 DEF HandleCreated, HandleStarted, StartModeExit, Receive, Taken
  <2> QED BY <1>3, <1>10, <1>12, <2>1, SMT
          DEF HandleCreated, HandleStarted, TypeOK, HasDac, AppIsCurrent
<1>13. ASSUME NEW m, HandleStopped(m)
       PROVE  Inv1'
  BY <1>10, <1>13, ExitEnds DEF HandleStopped, Receive, Taken
<1>14. ASSUME NEW m, HandleFailure(m) \/ HandlePermission(m)
       PROVE  Inv1'
  <2>1. app' \in {app, Stopped} /\ MState' \in {MState, "Exit"}
        /\ mainQ' = Tail(mainQ) /\ mainQ # <<>>
        /\ target' \in {NextModeProcess, FindPriorityMode(ready)}
    BY <1>14 DEF HandleFailure, HandlePermission, StartModeExit, Receive, Taken
  <2>2. target' \in Wanted
    BY <2>1, NextModeIsAvailable, PriorityIsAvailable, ModesAreWanted DEF HasDac
  <2> QED BY <1>3, <1>10, <1>14, <2>1, <2>2, SMT
          DEF HandleFailure, HandlePermission, TypeOK, HasDac, AppIsCurrent
<1>15. ASSUME NEW m, HandleDeepSleep(m)
       PROVE  Inv1'
  <2>1. mainQ # <<>>
    BY <1>15 DEF HandleDeepSleep, Receive
  <2>2. Kept /\ flags' \subseteq FlagSet
    <3>1. CASE cur = "BtHf" /\ "BtHfDelayEnterSleep" \notin flags
      <4>1. [hf EXCEPT !.g = FALSE] \in CallFlags
            /\ flags \cup {"BtHfDelayEnterSleep"} \in SUBSET FlagSet
        BY <1>1, CallChanges DEF FlagSet
      <4>2. ExitBtHfMode(Tail(mainQ), flags \cup {"BtHfDelayEnterSleep"},
                         [hf EXCEPT !.g = FALSE])
        BY <1>15, <3>1 DEF HandleDeepSleep
      <4> QED BY <1>10, <2>1, <4>1, <4>2, ExitKeeps
    <3>2. CASE ~(cur = "BtHf" /\ "BtHfDelayEnterSleep" \notin flags)
      BY <1>1, <1>10, <1>15, <2>1, <3>2, Zenon DEF HandleDeepSleep, Taken, Kept, TypeOK, HasDac
    <3> QED BY <3>1, <3>2
  <2>3. svc' \in [Services -> SvcTasks]
    <3>1. \/ svc' = svc
          \/ svc' = [s \in Services |-> [svc[s] EXCEPT !.box = Append(@, "PAUSE")]]
      BY <1>15 DEF HandleDeepSleep
    <3>2. \A t \in SvcTasks : [t EXCEPT !.box = Append(@, "PAUSE")] \in SvcTasks
      BY SMT DEF SvcTasks
    <3>3. svc \in [Services -> SvcTasks]
      BY DEF TypeOK
    <3> HIDE DEF Inv1
    <3> QED BY <3>1, <3>2, <3>3, Zenon
  <2>4. app' \in {app, Stopped} /\ MState' \in {MState, "Exit"} /\ state' \in {state, "Pausing"}
        /\ sync' \in {sync, {}}
    BY <1>15 DEF HandleDeepSleep, StartModeExit
  <2> QED BY <1>3, <1>15, <2>2, <2>3, <2>4, SMT
          DEF HandleDeepSleep, Kept, TypeOK, HasDac, AppIsCurrent
<1>16. ASSUME NEW m, HandlePaused(m)
       PROVE  Inv1'
  <2>1. m \in Messages /\ m.id = "PAUSED" /\ mainQ' = Tail(mainQ) /\ mainQ # <<>>
    BY <1>10, <1>16 DEF HandlePaused, Receive, Taken
  <2>2. m.of \in Services
    BY <2>1, SMT DEF Messages, PlugMsgs, PlainIds
  <2>3. sync' \subseteq Services /\ at' \in {at, "sleep"}
    BY <1>16, <2>2 DEF HandlePaused, TypeOK
  <2> QED BY <1>10, <1>16, <2>1, <2>3, SMT DEF HandlePaused, TypeOK, HasDac, AppIsCurrent
<1>17. ASSUME NEW m, HandleIgnored(m)
       PROVE  Inv1'
  BY <1>10, <1>17, SMT DEF HandleIgnored, Receive, Taken, mainVars, TypeOK, HasDac, AppIsCurrent
<1>18. ASSUME NEW m, NEW linked \in BOOLEAN, HandleEnterBtHf(m, linked)
       PROVE  Inv1'
  <2>1. mainQ # <<>> /\ EnterBtHfMode(Tail(mainQ), linked)
    BY <1>18 DEF HandleEnterBtHf, Receive
  <2>2. Kept /\ flags' \subseteq FlagSet
    BY <1>10, <2>1, EnterKeeps
  <2>3. acts' \in 0 .. MaxActs
    BY <1>18, ActCounts DEF HandleEnterBtHf, TypeOK
  <2> QED BY <1>18, <2>2, <2>3, SMT DEF HandleEnterBtHf, Kept, TypeOK, HasDac, AppIsCurrent
<1> QED BY <1>5, <1>6, <1>7, <1>8, <1>9, <1>11, <1>12, <1>13, <1>14, <1>15, <1>16, <1>17, <1>18
        DEF MainStep

-------------------------------------------------------------------------------
(* The types, and what is entered. *)

LEMMA InitHolds == Init => Inv1
<1> SUFFICES ASSUME Init PROVE Inv1
  OBVIOUS
<1>1. backup \in Wanted /\ cur \in Wanted /\ target \in Wanted
  <2>1. \A i \in Places : ModeLoop[i] \in Modes
    BY LoopPlaces
  <2> QED BY <2>1, ModesAreWanted DEF Init
<1>2. mainQ \in Seq(Messages) /\ Len(mainQ) <= MainQLen
  <2> HIDE DEF Messages
  <2> QED BY Bounds, SMT DEF Init
<1>3. app \in AppTasks
  BY NoTask DEF Init
<1>4. svc \in [Services -> SvcTasks]
  <2>1. [st |-> "Running", box |-> <<>>] \in SvcTasks
    BY SMT DEF SvcTasks
  <2> QED BY <2>1, Zenon DEF Init
<1>5. hf \in CallFlags
  BY Zenon DEF Init, NoCall, CallFlags
<1>6. ready \subseteq Resources /\ "Dac" \in ready
  BY CallResource, StaticAssumption, Zenon DEF Init
<1>7. acts \in 0 .. MaxActs
  BY Bounds, SMT DEF Init
<1> QED BY <1>1, <1>2, <1>3, <1>4, <1>5, <1>6, <1>7, SMT
        DEF Init, NoApp, Inv1, TypeOK, HasDac, AppIsCurrent

LEMMA StepsKeep == Inv1 /\ [Next]_vars => Inv1'
<1>1. Inv1 /\ Next => Inv1'
  BY AppTask, ServicesKeep, OutsideKeeps, MainKeeps DEF Next
<1>2. Inv1 /\ UNCHANGED vars => Inv1'
  BY Zenon DEF Inv1, TypeOK, HasDac, AppIsCurrent, vars
<1> QED BY <1>1, <1>2

LEMMA Always1 == Spec => []Inv1
  BY InitHolds, StepsKeep, PTL DEF Spec

\* Every variable keeps to the values the code gives it, and no sender ever
\* lengthens the main queue beyond its MainQLen places (rtos_api.c:30).
THEOREM TypeCorrect == Spec => []TypeOK
<1>1. Inv1 => TypeOK
  BY DEF Inv1
<1> QED BY <1>1, Always1, PTL

\* The task of a mode that lives is the one of the current mode, however calls,
\* keys, plugs, time-outs and sleeps fall (EndModeExit kills before it selects,
\* main_task.c:1065).
THEOREM LivingTaskIsCurrent == Spec => []AppIsCurrent
<1>1. Inv1 => AppIsCurrent
  BY DEF Inv1
<1> QED BY <1>1, Always1, PTL

\* Every mode that is entered from a stopped one has its source at that moment
\* (SelectModeBeforeEnter, main_task.c:1000), whatever changed since it was asked for.
THEOREM EntryHasSource == Spec => EntersWithSource
<1> DEFINE Enters == at = "recv" /\ at' = "create" => CheckModeResource(cur', ready)
<1>1. Inv1 /\ [Next]_vars => [Enters]_vars
  <2> SUFFICES ASSUME Inv1, Next, at = "recv", at' = "create"
               PROVE  CheckModeResource(cur', ready)
    BY DEF vars
  <2>1. ASSUME EndModeExit
        PROVE  CheckModeResource(cur', ready)
    <3>1. SelectModeBeforeEnter
      BY <2>1 DEF EndModeExit
    <3> QED BY <3>1, SelectFinds DEF Inv1
  <2>2. ExitTimeout => EndModeExit
    BY DEF ExitTimeout
  <2>3. \A m : HandleStopped(m) => EndModeExit
    BY DEF HandleStopped
  <2>4. ASSUME at' = at \/ at' \in {"recv", "sleep"}
        PROVE  FALSE
    BY <2>4
  <2>5. AppStep => at' = at
    BY SMT DEF AppStep, AppCreated, AppStart, AppStarted, AppStop, AppStopped, AppDrops,
       DecoderCreated, DecoderStarted, DecoderStopped,
       DetectOver, PromptOver, MediaStruck, CallConfigured, mainVars
  <2>6. ServiceStep => at' = at
    BY SMT DEF ServiceStep, Pauses, PlugSent, RemindEnds, mainVars
  <2>7. Outside => at' = at
    BY SMT DEF Outside, PlugMoves, Key, MediaFails, Records, DecoderHangs, CallBegins,
       CallEnds, HfpConnects, mainVars
  <2>8. \A ok \in BOOLEAN : CreateMode(ok) \/ Boot(ok) \/ Wake(ok) => at' = "recv"
    BY DEF CreateMode, Boot, Wake
  <2>9. EnterTimeout \/ JitterOver => at' = at
    BY DEF EnterTimeout, JitterOver
  <2>10. \A m : \/ HandleRequest(m) \/ HandleCreated(m) \/ HandleStarted(m)
                \/ HandleFailure(m) \/ HandlePermission(m) \/ HandleDeepSleep(m)
                \/ HandleIgnored(m) \/ \E linked \in BOOLEAN : HandleEnterBtHf(m, linked)
                => at' = at
    BY Zenon DEF HandleRequest, HandleCreated, HandleStarted, HandleFailure, HandlePermission,
       HandleDeepSleep, HandleIgnored, HandleEnterBtHf, mainVars
  <2>11. \A m : HandlePaused(m) => at' = at \/ at' = "sleep"
    BY DEF HandlePaused
  <2>12. MainStep => EndModeExit
    BY <2>2, <2>3, <2>4, <2>8, <2>9, <2>10, <2>11 DEF MainStep
  <2> QED BY <2>1, <2>4, <2>5, <2>6, <2>7, <2>12 DEF Next
<1> QED BY <1>1, Always1, PTL DEF Spec, EntersWithSource

-------------------------------------------------------------------------------
(* The boot prompt and the device scan.  Nothing but the end of the last of the *)
(* two waits can move the appliance, for no message that moves it by itself is   *)
(* in the queue while they last.                                                 *)

\* The messages that set the target without a request.
Movers == {"PERMISSION", "FAILURE"}
Innocent(q) == \A i \in 1 .. Len(q) : q[i].id \notin Movers

WaitBooks ==
  /\ at = "boot" => flags = {} /\ app.st = "none" /\ Innocent(mainQ)
  /\ Waits => /\ cur = Waiting /\ target = Waiting
              /\ "BtHfDelayEnterSleep" \notin flags /\ Innocent(mainQ)

LEMMA SentInnocent ==
  ASSUME NEW q \in Seq(Messages), NEW m \in Messages, m.id \notin Movers, Innocent(q)
  PROVE  Innocent(Sent(q, m))
<1>1. CASE Len(q) < MainQLen
  <2>1. Len(Sent(q, m)) = Len(q) + 1 /\ Sent(q, m)[Len(q) + 1] = m
        /\ \A i \in 1 .. Len(q) : Sent(q, m)[i] = q[i]
    <3> HIDE DEF Messages
    <3> QED BY <1>1, SMT DEF Sent
  <2>2. Len(q) \in Nat
    OBVIOUS
  <2> HIDE DEF Messages, Sent, Movers
  <2> QED BY <2>1, <2>2, SMT DEF Innocent
<1>2. CASE ~(Len(q) < MainQLen)
  BY <1>2 DEF Sent
<1> QED BY <1>1, <1>2

LEMMA TailInnocent ==
  ASSUME NEW q \in Seq(Messages), q # <<>>, Innocent(q)
  PROVE  Innocent(Tail(q)) /\ Head(q).id \notin Movers
<1>1. /\ Len(q) \in Nat /\ Len(q) > 0 /\ Len(Tail(q)) = Len(q) - 1 /\ Head(q) = q[1]
      /\ \A i \in 1 .. Len(q) - 1 : Tail(q)[i] = q[i + 1]
  <2> HIDE DEF Messages
  <2> QED BY SMT
<1> HIDE DEF Messages, Movers
<1> QED BY <1>1, SMT DEF Innocent

LEMMA PlainInnocent ==
  ASSUME NEW q \in Seq(Messages), Innocent(q)
  PROVE  \A id \in PlainIds \ Movers : Innocent(Sent(q, Message(id)))
<1> SUFFICES ASSUME NEW id \in PlainIds \ Movers PROVE Innocent(Sent(q, Message(id)))
  OBVIOUS
<1>1. Message(id).id = id
  BY DEF Message
<1> QED BY <1>1, PlainMessages, SentInnocent

\* The three operations on the flags of a call send no mover.
LEMMA CallInnocent ==
  ASSUME NEW q \in Seq(Messages), Innocent(q)
  PROVE  /\ \A linked \in BOOLEAN : EnterBtHfMode(q, linked) => Innocent(mainQ')
         /\ \A fl, h : ExitBtHfMode(q, fl, h) => Innocent(mainQ')
         /\ RunConfig /\ q = mainQ => Innocent(mainQ')
<1>1. Innocent(Sent(q, Message("BTHF_IN"))) /\ Innocent(Sent(q, Message("BTHF_OUT")))
  BY PlainInnocent DEF PlainIds, Movers
<1> QED BY <1>1, Zenon DEF EnterBtHfMode, ExitBtHfMode, RunConfig

\* A step that begins no wait, moves no mode while one lasts and sends no mover
\* then.
LEMMA WaitGoesOn ==
  ASSUME WaitBooks,
         at' = "boot" => at = "boot" /\ flags' = flags /\ app'.st = app.st,
         Waits' => Waits,
         Waits => /\ cur' = cur /\ target' = target
                  /\ "BtHfDelayEnterSleep" \in flags' => "BtHfDelayEnterSleep" \in flags,
         at = "boot" \/ Waits => Innocent(mainQ')
  PROVE  WaitBooks'
  BY Zenon DEF WaitBooks

\* A step that only clears flags begins no wait; nor does one that sets others.
LEMMA NoNewWait ==
  ASSUME flags' \cap WaitModeMask \subseteq flags
  PROVE  Waits' => Waits
  BY Zenon DEF Waits

\* Only a task that lives changes its state by itself.
LEMMA OnlyTheLivingMove ==
  ASSUME Inv1, AppStep \/ Outside
  PROVE  app.st # "none" \/ app'.st = app.st
<1>1. CASE DecoderCreated \/ DecoderStarted \/ DecoderStopped
  BY <1>1, DecoderKeepsState DEF Inv1, TypeOK
<1>2. ASSUME NEW word, Hears(word)
      PROVE  app.st # "none"
  BY <1>2 DEF Hears, Alive
<1>3. AppCreated \/ AppStart \/ AppStarted \/ AppStop \/ AppStopped \/ AppDrops
        => app.st # "none"
  BY <1>2, SMT DEF AppCreated, AppStart, AppStarted, AppStop, AppStopped, AppDrops
<1>4. DetectOver \/ PromptOver \/ MediaStruck \/ CallConfigured => app.st # "none"
  BY SMT DEF DetectOver, PromptOver, MediaStruck, CallConfigured, Alive
<1>5. CASE DecoderHangs
  BY <1>5, TaskFields, TaskStates DEF DecoderHangs, Inv1, TypeOK
<1>6. Outside /\ ~DecoderHangs => app' = app \/ app.st # "none"
  BY SMT DEF Outside, PlugMoves, Key, MediaFails, Records, CallBegins, CallEnds, HfpConnects
<1> QED BY <1>1, <1>3, <1>4, <1>5, <1>6 DEF AppStep

LEMMA AppWaits ==
  ASSUME Inv1, WaitBooks, AppStep
  PROVE  WaitBooks'
<1>1. mainQ \in Seq(Messages)
  BY DEF Inv1, TypeOK
<1>2. UNCHANGED <<cur, target, at>>
  BY SMT DEF AppStep, AppCreated, AppStart, AppStarted, AppStop, AppStopped, AppDrops,
     DecoderCreated, DecoderStarted, DecoderStopped,
     DetectOver, PromptOver, MediaStruck, CallConfigured, mainVars
<1>3. app.st # "none" \/ app'.st = app.st
  BY OnlyTheLivingMove
<1>4. CASE DetectOver \/ PromptOver
  <2>1. PICK flag \in WaitModeMask : WaitOver(flag)
    BY <1>4, SMT DEF DetectOver, PromptOver, WaitModeMask
  <2>2. app.st # "none"
    BY <1>4, SMT DEF DetectOver, PromptOver, Alive
  <2>3. at # "boot" /\ at' # "boot"
    BY <1>2, <2>2 DEF WaitBooks
  <2>4. CASE WaitModeMask \cap flags = {flag}
    <3>1. ~Waits'
      BY <2>1, <2>4, SMT DEF WaitOver, Waits
    <3> QED BY <2>3, <3>1 DEF WaitBooks
  <2>5. CASE WaitModeMask \cap flags # {flag}
    <3>1. mainQ' = mainQ /\ flags' = flags \ {flag}
      BY <2>1, <2>5 DEF WaitOver
    <3>2. Waits' => Waits
      BY <3>1, NoNewWait, SMT
    <3>3. Waits => Innocent(mainQ')
      BY <3>1, Zenon DEF WaitBooks
    <3>4. "BtHfDelayEnterSleep" \in flags' => "BtHfDelayEnterSleep" \in flags
      BY <3>1
    <3> QED BY <1>2, <2>3, <3>2, <3>3, <3>4, WaitGoesOn
  <2> QED BY <2>4, <2>5
<1>5. CASE ~(DetectOver \/ PromptOver)
  <2>1. flags' = flags
    BY <1>5, SMT DEF AppStep, AppCreated, AppStart, AppStarted, AppStop, AppStopped, AppDrops,
       DecoderCreated, DecoderStarted, DecoderStopped, MediaStruck, CallConfigured
  <2>2. ASSUME Innocent(mainQ) PROVE Innocent(mainQ')
    <3>1. Innocent(Sent(mainQ, Message("CREATED"))) /\ Innocent(Sent(mainQ, Message("STARTED")))
          /\ Innocent(Sent(mainQ, Message("STOPPED")))
      BY <1>1, <2>2, PlainInnocent DEF PlainIds, Movers
    <3>2. CallConfigured => Innocent(mainQ')
      BY <1>1, <2>2, CallInnocent DEF CallConfigured
    <3> QED BY <1>5, <2>2, <3>1, <3>2, SMT
            DEF AppStep, AppCreated, AppStart, AppStarted, AppStop, AppStopped, AppDrops,
                DecoderCreated, DecoderStarted, DecoderStopped, MediaStruck, Says
  <2>3. Waits' => Waits
    BY <2>1, NoNewWait, SMT
  <2>4. at = "boot" => app'.st = app.st
    BY <1>3, Zenon DEF WaitBooks
  <2>5. at = "boot" \/ Waits => Innocent(mainQ')
    BY <2>2, Zenon DEF WaitBooks
  <2> QED BY <1>2, <2>1, <2>3, <2>4, <2>5, WaitGoesOn
<1> QED BY <1>4, <1>5

LEMMA ServiceWaits ==
  ASSUME Inv1, WaitBooks, ServiceStep
  PROVE  WaitBooks'
<1>1. mainQ \in Seq(Messages)
  BY DEF Inv1, TypeOK
<1>2. UNCHANGED <<cur, target, at, app>> /\ flags' \subseteq flags
  BY SMT DEF ServiceStep, Pauses, PlugSent, RemindEnds, mainVars
<1>3. flags = {} => flags' = flags
  BY <1>2
<1>4. Waits' => Waits
  BY <1>2, NoNewWait
<1>5. ASSUME Innocent(mainQ) PROVE Innocent(mainQ')
  <2>1. ASSUME NEW s \in Services, Pauses(s)
        PROVE  Innocent(mainQ')
    <3>1. About("PAUSED", s) \in Messages /\ About("PAUSED", s).id \notin Movers
      BY DEF About, Messages, Movers
    <3> QED BY <1>1, <1>5, <2>1, <3>1, SentInnocent DEF Pauses
  <2>2. CASE PlugSent
    <3>1. plug \in Messages /\ plug.id \notin Movers
      BY <2>2, SMT DEF PlugSent, Inv1, TypeOK, Messages, PlugMsgs, Movers
    <3> QED BY <1>1, <1>5, <2>2, <3>1, SentInnocent DEF PlugSent
  <2>3. CASE RemindEnds
    BY <1>1, <1>5, <2>3, PlainInnocent DEF RemindEnds, Says, PlainIds, Movers
  <2> QED BY <2>1, <2>2, <2>3 DEF ServiceStep
<1>6. at = "boot" \/ Waits => Innocent(mainQ')
  BY <1>5, Zenon DEF WaitBooks
<1>7. at = "boot" => flags' = flags
  BY <1>3, Zenon DEF WaitBooks
<1> QED BY <1>2, <1>4, <1>6, <1>7, WaitGoesOn

LEMMA OutsideWaits ==
  ASSUME Inv1, WaitBooks, Outside
  PROVE  WaitBooks'
<1>1. mainQ \in Seq(Messages)
  BY DEF Inv1, TypeOK
<1>2. UNCHANGED <<cur, target, at>>
  BY SMT DEF Outside, PlugMoves, Key, MediaFails, Records, DecoderHangs, CallBegins, CallEnds,
     HfpConnects, mainVars
<1>3. app.st # "none" \/ app'.st = app.st
  BY OnlyTheLivingMove
<1>4. /\ flags' \cap WaitModeMask \subseteq flags
      /\ "BtHfDelayEnterSleep" \in flags' => "BtHfDelayEnterSleep" \in flags
      /\ at = "boot" => flags' = flags \/ app.st # "none"
  <2>1. CASE Records
    BY <2>1, SMT DEF Records, WaitModeMask
  <2>2. ASSUME NEW linked \in BOOLEAN, CallBegins(linked)
        PROVE  /\ flags' \subseteq flags \cup {"DelayEnterBtHf"} /\ at # "boot"
    BY <2>2, SMT DEF CallBegins, EnterBtHfMode
  <2>3. CallEnds => flags' \subseteq flags /\ at # "boot"
    BY SMT DEF CallEnds, ExitBtHfMode
  <2>4. \/ flags' = flags \/ Records \/ CallEnds
        \/ \E linked \in BOOLEAN : CallBegins(linked)
    BY SMT DEF Outside, PlugMoves, Key, MediaFails, DecoderHangs, HfpConnects
  <2> QED BY <2>1, <2>2, <2>3, <2>4, SMT DEF WaitModeMask
<1>5. Waits' => Waits
  BY <1>4, NoNewWait
<1>6. ASSUME at = "boot" \/ Waits, Innocent(mainQ) PROVE Innocent(mainQ')
  <2>1. ~MediaFails
    <3>1. CASE at = "boot"
      BY <3>1, SMT DEF WaitBooks, MediaFails
    <3>2. CASE Waits
      <4>1. cur = Waiting
        BY <3>2 DEF WaitBooks
      <4>2. app.st # "none" => app.mode = Waiting
        BY <4>1 DEF Inv1, AppIsCurrent
      <4> QED BY <4>2, SMT DEF MediaFails, Waiting
    <3> QED BY <1>6, <3>1, <3>2
  <2>2. Innocent(Sent(mainQ, Message("MODE"))) /\ Innocent(Sent(mainQ, Message("REC_PLAYBACK")))
        /\ Innocent(Sent(mainQ, Message("DEEPSLEEP")))
        /\ Innocent(Sent(mainQ, Message("ALARM")))
    BY <1>1, <1>6, PlainInnocent DEF PlainIds, Movers
  <2>3. CallEnds \/ (\E linked \in BOOLEAN : CallBegins(linked)) => Innocent(mainQ')
    BY <1>1, <1>6, CallInnocent DEF CallEnds, CallBegins
  <2> QED BY <1>6, <2>1, <2>2, <2>3, SMT
          DEF Outside, PlugMoves, Key, Records, DecoderHangs, HfpConnects, Says
<1>7. at = "boot" \/ Waits => Innocent(mainQ')
  BY <1>6, Zenon DEF WaitBooks
<1>8. at = "boot" => flags' = flags /\ app'.st = app.st
  BY <1>3, <1>4, Zenon DEF WaitBooks
<1> QED BY <1>2, <1>4, <1>5, <1>7, <1>8, WaitGoesOn

\* A target that waits is entered as it is: Waiting always has its source.
LEMMA WaitingIsSelected ==
  ASSUME HasDac, target = Waiting, SelectModeBeforeEnter
  PROVE  cur' = Waiting /\ target' = Waiting
<1>1. CheckModeResource(Waiting, ready)
  BY WaitingIsReady DEF HasDac
<1>2. Selected.t = Waiting
  BY <1>1, SMT DEF Selected
<1> QED BY <1>2, Zenon DEF SelectModeBeforeEnter

LEMMA ExitWaits ==
  ASSUME Inv1, WaitBooks, EndModeExit, at = "recv",
         Innocent(mainQ) => Innocent(mainQ')
  PROVE  WaitBooks'
<1>1. at' # "boot"
  BY DEF EndModeExit, SelectModeBeforeEnter
<1>2. flags' \subseteq flags
  BY DEF EndModeExit
<1>3. Waits' => Waits
  BY <1>2, NoNewWait
<1>4. Waits => Innocent(mainQ')
  BY Zenon DEF WaitBooks
<1>5. Waits => cur' = cur /\ target' = target
  <2>1. CASE state = "Pausing"
    BY <2>1 DEF EndModeExit
  <2>2. CASE state # "Pausing" /\ Waits
    BY <2>2, WaitingIsSelected DEF EndModeExit, WaitBooks, Inv1
  <2> QED BY <2>1, <2>2
<1> QED BY <1>1, <1>2, <1>3, <1>4, <1>5, WaitGoesOn

LEMMA MainWaits ==
  ASSUME Inv1, WaitBooks, MainStep
  PROVE  WaitBooks'
<1>1. mainQ \in Seq(Messages)
  BY DEF Inv1, TypeOK
<1>2. ASSUME mainQ # <<>>, Innocent(mainQ)
      PROVE  Innocent(Tail(mainQ)) /\ Head(mainQ).id \notin Movers
             /\ Tail(mainQ) \in Seq(Messages)
  BY <1>1, <1>2, TailInnocent, TakenIsQueue DEF Inv1
<1>3. ASSUME Innocent(mainQ) PROVE Innocent(Sent(mainQ, Message("NEXT_MODE")))
  BY <1>1, <1>3, PlainInnocent DEF PlainIds, Movers
\* The steps that leave the modes and the flags of the waits alone.
<1>4. ASSUME at = "recv" \/ at = "create", at' # "boot",
             UNCHANGED <<cur, target>>, flags' \subseteq flags,
             Innocent(mainQ) => Innocent(mainQ')
      PROVE  WaitBooks'
  <2>1. Waits' => Waits
    BY <1>4, NoNewWait
  <2>2. at = "boot" \/ Waits => Innocent(mainQ')
    BY <1>4, Zenon DEF WaitBooks
  <2> QED BY <1>4, <2>1, <2>2, WaitGoesOn
<1>5. ASSUME NEW ok \in BOOLEAN, CreateMode(ok)
      PROVE  WaitBooks'
  BY <1>3, <1>4, <1>5, Zenon DEF CreateMode
<1>6. ASSUME NEW ok \in BOOLEAN, Boot(ok)
      PROVE  WaitBooks'
  <2>1. at' = "recv" /\ cur' = Waiting /\ target' = Waiting
        /\ flags' = WaitModeMask /\ Innocent(mainQ')
    BY <1>3, <1>6, Zenon DEF Boot, WaitBooks
  <2> QED BY <2>1, SMT DEF WaitBooks, WaitModeMask
<1>7. ASSUME NEW ok \in BOOLEAN, Wake(ok)
      PROVE  WaitBooks'
  <2>1. at' = "recv" /\ mainQ' = mainQ /\ target' = cur' /\ flags' \subseteq flags
    BY <1>7, Zenon DEF Wake
  <2>2. Waits' => Waits
    BY <2>1, NoNewWait
  <2>3. ASSUME Waits PROVE cur' = cur /\ target' = target
    <3>1. /\ cur = Waiting /\ target = Waiting /\ "BtHfDelayEnterSleep" \notin flags
          /\ ~ModeResumeMask(Waiting)
      BY <2>3, SMT DEF WaitBooks, ModeResumeMask, PlayBackModes, Waiting
    <3> QED BY <1>7, <2>1, <2>3, <3>1, Zenon DEF Wake
  <2> QED BY <2>1, <2>2, <2>3, WaitGoesOn, Zenon DEF WaitBooks
<1>8. CASE EnterTimeout \/ JitterOver
  BY <1>4, <1>8, Zenon DEF EnterTimeout, JitterOver, Overdue
<1>9. CASE ExitTimeout
  BY <1>9, ExitWaits DEF ExitTimeout, Overdue
<1>10. ASSUME NEW m, HandleStopped(m)
       PROVE  WaitBooks'
  BY <1>2, <1>10, ExitWaits DEF HandleStopped, Receive, Taken
<1>11. ASSUME NEW m, HandleRequest(m)
       PROVE  WaitBooks'
  <2>1. at = "recv" /\ at' = at /\ mainQ # <<>> /\ mainQ' = Tail(mainQ) /\ cur' = cur
    BY <1>11 DEF HandleRequest, Receive, Taken
  <2>2. CASE Waits
    <3>1. target' = target /\ flags' = flags
      BY <1>11, <2>2, SMT DEF HandleRequest, Asked, NoRequest
    <3> QED BY <1>2, <1>4, <2>1, <3>1
  <2>3. CASE ~Waits
    <3>1. flags' \cap WaitModeMask \subseteq flags
      BY <1>11, SMT DEF HandleRequest, WaitModeMask
    <3>2. ~Waits'
      BY <2>3, <3>1, NoNewWait
    <3> QED BY <2>1, <3>2, Zenon DEF WaitBooks
  <2> QED BY <2>2, <2>3
<1>12. ASSUME NEW m, HandleCreated(m) \/ HandleStarted(m)
       PROVE  WaitBooks'
  <2>1. at = "recv" /\ at' = at /\ mainQ # <<>> /\ mainQ' = Tail(mainQ)
        /\ UNCHANGED <<cur, target, flags>>
    BY <1>12, Zenon DEF HandleCreated, HandleStarted, Receive, Taken
  <2> QED BY <1>2, <1>4, <2>1
\* A mover is not in the queue as long as a wait lasts.
<1>13. ASSUME NEW m, HandleFailure(m) \/ HandlePermission(m)
       PROVE  WaitBooks'
  <2>1. at = "recv" /\ at' = at /\ mainQ # <<>> /\ m = Head(mainQ) /\ m.id \in Movers
        /\ UNCHANGED <<cur, flags>>
    BY <1>13, Zenon DEF HandleFailure, HandlePermission, Receive, Movers
  <2>2. ~Waits
    BY <1>2, <2>1, Zenon DEF WaitBooks
  <2>3. ~Waits'
    BY <2>1, <2>2 DEF Waits
  <2> QED BY <2>1, <2>3, Zenon DEF WaitBooks
<1>14. ASSUME NEW m, HandleDeepSleep(m)
       PROVE  WaitBooks'
  <2>1. at = "recv" /\ at' = at /\ mainQ # <<>> /\ UNCHANGED <<cur, target>>
    BY <1>14 DEF HandleDeepSleep, Receive
  <2>2. CASE cur = "BtHf" /\ "BtHfDelayEnterSleep" \notin flags
    <3>1. ~Waits
      BY <2>2, SMT DEF WaitBooks, Waiting
    <3>2. flags' \subseteq flags \cup {"BtHfDelayEnterSleep"}
      BY <1>14, <2>2, Zenon DEF HandleDeepSleep, ExitBtHfMode
    <3>3. flags' \cap WaitModeMask \subseteq flags
      BY <3>2, SMT DEF WaitModeMask
    <3>4. ~Waits'
      BY <3>1, <3>3, NoNewWait
    <3> QED BY <2>1, <3>4, Zenon DEF WaitBooks
  <2>3. CASE ~(cur = "BtHf" /\ "BtHfDelayEnterSleep" \notin flags)
    <3>1. mainQ' = Tail(mainQ) /\ flags' = flags
      BY <1>14, <2>3, Zenon DEF HandleDeepSleep, Taken
    <3> QED BY <1>2, <1>4, <2>1, <3>1
  <2> QED BY <2>2, <2>3
<1>15. ASSUME NEW m, HandlePaused(m) \/ HandleIgnored(m)
       PROVE  WaitBooks'
  <2>1. at = "recv" /\ at' # "boot" /\ mainQ # <<>> /\ mainQ' = Tail(mainQ)
        /\ UNCHANGED <<cur, target, flags>>
    BY <1>15, Zenon DEF HandlePaused, HandleIgnored, Receive, Taken, mainVars
  <2> QED BY <1>2, <1>4, <2>1
<1>16. ASSUME NEW m, NEW linked \in BOOLEAN, HandleEnterBtHf(m, linked)
       PROVE  WaitBooks'
  <2>1. at = "recv" /\ at' = at /\ mainQ # <<>> /\ EnterBtHfMode(Tail(mainQ), linked)
        /\ UNCHANGED <<cur, target>>
    BY <1>16 DEF HandleEnterBtHf, Receive
  <2>2. flags' \subseteq flags \cup {"DelayEnterBtHf"}
    BY <2>1, Zenon DEF EnterBtHfMode
  <2>3. flags' \cap WaitModeMask \subseteq flags
        /\ ("BtHfDelayEnterSleep" \in flags' => "BtHfDelayEnterSleep" \in flags)
    BY <2>2, SMT DEF WaitModeMask
  <2>4. Waits' => Waits
    BY <2>3, NoNewWait
  <2>5. Innocent(mainQ) => Innocent(mainQ')
    BY <1>2, <2>1, CallInnocent
  <2> QED BY <2>1, <2>3, <2>4, <2>5, WaitGoesOn, Zenon DEF WaitBooks
<1> QED BY <1>5, <1>6, <1>7, <1>8, <1>9, <1>10, <1>11, <1>12, <1>13, <1>14, <1>15, <1>16
        DEF MainStep

LEMMA AlwaysWaits == Spec => []WaitBooks
<1>1. Init => WaitBooks
  <2>1. ASSUME Init PROVE Innocent(mainQ) /\ ~Waits
    BY <2>1, SMT DEF Init, Innocent, Waits
  <2> QED BY <2>1, SMT DEF Init, NoApp, WaitBooks
<1>2. Inv1 /\ WaitBooks /\ [Next]_vars => WaitBooks'
  <2>1. Inv1 /\ WaitBooks /\ Next => WaitBooks'
    BY AppWaits, ServiceWaits, OutsideWaits, MainWaits DEF Next
  <2>2. WaitBooks /\ UNCHANGED vars => WaitBooks'
    BY Zenon DEF WaitBooks, Waits, vars
  <2> QED BY <2>1, <2>2
<1> QED BY <1>1, <1>2, Always1, PTL DEF Spec

\* No message, key or plug takes the appliance out of Waiting before the boot
\* prompt and the device scan are over (main_task.c:339, 1137), nor does a sleep,
\* a time-out or a failed creation in the meantime.
THEOREM BootWaitIsKept == Spec => []WaitsHold
<1>1. WaitBooks => WaitsHold
  BY DEF WaitBooks, WaitsHold
<1> QED BY <1>1, AlwaysWaits, PTL

-------------------------------------------------------------------------------
(* A deep sleep finds everything at rest.  The main task counts the PAUSED       *)
(* answers of two services in two flags and looks at MState; nothing in the code *)
(* says that an answer is of this pause and not of an earlier one.  The           *)
(* invariant keeps the books of the PAUSE orders and their answers.               *)

\* The four states of a service: at rest, at work, and on the way.
Quiet  == [st |-> "Paused",  box |-> <<>>]
Busy   == [st |-> "Running", box |-> <<>>]
Waking == [st |-> "Paused",  box |-> <<"RESUME">>]
Going  == {[st |-> "Running", box |-> <<"PAUSE">>],
           [st |-> "Paused",  box |-> <<"RESUME", "PAUSE">>]}

\* The answer of service s is in the queue; it is there once at most.
Owes(q, s) == \E i \in 1 .. Len(q) : q[i] = About("PAUSED", s)
Once(q, s) == \A i, j \in 1 .. Len(q) :
                q[i] = About("PAUSED", s) /\ q[j] = About("PAUSED", s) => i = j

\* The mode's side: no task is left when MState says so, and one sleeps in Pause.
ModeBooks ==
  /\ MState \in {"None", "Pause"} => app.st = "none"
  /\ MState = "None" => state = "Ready"
  /\ MState = "Pause" => state = "Pausing"
  /\ at = "boot" => state = "Ready"
  /\ at = "sleep" => state = "Pausing" /\ sync = Services /\ app.st = "none"

\* The services' side: an answer is of the pause that is under way.
SvcBooks ==
  \A s \in Services :
    /\ state = "Pausing" => svc[s] \in Going \cup {Quiet}
    /\ state # "Pausing" => svc[s] \in {Busy, Waking}
    /\ state = "Pausing" /\ s \in sync => svc[s] = Quiet
    /\ Owes(mainQ, s) => state = "Pausing" /\ s \notin sync /\ svc[s] = Quiet
    /\ Once(mainQ, s)

PlugBooks == svc["Device"].st = "Paused" => plug = NoPlug

Books == ModeBooks /\ SvcBooks /\ PlugBooks

-------------------------------------------------------------------------------
(* Queues. *)

\* r owes no answer that q does not.
Harmless(q, r) == \A s \in Services : /\ Owes(r, s) => Owes(q, s)
                                      /\ Once(q, s) => Once(r, s)

LEMMA SentHarmless ==
  ASSUME NEW q \in Seq(Messages), NEW m \in Messages, m.id # "PAUSED"
  PROVE  Harmless(q, Sent(q, m))
<1>1. \A s : m # About("PAUSED", s)
  BY SMT DEF About
<1>2. CASE Len(q) < MainQLen
  <2>1. Len(Sent(q, m)) = Len(q) + 1 /\ Sent(q, m)[Len(q) + 1] = m
        /\ \A i \in 1 .. Len(q) : Sent(q, m)[i] = q[i]
    <3> HIDE DEF Messages
    <3> QED BY <1>2, SMT DEF Sent
  <2>2. Len(q) \in Nat
    OBVIOUS
  <2> HIDE DEF Messages, About, Sent
  <2> QED BY <1>1, <2>1, <2>2, SMT DEF Harmless, Owes, Once
<1>3. CASE ~(Len(q) < MainQLen)
  BY <1>3 DEF Sent, Harmless
<1> QED BY <1>2, <1>3

LEMMA TailHarmless ==
  ASSUME NEW q \in Seq(Messages), q # <<>>
  PROVE  /\ Harmless(q, Tail(q))
         /\ \A s \in Services : Once(q, s) /\ Head(q) = About("PAUSED", s)
                                  => ~Owes(Tail(q), s)
<1>1. /\ Len(q) \in Nat /\ Len(q) > 0 /\ Len(Tail(q)) = Len(q) - 1 /\ Head(q) = q[1]
      /\ \A i \in 1 .. Len(q) - 1 : Tail(q)[i] = q[i + 1]
  <2> HIDE DEF Messages
  <2> QED BY SMT
<1>2. \A s : Owes(Tail(q), s) => \E i \in 1 .. Len(q) : i # 1 /\ q[i] = About("PAUSED", s)
  <2> HIDE DEF About
  <2> QED BY <1>1, SMT DEF Owes
<1>3. \A s : Once(q, s) => Once(Tail(q), s)
  <2> HIDE DEF About
  <2> QED BY <1>1, SMT DEF Once
<1>4. \A s : Owes(Tail(q), s) => Owes(q, s)
  BY <1>2 DEF Owes
<1>5. \A s : Once(q, s) /\ Head(q) = About("PAUSED", s) => ~Owes(Tail(q), s)
  <2> HIDE DEF About
  <2> QED BY <1>1, <1>2, SMT DEF Once
<1> QED BY <1>3, <1>4, <1>5 DEF Harmless

LEMMA AnswerOnce ==
  ASSUME NEW q \in Seq(Messages), NEW s \in Services, ~Owes(q, s)
  PROVE  /\ Once(Sent(q, About("PAUSED", s)), s)
         /\ \A t \in Services \ {s} : /\ Owes(Sent(q, About("PAUSED", s)), t) => Owes(q, t)
                                      /\ Once(q, t) => Once(Sent(q, About("PAUSED", s)), t)
<1> DEFINE m == About("PAUSED", s)
<1>1. \A t \in Services \ {s} : m # About("PAUSED", t)
  BY SMT DEF About
<1>2. CASE Len(q) < MainQLen
  <2>1. Len(Sent(q, m)) = Len(q) + 1 /\ Sent(q, m)[Len(q) + 1] = m
        /\ \A i \in 1 .. Len(q) : Sent(q, m)[i] = q[i]
    <3>1. m \in Messages
      BY DEF About, Messages
    <3> HIDE DEF Messages, m
    <3> QED BY <1>2, <3>1, SMT DEF Sent
  <2>2. Len(q) \in Nat
    OBVIOUS
  <2> HIDE DEF Messages, About, Sent
  <2> QED BY <1>1, <2>1, <2>2, SMT DEF Owes, Once
<1>3. CASE ~(Len(q) < MainQLen)
  BY <1>3 DEF Sent, Owes, Once
<1> QED BY <1>2, <1>3

LEMMA HarmlessTwice ==
  ASSUME NEW p, NEW q, NEW r, Harmless(p, q), Harmless(q, r)
  PROVE  Harmless(p, r)
  BY DEF Harmless

\* A step that leaves the services and the main task's view of them alone and
\* sends no PAUSED keeps their books.
LEMMA SvcUntouched ==
  ASSUME SvcBooks, Harmless(mainQ, mainQ'), UNCHANGED <<sync, svc>>,
         state' = "Pausing" <=> state = "Pausing"
  PROVE  SvcBooks'
<1> HIDE DEF Owes, Once
<1> QED BY Zenon DEF SvcBooks, Harmless

LEMMA SameQueue == Harmless(mainQ, mainQ)
  BY DEF Harmless

LEMMA PlainHarmless ==
  ASSUME NEW q \in Seq(Messages)
  PROVE  \A id \in PlainIds : Harmless(q, Sent(q, Message(id)))
<1> SUFFICES ASSUME NEW id \in PlainIds PROVE Harmless(q, Sent(q, Message(id)))
  OBVIOUS
<1>1. Message(id).id # "PAUSED"
  BY SMT DEF Message, PlainIds
<1> QED BY <1>1, PlainMessages, SentHarmless

LEMMA CallHarmless ==
  ASSUME NEW q \in Seq(Messages)
  PROVE  /\ \A linked \in BOOLEAN : EnterBtHfMode(q, linked) => Harmless(q, mainQ')
         /\ \A fl, h : ExitBtHfMode(q, fl, h) => Harmless(q, mainQ')
         /\ RunConfig /\ q = mainQ => Harmless(q, mainQ')
<1>1. Harmless(q, Sent(q, Message("BTHF_IN"))) /\ Harmless(q, Sent(q, Message("BTHF_OUT")))
      /\ Harmless(q, q)
  BY PlainHarmless DEF PlainIds, Harmless
<1> QED BY <1>1, Zenon DEF EnterBtHfMode, ExitBtHfMode, RunConfig

-------------------------------------------------------------------------------
(* The tasks other than the main one. *)

LEMMA AppBooks ==
  ASSUME Inv1, Books, AppStep
  PROVE  Books'
<1>1. mainQ \in Seq(Messages) /\ app \in AppTasks
  BY DEF Inv1, TypeOK
<1>2. Harmless(mainQ, mainQ')
  <2>1. Harmless(mainQ, Sent(mainQ, Message("CREATED")))
        /\ Harmless(mainQ, Sent(mainQ, Message("STARTED")))
        /\ Harmless(mainQ, Sent(mainQ, Message("STOPPED")))
        /\ Harmless(mainQ, Sent(mainQ, Message("PERMISSION")))
    BY <1>1, PlainHarmless DEF PlainIds
  <2>2. CallConfigured => Harmless(mainQ, mainQ')
    BY <1>1, CallHarmless DEF CallConfigured
  <2> QED BY <2>1, <2>2, SameQueue, SMT DEF AppStep, AppCreated, AppStart, AppStarted, AppStop,
             AppStopped, AppDrops, DecoderCreated, DecoderStarted, DecoderStopped,
             DetectOver, PromptOver, WaitOver, MediaStruck, Says
<1>3. UNCHANGED <<state, MState, at, sync, svc, plug>>
  BY SMT DEF AppStep, AppCreated, AppStart, AppStarted, AppStop, AppStopped, AppDrops,
     DecoderCreated, DecoderStarted, DecoderStopped,
     DetectOver, PromptOver, MediaStruck, CallConfigured, mainVars
<1>4. app.st # "none" \/ app'.st = app.st
  BY OnlyTheLivingMove
<1>5. ModeBooks'
  BY <1>3, <1>4, Zenon DEF Books, ModeBooks
<1>6. SvcBooks'
  BY <1>2, <1>3, SvcUntouched DEF Books
<1> QED BY <1>3, <1>5, <1>6 DEF Books, PlugBooks

LEMMA ServiceBooks ==
  ASSUME Inv1, Books, ServiceStep
  PROVE  Books'
<1>1. mainQ \in Seq(Messages)
  BY DEF Inv1, TypeOK
<1>2. UNCHANGED <<state, MState, at, sync, app>>
  BY SMT DEF ServiceStep, Pauses, PlugSent, RemindEnds, mainVars
<1>3. ModeBooks'
  BY <1>2, Zenon DEF Books, ModeBooks
<1>4. CASE PlugSent
  <2>1. plug \in Messages /\ plug.id # "PAUSED"
    BY <1>4, SMT DEF PlugSent, Inv1, TypeOK, Messages, PlugMsgs
  <2>2. Harmless(mainQ, mainQ')
    BY <1>1, <1>4, <2>1, SentHarmless DEF PlugSent
  <2> QED BY <1>2, <1>3, <1>4, <2>2, SvcUntouched DEF PlugSent, Books, PlugBooks
<1>5. CASE RemindEnds
  <2>1. Harmless(mainQ, mainQ')
    BY <1>1, <1>5, PlainHarmless DEF RemindEnds, Says, PlainIds
  <2> QED BY <1>2, <1>3, <1>5, <2>1, SvcUntouched DEF RemindEnds, Books, PlugBooks
<1>6. ASSUME NEW s \in Services, Pauses(s)
      PROVE  Books'
  <2>1. svc[s].box # <<>> /\ (s = "Device" => plug = NoPlug) /\ plug' = plug
        /\ svc \in [Services -> SvcTasks]
    BY <1>6 DEF Pauses, Inv1, TypeOK
  <2>2. \A t \in Services \ {s} : svc'[t] = svc[t]
    BY <1>6, SMT DEF Pauses, Inv1, TypeOK
  <2>6. svc'[s] = [st |-> IF Head(svc[s].box) = "PAUSE" THEN "Paused" ELSE "Running",
                   box |-> Tail(svc[s].box)]
    <3>1. svc' = [svc EXCEPT ![s] =
                   [st |-> IF Head(svc[s].box) = "PAUSE" THEN "Paused" ELSE "Running",
                    box |-> Tail(svc[s].box)]]
      BY <1>6, Zenon DEF Pauses
    <3> QED BY <2>1, <3>1, Zenon
  <2>3. svc[s] \in {Waking} \cup Going
    BY <2>1, SMT DEF Books, SvcBooks, Busy, Quiet
  <2>4. CASE svc[s] = [st |-> "Running", box |-> <<"PAUSE">>]
    <3>1. svc[s].box = <<"PAUSE">>
      BY <2>4
    <3>2. svc'[s] = Quiet
      BY <1>6, <2>1, <3>1, SMT DEF Pauses, Quiet
    <3>3. mainQ' = Sent(mainQ, About("PAUSED", s))
      BY <1>6, <3>1, SMT DEF Pauses
    <3>4. state = "Pausing" /\ s \notin sync /\ ~Owes(mainQ, s)
      BY <2>4, SMT DEF Books, SvcBooks, Quiet, Busy, Waking
    <3>5. Once(mainQ', s)
          /\ \A t \in Services \ {s} : /\ Owes(mainQ', t) => Owes(mainQ, t)
                                       /\ Once(mainQ, t) => Once(mainQ', t)
      BY <1>1, <3>3, <3>4, AnswerOnce
    <3>6. SvcBooks'
      <4> SUFFICES ASSUME NEW t \in Services PROVE SvcBooks!(t)'
        BY DEF SvcBooks
      <4>1. CASE t = s
        BY <1>2, <3>2, <3>4, <3>5, <4>1 DEF Books, SvcBooks
      <4>2. CASE t # s
        BY <1>2, <2>2, <3>5, <4>2 DEF Books, SvcBooks
      <4> QED BY <4>1, <4>2
    <3>7. PlugBooks'
      BY <2>1, <2>2 DEF Books, PlugBooks, Services
    <3> QED BY <1>3, <3>6, <3>7 DEF Books
  <2>5. CASE svc[s] = Waking \/ svc[s] = [st |-> "Paused", box |-> <<"RESUME", "PAUSE">>]
    <3>1. mainQ' = mainQ
      BY <1>6, <2>5, SMT DEF Pauses, Waking
    <3>2. /\ svc[s] = Waking => svc'[s] = Busy
          /\ svc[s] # Waking => svc'[s] = [st |-> "Running", box |-> <<"PAUSE">>]
      <4>1. CASE svc[s] = Waking
        <5>1. Head(svc[s].box) = "RESUME" /\ Tail(svc[s].box) = <<>>
          BY <4>1, SMT DEF Waking
        <5>2. (IF Head(svc[s].box) = "PAUSE" THEN "Paused" ELSE "Running") = "Running"
          BY <5>1, SMT
        <5> QED BY <2>6, <4>1, <5>1, <5>2, Zenon DEF Busy
      <4>2. CASE svc[s] # Waking
        <5>1. svc[s].box = <<"RESUME", "PAUSE">>
          BY <2>5, <4>2
        <5>2. Head(svc[s].box) = "RESUME" /\ Tail(svc[s].box) = <<"PAUSE">>
          BY <5>1, SMT
        <5>3. (IF Head(svc[s].box) = "PAUSE" THEN "Paused" ELSE "Running") = "Running"
          BY <5>2, SMT
        <5> QED BY <2>6, <4>2, <5>2, <5>3, Zenon
      <4> QED BY <4>1, <4>2
    <3>3. Waking # [st |-> "Running", box |-> <<"PAUSE">>] /\ Waking # Quiet
          /\ Waking # [st |-> "Paused", box |-> <<"RESUME", "PAUSE">>]
          /\ Quiet # [st |-> "Paused", box |-> <<"RESUME", "PAUSE">>]
          /\ Busy # [st |-> "Paused", box |-> <<"RESUME", "PAUSE">>]
      <4>1. Waking.st = "Paused" /\ Busy.st = "Running" /\ Len(Waking.box) = 1
            /\ Len(Quiet.box) = 0
        BY SMT DEF Waking, Quiet, Busy
      <4>2. [st |-> "Paused", box |-> <<"RESUME", "PAUSE">>].st = "Paused"
            /\ Len([st |-> "Paused", box |-> <<"RESUME", "PAUSE">>].box) = 2
            /\ [st |-> "Running", box |-> <<"PAUSE">>].st = "Running"
        BY SMT
      <4> QED BY <4>1, <4>2, SMT
    <3>4. SvcBooks'
      <4> SUFFICES ASSUME NEW t \in Services PROVE SvcBooks!(t)'
        BY DEF SvcBooks
      <4>1. CASE t = s
        <5>1. CASE svc[s] = Waking
          BY <1>2, <3>1, <3>2, <3>3, <4>1, <5>1, Zenon DEF Books, SvcBooks, Going
        <5>2. CASE svc[s] = [st |-> "Paused", box |-> <<"RESUME", "PAUSE">>]
          BY <1>2, <3>1, <3>2, <3>3, <4>1, <5>2, Zenon DEF Books, SvcBooks, Going
        <5> QED BY <2>5, <5>1, <5>2
      <4>2. CASE t # s
        BY <1>2, <2>2, <3>1, <4>2 DEF Books, SvcBooks
      <4> QED BY <4>1, <4>2
    <3>5. PlugBooks'
      BY <2>1, <2>2 DEF Books, PlugBooks, Services
    <3> QED BY <1>3, <3>4, <3>5 DEF Books
  <2> QED BY <2>3, <2>4, <2>5 DEF Going
<1> QED BY <1>4, <1>5, <1>6 DEF ServiceStep

LEMMA OutsideBooks ==
  ASSUME Inv1, Books, Outside
  PROVE  Books'
<1>1. mainQ \in Seq(Messages)
  BY DEF Inv1, TypeOK
<1>2. UNCHANGED <<state, MState, at, sync, svc>>
  BY SMT DEF Outside, PlugMoves, Key, MediaFails, Records, DecoderHangs, CallBegins, CallEnds,
     HfpConnects, mainVars
<1>3. Harmless(mainQ, mainQ')
  <2>1. Harmless(mainQ, Sent(mainQ, Message("MODE")))
        /\ Harmless(mainQ, Sent(mainQ, Message("REC_PLAYBACK")))
        /\ Harmless(mainQ, Sent(mainQ, Message("DEEPSLEEP")))
        /\ Harmless(mainQ, Sent(mainQ, Message("ALARM")))
        /\ Harmless(mainQ, Sent(mainQ, Message("FAILURE")))
    BY <1>1, PlainHarmless DEF PlainIds
  <2>2. CallEnds \/ (\E linked \in BOOLEAN : CallBegins(linked)) => Harmless(mainQ, mainQ')
    BY <1>1, CallHarmless DEF CallEnds, CallBegins
  <2> QED BY <2>1, <2>2, SameQueue, SMT
          DEF Outside, PlugMoves, Key, MediaFails, Records, DecoderHangs, HfpConnects, Says
<1>4. app.st # "none" \/ app'.st = app.st
  BY OnlyTheLivingMove
<1>5. plug' = plug \/ svc["Device"].st = "Running"
  BY SMT DEF Outside, PlugMoves, DeviceRuns, Key, MediaFails, Records, DecoderHangs, CallBegins,
     CallEnds, HfpConnects
<1>6. ModeBooks'
  BY <1>2, <1>4, Zenon DEF Books, ModeBooks
<1>7. SvcBooks'
  BY <1>2, <1>3, SvcUntouched DEF Books
<1>8. PlugBooks'
  BY <1>2, <1>5, SMT DEF Books, PlugBooks
<1> QED BY <1>6, <1>7, <1>8 DEF Books

-------------------------------------------------------------------------------
(* The main task. *)

LEMMA KillIsNone ==
  ASSUME Inv1
  PROVE  Killed.st = "none" /\ Stopped.st = app.st /\ Started.st = app.st
  BY AppWords DEF Inv1, TypeOK

LEMMA ExitBooks ==
  ASSUME Inv1, Books, Runs, MState = "Exit", EndModeExit, Harmless(mainQ, mainQ'),
         UNCHANGED <<svc, plug>>
  PROVE  Books'
<1>1. UNCHANGED <<state, sync>> /\ app'.st = "none"
  BY KillIsNone DEF EndModeExit
<1>2. SvcBooks'
  BY <1>1, SvcUntouched DEF Books
<1>3. CASE state = "Pausing"
  <2>1. MState' = "Pause" /\ at' \in {"sleep", "recv"} /\ (at' = "sleep" => sync = Services)
    BY <1>3, SMT DEF EndModeExit, AllPaused
  <2> QED BY <1>1, <1>2, <1>3, <2>1, SMT DEF Books, ModeBooks, PlugBooks
<1>4. CASE state # "Pausing"
  <2>1. MState' = "Exit" /\ at' = "create"
    BY <1>4 DEF EndModeExit, SelectModeBeforeEnter
  <2> QED BY <1>1, <1>2, <1>4, <2>1, SMT DEF Books, ModeBooks, PlugBooks
<1> QED BY <1>3, <1>4

\* A step of the main task in a state it works in, to one it works in.
LEMMA WorkBooks ==
  ASSUME Books, MState \notin {"None", "Pause"}, MState' \notin {"None", "Pause"},
         at = "recv", Harmless(mainQ, mainQ'),
         UNCHANGED <<state, at, sync, svc, plug>>
  PROVE  Books'
<1>1. SvcBooks'
  BY SvcUntouched DEF Books
<1>2. ModeBooks'
  BY SMT DEF Books, ModeBooks
<1> QED BY <1>1, <1>2 DEF Books, PlugBooks

LEMMA PauseBooks ==
  ASSUME Inv1, Books, NEW m, HandlePaused(m)
  PROVE  Books'
<1>1. /\ at = "recv" /\ mainQ # <<>> /\ m = Head(mainQ) /\ mainQ' = Tail(mainQ)
      /\ state = "Pausing" /\ m.id = "PAUSED" /\ sync' = sync \cup {m.of}
      /\ UNCHANGED <<state, MState, app, svc, plug>>
  BY DEF HandlePaused, Receive, Taken
<1>2. m \in Messages /\ mainQ \in Seq(Messages)
  BY <1>1, TakenIsQueue DEF Inv1, TypeOK
<1>3. m.of \in Services /\ m = About("PAUSED", m.of)
  <2>1. m \in [id : {"PAUSED"}, of : Services]
    BY <1>1, <1>2, SMT DEF Messages, PlugMsgs, PlainIds
  <2> QED BY <2>1, SMT DEF About
<1>4. Owes(mainQ, m.of)
  <2>1. mainQ[1] = m /\ 1 \in 1 .. Len(mainQ)
    <3> HIDE DEF Messages
    <3> QED BY <1>1, <1>2, SMT
  <2> QED BY <1>3, <2>1 DEF Owes
<1>5. svc[m.of] = Quiet
  BY <1>3, <1>4 DEF Books, SvcBooks
<1>6. ~Owes(mainQ', m.of) /\ Harmless(mainQ, mainQ')
  BY <1>1, <1>2, <1>3, TailHarmless DEF Books, SvcBooks
<1>7. SvcBooks'
  <2> SUFFICES ASSUME NEW t \in Services PROVE SvcBooks!(t)'
    BY DEF SvcBooks
  <2>1. CASE t = m.of
    BY <1>1, <1>5, <1>6, <2>1 DEF Books, SvcBooks, Harmless
  <2>2. CASE t # m.of
    BY <1>1, <1>6, <2>2 DEF Books, SvcBooks, Harmless
  <2> QED BY <2>1, <2>2
<1>8. ModeBooks'
  <2>1. at' = "sleep" => sync' = Services /\ MState \in {"None", "Pause"}
    BY <1>1 DEF HandlePaused, AllPaused
  <2>2. at' \in {"recv", "sleep"}
    BY <1>1 DEF HandlePaused
  <2> QED BY <1>1, <2>1, <2>2, SMT DEF Books, ModeBooks
<1> QED BY <1>1, <1>7, <1>8 DEF Books, PlugBooks

LEMMA OrderBooks ==
  ASSUME Inv1, Books, NEW m, HandleDeepSleep(m)
  PROVE  Books'
<1>1. at = "recv" /\ mainQ # <<>> /\ UNCHANGED <<at, plug>> /\ mainQ \in Seq(Messages)
  BY DEF HandleDeepSleep, Receive, Inv1, TypeOK
<1>2. Harmless(mainQ, mainQ')
  <2>1. Harmless(mainQ, Tail(mainQ)) /\ Tail(mainQ) \in Seq(Messages)
    BY <1>1, TailHarmless, TakenIsQueue DEF Inv1
  <2>2. Harmless(Tail(mainQ), mainQ')
    BY <2>1, CallHarmless DEF HandleDeepSleep, Taken, Harmless
  <2> QED BY <2>1, <2>2, HarmlessTwice
<1>3. CASE state # "Running"
  <2>1. UNCHANGED <<state, sync, svc, MState, app>>
    BY <1>3 DEF HandleDeepSleep
  <2>2. SvcBooks' /\ ModeBooks'
    BY <1>1, <1>2, <2>1, SvcUntouched, SMT DEF Books, ModeBooks
  <2> QED BY <1>1, <2>1, <2>2 DEF Books, PlugBooks
<1>4. CASE state = "Running"
  <2>1. /\ state' = "Pausing" /\ sync' = {} /\ MState' \in {MState, "Exit"}
        /\ app'.st = app.st
        /\ svc' = [s \in Services |-> [svc[s] EXCEPT !.box = Append(@, "PAUSE")]]
    BY <1>4, KillIsNone DEF HandleDeepSleep, StartModeExit
  <2>2. ModeBooks'
    BY <1>1, <1>4, <2>1, SMT DEF Books, ModeBooks
  <2>3. \A s \in Services : svc'[s] \in Going /\ svc'[s].st = svc[s].st
    <3> SUFFICES ASSUME NEW s \in Services
                 PROVE  svc'[s] \in Going /\ svc'[s].st = svc[s].st
      OBVIOUS
    <3>1. svc'[s] = [svc[s] EXCEPT !.box = Append(svc[s].box, "PAUSE")]
      BY <2>1, Zenon
    <3>2. svc[s] \in {Busy, Waking}
      BY <1>4 DEF Books, SvcBooks
    <3>3. CASE svc[s] = Busy
      <4>1. svc'[s] = [st |-> "Running", box |-> <<"PAUSE">>]
        BY <3>1, <3>3, SMT DEF Busy
      <4> QED BY <3>3, <4>1 DEF Going, Busy
    <3>4. CASE svc[s] = Waking
      <4>1. svc'[s] = [st |-> "Paused", box |-> <<"RESUME", "PAUSE">>]
        BY <3>1, <3>4, SMT DEF Waking
      <4> QED BY <3>4, <4>1 DEF Going, Waking
    <3> QED BY <3>2, <3>3, <3>4
  <2>4. \A s \in Services : ~Owes(mainQ', s) /\ Once(mainQ', s)
    BY <1>2, <1>4 DEF Books, SvcBooks, Harmless
  <2>5. SvcBooks'
    BY <2>1, <2>3, <2>4 DEF SvcBooks
  <2>6. PlugBooks'
    BY <1>1, <2>3 DEF Books, PlugBooks, Services
  <2> QED BY <2>2, <2>5, <2>6 DEF Books
<1> QED BY <1>3, <1>4

LEMMA WakeBooks ==
  ASSUME Inv1, Books, NEW ok \in BOOLEAN, Wake(ok)
  PROVE  Books'
<1>1. /\ at = "sleep" /\ at' = "recv" /\ state' = "Running" /\ MState' = "Enter"
      /\ svc' = [s \in Services |-> [svc[s] EXCEPT !.box = Append(@, "RESUME")]]
      /\ UNCHANGED <<sync, mainQ, plug>>
  BY DEF Wake
<1>2. state = "Pausing" /\ sync = Services
  BY <1>1 DEF Books, ModeBooks
<1>3. \A s \in Services : svc[s] = Quiet
  BY <1>2 DEF Books, SvcBooks
<1>4. \A s \in Services : ~Owes(mainQ, s) /\ Once(mainQ, s)
  BY <1>2 DEF Books, SvcBooks
<1>5. \A s \in Services : svc'[s] = Waking
  <2> SUFFICES ASSUME NEW s \in Services PROVE svc'[s] = Waking
    OBVIOUS
  <2>1. svc'[s] = [svc[s] EXCEPT !.box = Append(svc[s].box, "RESUME")]
    BY <1>1, Zenon
  <2> QED BY <1>3, <2>1, SMT DEF Quiet, Waking
<1>6. SvcBooks'
  BY <1>1, <1>4, <1>5 DEF SvcBooks
<1>7. PlugBooks'
  <2>1. svc["Device"].st = "Paused"
    BY <1>3 DEF Quiet, Services
  <2> QED BY <1>1, <2>1 DEF Books, PlugBooks
<1> QED BY <1>1, <1>6, <1>7, SMT DEF Books, ModeBooks

LEMMA MainBooks ==
  ASSUME Inv1, Books, MainStep
  PROVE  Books'
<1>1. mainQ \in Seq(Messages) /\ (Runs => state # "Ready")
      /\ state \in {"Ready", "Running", "Pausing"}
      /\ MState \in {"None", "Enter", "Work", "Exit", "Pause"}
  BY SMT DEF Inv1, TypeOK, Runs
<1>2. /\ mainQ # <<>> => Harmless(mainQ, Tail(mainQ)) /\ Tail(mainQ) \in Seq(Messages)
      /\ Harmless(mainQ, Sent(mainQ, Message("NEXT_MODE")))
  BY <1>1, TailHarmless, TakenIsQueue, PlainHarmless DEF PlainIds, Inv1
<1>3. ASSUME NEW ok \in BOOLEAN, CreateMode(ok)
      PROVE  Books'
  <2>1. /\ Harmless(mainQ, mainQ') /\ MState' \in {"Enter", "Exit"} /\ at' = "recv"
        /\ UNCHANGED <<state, sync, svc, plug>>
    BY <1>2, <1>3, SameQueue, Zenon DEF CreateMode
  <2>2. SvcBooks'
    BY <2>1, SvcUntouched DEF Books
  <2> QED BY <2>1, <2>2, SMT DEF Books, ModeBooks, PlugBooks
<1>4. ASSUME NEW ok \in BOOLEAN, Boot(ok)
      PROVE  Books'
  <2>1. /\ Harmless(mainQ, mainQ') /\ MState' \in {"Enter", "Exit"} /\ at' = "recv"
        /\ at = "boot" /\ state' \in {"Running", state} /\ UNCHANGED <<sync, svc, plug>>
    BY <1>2, <1>4, SameQueue, Zenon DEF Boot
  <2>2. state # "Pausing" /\ state' # "Pausing"
    BY <2>1 DEF Books, ModeBooks
  <2>3. SvcBooks'
    BY <2>1, <2>2, SvcUntouched DEF Books
  <2> QED BY <2>1, <2>2, <2>3, SMT DEF Books, ModeBooks, PlugBooks
<1>5. CASE EnterTimeout
  <2>1. at = "recv" /\ MState = "Enter" /\ MState' = "Exit"
        /\ UNCHANGED <<state, at, sync, mainQ, svc, plug>>
    BY <1>5 DEF EnterTimeout, Overdue, StartModeExit
  <2> QED BY <2>1, SameQueue, WorkBooks
<1>6. CASE JitterOver
  <2>1. at = "recv" /\ MState = "Work" /\ MState' = "Exit"
        /\ UNCHANGED <<state, at, sync, mainQ, svc, plug>>
    BY <1>6 DEF JitterOver, StartModeExit
  <2> QED BY <2>1, SameQueue, WorkBooks
<1>7. CASE ExitTimeout
  <2>1. Runs /\ MState = "Exit" /\ EndModeExit /\ UNCHANGED <<mainQ, svc, plug>>
    BY <1>7 DEF ExitTimeout, Overdue
  <2> QED BY <2>1, SameQueue, ExitBooks
<1>8. ASSUME NEW m, HandleStopped(m)
      PROVE  Books'
  <2>1. Runs /\ MState = "Exit" /\ EndModeExit /\ UNCHANGED <<svc, plug>>
        /\ mainQ # <<>> /\ mainQ' = Tail(mainQ)
    BY <1>8 DEF HandleStopped, Receive, Taken
  <2> QED BY <1>2, <2>1, ExitBooks
<1>9. ASSUME NEW m, HandleCreated(m) \/ HandleStarted(m) \/ HandleFailure(m)
                    \/ HandlePermission(m)
      PROVE  Books'
  <2>1. /\ at = "recv" /\ mainQ # <<>> /\ mainQ' = Tail(mainQ)
        /\ MState \in {"Enter", "Work"} /\ MState' \in {MState, "Work", "Exit"}
        /\ UNCHANGED <<state, at, sync, svc, plug>>
    BY <1>9, Zenon DEF HandleCreated, HandleStarted, HandleFailure, HandlePermission,
       StartModeExit, Receive, Taken
  <2> QED BY <1>2, <2>1, WorkBooks
<1>10. ASSUME NEW m, HandleRequest(m) \/ HandleIgnored(m)
       PROVE  Books'
  <2>1. /\ mainQ # <<>> /\ mainQ' = Tail(mainQ)
        /\ UNCHANGED <<state, MState, at, sync, app, svc, plug>>
    BY <1>10, Zenon DEF HandleRequest, HandleIgnored, Receive, Taken, mainVars
  <2> QED BY <1>2, <2>1, SvcUntouched, SMT DEF Books, ModeBooks, PlugBooks
<1>11. ASSUME NEW m, NEW linked \in BOOLEAN, HandleEnterBtHf(m, linked)
       PROVE  Books'
  <2>1. /\ mainQ # <<>> /\ EnterBtHfMode(Tail(mainQ), linked)
        /\ UNCHANGED <<state, MState, at, sync, app, svc, plug>>
    BY <1>11 DEF HandleEnterBtHf, Receive
  <2>2. Harmless(mainQ, mainQ')
    BY <1>2, <2>1, CallHarmless, HarmlessTwice
  <2> QED BY <2>1, <2>2, SvcUntouched, SMT DEF Books, ModeBooks, PlugBooks
<1> QED BY <1>3, <1>4, <1>5, <1>6, <1>7, <1>8, <1>9, <1>10, <1>11, WakeBooks, PauseBooks,
           OrderBooks DEF MainStep

-------------------------------------------------------------------------------
LEMMA BooksBegin == Init => Books
<1> SUFFICES ASSUME Init PROVE Books
  OBVIOUS
<1>1. \A s \in Services : svc[s] = Busy /\ ~Owes(mainQ, s) /\ Once(mainQ, s)
  BY SMT DEF Init, Busy, Owes, Once
<1>2. SvcBooks
  BY <1>1 DEF Init, SvcBooks
<1> QED BY <1>2, SMT DEF Init, NoApp, Books, ModeBooks, PlugBooks

LEMMA BooksKept == Inv1 /\ Books /\ [Next]_vars => Books'
<1>1. Inv1 /\ Books /\ Next => Books'
  BY MainBooks, AppBooks, ServiceBooks, OutsideBooks DEF Next
<1>2. Books /\ UNCHANGED vars => Books'
  BY SameQueue, SvcUntouched, Zenon DEF Books, ModeBooks, PlugBooks, vars
<1> QED BY <1>1, <1>2

LEMMA AlwaysBooks == Spec => []Books
  BY BooksBegin, BooksKept, Always1, PTL DEF Spec

\* When the chip goes to sleep (MainAppServicePausing, main_task.c:437) the task of
\* the mode is gone and both services rest with empty queues and no unsent plug
\* change: no answer of an earlier pause, and none that arrives twice, is counted.
THEOREM SleepFindsQuiet == Spec => []SleepIsQuiet
<1>1. Books => SleepIsQuiet
  <2> SUFFICES ASSUME Books, at = "sleep"
               PROVE  /\ app.st = "none" /\ plug = NoPlug
                      /\ \A s \in Services : svc[s] = [st |-> "Paused", box |-> <<>>]
    BY DEF SleepIsQuiet
  <2>1. state = "Pausing" /\ sync = Services /\ app.st = "none"
    BY DEF Books, ModeBooks
  <2>2. \A s \in Services : svc[s] = Quiet
    BY <2>1 DEF Books, SvcBooks
  <2>3. plug = NoPlug
    BY <2>2 DEF Books, PlugBooks, Quiet, Services
  <2> QED BY <2>1, <2>2, <2>3 DEF Quiet
<1> QED BY <1>1, AlwaysBooks, PTL

-------------------------------------------------------------------------------
(* The exit of a call.  ExitBtHfMode raises BtHfModeExitFlag for a hands-free     *)
(* task that exists, and only killing that task clears it.                         *)

LEMMA CallFlagsAre ==
  ASSUME TypeOK
  PROVE  /\ hf \in CallFlags
         /\ \A b \in BOOLEAN : /\ [hf EXCEPT !.g = b] \in CallFlags
                               /\ [hf EXCEPT !.g = b].exit = hf.exit
         /\ AtEntrance.exit = hf.exit
         /\ AtKill.exit => hf.exit
         /\ app.mode = "BtHf" /\ app.st # "none" => ~AtKill.exit
<1>1. hf \in CallFlags
  BY DEF TypeOK
<1>2. \A b \in BOOLEAN : /\ [hf EXCEPT !.g = b] \in CallFlags
                         /\ [hf EXCEPT !.g = b].exit = hf.exit
  BY <1>1, Zenon DEF CallFlags
<1>3. [hf EXCEPT !.list = FALSE].exit = hf.exit
  BY <1>1, Zenon DEF CallFlags
<1>4. ~[hf EXCEPT !.exit = FALSE, !.list = FALSE].exit
  BY <1>1, SMT DEF CallFlags
<1> QED BY <1>1, <1>2, <1>3, <1>4, Zenon DEF AtEntrance, AtKill

\* What the calls of the Bluetooth stack, and the end of the mode's
\* initialisation, do to the exit flag.
LEMMA ExitRaised ==
  ASSUME NEW q, NEW h \in CallFlags
  PROVE  /\ \A linked \in BOOLEAN : EnterBtHfMode(q, linked) /\ hf \in CallFlags
              => hf'.exit = hf.exit
         /\ \A fl : ExitBtHfMode(q, fl, h) /\ hf'.exit /\ ~h.exit
              => cur = "BtHf" /\ HasQueue
  <1>1. ASSUME NEW linked \in BOOLEAN, EnterBtHfMode(q, linked), hf \in CallFlags
        PROVE  hf'.exit = hf.exit
    <2> DEFINE e == hf.enter \/ (linked /\ ~hf.exit /\ cur # "BtHf" /\ ~hf.enter)
    <2>1. hf' = [hf EXCEPT !.enter = e]
      BY <1>1, Zenon DEF EnterBtHfMode
    <2> HIDE DEF e
    <2> QED BY <1>1, <2>1, Zenon DEF CallFlags
  <1>2. ASSUME NEW fl, ExitBtHfMode(q, fl, h), hf'.exit, ~h.exit
        PROVE  cur = "BtHf" /\ HasQueue
    <2> DEFINE leaves == ~h.exit /\ cur = "BtHf" /\ HasQueue /\ ~h.enter
               later  == ~h.exit /\ ~leaves /\ (cur = "BtHf" \/ h.enter)
               x == h.exit \/ leaves
               l == h.list \/ later
    <2>1. hf' = [h EXCEPT !.exit = x, !.list = l]
      BY <1>2, Zenon DEF ExitBtHfMode
    <2>2. hf'.exit = x
      <3> HIDE DEF x, l
      <3> QED BY <2>1, SMT DEF CallFlags
    <2>3. leaves
      BY <1>2, <2>2
    <2> QED BY <2>3
  <1> QED BY <1>1, <1>2

LEMMA ExitByAppStep ==
  ASSUME Inv1, Books, ExitInHandsFree, AppStep
  PROVE  ExitInHandsFree'
<1>1. UNCHANGED cur
  BY SMT DEF AppStep, AppCreated, AppStart, AppStarted, AppStop, AppStopped, AppDrops,
     DecoderCreated, DecoderStarted, DecoderStopped,
     DetectOver, PromptOver, MediaStruck, CallConfigured, mainVars
<1>2. app.st = "none" => app'.st = "none"
  BY OnlyTheLivingMove
<1>3. app.st # "none" => app'.st # "none"
  <2>1. CASE DecoderCreated \/ DecoderStarted \/ DecoderStopped
    BY <2>1, DecoderKeepsState DEF Inv1, TypeOK
  <2>2. app \in AppTasks
    BY DEF Inv1, TypeOK
  <2>3. ASSUME AppCreated PROVE app'.st = "Ready"
    <3>1. CASE app' = [app EXCEPT !.st = "Ready"]
      BY <2>2, <3>1, SMT DEF AppTasks
    <3>2. CASE app' = [app EXCEPT !.st = "Ready", !.dsync = TRUE, !.todo = Tail(app.todo)]
      BY <2>2, <3>2, SMT DEF AppTasks
    <3> QED BY <2>3, <3>1, <3>2 DEF AppCreated
  <2>4. AppStart => app'.st = "Starting"
    BY <2>2, SMT DEF AppStart, AppTasks
  <2>5. AppStarted => app'.st = "Running"
    BY <2>2, SMT DEF AppStarted, AppTasks
  <2>6. AppStop => app'.st = "Stopping"
    BY <2>2, SMT DEF AppStop, AppTasks
  <2>7. AppStopped => app'.st = "Stopped"
    BY <2>2, SMT DEF AppStopped, AppTasks
  <2>8. ASSUME AppDrops PROVE app'.st = app.st
    <3> DEFINE kept == app.dsync /\ (Head(app.todo) # "DECODER_STOPPED" \/ ~Heeds)
    <3>1. app' = [app EXCEPT !.dsync = kept, !.todo = Tail(app.todo)]
      BY <2>8 DEF AppDrops
    <3> HIDE DEF kept
    <3> QED BY <2>2, <3>1, SMT DEF AppTasks
  <2>9. MediaStruck \/ CallConfigured => app'.st = app.st
    BY <2>2, SMT DEF MediaStruck, CallConfigured, AppTasks
  <2>10. DetectOver \/ PromptOver => app' = app
    BY SMT DEF DetectOver, PromptOver
  <2> QED BY <2>1, <2>3, <2>4, <2>5, <2>6, <2>7, <2>8, <2>9, <2>10 DEF AppStep
<1>4. hf'.exit => hf.exit \/ (cur = "BtHf" /\ app.st # "none")
  <2>1. CASE CallConfigured
    BY <2>1 DEF CallConfigured, Inv1, AppIsCurrent
  <2>2. CASE AppCreated
    BY <2>2, CallFlagsAre DEF AppCreated, Inv1
  <2>3. CASE ~CallConfigured /\ ~AppCreated
    <3>1. hf' = hf
      BY <2>3, SMT DEF AppStep, AppStart, AppStarted, AppStop, AppStopped, AppDrops,
         DecoderCreated, DecoderStarted, DecoderStopped, DetectOver, PromptOver, MediaStruck
    <3> QED BY <3>1
  <2> QED BY <2>1, <2>2, <2>3
<1> QED BY <1>1, <1>2, <1>3, <1>4, Zenon DEF ExitInHandsFree

LEMMA ExitByOthers ==
  ASSUME Inv1, Books, ExitInHandsFree, ServiceStep \/ Outside
  PROVE  ExitInHandsFree'
<1>1. UNCHANGED cur
  BY SMT DEF ServiceStep, Pauses, PlugSent, RemindEnds,
     Outside, PlugMoves, Key, MediaFails, Records, DecoderHangs, CallBegins, CallEnds,
     HfpConnects, mainVars
<1>2. app.st # "none" => app'.st # "none"
  <2>1. app \in AppTasks
    BY DEF Inv1, TypeOK
  <2>2. MediaFails \/ DecoderHangs => app'.st = app.st
    BY <2>1, SMT DEF MediaFails, DecoderHangs, AppTasks
  <2>3. ServiceStep => app' = app
    BY SMT DEF ServiceStep, Pauses, PlugSent, RemindEnds
  <2>4. Outside => app' = app \/ MediaFails \/ DecoderHangs
    BY SMT DEF Outside, PlugMoves, Key, Records, CallBegins, CallEnds, HfpConnects
  <2> QED BY <2>2, <2>3, <2>4
<1>3. hf'.exit => hf.exit \/ (cur = "BtHf" /\ app.st # "none")
  <2>1. hf \in CallFlags
    BY DEF Inv1, TypeOK
  <2>2. ASSUME NEW linked \in BOOLEAN, CallBegins(linked)
        PROVE  hf'.exit = hf.exit
    BY <2>1, <2>2, ExitRaised DEF CallBegins
  <2>3. CASE CallEnds
    <3>1. HasQueue => app.st # "none"
      BY DEF HasQueue
    <3> QED BY <2>1, <2>3, <3>1, ExitRaised DEF CallEnds
  <2>4. CASE HfpConnects
    BY <2>1, <2>4, CallFlagsAre DEF HfpConnects, Inv1
  <2>5. \/ hf' = hf \/ CallEnds \/ HfpConnects \/ \E linked \in BOOLEAN : CallBegins(linked)
    BY SMT DEF ServiceStep, Pauses, PlugSent, RemindEnds,
       Outside, PlugMoves, Key, MediaFails, Records, DecoderHangs
  <2> QED BY <2>2, <2>3, <2>4, <2>5
<1> QED BY <1>1, <1>2, <1>3, Zenon DEF ExitInHandsFree

LEMMA ExitByMain ==
  ASSUME Inv1, Books, WaitBooks, ExitInHandsFree, MainStep
  PROVE  ExitInHandsFree'
<1>1. hf \in CallFlags /\ app \in AppTasks /\ cur \in Wanted
  BY DEF Inv1, TypeOK
<1>2. Stopped.st = app.st /\ Started.st = app.st
  BY KillIsNone
\* A task that is killed takes its exit flag along.
<1>3. ASSUME EndModeExit PROVE ~hf'.exit
  BY <1>3, CallFlagsAre DEF EndModeExit, ExitInHandsFree, Inv1, AppIsCurrent
\* There is none to take over when a mode is created.
<1>4. ASSUME NEW ok \in BOOLEAN, CreateMode(ok)
      PROVE  ExitInHandsFree'
  BY <1>1, <1>4, CreatedTask, Zenon DEF CreateMode, ExitInHandsFree
<1>5. ASSUME NEW ok \in BOOLEAN, Boot(ok)
      PROVE  ~hf'.exit
  BY <1>5 DEF Boot, WaitBooks, ExitInHandsFree
<1>6. ASSUME NEW ok \in BOOLEAN, Wake(ok)
      PROVE  ~hf'.exit
  BY <1>6 DEF Wake, Books, ModeBooks, ExitInHandsFree
\* The other steps keep the mode and the task's existence.
<1>7. ASSUME UNCHANGED cur, app'.st = app.st,
             hf'.exit => hf.exit \/ (cur = "BtHf" /\ app.st # "none")
      PROVE  ExitInHandsFree'
  BY <1>7, Zenon DEF ExitInHandsFree
<1>8. CASE EnterTimeout \/ JitterOver
  BY <1>2, <1>7, <1>8 DEF EnterTimeout, JitterOver, StartModeExit
<1>9. ASSUME NEW m, HandleRequest(m)
      PROVE  ExitInHandsFree'
  <2>1. Asked(m).g \in BOOLEAN
    <3>1. m \in Messages /\ m.id \in Requests
      BY <1>9, TakenIsQueue DEF HandleRequest, Receive, Inv1
    <3> QED BY <3>1, RequestIsGood DEF Inv1, Good
  <2>2. hf' = [hf EXCEPT !.g = Asked(m).g] /\ UNCHANGED <<cur, app>>
    BY <1>9 DEF HandleRequest
  <2>3. hf'.exit = hf.exit
    <3> HIDE DEF Asked
    <3> QED BY <2>1, <2>2, CallFlagsAre DEF Inv1
  <2> QED BY <1>7, <2>2, <2>3
<1>10. ASSUME NEW m, HandleCreated(m) \/ HandleStarted(m) \/ HandleFailure(m)
                     \/ HandlePermission(m)
       PROVE  ExitInHandsFree'
  <2>1. UNCHANGED <<cur, hf>> /\ app' \in {app, Started, Stopped}
    BY <1>10, Zenon DEF HandleCreated, HandleStarted, HandleFailure, HandlePermission,
       StartModeExit
  <2> QED BY <1>2, <1>7, <2>1
<1>11. ASSUME NEW m, HandleDeepSleep(m)
       PROVE  ExitInHandsFree'
  <2>1. UNCHANGED cur /\ app' \in {app, Stopped}
    BY <1>11 DEF HandleDeepSleep, StartModeExit
  <2>2. hf'.exit => hf.exit \/ (cur = "BtHf" /\ app.st # "none")
    <3>1. CASE cur = "BtHf" /\ "BtHfDelayEnterSleep" \notin flags
      <4> DEFINE h == [hf EXCEPT !.g = FALSE]
      <4>1. h \in CallFlags /\ h.exit = hf.exit
        BY CallFlagsAre DEF Inv1
      <4>2. ExitBtHfMode(Tail(mainQ), flags \cup {"BtHfDelayEnterSleep"}, h)
        BY <1>11, <3>1 DEF HandleDeepSleep
      <4>3. HasQueue => app.st # "none"
        BY DEF HasQueue
      <4> HIDE DEF h
      <4> QED BY <4>1, <4>2, <4>3, ExitRaised
    <3>2. CASE ~(cur = "BtHf" /\ "BtHfDelayEnterSleep" \notin flags)
      BY <1>11, <3>2, Zenon DEF HandleDeepSleep
    <3> QED BY <3>1, <3>2
  <2> QED BY <1>2, <1>7, <2>1, <2>2
<1>12. ASSUME NEW m, HandlePaused(m) \/ HandleIgnored(m)
       PROVE  ExitInHandsFree'
  <2>1. UNCHANGED <<cur, app, hf>>
    BY <1>12, Zenon DEF HandlePaused, HandleIgnored, mainVars
  <2> QED BY <1>7, <2>1
<1>13. ASSUME NEW m, NEW linked \in BOOLEAN, HandleEnterBtHf(m, linked)
       PROVE  ExitInHandsFree'
  <2>1. UNCHANGED <<cur, app>> /\ EnterBtHfMode(Tail(mainQ), linked)
    BY <1>13 DEF HandleEnterBtHf
  <2>2. hf'.exit = hf.exit
    BY <1>1, <2>1, ExitRaised
  <2> QED BY <1>7, <2>1, <2>2
<1>14. ASSUME ~hf'.exit PROVE ExitInHandsFree'
  BY <1>14, Zenon DEF ExitInHandsFree
<1>15. ExitTimeout => EndModeExit
  BY DEF ExitTimeout
<1>16. \A m : HandleStopped(m) => EndModeExit
  BY DEF HandleStopped
<1> QED BY <1>3, <1>4, <1>5, <1>6, <1>8, <1>9, <1>10, <1>11, <1>12, <1>13, <1>14, <1>15, <1>16
        DEF MainStep

\* While an exit from hands-free is under way the hands-free mode is the current
\* one and its task exists (bt_hf_mode.c:1937-2000): the flag, for the sake of which later
\* calls and hang-ups are ignored, cannot outlive the mode, through lost answers,
\* failed creations and a sleep in the middle of it.
THEOREM ExitFlagDiesWithTheMode == Spec => []ExitInHandsFree
<1>1. Init => ExitInHandsFree
  BY DEF Init, NoCall, ExitInHandsFree
<1>2. Inv1 /\ Books /\ WaitBooks /\ ExitInHandsFree /\ [Next]_vars => ExitInHandsFree'
  <2>1. Inv1 /\ Books /\ WaitBooks /\ ExitInHandsFree /\ Next => ExitInHandsFree'
    BY ExitByAppStep, ExitByOthers, ExitByMain DEF Next
  <2>2. ExitInHandsFree /\ UNCHANGED vars => ExitInHandsFree'
    BY Zenon DEF ExitInHandsFree, vars
  <2> QED BY <2>1, <2>2
<1> QED BY <1>1, <1>2, Always1, AlwaysBooks, AlwaysWaits, PTL DEF Spec

-------------------------------------------------------------------------------
(* Whose answer is heard.  CREATED and STARTED do not say which mode they are of. *)
(* As long as none was left over when the task was created, there is never more   *)
(* than one of them under way while the task is entered, and the state of the     *)
(* task and of its decoder, the words and orders they have still to take and the  *)
(* answer in the main queue go through the stages below.  Whatever becomes of a   *)
(* task that is left, late answers included, the next creation starts afresh.     *)

\* The queue holds one answer at most, and it is one of S.
Answers(q, S) ==
  /\ \A i \in 1 .. Len(q) : q[i].id \in AnswerIds => q[i].id \in S
  /\ \A i, j \in 1 .. Len(q) : q[i].id \in AnswerIds /\ q[j].id \in AnswerIds => i = j

Just(w)       == <<w>>
Task(st, w)   == app.st = st /\ app.todo = w
Mute          == app.dec \in {"none", "hung"}
Settled       == app.dec \in {"Ready", "Running", "Stopped"}
Silent        == Mute \/ (Settled /\ app.orders = <<>>)
Ordered(w)    == Mute \/ (Settled /\ app.orders = Just(w))
Unready       == app.dec = "Creating" /\ app.orders = <<>>

\* A task that could not be created.
Failed == Task("failed", <<>>) /\ app.dec = "none"

\* On the way in, before the task has spoken and between its two answers.
GoingIn ==
  \/ Failed
  \/ Task("Creating", <<>>) /\ (Silent \/ Unready)
  \/ Task("Creating", Just("DECODER_CREATED")) /\ Silent /\ app.mode # "BtHf"
  \/ Task("Ready", Just("START")) /\ Silent
  \/ Task("Starting", <<>>) /\ (Silent \/ Ordered("START"))
  \/ Task("Starting", Just("DECODER_STARTED")) /\ Silent

Entering ==
  \/ GoingIn /\ Answers(mainQ, {})
  \/ Task("Ready", <<>>) /\ Silent /\ Answers(mainQ, {"CREATED"})
  \/ Task("Running", <<>>) /\ Silent /\ Answers(mainQ, {"STARTED"})

Working == Task("Running", <<>>) /\ Silent /\ Answers(mainQ, {})

\* Nothing is said of a task that is being left.
Stages ==
  /\ MState = "Enter" => Entering
  /\ MState = "Work"  => Working

\* The hands-free task has no decoder in these terms.
Alone == app.mode = "BtHf" => app.dec = "none"

LEMMA OneWord ==
  /\ \A w : /\ Just(w) # <<>> /\ Head(Just(w)) = w /\ Tail(Just(w)) = <<>>
            /\ Append(<<>>, w) = Just(w)
  /\ \A v, w : Just(v) = Just(w) => v = w
<1>1. \A w : Just(w) # <<>>
  BY SMT DEF Just
<1>2. \A w : Head(Just(w)) = w
  BY SMT DEF Just
<1>3. \A w : Tail(Just(w)) = <<>>
  BY SMT DEF Just
<1>4. \A w : Append(<<>>, w) = Just(w)
  BY SMT DEF Just
<1>5. ASSUME NEW v, NEW w, Just(v) = Just(w) PROVE v = w
  <2>1. v = Head(Just(v)) /\ w = Head(Just(w))
    BY <1>2, Zenon
  <2> QED BY <1>5, <2>1, Zenon
<1> QED BY <1>1, <1>2, <1>3, <1>4, <1>5, Zenon

\* A mode that is being left, or has been, is in no stage.
LEMMA Elsewhere ==
  /\ MState' \notin {"Enter", "Work"} => Stages'
  /\ StartModeExit \/ EndModeExit => Stages'
  BY Zenon DEF Stages, StartModeExit, EndModeExit

-------------------------------------------------------------------------------
(* The answers in the queue. *)

\* r holds no answer that q does not.
Quieter(q, r) == \A S : Answers(q, S) => Answers(r, S)

LEMMA SameAnswers == \A q : Quieter(q, q)
  BY DEF Quieter

LEMMA SentOther ==
  ASSUME NEW q \in Seq(Messages), NEW m \in Messages, m.id \notin AnswerIds
  PROVE  Quieter(q, Sent(q, m))
<1>1. CASE Len(q) < MainQLen
  <2>1. Len(Sent(q, m)) = Len(q) + 1 /\ Sent(q, m)[Len(q) + 1] = m
        /\ \A i \in 1 .. Len(q) : Sent(q, m)[i] = q[i]
    <3> HIDE DEF Messages
    <3> QED BY <1>1, SMT DEF Sent
  <2>2. Len(q) \in Nat
    OBVIOUS
  <2> HIDE DEF Messages, Sent, AnswerIds
  <2> QED BY <2>1, <2>2, SMT DEF Quieter, Answers
<1>2. CASE ~(Len(q) < MainQLen)
  BY <1>2, SameAnswers DEF Sent
<1> QED BY <1>1, <1>2

LEMMA SentAnswer ==
  ASSUME NEW q \in Seq(Messages), Answers(q, {}), NEW id \in AnswerIds
  PROVE  Answers(Sent(q, Message(id)), {id})
<1>1. Message(id).id = id /\ Message(id) \in Messages
  BY PlainMessages, SMT DEF Message, AnswerIds, PlainIds
<1>2. CASE Len(q) < MainQLen
  <2>1. Len(Sent(q, Message(id))) = Len(q) + 1 /\ Sent(q, Message(id))[Len(q) + 1] = Message(id)
        /\ \A i \in 1 .. Len(q) : Sent(q, Message(id))[i] = q[i]
    <3> HIDE DEF Messages, Message
    <3> QED BY <1>1, <1>2, SMT DEF Sent
  <2>2. Len(q) \in Nat
    OBVIOUS
  <2> HIDE DEF Messages, Sent, AnswerIds, Message
  <2> QED BY <1>1, <2>1, <2>2, SMT DEF Answers
<1>3. CASE ~(Len(q) < MainQLen)
  <2>1. Sent(q, Message(id)) = q
    BY <1>3 DEF Sent
  <2> QED BY <2>1, Zenon DEF Answers
<1> QED BY <1>2, <1>3

LEMMA TakenAnswer ==
  ASSUME NEW q \in Seq(Messages), q # <<>>
  PROVE  /\ Quieter(q, Tail(q))
         /\ \A S : Answers(q, S) /\ Head(q).id \in AnswerIds
                     => Head(q).id \in S /\ Answers(Tail(q), {})
<1>1. /\ Len(q) \in Nat /\ Len(q) > 0 /\ Len(Tail(q)) = Len(q) - 1 /\ Head(q) = q[1]
      /\ \A i \in 1 .. Len(q) - 1 : Tail(q)[i] = q[i + 1]
  <2> HIDE DEF Messages
  <2> QED BY SMT
<1> HIDE DEF Messages, AnswerIds
<1> QED BY <1>1, SMT DEF Quieter, Answers

LEMMA NoneOwed ==
  ASSUME mainQ \in Seq(Messages), ~Owing(mainQ)
  PROVE  Answers(mainQ, {})
<1>1. DOMAIN mainQ = 1 .. Len(mainQ)
  <2> HIDE DEF Messages
  <2> QED BY SMT
<1> QED BY <1>1, Zenon DEF Answers, Owing

LEMMA PlainQuieter ==
  ASSUME NEW q \in Seq(Messages)
  PROVE  \A id \in PlainIds \ AnswerIds : Quieter(q, Sent(q, Message(id)))
<1> SUFFICES ASSUME NEW id \in PlainIds \ AnswerIds PROVE Quieter(q, Sent(q, Message(id)))
  OBVIOUS
<1>1. Message(id).id = id
  BY DEF Message
<1> QED BY <1>1, PlainMessages, SentOther

LEMMA CallQuieter ==
  ASSUME NEW q \in Seq(Messages)
  PROVE  /\ \A linked \in BOOLEAN : EnterBtHfMode(q, linked) => Quieter(q, mainQ')
         /\ \A fl, h : ExitBtHfMode(q, fl, h) => Quieter(q, mainQ')
         /\ RunConfig /\ q = mainQ => Quieter(q, mainQ')
<1>1. /\ Quieter(q, Sent(q, Message("BTHF_IN")))
      /\ Quieter(q, Sent(q, Message("BTHF_OUT")))
  BY PlainQuieter, SMT DEF PlainIds, AnswerIds
<1> QED BY <1>1, SameAnswers, Zenon DEF EnterBtHfMode, ExitBtHfMode, RunConfig

\* A step that leaves the task alone and brings no answer.
LEMMA LifeGoesOn ==
  ASSUME Stages, UNCHANGED MState, Quieter(mainQ, mainQ'),
         app'.st = app.st, app'.todo = app.todo, app'.dec = app.dec,
         app'.orders = app.orders, app'.mode = app.mode
  PROVE  Stages'
<1>1. /\ Silent => Silent'
      /\ Unready => Unready'
      /\ Ordered("START") => Ordered("START")'
  BY Zenon DEF Mute, Settled, Silent, Ordered, Unready
<1>2. \A S : Answers(mainQ, S) => Answers(mainQ', S)
  BY Zenon DEF Quieter
<1>3. GoingIn => GoingIn'
  BY <1>1, Zenon DEF GoingIn, Failed, Task
<1>4. Entering => Entering'
  BY <1>1, <1>2, <1>3, Zenon DEF Entering, Task
<1>5. Working => Working'
  BY <1>1, <1>2, Zenon DEF Working, Task
<1> QED BY <1>4, <1>5, Zenon DEF Stages

-------------------------------------------------------------------------------
(* What the task and its decoder do, stage by stage. *)

InStage == MState \in {"Enter", "Work"}

LEMMA OnlyTheMainTask ==
  ASSUME AppStep \/ ServiceStep \/ Outside
  PROVE  UNCHANGED <<MState, at>>
  BY SMT DEF AppStep, AppCreated, AppStart, AppStarted, AppStop, AppStopped, AppDrops,
     DecoderCreated, DecoderStarted, DecoderStopped,
     DetectOver, PromptOver, MediaStruck, CallConfigured,
     ServiceStep, Pauses, PlugSent, RemindEnds,
     Outside, PlugMoves, Key, MediaFails, Records, DecoderHangs, CallBegins, CallEnds,
     HfpConnects, mainVars

\* The stage a word to the task is heard in.
LEMMA Hearing ==
  ASSUME Stages, InStage, NEW w, Hears(w)
  PROVE  /\ MState = "Enter" /\ app.todo = Just(w) /\ Tail(app.todo) = <<>>
         /\ Answers(mainQ, {}) /\ Silent
         /\ \/ w = "DECODER_CREATED" /\ app.st = "Creating"
            \/ w = "START" /\ app.st = "Ready"
            \/ w = "DECODER_STARTED" /\ app.st = "Starting"
<1>1. app.todo # <<>> /\ Head(app.todo) = w
  BY DEF Hears
<1>2. \A v : app.todo = Just(v) => v = w /\ Tail(app.todo) = <<>>
  BY <1>1, OneWord, Zenon
<1>3. ~Failed /\ ~Working
  BY <1>1, Zenon DEF Failed, Working, Task
<1>4. MState = "Enter" /\ Entering
  BY <1>3, SMT DEF Stages, InStage
<1>5. GoingIn /\ Answers(mainQ, {})
  BY <1>1, <1>4, Zenon DEF Entering, Task
<1>6. \/ Task("Creating", Just("DECODER_CREATED")) /\ Silent
      \/ Task("Ready", Just("START")) /\ Silent
      \/ Task("Starting", Just("DECODER_STARTED")) /\ Silent
  BY <1>1, <1>3, <1>5, Zenon DEF GoingIn, Task
<1> QED BY <1>2, <1>4, <1>5, <1>6, Zenon DEF Task

\* The stages in which the decoder has something to say.
LEMMA DecoderSpeaks ==
  ASSUME Stages, InStage, ~Mute, ~Silent
  PROVE  /\ MState = "Enter" /\ app.todo = <<>> /\ Answers(mainQ, {})
         /\ \/ app.st = "Creating" /\ Unready
            \/ app.st = "Starting" /\ Settled /\ app.orders = Just("START")
<1>1. ~Failed /\ ~Working
  BY Zenon DEF Failed, Working, Mute
<1>2. MState = "Enter" /\ Entering
  BY <1>1, SMT DEF Stages, InStage
<1>3. GoingIn /\ Answers(mainQ, {})
  BY <1>2, Zenon DEF Entering
<1> QED BY <1>1, <1>2, <1>3, Zenon DEF GoingIn, Ordered, Task

LEMMA LifeByDecoder ==
  ASSUME Inv1, Alone, Stages, InStage, DecoderCreated \/ DecoderStarted \/ DecoderStopped
  PROVE  Stages'
<1>1. app \in AppTasks
  BY DEF Inv1, TypeOK
<1>2. UNCHANGED <<MState, mainQ>>
  BY SMT DEF DecoderCreated, DecoderStarted, DecoderStopped, mainVars
<1>3. CASE DecoderCreated
  <2>1. app.dec = "Creating" /\ ~Mute /\ ~Silent /\ ~Settled
    BY <1>3, Zenon DEF DecoderCreated, Mute, Silent, Settled
  <2>2. /\ app.todo = <<>> /\ Answers(mainQ, {})
        /\ MState = "Enter" /\ app.st = "Creating" /\ app.orders = <<>>
    BY <2>1, DecoderSpeaks, Zenon DEF Unready
  <2>3. app' = [app EXCEPT !.dec = "Ready", !.todo = Append(app.todo, "DECODER_CREATED")]
    BY <1>3 DEF DecoderCreated
  <2>4. /\ app'.st = "Creating" /\ app'.todo = Just("DECODER_CREATED") /\ app'.dec = "Ready"
        /\ app'.orders = <<>> /\ app'.mode # "BtHf"
    <3>1. /\ app'.st = app.st /\ app'.todo = Append(app.todo, "DECODER_CREATED")
          /\ app'.dec = "Ready" /\ app'.orders = app.orders /\ app'.mode = app.mode
      BY <1>1, <2>3, SMT DEF AppTasks
    <3> QED BY <2>1, <2>2, <3>1, OneWord, Zenon DEF Alone, Mute
  <2>5. GoingIn' /\ Answers(mainQ', {})
    BY <1>2, <2>2, <2>4, Zenon DEF GoingIn, Task, Silent, Settled
  <2> QED BY <1>2, <2>2, <2>5, Zenon DEF Stages, Entering
<1>4. CASE DecoderStarted
  <2>1. Settled /\ app.orders # <<>> /\ Head(app.orders) = "START" /\ ~Mute /\ ~Silent
        /\ app.dec # "Creating"
    BY <1>4, Zenon DEF DecoderStarted, Mute, Silent, Settled
  <2>2. /\ app.todo = <<>> /\ Answers(mainQ, {})
        /\ MState = "Enter" /\ app.st = "Starting" /\ app.orders = Just("START")
    BY <2>1, DecoderSpeaks, OneWord, Zenon DEF Unready
  <2>3. /\ app'.st = "Starting" /\ app'.orders = <<>>
        /\ app'.dec \in {"Ready", "Running", "Stopped"}
        /\ app'.todo \in {<<>>, Just("DECODER_STARTED")}
    <3>1. CASE app.dec = "Ready"
      <4>1. app' = [app EXCEPT !.dec = "Running",
                               !.todo = Append(app.todo, "DECODER_STARTED"),
                               !.orders = Tail(app.orders)]
        BY <1>4, <3>1 DEF DecoderStarted
      <4>2. /\ app'.st = app.st /\ app'.todo = Append(app.todo, "DECODER_STARTED")
            /\ app'.dec = "Running" /\ app'.orders = Tail(app.orders)
        BY <1>1, <4>1, SMT DEF AppTasks
      <4> QED BY <2>2, <4>2, OneWord, Zenon
    <3>2. CASE app.dec # "Ready"
      <4>1. app' = [app EXCEPT !.orders = Tail(app.orders)]
        BY <1>4, <3>2 DEF DecoderStarted
      <4>2. /\ app'.st = app.st /\ app'.todo = app.todo
            /\ app'.dec = app.dec /\ app'.orders = Tail(app.orders)
        BY <1>1, <4>1, SMT DEF AppTasks
      <4> QED BY <2>1, <2>2, <4>2, OneWord, Zenon DEF Settled
    <3> QED BY <3>1, <3>2
  <2>4. GoingIn' /\ Answers(mainQ', {})
    BY <1>2, <2>2, <2>3, Zenon DEF GoingIn, Task, Silent, Settled
  <2> QED BY <1>2, <2>2, <2>4, Zenon DEF Stages, Entering
\* It is told to stop only when the mode is being left.
<1>5. ~DecoderStopped
  <2> SUFFICES ASSUME DecoderStopped PROVE FALSE
    OBVIOUS
  <2>1. /\ Settled /\ app.orders # <<>> /\ Head(app.orders) = "STOP" /\ ~Mute /\ ~Silent
        /\ app.dec # "Creating"
    BY Zenon DEF DecoderStopped, Mute, Silent, Settled
  <2>2. app.orders = Just("START")
    BY <2>1, DecoderSpeaks, Zenon DEF Unready
  <2>3. "START" = "STOP"
    BY <2>1, <2>2, OneWord, Zenon
  <2> QED BY <2>3
<1> QED BY <1>3, <1>4, <1>5

\* The task answers one word by one answer, or hands it on to its decoder.
LEMMA LifeByWord ==
  ASSUME Inv1, Alone, Stages, InStage,
         AppCreated \/ AppStart \/ AppStarted \/ AppStop \/ AppStopped \/ AppDrops
  PROVE  Stages'
<1>1. app \in AppTasks /\ mainQ \in Seq(Messages)
  BY DEF Inv1, TypeOK
<1>2. UNCHANGED MState
  BY OnlyTheMainTask DEF AppStep
<1>3. \A id \in AnswerIds : Answers(mainQ, {}) => Answers(Sent(mainQ, Message(id)), {id})
  BY <1>1, SentAnswer
\* The decoder has nothing to say in any stage in which a word is heard.
<1>4. \A w : Hears(w) => /\ MState = "Enter" /\ Tail(app.todo) = <<>>
                         /\ Answers(mainQ, {}) /\ Silent
  BY Hearing, Zenon
<1>5. ASSUME AppCreated PROVE Stages'
  <2>1. /\ MState = "Enter" /\ app.st = "Creating" /\ Silent /\ Answers(mainQ, {})
        /\ app'.st = "Ready" /\ app'.todo = <<>> /\ app'.dec = app.dec
        /\ app'.orders = app.orders
    <3>1. CASE app.mode = "BtHf" /\ app.st = "Creating" /\ app' = [app EXCEPT !.st = "Ready"]
      <4>1. app.dec = "none" /\ Silent
        BY <3>1, Zenon DEF Alone, Silent, Mute
      <4>2. app.todo = <<>> /\ MState = "Enter" /\ Answers(mainQ, {})
        <5>1. ~Failed /\ ~Working
          BY <3>1, Zenon DEF Failed, Working, Task
        <5>2. MState = "Enter" /\ Entering
          BY <5>1, SMT DEF Stages, InStage
        <5>3. GoingIn /\ Answers(mainQ, {})
          BY <3>1, <5>2, Zenon DEF Entering, Task
        <5>4. Task("Creating", <<>>)
          BY <3>1, <5>1, <5>3, Zenon DEF GoingIn, Task
        <5> QED BY <5>2, <5>3, <5>4, Zenon DEF Task
      <4>3. /\ app'.st = "Ready" /\ app'.todo = app.todo /\ app'.dec = app.dec
            /\ app'.orders = app.orders
        BY <1>1, <3>1, SMT DEF AppTasks
      <4> QED BY <3>1, <4>1, <4>2, <4>3
    <3>2. CASE /\ Hears("DECODER_CREATED")
               /\ app' = [app EXCEPT !.st = "Ready", !.dsync = TRUE, !.todo = Tail(app.todo)]
      <4>1. app.st = "Creating"
        BY <3>2, Hearing, SMT
      <4>2. /\ app'.st = "Ready" /\ app'.todo = Tail(app.todo) /\ app'.dec = app.dec
            /\ app'.orders = app.orders
        BY <1>1, <3>2, SMT DEF AppTasks
      <4> QED BY <1>4, <3>2, <4>1, <4>2
    <3> QED BY <1>5, <3>1, <3>2 DEF AppCreated
  <2>2. Answers(mainQ', {"CREATED"})
    BY <1>3, <1>5, <2>1, SMT DEF AppCreated, Says, AnswerIds
  <2>3. Silent'
    BY <2>1, Zenon DEF Silent, Settled, Mute
  <2> QED BY <1>2, <2>1, <2>2, <2>3, Zenon DEF Stages, Entering, Task
<1>6. ASSUME AppStart PROVE Stages'
  <2>1. /\ MState = "Enter" /\ app.st = "Ready" /\ Silent
        /\ Answers(mainQ, {}) /\ Tail(app.todo) = <<>> /\ mainQ' = mainQ
    BY <1>4, <1>6, Hearing, SMT DEF AppStart
  <2>2. app' = [app EXCEPT !.st = "Starting", !.dsync = TRUE, !.todo = Tail(app.todo),
                           !.orders = Append(app.orders, "START")]
    BY <1>6 DEF AppStart
  <2>3. /\ app'.st = "Starting" /\ app'.todo = Tail(app.todo) /\ app'.dec = app.dec
        /\ app'.orders = Append(app.orders, "START")
    BY <1>1, <2>2, SMT DEF AppTasks
  <2>4. Ordered("START")'
    BY <2>1, <2>3, OneWord, Zenon DEF Silent, Ordered, Settled, Mute
  <2>5. GoingIn'
    BY <2>1, <2>3, <2>4, Zenon DEF GoingIn, Task
  <2> QED BY <1>2, <2>1, <2>5, Zenon DEF Stages, Entering
<1>7. ASSUME AppStarted PROVE Stages'
  <2>1. MState = "Enter" /\ Silent /\ Answers(mainQ, {}) /\ Tail(app.todo) = <<>>
    BY <1>4, <1>7, SMT DEF AppStarted
  <2>2. /\ app'.st = "Running" /\ app'.todo = Tail(app.todo) /\ app'.dec = app.dec
        /\ app'.orders = app.orders
    <3>1. app' = [app EXCEPT !.st = "Running", !.dsync = app.mode # "BtHf", !.todo = Tail(app.todo)]
      BY <1>7 DEF AppStarted
    <3> QED BY <1>1, <3>1, SMT DEF AppTasks
  <2>3. Answers(mainQ', {"STARTED"})
    BY <1>3, <1>7, <2>1, SMT DEF AppStarted, Says, AnswerIds
  <2>4. Silent'
    BY <2>1, <2>2, Zenon DEF Silent, Settled, Mute
  <2> QED BY <1>2, <2>1, <2>2, <2>3, <2>4, Zenon DEF Stages, Entering, Task
\* In these stages the task is not told to stop, and drops nothing.
<1>8. ~Hears("STOP") /\ ~Hears("DECODER_STOPPED")
  BY Hearing, SMT
<1>9. ~AppStop /\ ~AppStopped
  BY <1>8, Zenon DEF AppStop, AppStopped
<1>10. ~AppDrops
  <2>1. ASSUME NEW w \in {"START", "DECODER_CREATED", "DECODER_STARTED"}, Hears(w)
        PROVE  Heeds
    BY <2>1, Hearing, SMT DEF Heeds
  <2> QED BY <1>8, <2>1, SMT DEF AppDrops
<1> QED BY <1>5, <1>6, <1>7, <1>9, <1>10

LEMMA LifeByApp ==
  ASSUME Inv1, Alone, Stages, InStage, AppStep
  PROVE  Stages'
<1>1. app \in AppTasks /\ mainQ \in Seq(Messages)
  BY DEF Inv1, TypeOK
<1>2. CASE DetectOver \/ PromptOver
  <2>1. UNCHANGED <<MState, app>>
    BY <1>2, SMT DEF DetectOver, PromptOver, mainVars
  <2>2. Quieter(mainQ, Sent(mainQ, Message("PERMISSION")))
    BY <1>1, PlainQuieter DEF PlainIds, AnswerIds
  <2>3. Quieter(mainQ, mainQ')
    BY <1>2, <2>2, SameAnswers, SMT DEF DetectOver, PromptOver, WaitOver, Says
  <2> QED BY <2>1, <2>3, LifeGoesOn
<1>3. CASE MediaStruck \/ CallConfigured
  <2>1. UNCHANGED MState
    BY <1>3, SMT DEF MediaStruck, CallConfigured, mainVars
  <2>2. /\ app'.st = app.st /\ app'.todo = app.todo /\ app'.dec = app.dec
        /\ app'.orders = app.orders /\ app'.mode = app.mode
    BY <1>1, <1>3, SMT DEF MediaStruck, CallConfigured, AppTasks
  <2>3. Quieter(mainQ, mainQ')
    BY <1>1, <1>3, CallQuieter, SameAnswers DEF MediaStruck, CallConfigured
  <2> QED BY <2>1, <2>2, <2>3, LifeGoesOn
<1> QED BY <1>2, <1>3, LifeByDecoder, LifeByWord DEF AppStep

LEMMA LifeByOthers ==
  ASSUME Inv1, Stages, InStage, ServiceStep \/ Outside
  PROVE  Stages'
<1>1. app \in AppTasks /\ mainQ \in Seq(Messages)
  BY DEF Inv1, TypeOK
<1>2. UNCHANGED MState
  BY OnlyTheMainTask
<1>3. Quieter(mainQ, mainQ')
  <2>1. /\ Quieter(mainQ, Sent(mainQ, Message("MODE")))
        /\ Quieter(mainQ, Sent(mainQ, Message("REC_PLAYBACK")))
        /\ Quieter(mainQ, Sent(mainQ, Message("DEEPSLEEP")))
        /\ Quieter(mainQ, Sent(mainQ, Message("ALARM")))
        /\ Quieter(mainQ, Sent(mainQ, Message("FAILURE")))
        /\ Quieter(mainQ, Sent(mainQ, Message("ENTER_BTHF")))
    BY <1>1, PlainQuieter DEF PlainIds, AnswerIds
  <2>2. CallEnds \/ (\E linked \in BOOLEAN : CallBegins(linked)) => Quieter(mainQ, mainQ')
    BY <1>1, CallQuieter DEF CallEnds, CallBegins
  <2>3. ASSUME NEW s \in Services, Pauses(s)
        PROVE  Quieter(mainQ, mainQ')
    <3>1. About("PAUSED", s) \in Messages /\ About("PAUSED", s).id \notin AnswerIds
      BY DEF About, Messages, AnswerIds
    <3> QED BY <1>1, <2>3, <3>1, SentOther, SameAnswers DEF Pauses
  <2>4. ASSUME PlugSent
        PROVE  Quieter(mainQ, mainQ')
    <3>1. plug \in Messages /\ plug.id \notin AnswerIds
      BY <2>4, SMT DEF PlugSent, Inv1, TypeOK, Messages, PlugMsgs, AnswerIds
    <3> QED BY <1>1, <2>4, <3>1, SentOther DEF PlugSent
  <2>5. ServiceStep => Quieter(mainQ, mainQ')
    BY <2>1, <2>3, <2>4 DEF ServiceStep, RemindEnds, Says
  <2>6. Outside => Quieter(mainQ, mainQ')
    BY <2>1, <2>2, SameAnswers, SMT
    DEF Outside, PlugMoves, Key, MediaFails, Records, DecoderHangs, HfpConnects, Says
  <2> QED BY <2>5, <2>6
<1>4. CASE DecoderHangs
  <2>1. /\ app'.st = app.st /\ app'.todo = app.todo /\ app'.dec = "hung"
        /\ app'.orders = app.orders /\ app'.mode = app.mode
    BY <1>1, <1>4, SMT DEF DecoderHangs, AppTasks
  <2>2. ~Mute /\ ~Silent
    BY <1>4, Zenon DEF DecoderHangs, Mute, Silent, Settled
  <2>3. mainQ' = mainQ
    BY <1>4 DEF DecoderHangs
  <2>4. Silent'
    BY <2>1, Zenon DEF Silent, Mute
  <2>5. /\ MState = "Enter" /\ app.todo = <<>> /\ Answers(mainQ, {})
        /\ app.st = "Creating" \/ app.st = "Starting"
    BY <2>2, DecoderSpeaks, Zenon
  <2>6. GoingIn'
    BY <2>1, <2>4, <2>5, Zenon DEF GoingIn, Task
  <2> QED BY <1>2, <2>3, <2>5, <2>6, Zenon DEF Stages, Entering
<1>5. CASE ~DecoderHangs
  <2>1. /\ app'.st = app.st /\ app'.todo = app.todo /\ app'.dec = app.dec
        /\ app'.orders = app.orders /\ app'.mode = app.mode
    <3>1. MediaFails => app' = [app EXCEPT !.note = "failing"]
      BY DEF MediaFails
    <3>2. ~MediaFails => app' = app
      BY <1>5, SMT DEF ServiceStep, Pauses, PlugSent, RemindEnds,
         Outside, PlugMoves, Key, Records, CallBegins, CallEnds, HfpConnects
    <3> QED BY <1>1, <3>1, <3>2, SMT DEF AppTasks
  <2> QED BY <1>2, <1>3, <2>1, LifeGoesOn
<1> QED BY <1>4, <1>5

-------------------------------------------------------------------------------
(* The main task: it orders what has come to rest, takes each answer for what it *)
(* is, and, unless an answer was left over, creates where nobody is heard.        *)

LEMMA BornSilent ==
  ASSUME NEW mode \in Wanted, NEW ok \in BOOLEAN, app' = Created(mode, ok)
  PROVE  /\ app'.mode = "BtHf" => app'.dec = "none"
         /\ GoingIn'
<1>1. CASE ok
  <2>1. app' = NewTask(mode)
    BY <1>1 DEF Created
  <2>2. /\ app'.mode = mode /\ app'.st = "Creating" /\ app'.todo = <<>> /\ app'.orders = <<>>
        /\ app'.dec = IF mode = "BtHf" THEN "none" ELSE "Creating"
    BY <2>1, SMT DEF NewTask
  <2>3. Task("Creating", <<>>)'
    BY <2>2, Zenon DEF Task
  <2>4. Silent' \/ Unready'
    BY <2>2, Zenon DEF Silent, Mute, Unready
  <2> QED BY <2>2, <2>3, <2>4, Zenon DEF GoingIn
<1>2. CASE ~ok
  <2>1. app' = [NoApp EXCEPT !.mode = mode, !.st = "failed", !.heir = Owing(mainQ)]
    BY <1>2 DEF Created
  <2>2. app'.mode = mode /\ app'.st = "failed" /\ app'.todo = <<>> /\ app'.dec = "none"
    BY <2>1, SMT DEF NoApp
  <2> QED BY <2>2, Zenon DEF Failed, Task, GoingIn
<1> QED BY <1>1, <1>2

\* The answer that is taken is the one the stage expects, and the only one.
LEMMA Hearkening ==
  ASSUME Inv1, Stages, MState = "Enter", NEW m, Receive(m), Taken, m.id \in AnswerIds
  PROVE  /\ Answers(mainQ', {})
         /\ m.id = "CREATED" => Task("Ready", <<>>) /\ Silent
         /\ m.id = "STARTED" => Task("Running", <<>>) /\ Silent
<1>1. mainQ \in Seq(Messages) /\ mainQ # <<>> /\ m = Head(mainQ) /\ mainQ' = Tail(mainQ)
  BY DEF Inv1, TypeOK, Receive, Taken
<1>2. \A S : Answers(mainQ, S) => m.id \in S /\ Answers(mainQ', {})
  BY <1>1, TakenAnswer
<1>3. ~Answers(mainQ, {})
  BY <1>2
<1>4. Entering
  BY Zenon DEF Stages
<1>5. \/ Task("Ready", <<>>) /\ Silent /\ Answers(mainQ, {"CREATED"})
      \/ Task("Running", <<>>) /\ Silent /\ Answers(mainQ, {"STARTED"})
  BY <1>3, <1>4, Zenon DEF Entering
<1>6. \/ Task("Ready", <<>>) /\ Silent /\ m.id \in {"CREATED"}
      \/ Task("Running", <<>>) /\ Silent /\ m.id \in {"STARTED"}
  BY <1>2, <1>5, Zenon
<1> QED BY <1>2, <1>5, <1>6, Zenon

LEMMA LifeByBirth ==
  ASSUME Inv1, NEW ok \in BOOLEAN, CreateMode(ok) \/ Boot(ok) \/ Wake(ok)
  PROVE  app'.heir \/ Stages'
<1>1. mainQ \in Seq(Messages) /\ cur \in Wanted /\ Waiting \in Wanted
  BY ModesAreWanted DEF Inv1, TypeOK
<1>2. \A mode : Created(mode, ok).heir = Owing(mainQ)
  BY Zenon DEF Created, NewTask, NoApp
<1>3. app'.heir = Owing(mainQ)
  BY <1>2, Zenon DEF CreateMode, Boot, Wake
<1>4. ~Owing(mainQ) => Answers(mainQ, {})
  BY <1>1, NoneOwed
<1>5. \/ MState' = "Enter" /\ mainQ' = mainQ
      \/ MState' = "Exit"
  BY Zenon DEF CreateMode, Boot, Wake
<1>6. GoingIn'
  <2>1. CASE CreateMode(ok)
    BY <1>1, <2>1, BornSilent DEF CreateMode
  <2>2. CASE Boot(ok)
    BY <1>1, <2>2, BornSilent DEF Boot
  <2>3. CASE Wake(ok)
    <3>1. app' = Created(cur', ok)
      BY <2>3 DEF Wake
    <3>2. cur' \in Wanted
      BY StepsKeep, <2>3 DEF Next, MainStep, Inv1, TypeOK
    <3> QED BY <3>1, <3>2, BornSilent
  <2> QED BY <2>1, <2>2, <2>3
<1> QED BY <1>3, <1>4, <1>5, <1>6, Elsewhere, Zenon DEF Stages, Entering

LEMMA LifeByMain ==
  ASSUME Inv1, Stages, MainStep,
         \A ok \in BOOLEAN : ~(CreateMode(ok) \/ Boot(ok) \/ Wake(ok))
  PROVE  Stages'
<1>1. mainQ \in Seq(Messages) /\ app \in AppTasks
  BY DEF Inv1, TypeOK
<1>2. CASE EnterTimeout \/ ExitTimeout \/ JitterOver
  BY <1>2, Elsewhere DEF EnterTimeout, ExitTimeout, JitterOver
<1>3. ASSUME NEW m, Receive(m)
      PROVE  Tail(mainQ) \in Seq(Messages) /\ Quieter(mainQ, Tail(mainQ))
  <2>1. mainQ # <<>>
    BY <1>3 DEF Receive
  <2>2. Tail(mainQ) \in Seq(Messages)
    <3> HIDE DEF Messages
    <3> QED BY <1>1, <2>1
  <2> QED BY <1>1, <2>1, <2>2, TakenAnswer
\* What is neither an answer nor the end of a work leaves the task alone.
<1>4. ASSUME NEW m, HandleRequest(m) \/ HandleIgnored(m)
      PROVE  Stages'
  <2>1. Receive(m) /\ Taken /\ UNCHANGED <<MState, app>>
    BY <1>4, SMT DEF HandleRequest, HandleIgnored, mainVars
  <2> QED BY <1>3, <2>1, LifeGoesOn DEF Taken
<1>5. ASSUME NEW m, NEW linked \in BOOLEAN, HandleEnterBtHf(m, linked)
      PROVE  Stages'
  <2>1. Receive(m) /\ EnterBtHfMode(Tail(mainQ), linked) /\ UNCHANGED <<MState, app>>
    BY <1>5, SMT DEF HandleEnterBtHf
  <2>2. Quieter(mainQ, mainQ')
    BY <1>3, <2>1, CallQuieter DEF Quieter
  <2> QED BY <2>1, <2>2, LifeGoesOn
<1>6. ASSUME NEW m, HandlePaused(m)
      PROVE  Stages'
  <2>1. Receive(m) /\ Taken /\ UNCHANGED <<MState, app>>
    BY <1>6, SMT DEF HandlePaused
  <2> QED BY <1>3, <2>1, LifeGoesOn DEF Taken
<1>7. ASSUME NEW m, HandleDeepSleep(m)
      PROVE  Stages'
  <2>1. Receive(m)
    BY <1>7, SMT DEF HandleDeepSleep
  <2>2. Quieter(mainQ, mainQ')
    <3>1. CASE cur = "BtHf" /\ "BtHfDelayEnterSleep" \notin flags
      <4>1. ExitBtHfMode(Tail(mainQ), flags \cup {"BtHfDelayEnterSleep"},
                         [hf EXCEPT !.g = FALSE])
        BY <1>7, <3>1 DEF HandleDeepSleep
      <4>2. Quieter(Tail(mainQ), mainQ')
        BY <1>3, <2>1, <4>1, CallQuieter, Zenon
      <4> QED BY <1>3, <2>1, <4>2, Zenon DEF Quieter
    <3>2. CASE ~(cur = "BtHf" /\ "BtHfDelayEnterSleep" \notin flags)
      BY <1>3, <1>7, <2>1, <3>2, Zenon DEF HandleDeepSleep, Taken
    <3> QED BY <3>1, <3>2
  <2>3. StartModeExit \/ UNCHANGED <<MState, app>>
    BY <1>7, Zenon DEF HandleDeepSleep
  <2> QED BY <2>1, <2>2, <2>3, Elsewhere, LifeGoesOn
<1>8. ASSUME NEW m, HandleFailure(m) \/ HandlePermission(m)
      PROVE  Stages'
  <2>1. Receive(m) /\ Taken
        /\ (StartModeExit \/ UNCHANGED <<MState, app>>)
    BY <1>8, SMT DEF HandleFailure, HandlePermission
  <2>2. Quieter(mainQ, mainQ')
    BY <1>3, <2>1, Zenon DEF Taken
  <2> QED BY <2>1, <2>2, Elsewhere, LifeGoesOn
\* The answers.
<1>9. ASSUME NEW m, HandleCreated(m)
      PROVE  Stages'
  <2>1. Receive(m) /\ Taken /\ MState = "Enter" /\ m.id = "CREATED"
    BY <1>9, SMT DEF HandleCreated
  <2>2. Answers(mainQ', {}) /\ Task("Ready", <<>>) /\ Silent
    BY <2>1, Hearkening, SMT DEF AnswerIds
  <2>3. CASE GoesOn
    <3>1. app' = [app EXCEPT !.todo = Append(app.todo, "START")] /\ MState' = MState
      BY <1>9, <2>2, <2>3, SMT DEF HandleCreated, Started, HasQueue, Task
    <3>2. /\ app'.st = app.st /\ app'.todo = Append(app.todo, "START") /\ app'.dec = app.dec
          /\ app'.orders = app.orders
      BY <1>1, <3>1, SMT DEF AppTasks
    <3>3. app'.st = "Ready" /\ app'.todo = Just("START")
      BY <2>2, <3>2, OneWord, Zenon DEF Task
    <3>4. Silent'
      BY <2>2, <3>2, Zenon DEF Silent, Mute, Settled
    <3>5. GoingIn'
      BY <3>3, <3>4, Zenon DEF GoingIn, Task
    <3> QED BY <2>1, <2>2, <3>1, <3>5, Zenon DEF Stages, Entering
  <2>4. CASE ~GoesOn
    BY <1>9, <2>4, Elsewhere DEF HandleCreated
  <2> QED BY <2>3, <2>4
<1>10. ASSUME NEW m, HandleStarted(m)
       PROVE  Stages'
  <2>1. Receive(m) /\ Taken /\ MState = "Enter" /\ m.id = "STARTED"
    BY <1>10, SMT DEF HandleStarted
  <2>2. Answers(mainQ', {}) /\ Task("Running", <<>>) /\ Silent
    BY <2>1, Hearkening, SMT DEF AnswerIds
  <2>3. CASE GoesOn
    <3>1. app' = app /\ MState' = "Work"
      BY <1>10, <2>3 DEF HandleStarted
    <3>2. Working'
      BY <2>2, <3>1, Zenon DEF Working, Task, Silent, Mute, Settled
    <3> QED BY <2>1, <3>1, <3>2, Zenon DEF Stages
  <2>4. CASE ~GoesOn
    BY <1>10, <2>4, Elsewhere DEF HandleStarted
  <2> QED BY <2>3, <2>4
<1>11. ASSUME NEW m, HandleStopped(m)
       PROVE  Stages'
  BY <1>11, Elsewhere DEF HandleStopped
<1> QED BY <1>2, <1>4, <1>5, <1>6, <1>7, <1>8, <1>9, <1>10, <1>11 DEF MainStep

-------------------------------------------------------------------------------
\* A decoder belongs to a task that has one.
LEMMA AlwaysAlone == Spec => []Alone
<1>1. Init => Alone
  BY SMT DEF Init, NoApp, Alone
<1>2. Inv1 /\ Alone /\ [Next]_vars => Alone'
  <2> SUFFICES ASSUME Inv1, Alone, [Next]_vars PROVE Alone'
    OBVIOUS
  <2>1. app \in AppTasks /\ cur \in Wanted /\ cur' \in Wanted /\ Waiting \in Wanted
    BY StepsKeep, ModesAreWanted DEF Inv1, TypeOK
  <2>2. ASSUME app'.mode = app.mode, app'.dec = app.dec \/ app.dec # "none"
               \/ app'.dec = "none"
        PROVE  Alone'
    BY <2>2, Zenon DEF Alone
  <2>3. CASE AppStep
    <3>1. CASE DecoderCreated \/ DecoderStarted \/ DecoderStopped
      <4>1. app.dec # "none"
        BY <3>1, SMT DEF DecoderCreated, DecoderStarted, DecoderStopped
      <4>2. DecoderCreated => app'.mode = app.mode
        BY <2>1, SMT DEF DecoderCreated, AppTasks
      <4>3. DecoderStarted => app'.mode = app.mode
        BY <2>1, SMT DEF DecoderStarted, AppTasks
      <4>4. DecoderStopped => app'.mode = app.mode
        BY <2>1, SMT DEF DecoderStopped, AppTasks
      <4> QED BY <2>2, <3>1, <4>1, <4>2, <4>3, <4>4
    <3>2. CASE \/ AppCreated \/ AppStart \/ AppStarted \/ AppStop \/ AppStopped
               \/ MediaStruck \/ CallConfigured
      <4>1. app'.mode = app.mode /\ app'.dec = app.dec
        <5> DEFINE same == app'.mode = app.mode /\ app'.dec = app.dec
        <5>1. AppCreated => same
          <6>1. ASSUME app' = [app EXCEPT !.st = "Ready"] PROVE same
            BY <2>1, <6>1, SMT DEF AppTasks
          <6>2. ASSUME app' = [app EXCEPT !.st = "Ready", !.dsync = TRUE, !.todo = Tail(@)]
                PROVE  same
            BY <2>1, <6>2, SMT DEF AppTasks
          <6> QED BY <6>1, <6>2, Zenon DEF AppCreated
        <5>2. AppStart => same
          BY <2>1, SMT DEF AppStart, AppTasks
        <5>3. AppStarted => same
          BY <2>1, SMT DEF AppStarted, AppTasks
        <5>4. AppStop => same
          BY <2>1, SMT DEF AppStop, AppTasks
        <5>5. AppStopped => same
          BY <2>1, SMT DEF AppStopped, AppTasks
        <5>6. MediaStruck \/ CallConfigured => same
          BY <2>1, SMT DEF MediaStruck, CallConfigured, AppTasks
        <5> QED BY <3>2, <5>1, <5>2, <5>3, <5>4, <5>5, <5>6
      <4> QED BY <2>2, <4>1
    <3>3. CASE AppDrops
      <4> DEFINE kept == app.dsync /\ (Head(app.todo) # "DECODER_STOPPED" \/ ~Heeds)
      <4>1. app' = [app EXCEPT !.dsync = kept, !.todo = Tail(app.todo)]
        BY <3>3 DEF AppDrops
      <4>2. app'.mode = app.mode /\ app'.dec = app.dec
        <5> HIDE DEF kept
        <5> QED BY <2>1, <4>1, SMT DEF AppTasks
      <4> QED BY <2>2, <4>2
    <3>4. CASE DetectOver \/ PromptOver
      BY <2>2, <3>4, SMT DEF DetectOver, PromptOver
    <3> QED BY <2>3, <3>1, <3>2, <3>3, <3>4 DEF AppStep
  <2>4. CASE ServiceStep \/ Outside
    <3>1. CASE DecoderHangs
      <4>1. app.dec # "none" /\ app'.mode = app.mode
        BY <2>1, <3>1, SMT DEF DecoderHangs, AppTasks
      <4> QED BY <2>2, <4>1
    <3>2. CASE MediaFails
      <4>1. app'.mode = app.mode /\ app'.dec = app.dec
        BY <2>1, <3>2, SMT DEF MediaFails, AppTasks
      <4> QED BY <2>2, <4>1
    <3>3. CASE ~DecoderHangs /\ ~MediaFails
      <4>1. app' = app
        BY <2>4, <3>3, SMT DEF ServiceStep, Pauses, PlugSent, RemindEnds,
           Outside, PlugMoves, Key, Records, CallBegins, CallEnds, HfpConnects
      <4> QED BY <2>2, <4>1
    <3> QED BY <3>1, <3>2, <3>3
  <2>5. CASE MainStep
    <3>1. ASSUME NEW ok \in BOOLEAN, CreateMode(ok) \/ Boot(ok) \/ Wake(ok)
          PROVE  Alone'
      BY <2>1, <3>1, BornSilent DEF CreateMode, Boot, Wake, Alone
    <3>2. ASSUME EndModeExit PROVE Alone'
      BY <3>2, Zenon DEF EndModeExit, Killed, NoApp, Alone
    <3>3. ASSUME app' \in {app, Stopped, Started} PROVE Alone'
      <4>1. app'.mode = app.mode /\ app'.dec = app.dec
        BY <2>1, <3>3, SMT DEF Stopped, Started, AppTasks
      <4> QED BY <2>2, <4>1
    <3>4. \/ \E ok \in BOOLEAN : CreateMode(ok) \/ Boot(ok) \/ Wake(ok)
          \/ EndModeExit
          \/ app' \in {app, Stopped, Started}
      BY <2>5, Zenon DEF MainStep, EnterTimeout, ExitTimeout, JitterOver, StartModeExit,
         HandleRequest, HandleCreated, HandleStarted, HandleStopped, HandleFailure,
         HandlePermission, HandleDeepSleep, HandlePaused, HandleIgnored, HandleEnterBtHf
    <3> QED BY <3>1, <3>2, <3>3, <3>4
  <2>6. CASE UNCHANGED vars
    BY <2>2, <2>6 DEF vars
  <2> QED BY <2>3, <2>4, <2>5, <2>6 DEF Next
<1> QED BY <1>1, <1>2, Always1, PTL DEF Spec

\* A step that creates no task leaves the note of the living one alone, or kills it.
LEMMA NoteStays ==
  ASSUME Inv1, [Next]_vars, \A ok \in BOOLEAN : ~(CreateMode(ok) \/ Boot(ok) \/ Wake(ok))
  PROVE  app'.heir = app.heir \/ EndModeExit
<1>1. app \in AppTasks
  BY DEF Inv1, TypeOK
<1> DEFINE same == app'.heir = app.heir
<1>2. CASE AppStep
  <2>1. DecoderCreated \/ DecoderStarted \/ DecoderStopped => same
    <3>1. DecoderCreated => same
      BY <1>1, SMT DEF DecoderCreated, AppTasks
    <3>2. DecoderStarted => same
      BY <1>1, SMT DEF DecoderStarted, AppTasks
    <3>3. DecoderStopped => same
      BY <1>1, SMT DEF DecoderStopped, AppTasks
    <3> QED BY <3>1, <3>2, <3>3
  <2>2. AppCreated => same
    <3>1. ASSUME app' = [app EXCEPT !.st = "Ready"] PROVE same
      BY <1>1, <3>1, SMT DEF AppTasks
    <3>2. ASSUME app' = [app EXCEPT !.st = "Ready", !.dsync = TRUE, !.todo = Tail(@)]
          PROVE  same
      BY <1>1, <3>2, SMT DEF AppTasks
    <3> QED BY <3>1, <3>2, Zenon DEF AppCreated
  <2>3. AppStart => same
    BY <1>1, SMT DEF AppStart, AppTasks
  <2>4. ASSUME AppStarted PROVE same
    <3> DEFINE needs == app.mode # "BtHf"
    <3>1. app' = [app EXCEPT !.st = "Running", !.dsync = needs, !.todo = Tail(app.todo)]
      BY <2>4 DEF AppStarted
    <3> HIDE DEF needs
    <3> QED BY <1>1, <3>1, SMT DEF AppTasks
  <2>5. AppStop => same
    BY <1>1, SMT DEF AppStop, AppTasks
  <2>6. AppStopped => same
    BY <1>1, SMT DEF AppStopped, AppTasks
  <2>7. ASSUME AppDrops PROVE same
    <3> DEFINE kept == app.dsync /\ (Head(app.todo) # "DECODER_STOPPED" \/ ~Heeds)
    <3>1. app' = [app EXCEPT !.dsync = kept, !.todo = Tail(app.todo)]
      BY <2>7 DEF AppDrops
    <3> HIDE DEF kept
    <3> QED BY <1>1, <3>1, SMT DEF AppTasks
  <2>8. DetectOver \/ PromptOver => same
    BY SMT DEF DetectOver, PromptOver
  <2>9. MediaStruck \/ CallConfigured => same
    BY <1>1, SMT DEF MediaStruck, CallConfigured, AppTasks
  <2> QED BY <1>2, <2>1, <2>2, <2>3, <2>4, <2>5, <2>6, <2>7, <2>8, <2>9 DEF AppStep
<1>3. CASE ServiceStep \/ Outside
  <2>1. DecoderHangs \/ MediaFails => same
    BY <1>1, SMT DEF DecoderHangs, MediaFails, AppTasks
  <2>2. ~DecoderHangs /\ ~MediaFails => app' = app
    BY <1>3, SMT DEF ServiceStep, Pauses, PlugSent, RemindEnds,
       Outside, PlugMoves, Key, Records, CallBegins, CallEnds, HfpConnects
  <2> QED BY <2>1, <2>2
<1>4. CASE MainStep
  <2>1. Stopped.heir = app.heir /\ Started.heir = app.heir
    BY <1>1, SMT DEF Stopped, Started, AppTasks
  <2>2. EndModeExit \/ app' \in {app, Stopped, Started}
    BY <1>4, Zenon DEF MainStep, EnterTimeout, ExitTimeout, JitterOver, StartModeExit,
       HandleRequest, HandleCreated, HandleStarted, HandleStopped, HandleFailure,
       HandlePermission, HandleDeepSleep, HandlePaused, HandleIgnored, HandleEnterBtHf
  <2> QED BY <2>1, <2>2
<1>5. CASE UNCHANGED vars
  BY <1>5 DEF vars
<1> QED BY <1>2, <1>3, <1>4, <1>5 DEF Next

\* The stages describe the appliance whenever no answer was left over.
LEMMA AlwaysInStages == Spec => [](app.heir \/ Stages)
<1>1. Init => Stages
  BY SMT DEF Init, Stages
<1>2. Inv1 /\ Alone /\ (app.heir \/ Stages) /\ [Next]_vars => (app.heir \/ Stages)'
  <2> SUFFICES ASSUME Inv1, Alone, app.heir \/ Stages, [Next]_vars
               PROVE  app'.heir \/ Stages'
    OBVIOUS
  <2>1. ASSUME NEW ok \in BOOLEAN, CreateMode(ok) \/ Boot(ok) \/ Wake(ok)
        PROVE  app'.heir \/ Stages'
    BY <2>1, LifeByBirth
  <2>2. ASSUME \A ok \in BOOLEAN : ~(CreateMode(ok) \/ Boot(ok) \/ Wake(ok))
        PROVE  app'.heir \/ Stages'
    <3>1. CASE EndModeExit
      BY <3>1, Elsewhere, Zenon DEF EndModeExit
    <3>2. CASE app'.heir = app.heir /\ app.heir
      BY <3>2
    <3>3. CASE Stages /\ MainStep
      BY <2>2, <3>3, LifeByMain
    <3>4. CASE Stages /\ (AppStep \/ ServiceStep \/ Outside)
      <4>1. InStage => Stages'
        BY <3>4, LifeByApp, LifeByOthers
      <4>2. UNCHANGED MState
        BY <3>4, OnlyTheMainTask
      <4>3. ~InStage => Stages'
        BY <4>2, Elsewhere, Zenon DEF InStage
      <4> QED BY <4>1, <4>3
    <3>5. CASE Stages /\ UNCHANGED vars
      BY <3>5, SameAnswers, LifeGoesOn, SMT DEF vars
    <3> QED BY <2>2, <3>1, <3>2, <3>3, <3>4, <3>5, NoteStays DEF Next
  <2> QED BY <2>1, <2>2
<1> QED BY <1>1, <1>2, Always1, AlwaysAlone, PTL DEF Spec

\* The main task takes a mode to be at work only when that mode's own task has answered
\* STARTED (main_task.c:1098-1135), for every delay of every answer, unless an answer of
\* a dead task stood in the queue when the living one was created: CREATED and STARTED do
\* not say of which mode they are, and that one is taken for an answer of the current mode.
THEOREM WorkIsStarted == Spec => []WorkMeansStarted
<1>1. (app.heir \/ Stages) => WorkMeansStarted
  BY SMT DEF Stages, Working, Task, WorkMeansStarted
<1> QED BY <1>1, AlwaysInStages, PTL

-------------------------------------------------------------------------------
(* The modes take turns: every step of the appliance is a step of ModeLife, or    *)
(* one that ModeLife does not see.  It sees the main task's phase, the current     *)
(* mode and the living task; a step of any other task leaves all three alone.      *)

Booted == at # "boot" => cur \in Modes

LEMMA AvailableIsMode == \A mode, r : CheckModeResource(mode, r) => mode \in Modes
  BY DEF CheckModeResource, Modes

\* What the other tasks do to themselves begins and ends no task.
LEMMA OthersUnseen ==
  ASSUME Inv1, AppStep \/ ServiceStep \/ Outside
  PROVE  UNCHANGED <<Phase, cur, at, Living>>
<1>1. app \in AppTasks
  BY DEF Inv1, TypeOK
<1>2. UNCHANGED <<cur, at, MState>>
  BY SMT DEF AppStep, AppCreated, AppStart, AppStarted, AppStop, AppStopped, AppDrops,
     DecoderCreated, DecoderStarted, DecoderStopped,
     DetectOver, PromptOver, MediaStruck, CallConfigured,
     ServiceStep, Pauses, PlugSent, RemindEnds,
     Outside, PlugMoves, Key, MediaFails, Records, DecoderHangs, CallBegins, CallEnds,
     HfpConnects, mainVars
<1>3. app'.mode = app.mode /\ (HasQueue' <=> HasQueue)
  <2>1. CASE DecoderCreated \/ DecoderStarted \/ DecoderStopped
    BY <1>1, <2>1, DecoderKeepsState DEF HasQueue
  <2>2. \A word : Hears(word) => HasQueue
    BY DEF Hears, Alive, HasQueue
  <2>3. CASE AppCreated
    <3>1. HasQueue /\ app'.st = "Ready" /\ app'.mode = app.mode
      <4>1. CASE app.st = "Creating" /\ app' = [app EXCEPT !.st = "Ready"]
        BY <1>1, <4>1, SMT DEF AppTasks, HasQueue
      <4>2. CASE /\ Hears("DECODER_CREATED")
                 /\ app' = [app EXCEPT !.st = "Ready", !.dsync = TRUE, !.todo = Tail(app.todo)]
        BY <1>1, <2>2, <4>2, SMT DEF AppTasks
      <4> QED BY <2>3, <4>1, <4>2 DEF AppCreated
    <3> QED BY <3>1 DEF HasQueue
  <2>4. CASE AppStart
    <3>1. HasQueue
      BY <2>2, <2>4 DEF AppStart
    <3>2. app'.st = "Starting" /\ app'.mode = app.mode
      BY <1>1, <2>4, SMT DEF AppStart, AppTasks
    <3> QED BY <3>1, <3>2 DEF HasQueue
  <2>5. CASE AppStarted
    <3>1. HasQueue
      BY <2>2, <2>5 DEF AppStarted
    <3>2. app'.st = "Running" /\ app'.mode = app.mode
      BY <1>1, <2>5, SMT DEF AppStarted, AppTasks
    <3> QED BY <3>1, <3>2 DEF HasQueue
  <2>6. CASE AppStop
    <3>1. HasQueue
      BY <2>2, <2>6 DEF AppStop
    <3>2. app'.st = "Stopping" /\ app'.mode = app.mode
      BY <1>1, <2>6, SMT DEF AppStop, AppTasks
    <3> QED BY <3>1, <3>2 DEF HasQueue
  <2>7. CASE AppStopped
    <3>1. HasQueue
      BY <2>2, <2>7 DEF AppStopped
    <3>2. app'.st = "Stopped" /\ app'.mode = app.mode
      BY <1>1, <2>7, SMT DEF AppStopped, AppTasks
    <3> QED BY <3>1, <3>2 DEF HasQueue
  <2>8. CASE AppDrops
    <3> DEFINE kept == app.dsync /\ (Head(app.todo) # "DECODER_STOPPED" \/ ~Heeds)
    <3>1. app' = [app EXCEPT !.dsync = kept, !.todo = Tail(app.todo)]
      BY <2>8 DEF AppDrops
    <3>2. app'.st = app.st /\ app'.mode = app.mode
      <4> HIDE DEF kept
      <4> QED BY <1>1, <3>1, SMT DEF AppTasks
    <3> QED BY <3>2 DEF HasQueue
  <2>9. CASE MediaStruck \/ CallConfigured \/ MediaFails \/ DecoderHangs
    <3>1. app'.st = app.st /\ app'.mode = app.mode
      BY <1>1, <2>9, SMT DEF MediaStruck, CallConfigured, MediaFails, DecoderHangs, AppTasks
    <3> QED BY <3>1 DEF HasQueue
  <2>10. CASE DetectOver \/ PromptOver \/ ServiceStep
    <3>1. app' = app
      BY <2>10, SMT DEF DetectOver, PromptOver, ServiceStep, Pauses, PlugSent, RemindEnds
    <3> QED BY <3>1 DEF HasQueue
  <2>11. CASE Outside /\ ~MediaFails /\ ~DecoderHangs
    <3>1. app' = app
      BY <2>11, SMT DEF Outside, PlugMoves, Key, Records, CallBegins, CallEnds, HfpConnects
    <3> QED BY <3>1 DEF HasQueue
  <2> QED BY <2>1, <2>3, <2>4, <2>5, <2>6, <2>7, <2>8, <2>9, <2>10, <2>11 DEF AppStep
<1> QED BY <1>2, <1>3 DEF Phase, Living
\* What EndModeExit and the wake-up make current is a mode of the table.
LEMMA EndSelectsMode ==
  ASSUME Inv1, SelectModeBeforeEnter
  PROVE  cur' \in Modes /\ at' = "create"
  BY SelectFinds, AvailableIsMode DEF Inv1

LEMMA WakeSelectsMode ==
  ASSUME Inv1, Booted, NEW ok \in BOOLEAN, Wake(ok)
  PROVE  cur' \in Modes
<1>1. cur \in Modes
  BY DEF Wake, Booted
<1>2. NextModeProcess \in Modes
  BY NextModeIsAvailable, AvailableIsMode DEF Inv1
<1>3. cur' \in {"BtPlay", NextModeProcess, cur}
  BY Zenon DEF Wake
<1> QED BY <1>1, <1>2, <1>3, ModeNames

\* The task that is created lives, or its creation failed.
LEMMA BornOrNot ==
  ASSUME NEW mode \in Wanted, NEW ok \in BOOLEAN, app' = Created(mode, ok)
  PROVE  Living' = IF ok THEN {mode} ELSE {}
<1>1. CASE ok
  <2>1. app'.st = "Creating" /\ app'.mode = mode
    BY <1>1, Zenon DEF Created, NewTask
  <2> QED BY <1>1, <2>1 DEF Living, HasQueue
<1>2. CASE ~ok
  <2>1. app'.st = "failed"
    BY <1>2, Zenon DEF Created, NoApp
  <2> QED BY <1>2, <2>1 DEF Living, HasQueue
<1> QED BY <1>1, <1>2

\* An order to the task neither begins nor ends it; a kill ends it.
LEMMA OrderedLives ==
  ASSUME Inv1
  PROVE  /\ app' \in {app, Stopped, Started} => Living' = Living
         /\ app' = Killed => Living' = {}
<1>1. /\ Stopped.mode = app.mode /\ Started.mode = app.mode
      /\ Stopped.st = app.st /\ Started.st = app.st /\ Killed.st = "none"
  BY AppWords DEF Inv1, TypeOK
<1> QED BY <1>1 DEF Living, HasQueue

LEMMA EndTakesTurn ==
  ASSUME Inv1, EndModeExit, at = "recv", MState = "Exit"
  PROVE  Turns!End
<1>1. Phase = "Exit"
  BY DEF Phase
<1>2. Living' = {}
  BY OrderedLives DEF EndModeExit
<1>3. CASE state = "Pausing"
  <2>1. MState' = "Pause" /\ at' \in {"sleep", "recv"} /\ cur' = cur
    BY <1>3 DEF EndModeExit
  <2>2. Phase' \in {"Pause", "sleep"}
    BY <2>1 DEF Phase
  <2> QED BY <1>1, <1>2, <2>1, <2>2 DEF Turns!End
<1>4. CASE state # "Pausing"
  <2>1. cur' \in Modes /\ at' = "create"
    BY <1>4, EndSelectsMode DEF EndModeExit
  <2>2. Phase' = "create"
    BY <2>1 DEF Phase
  <2> QED BY <1>1, <1>2, <2>1, <2>2 DEF Turns!End
<1> QED BY <1>3, <1>4

\* A creation, after the delay, at boot or after a sleep.
LEMMA BirthTakesTurn ==
  ASSUME Inv1, Booted, NEW ok \in BOOLEAN, CreateMode(ok) \/ Boot(ok) \/ Wake(ok)
  PROVE  Turns!Next
<1>1. cur \in Wanted
  BY DEF Inv1, TypeOK
<1>2. CASE CreateMode(ok)
  <2>1. Phase = "create" /\ cur' = cur /\ Phase' = MState'
    BY <1>2 DEF CreateMode, Phase
  <2>2. Living' = IF ok THEN {cur} ELSE {}
    BY <1>1, <1>2, BornOrNot DEF CreateMode
  <2>3. MState' = "Enter" \/ (MState' = "Exit" /\ ~ok)
    BY <1>2, Zenon DEF CreateMode
  <2> QED BY <2>1, <2>2, <2>3
          DEF Turns!Next, Turns!Create, Turns!Begins, Turns!Fails
<1>3. CASE Boot(ok)
  <2>1. Phase = "boot" /\ cur' = Waiting /\ Phase' = MState'
    BY <1>3 DEF Boot, Phase
  <2>2. Living' = IF ok THEN {Waiting} ELSE {}
    BY <1>3, ModesAreWanted, BornOrNot DEF Boot
  <2>3. MState' = "Enter" \/ (MState' = "Exit" /\ ~ok)
    BY <1>3, Zenon DEF Boot
  <2> QED BY <2>1, <2>2, <2>3
          DEF Turns!Next, Turns!Boot, Turns!Begins, Turns!Fails
<1>4. CASE Wake(ok)
  <2>1. Phase = "sleep" /\ Phase' = "Enter"
    BY <1>4 DEF Wake, Phase
  <2>2. cur' \in Modes /\ cur' \in Wanted
    BY <1>4, WakeSelectsMode, ModesAreWanted
  <2>3. app' = Created(cur', ok)
    BY <1>4 DEF Wake
  <2>4. Living' = IF ok THEN {cur'} ELSE {}
    BY <2>2, <2>3, BornOrNot
  <2> QED BY <2>1, <2>2, <2>4 DEF Turns!Next, Turns!Wake, Turns!Begins
<1> QED BY <1>2, <1>3, <1>4

\* A step of the main task that neither begins nor ends a task: it goes from
\* entering to working, starts leaving, or falls asleep, or is not seen.
LEMMA MainTakesTurn ==
  ASSUME Inv1, Books, MainStep,
         \A ok \in BOOLEAN : ~(CreateMode(ok) \/ Boot(ok) \/ Wake(ok))
  PROVE  [Turns!Next]_<<Phase, cur, Living>>
<1>1. ASSUME at = "recv", at' = "recv", cur' = cur, app' \in {app, Stopped, Started},
             \/ MState' = MState
             \/ MState \in {"Enter", "Work"} /\ MState' = "Exit"
             \/ MState = "Enter" /\ MState' = "Work"
      PROVE  [Turns!Next]_<<Phase, cur, Living>>
  <2>1. Living' = Living
    BY <1>1, OrderedLives
  <2>2. Phase = MState /\ Phase' = MState'
    BY <1>1 DEF Phase
  <2> QED BY <1>1, <2>1, <2>2 DEF Turns!Next, Turns!Leave, Turns!Work
<1>2. CASE EnterTimeout \/ JitterOver
  BY <1>1, <1>2 DEF EnterTimeout, JitterOver, StartModeExit, Overdue
<1>3. CASE ExitTimeout
  BY <1>3, EndTakesTurn DEF ExitTimeout, Overdue, Turns!Next
<1>4. ASSUME NEW m, HandleStopped(m)
      PROVE  [Turns!Next]_<<Phase, cur, Living>>
  BY <1>4, EndTakesTurn DEF HandleStopped, Receive, Turns!Next
<1>5. ASSUME NEW m, HandleCreated(m) \/ HandleStarted(m)
      PROVE  [Turns!Next]_<<Phase, cur, Living>>
  <2>1. /\ at = "recv" /\ at' = "recv" /\ cur' = cur /\ app' \in {app, Stopped, Started}
        /\ MState = "Enter" /\ MState' \in {"Enter", "Work", "Exit"}
    BY <1>5, Zenon DEF HandleCreated, HandleStarted, StartModeExit, Receive
  <2> QED BY <1>1, <2>1
<1>6. ASSUME NEW m, HandleFailure(m) \/ HandlePermission(m)
      PROVE  [Turns!Next]_<<Phase, cur, Living>>
  <2>1. /\ at = "recv" /\ at' = "recv" /\ cur' = cur /\ app' \in {app, Stopped}
        /\ MState = "Work" /\ MState' \in {"Work", "Exit"}
    BY <1>6, Zenon DEF HandleFailure, HandlePermission, StartModeExit, Receive
  <2> QED BY <1>1, <2>1
<1>7. ASSUME NEW m, HandleDeepSleep(m)
      PROVE  [Turns!Next]_<<Phase, cur, Living>>
  <2>1. /\ at = "recv" /\ at' = "recv" /\ cur' = cur /\ app' \in {app, Stopped}
        /\ MState' = MState \/ (MState = "Work" /\ MState' = "Exit")
    BY <1>7, Zenon DEF HandleDeepSleep, StartModeExit, Receive
  <2> QED BY <1>1, <2>1
<1>8. ASSUME NEW m, HandleRequest(m) \/ HandleIgnored(m)
      PROVE  [Turns!Next]_<<Phase, cur, Living>>
  <2>1. at = "recv" /\ at' = "recv" /\ cur' = cur /\ app' = app /\ MState' = MState
    BY <1>8, Zenon DEF HandleRequest, HandleIgnored, Receive, mainVars
  <2> QED BY <1>1, <2>1
<1>9. ASSUME NEW m, NEW linked \in BOOLEAN, HandleEnterBtHf(m, linked)
      PROVE  [Turns!Next]_<<Phase, cur, Living>>
  BY <1>1, <1>9 DEF HandleEnterBtHf, Receive
<1>10. ASSUME NEW m, HandlePaused(m)
       PROVE  [Turns!Next]_<<Phase, cur, Living>>
  <2>1. /\ at = "recv" /\ state = "Pausing" /\ UNCHANGED <<MState, cur, app>>
        /\ at' \in {"recv", "sleep"} /\ (at' = "sleep" => MState \in {"None", "Pause"})
    BY <1>10, Zenon DEF HandlePaused, Receive
  <2>2. CASE at' = "recv"
    BY <1>1, <2>1, <2>2
  <2>3. CASE at' = "sleep"
    <3>1. MState = "Pause"
      BY <2>1, <2>3 DEF Books, ModeBooks
    <3>2. Phase = "Pause" /\ Phase' = "sleep"
      BY <2>1, <2>3, <3>1 DEF Phase
    <3>3. Living' = Living
      BY <2>1, OrderedLives
    <3> QED BY <2>1, <3>2, <3>3 DEF Turns!Next, Turns!Sleep
  <2> QED BY <2>1, <2>2, <2>3
<1> QED BY <1>2, <1>3, <1>4, <1>5, <1>6, <1>7, <1>8, <1>9, <1>10 DEF MainStep

\* From the boot on the current mode is a row of the table, never AppModeIdle.
LEMMA AlwaysBooted == Spec => []Booted
<1>1. Init => Booted
  BY DEF Init, Booted
<1>2. Inv1 /\ Booted /\ [Next]_vars => Booted'
  <2> SUFFICES ASSUME Inv1, Booted, [Next]_vars PROVE Booted'
    OBVIOUS
  <2>1. CASE UNCHANGED <<at, cur>>
    BY <2>1 DEF Booted
  <2>2. ASSUME NEW ok \in BOOLEAN, CreateMode(ok) \/ Boot(ok) \/ Wake(ok)
        PROVE  Booted'
    BY <2>2, WakeSelectsMode, ModeNames DEF CreateMode, Boot, Booted, Waiting
  <2>3. ASSUME EndModeExit, at = "recv" PROVE Booted'
    BY <2>3, EndSelectsMode DEF EndModeExit, Booted
  <2>4. ASSUME NEW m, HandlePaused(m) PROVE Booted'
    BY <2>4 DEF HandlePaused, Receive, Booted
  <2>5. MainStep => \/ UNCHANGED <<at, cur>> \/ (EndModeExit /\ at = "recv")
                    \/ \E ok \in BOOLEAN : CreateMode(ok) \/ Boot(ok) \/ Wake(ok)
                    \/ \E m : HandlePaused(m)
    BY Zenon DEF MainStep, EnterTimeout, JitterOver, ExitTimeout, Overdue, Receive,
       HandleRequest, HandleCreated, HandleStarted, HandleStopped, HandleFailure,
       HandlePermission, HandleDeepSleep, HandleIgnored, HandleEnterBtHf, mainVars
  <2>6. MainStep => Booted'
    BY <2>1, <2>2, <2>3, <2>4, <2>5
  <2>7. AppStep \/ ServiceStep \/ Outside => UNCHANGED <<at, cur>>
    BY OthersUnseen
  <2>8. UNCHANGED vars => UNCHANGED <<at, cur>>
    BY DEF vars
  <2> QED BY <2>1, <2>6, <2>7, <2>8 DEF Next
<1> QED BY <1>1, <1>2, Always1, PTL DEF Spec

\* The modes take turns: a mode's task lives from its creation to the EndModeExit that
\* kills it, alone; appCurrentMode moves only when none lives (main_task.c:1065-1083), and
\* what it moves to is a mode of the table.  Whatever keys, plugs, calls, sleeps, losses,
\* failures and late answers there are, each step of the appliance is one step of ModeLife
\* or is not seen there.
THEOREM LifeOfTheModes == Spec => ModesTakeTurns
<1>1. Init => Turns!Init
  <2> SUFFICES ASSUME Init PROVE Turns!Init
    OBVIOUS
  <2>1. app.st = "none" /\ cur = Idle /\ at = "boot"
    BY Zenon DEF Init, NoApp
  <2> QED BY <2>1, ModeNames DEF Turns!Init, Phase, Living, HasQueue
<1>2. Inv1 /\ Books /\ Booted /\ [Next]_vars => [Turns!Next]_<<Phase, cur, Living>>
  <2> SUFFICES ASSUME Inv1, Books, Booted, [Next]_vars
               PROVE  [Turns!Next]_<<Phase, cur, Living>>
    OBVIOUS
  <2>1. UNCHANGED vars => UNCHANGED <<Phase, cur, Living>>
    BY DEF vars, Phase, Living, HasQueue
  <2> QED BY <2>1, OthersUnseen, BirthTakesTurn, MainTakesTurn DEF Next
<1> QED BY <1>1, <1>2, Always1, AlwaysBooks, AlwaysBooted, PTL
        DEF Spec, ModesTakeTurns, Turns!Spec

\* What follows in ModeLife alone.
LEMMA TurnsMeanOne == Turns!Spec => []Turns!OneAtATime
<1>1. Turns!Init => Turns!OneAtATime
  BY DEF Turns!Init, Turns!OneAtATime
<1>2. Turns!OneAtATime /\ [Turns!Next]_<<Phase, cur, Living>> => Turns!OneAtATime'
  BY ModeNames
  DEF Turns!OneAtATime, Turns!Next, Turns!Boot, Turns!Create, Turns!Wake, Turns!Work,
      Turns!Leave, Turns!End, Turns!Sleep, Turns!Begins, Turns!Fails, Waiting
<1> QED BY <1>1, <1>2, PTL DEF Turns!Spec

\* One mode task at most exists, that of the current mode, and none in the delay that lets
\* the killed one's memory be freed (main_task.c:1037) or in a deep sleep; after the boot
\* appCurrentMode is a row of the table.
THEOREM OneModeAtATime == Spec => []Turns!OneAtATime
  BY LifeOfTheModes, TurnsMeanOne, PTL DEF ModesTakeTurns
===============================================================================
