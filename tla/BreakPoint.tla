----------------------------- MODULE BreakPoint -----------------------------
(***************************************************************************)
(* The power-off memory (breakpoint.c): images of the settings written one *)
(* behind the other into blocks of flash, the search for the newest image, *)
(* the erasing of all blocks when the last one is full, and a power cut    *)
(* between any two calls of the flash driver or in the middle of a write.  *)
(*                                                                         *)
(* An image is a wrapper (magic, block id, size, sub id, CRC) and the      *)
(* settings.  A write that is cut short has its wrapper but not all of its *)
(* settings: its CRC is wrong.  Every image has the same size: a changed   *)
(* BP_INFO needs a new program.  Not modelled: writes the driver refuses,  *)
(* and the play times kept in battery-backed memory.                       *)
(***************************************************************************)
EXTENDS Naturals, Sequences

CONSTANTS
    Settings,  \* contents of bp_info
    Default,   \* sInitSysInfo and its companions
    Blocks,    \* NVM_BAK_CNT
    Subs,      \* NVM_SUB_BAK_CNT, images in a block
    Blank, Torn

ASSUME SizesAssumption == Blocks \in Nat \ {0, 1} /\ Subs \in Nat \ {0, 1}
ASSUME SettingsAssumption == Default \in Settings /\ {Blank, Torn} \cap Settings = {}

VARIABLES
    image,  \* image[b][s]: Blank, or the wrapper's ids and the settings
    info,   \* bp_info in RAM
    calls   \* calls of the flash driver still to be made
VARIABLES            \* history, read by the properties only
    saved,   \* the settings of the last save that was completed
    left     \* what an erase cut short left: "nothing", the blocks at the "end",
             \* or "pieces" with blank blocks between them

vars == <<image, info, calls, saved, left>>

Block == 1 .. Blocks
Sub == 1 .. Subs
Image == [id : Block, sub : Sub, value : Settings \cup {Torn}]
ASSUME BlankAssumption == Blank \notin Image
Erase(b) == [call |-> "erase", block |-> b]
Write(b, s, v) == [call |-> "write", block |-> b, sub |-> s, value |-> v]
Call == [call : {"erase"}, block : Block]
        \cup [call : {"write"}, block : Block, sub : Sub, value : Settings]

TypeOK ==
    /\ image \in [Block -> [Sub -> Image \cup {Blank}]]
    /\ info \in Settings /\ saved \in Settings
    /\ calls \in Seq(Call)
    /\ left \in {"nothing", "end", "pieces"}

-----------------------------------------------------------------------------
(* FindLatestBPBak *)

First(S) == CHOOSE n \in S : \A m \in S : n <= m
Last(S) == CHOOSE n \in S : \A m \in S : n >= m

\* Blocks whose first image has the magic, and the last image of the run there.
UsedIn(im) == {b \in Block : im[b][1] # Blank}
NewestOf(run) == run[Last({s \in Sub : \A t \in 1 .. s : run[t] # Blank})]
Place(b, s) == [block |-> b, sub |-> s]

\* A slip of LatestIn: blocks that are being filled again are not told from the rest.
LatestInHighest(im) ==
    LET used == UsedIn(im)
        newest == [b \in used |-> NewestOf(im[b])]
        room == {b \in used : newest[b].sub < Subs}
        highest == Last({b \in used : \A c \in used : newest[c].id <= newest[b].id})
    IN  IF room # {} THEN Place(First(room), newest[First(room)].sub)
        ELSE Place(highest, newest[highest].sub)

\* The newest image: in the first block with room; else in the block with the
\* highest id; but when that is the last block and others are blank, in the block
\* before the first blank one: they are being filled again.
LatestIn(im) ==
    LET used == UsedIn(im)
        newest == [b \in used |-> NewestOf(im[b])]
        room == {b \in used : newest[b].sub < Subs}
        highest == Last({b \in used : \A c \in used : newest[c].id <= newest[b].id})
        blank == Block \ used
    IN  IF room # {} THEN Place(First(room), newest[First(room)].sub)
        ELSE IF highest = Blocks /\ 1 \in used /\ blank # {}
             THEN Place(First(blank) - 1, Subs)
             ELSE Place(highest, newest[highest].sub)

-----------------------------------------------------------------------------
(* The calls a save makes (SaveBPInfoToFlash, SaveBakBPInfo). *)

\* A slip of EraseAll: the last block first.
EraseAllDown == [b \in Block |-> Erase(Blocks + 1 - b)]

EraseAll == [b \in Block |-> Erase(b)]

\* A slip of NextSlot: the number of slots is taken one too high.
NextSlotPastEnd ==
    IF UsedIn(image) = {} THEN Place(1, 1)
    ELSE LET latest == LatestIn(image)
         IN  IF latest.sub <= Subs THEN Place(latest.block, latest.sub + 1)
             ELSE IF NewestOf(image[latest.block]).id < Blocks THEN Place(latest.block + 1, 1)
             ELSE Place(1, 1)

\* The slot behind the newest image; behind the last one, the first one again.
NextSlot ==
    IF UsedIn(image) = {} THEN Place(1, 1)
    ELSE LET latest == LatestIn(image)
         IN  IF latest.sub < Subs THEN Place(latest.block, latest.sub + 1)
             ELSE IF NewestOf(image[latest.block]).id < Blocks THEN Place(latest.block + 1, 1)
             ELSE Place(1, 1)

\* Before the first image of a block that is not blank, every block is erased.
SaveCalls(v) ==
    LET next == NextSlot
    IN  (IF next.sub = 1 /\ next.block \in UsedIn(image) THEN EraseAll ELSE <<>>)
        \o <<Write(next.block, next.sub, v)>>

-----------------------------------------------------------------------------
(* What a start loads (LoadBPInfoFromFlash, LoadBakBPInfo). *)

ValueAt(im, place) == im[place.block][place.sub].value

\* When the newest image fails its CRC, the last slot of every block is tried, from
\* the block of that image on.  A torn one is passed over; the size read from a
\* blank one is not that of BP_INFO, so LoadBakBPInfo erases every block.  Torn
\* stands for "no image could be loaded".
Fallback(im, block) ==
    LET tried == [i \in 1 .. Blocks |-> im[((block + i - 2) % Blocks) + 1][Subs]]
        decided == {i \in 1 .. Blocks : tried[i] = Blank \/ tried[i].value # Torn}
    IN  IF decided = {} \/ tried[First(decided)] = Blank THEN Torn
        ELSE tried[First(decided)].value

\* A slip of LoadedFrom: the first image of the newest image's block is read.
LoadedFromBlockHead(im) ==
    IF UsedIn(im) = {} THEN Torn
    ELSE LET latest == LatestIn(im)
         IN  IF ValueAt(im, latest) # Torn THEN ValueAt(im, Place(latest.block, 1))
             ELSE Fallback(im, latest.block)

LoadedFrom(im) ==
    IF UsedIn(im) = {} THEN Torn
    ELSE LET latest == LatestIn(im)
         IN  IF ValueAt(im, latest) # Torn THEN ValueAt(im, latest)
             ELSE Fallback(im, latest.block)

\* The calls a start makes: none when an image was loaded; otherwise the blocks
\* are erased, unless there is nothing in them, and the defaults are saved.
LoadCalls(im) ==
    IF LoadedFrom(im) # Torn THEN <<>>
    ELSE (IF UsedIn(im) = {} THEN <<>> ELSE EraseAll) \o <<Write(1, 1, Default)>>

-----------------------------------------------------------------------------
Idle == calls = <<>>

\* BP_SaveInfo(0): the device service saves what the tasks wrote into bp_info.
SaveInfo(v) ==
    /\ Idle
    /\ info' = v
    /\ calls' = SaveCalls(v)
    /\ UNCHANGED <<image, saved, left>>

BlankBlock == [s \in Sub |-> Blank]
Done(c) ==
    IF c.call = "erase" THEN [image EXCEPT ![c.block] = BlankBlock]
    ELSE [image EXCEPT ![c.block][c.sub] =
             [id |-> c.block, sub |-> c.sub, value |-> c.value]]

FlashStep ==
    /\ ~Idle
    /\ image' = Done(Head(calls))
    /\ calls' = Tail(calls)
    /\ saved' = IF Tail(calls) = <<>> THEN info ELSE saved
    /\ left' = IF Head(calls) = Erase(Blocks) THEN "nothing" ELSE left
    /\ UNCHANGED info

LeftIn(used) ==
    IF used = {} THEN "nothing"
    ELSE IF \A b \in used : b = Blocks \/ b + 1 \in used THEN "end" ELSE "pieces"

\* The power fails, perhaps in the middle of a write: BP_LoadInfo at the next start.
PowerCut ==
    /\ \/ image' = image
       \/ /\ ~Idle /\ Head(calls).call = "write"
          /\ image' = Done([Head(calls) EXCEPT !.value = Torn])
    /\ info' = IF LoadedFrom(image') = Torn THEN Default ELSE LoadedFrom(image')
    /\ calls' = LoadCalls(image')
    /\ saved' = info'
    /\ left' = IF ~Idle /\ Head(calls).call = "erase" /\ 1 \notin UsedIn(image)
               THEN LeftIn(UsedIn(image)) ELSE left

Init ==
    /\ image = [b \in Block |-> BlankBlock]
    /\ info = Default /\ saved = Default
    /\ calls = <<Write(1, 1, Default)>>
    /\ left = "nothing"

Next == FlashStep \/ PowerCut \/ \E v \in Settings : SaveInfo(v)

Spec == Init /\ [][Next]_vars

-----------------------------------------------------------------------------
(* Properties. *)

AllFull == \A b \in Block : image[b][Subs] # Blank

\* Between saves a restart loads what was saved last.  The exceptions are those the
\* code has.  When an erase was cut short, the blocks at the end keep older images;
\* once the blocks before them are full again, the image of the last block passes
\* for the newest.  When another erase was cut short before that, older images lie
\* in pieces, and the first piece that is reached passes for the newest.
Misread == left = "pieces" \/ (left = "end" /\ AllFull)
NewestIsLoaded == (Idle /\ ~Misread) => LoadedFrom(image) = saved

\* Erasing the full blocks loses nothing before the last of them is erased: what a
\* restart would load stays what it was.
NewestIsWhole(im) == UsedIn(im) # {} /\ ValueAt(im, LatestIn(im)) # Torn
ErasesNotLast == ~Idle /\ calls' = Tail(calls) /\ Head(calls) \in {Erase(b) : b \in 1 .. Blocks - 1}
EraseKeepsNewest ==
    [][(ErasesNotLast /\ NewestIsWhole(image)) => LoadedFrom(image') = LoadedFrom(image)]_vars

\* When the newest image is whole after a power cut, it holds the settings of the last
\* save that was completed, never older ones: the first time an erase is cut short too,
\* and while the blocks are filled again until all are full.
Erasing == ~Idle /\ Head(calls).call = "erase"
NothingOlderComesBack ==
    [][(PowerCut /\ NewestIsWhole(image') /\ (left = "nothing" \/ ~(Misread' \/ Erasing)))
           => info' = saved]_vars

\* "If exporting an image fails, export the other images in order until one
\* succeeds or all were tried" (breakpoint.c): an intact last image is found.
FallbackFindsImage ==
    (\E b \in Block : image[b][Subs] # Blank /\ image[b][Subs].value # Torn)
        => LoadedFrom(image) # Torn
=============================================================================
