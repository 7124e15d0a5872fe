------------------------------ MODULE ModeSearch ------------------------------
(***************************************************************************)
(* The loops of apps/mode_switch_api.c, step for step, over the content of   *)
(* the resource registry, against what ModeTable says they return.          *)
(***************************************************************************)
EXTENDS ModeTable

VARIABLE ready   \* ModeResourceReady

Has(j)    == ResourcesAppMask[j].need \subseteq ready
PrioOf(j) == ResourcesAppMask[j].prio
InLoop(j) == \E i \in Places : ModeLoop[i] = ResourcesAppMask[j].mode

\* A counted loop: round k makes step[k][v] of the v the rounds before it left.
Rounds(n, start, step) ==
  LET after[k \in 0 .. n] == IF k = 0 THEN start ELSE step[k][after[k - 1]]
  IN  after[n]

\* A slip of Better that lets the first of equals win.
BetterStrict(found, j) == IF PrioOf(found) < PrioOf(j) THEN j ELSE found

\* "FoundLine priority <= this priority": a later line of equal priority wins.
Better(found, j) == IF PrioOf(found) <= PrioOf(j) THEN j ELSE found

\* The inner loop finds the mode's only row.
TryPlace ==
  [i \in Places |->
    [found \in Lines |-> LET j == LineOf(ModeLoop[i])
                         IN  IF Has(j) THEN Better(found, j) ELSE found]]

FindPriorityLoop == ResourcesAppMask[Rounds(N, 1, TryPlace)].mode

TryLine(res) ==
  [j \in Lines |->
    [found \in Lines |->
      IF res \in ResourcesAppMask[j].need /\ Has(j) /\ InLoop(j)
        THEN Better(found, j) ELSE found]]

FindResourceLoop(res) ==
  ResourcesAppMask[Rounds(Len(ResourcesAppMask), 1, TryLine(res))].mode

\* A slip of FirstIndex that starts at the mode itself.
FirstIndexSame(mode) == IF \E i \in Places : ModeLoop[i] = mode
                          THEN (CHOOSE i \in Places : ModeLoop[i] = mode) - 1
                          ELSE 0

\* Index after the first loop of NextAppMode, counted from 0.
FirstIndex(mode) == IF \E i \in Places : ModeLoop[i] = mode
                      THEN CHOOSE i \in Places : ModeLoop[i] = mode
                      ELSE 0

\* The second loop: Index is wrapped before it is used and stepped after.  A mode
\* other than Waiting has been returned.
Searches == [index : 0 .. N, mode : Modes]

TryIndex ==
  [k \in Places |->
    [s \in Searches |->
      LET index == s.index % N IN
      IF s.mode # Waiting THEN s
      ELSE IF CheckModeResource(ModeLoop[index + 1], ready)
        THEN [index |-> index, mode |-> ModeLoop[index + 1]]
        ELSE [index |-> index + 1, mode |-> Waiting]]]

NextAppLoop(mode) ==
  Rounds(N, [index |-> FirstIndex(mode), mode |-> Waiting], TryIndex).mode

-------------------------------------------------------------------------------
\* FindPriorityMode and FindResourceMode return the available mode of highest
\* priority, the last of equals, whatever is registered.
PriorityAgrees ==
  /\ FindPriorityLoop = FindPriorityMode(ready)
  /\ \A res \in Resources : FindResourceLoop(res) = FindResourceMode(res, ready)

\* NextAppMode visits every place of ModeLoop once, wrapping, and stops at the
\* first available mode; it comes back to the mode it started from only when no
\* other is available.
NextAgrees ==
  \A mode \in Modes : NextAppLoop(mode) = NextAppMode(mode, ready)
===============================================================================
