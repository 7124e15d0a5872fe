------------------------------- MODULE ModeLife -------------------------------
(***************************************************************************)
(* What the main task promises of the modes: they take turns.  A mode is    *)
(* entered, works and is left; its task lives from its beginning to its end *)
(* and no other task lives meanwhile; only when it has ended, in the delay  *)
(* before the next creation or in a deep sleep, does another mode become    *)
(* the current one.                                                         *)
(***************************************************************************)
CONSTANTS Names, First   \* the modes, and the one a start begins with

VARIABLES
  phase,   \* boot, create, Enter, Work, Exit, Pause, sleep
  mode,    \* the current mode
  alive    \* the modes whose task and queue exist

\* A creation that fails is either noticed, and the mode given up at once, or not.
Begins == phase' = "Enter" /\ alive' \in {{}, {mode'}}
Fails  == phase' = "Exit" /\ alive' = {}

Boot   == phase = "boot"   /\ mode' = First /\ (Begins \/ Fails)
Create == phase = "create" /\ mode' = mode  /\ (Begins \/ Fails)
Wake   == phase = "sleep"  /\ mode' \in Names /\ Begins

Work  == phase = "Enter" /\ phase' = "Work" /\ UNCHANGED <<mode, alive>>
Leave == phase \in {"Enter", "Work"} /\ phase' = "Exit" /\ UNCHANGED <<mode, alive>>

\* The task is killed first; then the next mode is chosen, or the way is free to
\* sleep.
End ==
  /\ phase = "Exit" /\ alive' = {}
  /\ \/ phase' = "create" /\ mode' \in Names
     \/ phase' \in {"Pause", "sleep"} /\ mode' = mode

Sleep == phase = "Pause" /\ phase' = "sleep" /\ UNCHANGED <<mode, alive>>

Init == phase = "boot" /\ mode \notin Names /\ alive = {}

Next == Boot \/ Create \/ Wake \/ Work \/ Leave \/ End \/ Sleep

Spec == Init /\ [][Next]_<<phase, mode, alive>>

\* One task at most lives, that of the current mode; none between two modes and
\* none in a deep sleep; and from the boot on there is a current mode.
OneAtATime ==
  /\ alive \subseteq {mode}
  /\ phase \in {"boot", "create", "Pause", "sleep"} => alive = {}
  /\ phase # "boot" => mode \in Names
===============================================================================
