----------------------------- MODULE BtHandsFree -----------------------------
(***************************************************************************)
(* Entering and leaving the hands-free mode: EnterBtHfMode and ExitBtHfMode *)
(* of apps/bt_hf_mode.c, called by the Bluetooth stack task and by the main *)
(* task, and what the hands-free mode's own task does to the same flags.    *)
(* Each operator takes the queue, the flags and hf as its caller left them. *)
(***************************************************************************)
EXTENDS SharedState

NoCall == [g |-> FALSE, enter |-> FALSE, exit |-> FALSE, list |-> FALSE]

\* linked: the link is up and no prompt announces the connection.  Otherwise the
\* remind service asks again, by ENTER_BTHF_MODE, when the prompt has ended.
\* gHfFuncState, which a call during an exit sets and ExitBtHfMode clears, has no
\* other reader and is left out.
EnterBtHfMode(q, linked) ==
  LET enters == linked /\ ~hf.exit /\ cur # "BtHf" /\ ~hf.enter IN
  /\ flags' = IF linked THEN flags ELSE flags \cup {"DelayEnterBtHf"}
  /\ ready' = IF enters THEN ready \cup {"BtHf"} ELSE ready
  /\ mainQ' = IF enters THEN Sent(q, Message("BTHF_IN")) ELSE q
  /\ hf'    = [hf EXCEPT !.enter = @ \/ enters]

\* Not before the mode has finished its initialisation: until then the exit is
\* kept in BtHfModeEixtList.
ExitBtHfMode(q, fl, h) ==
  LET leaves == ~h.exit /\ cur = "BtHf" /\ HasQueue /\ ~h.enter
      later  == ~h.exit /\ ~leaves /\ (cur = "BtHf" \/ h.enter) IN
  /\ flags' = fl \ {"DelayEnterBtHf"}
  /\ ready' = IF leaves THEN ready \ {"BtHf"} ELSE ready
  /\ mainQ' = IF leaves THEN Sent(q, Message("BTHF_OUT")) ELSE q
  /\ hf'    = [h EXCEPT !.exit = @ \/ leaves, !.list = @ \/ later]

\* A slip of RunConfig that forgets a kept exit.
RunConfigForgets ==
  /\ hf' = [hf EXCEPT !.enter = FALSE, !.list = FALSE]
  /\ UNCHANGED <<ready, mainQ>>

\* MSG_BT_HF_MODE_RUN_CONFIG: the initialisation is over; a kept exit is made
\* good.
RunConfig ==
  /\ ready' = IF hf.list THEN ready \ {"BtHf"} ELSE ready
  /\ mainQ' = IF hf.list THEN Sent(mainQ, Message("BTHF_OUT")) ELSE mainQ
  /\ hf'    = [hf EXCEPT !.enter = FALSE, !.exit = @ \/ hf.list, !.list = FALSE]

\* A slip of AtKill that leaves the flags to the next entry.
AtKillKeeps == hf

\* BtHfEntrance forgets a kept exit; BtHfKill clears both exit flags.  Neither
\* touches BtHfModeEnterFlag.
AtEntrance == IF app.mode = "BtHf" THEN [hf EXCEPT !.list = FALSE] ELSE hf
AtKill     == IF app.mode = "BtHf" /\ app.st # "none"
                THEN [hf EXCEPT !.exit = FALSE, !.list = FALSE] ELSE hf
===============================================================================
