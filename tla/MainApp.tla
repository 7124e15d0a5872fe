------------------------------- MODULE MainApp -------------------------------
(***************************************************************************)
(* The main task: apps/main_task.c.  One step takes one message from the    *)
(* queue and does all the code does for it; the task is preempted, so the   *)
(* other tasks step in between, and where it sleeps in the middle of a      *)
(* handler (the delay before ModeCreate, the deep sleep) the handler is two *)
(* steps.                                                                   *)
(*                                                                          *)
(* The mode timer is not a variable: its protection times (5 s to enter,    *)
(* 3 s to leave) matter only when no answer comes, its 50 ms of jitter only *)
(* while target differs from cur in Work.  The guards of Overdue and        *)
(* JitterOver say when it may have run out.                                 *)
(***************************************************************************)
EXTENDS ModeTask

\* Backup first; otherwise what follows the current mode.  (The code takes a
\* mode as argument and does not use it.)
NextModeProcess ==
  IF backup # Idle
    THEN IF CheckModeResource(backup, ready) THEN backup ELSE NextAppMode(backup, ready)
    ELSE NextAppMode(cur, ready)

-------------------------------------------------------------------------------
(* MsgProcessModeResource: a message that asks for another mode, and what it *)
(* makes of target, backup, the playback flag and gEnterBtHfMode.            *)

NoRequest     == [target |-> target, backup |-> backup, play |-> FALSE, g |-> hf.g]
Request(t, b) == [NoRequest EXCEPT !.target = t, !.backup = b]
KeepCur       == IF cur = Waiting THEN backup ELSE cur

\* Last in, first played, except during a recording, a playback or a call.
PlugInAsked(p) ==
  LET mode == FindModeByPlugInMsg(p, ready) IN
  IF /\ flags \cap {"Recording", "Playback"} = {}
     /\ cur \notin {"BtHf", "BtRecord", "UsbDevice", "UsbPhone", "Rest"}
     /\ mode \notin {target, Waiting}
    THEN Request(mode, KeepCur) ELSE NoRequest

\* A slip of PlugOutAsked that leaves the decision to the target of before.
PlugOutIgnored == NoRequest

PlugOutAsked ==
  IF CheckModeResource(cur, ready) THEN NoRequest ELSE Request(NextModeProcess, backup)

CallInAsked ==
  IF cur # "BtHf" /\ ~hf.g THEN [Request("BtHf", cur) EXCEPT !.g = TRUE] ELSE NoRequest

CallOutAsked ==
  IF cur = "BtHf" /\ hf.g
    THEN [Request(IF backup \notin {Idle, "BtHf"} THEN backup ELSE "BtPlay", backup)
            EXCEPT !.g = FALSE]
    ELSE NoRequest

ModeKeyAsked ==
  LET mode == NextModeProcess IN
  IF cur = "BtHf" \/ mode = target THEN NoRequest
  ELSE Request(mode, IF mode = backup THEN Idle ELSE backup)

PlayBackAsked ==
  IF cur \in PlayBackModes /\ backup # Idle THEN Request(NextModeProcess, backup)
  ELSE IF cur \in {"Rest", "BtHf"} THEN NoRequest
  ELSE IF CheckModeResource("UDiskPlayBack", ready)
    THEN [Request("UDiskPlayBack", KeepCur) EXCEPT !.play = TRUE]
  ELSE IF CheckModeResource("CardPlayBack", ready)
    THEN [Request("CardPlayBack", KeepCur) EXCEPT !.play = TRUE]
  ELSE NoRequest

\* MSG_RTC_ALARMING: the alarm is to sound in the Rest mode, also during a call.
AlarmAsked ==
  IF target = "Rest" THEN NoRequest
  ELSE Request("Rest", IF backup = "Rest" THEN Idle ELSE backup)

Requests == {"IN", "OUT", "MODE", "REC_PLAYBACK", "BTHF_IN", "BTHF_OUT", "ALARM"}

MsgProcessModeResource(m) ==
  CASE m.id = "IN"           -> PlugInAsked(m.of)
    [] m.id = "OUT"          -> PlugOutAsked
    [] m.id = "MODE"         -> ModeKeyAsked
    [] m.id = "REC_PLAYBACK" -> PlayBackAsked
    [] m.id = "BTHF_IN"      -> CallInAsked
    [] m.id = "BTHF_OUT"     -> CallOutAsked
    [] m.id = "ALARM"        -> AlarmAsked

\* A slip of Asked that asks for a mode during the boot prompt too.
AskedAlways(m) == MsgProcessModeResource(m)

\* Not while the Waiting mode must finish the boot prompt and the device scan.
Asked(m) == IF Waits THEN NoRequest ELSE MsgProcessModeResource(m)

-------------------------------------------------------------------------------
(* Entering and leaving a mode. *)

\* ModeStateSet(ModeStop), ModeStateSet(ModeStart): a message to the mode's task.
Stopped == IF HasQueue THEN [app EXCEPT !.todo = Append(@, "STOP")] ELSE app
Started == IF HasQueue THEN [app EXCEPT !.todo = Append(@, "START")] ELSE app

StartModeExit == MState' = "Exit" /\ app' = Stopped

\* A slip of Selected that trusts the target it finds.
SelectedUnchecked ==
  [t |-> target, b |-> IF backup = target THEN Idle ELSE backup]

\* "Confirm the source again": the target may have lost its source since it was
\* chosen.
Selected ==
  IF ~CheckModeResource(target, ready) THEN [t |-> NextModeProcess, b |-> Idle]
  ELSE [t |-> target,
        b |-> IF ~CheckModeResource(backup, ready) \/ backup = target THEN Idle
                                                                      ELSE backup]

\* The mode SelectModeBeforeEnter enters; the boot prompt holds it in Waiting.
SelectModeBeforeEnter ==
  LET s    == Selected
      held == "WaitSysRemind" \in flags /\ s.t # Waiting
  IN /\ target' = IF held THEN Waiting ELSE s.t
     /\ cur' = target'
     /\ backup' = IF held /\ ~ModeResumeMask(cur) THEN s.t ELSE s.b
     /\ at' = "create"

\* Both services are paused and no mode is left: the task goes to sleep.
AllPaused(paused) == paused = Services

\* A slip of Killed that leaves the task to itself.
KilledNever == app

\* ModeStateSet(ModeKill)
Killed == [NoApp EXCEPT !.mode = app.mode]

\* EndModeExit: the mode's task is killed, then either the next mode is chosen or
\* the way is free to sleep.
EndModeExit ==
  /\ app' = Killed
  /\ hf' = AtKill
  /\ flags' = flags \ {"Recording", "Playback"}
  /\ UNCHANGED <<ready, state, sync>>
  /\ IF state = "Pausing"
       THEN /\ MState' = "Pause"
            /\ at' = IF AllPaused(sync) THEN "sleep" ELSE "recv"
            /\ UNCHANGED <<cur, target, backup>>
       ELSE /\ MState' = "Exit"
            /\ SelectModeBeforeEnter

\* xTaskCreate and the mode's Init: both fail for want of memory.
Created(mode, ok) ==
  IF ok THEN NewTask(mode)
        ELSE [NoApp EXCEPT !.mode = mode, !.st = "failed", !.heir = Owing(mainQ)]

CanFail(ok) == IF ok THEN acts' = acts ELSE Act("createfail")

\* After the delay that lets the idle task free the killed task's memory.  The
\* failure to create Waiting is not looked at.
CreateMode(ok) ==
  /\ at = "create" /\ at' = "recv"
  /\ CanFail(ok)
  /\ app' = Created(cur, ok)
  /\ IF ok \/ cur = Waiting
       THEN MState' = "Enter" /\ mainQ' = mainQ
       ELSE MState' = "Exit" /\ mainQ' = Sent(mainQ, Message("NEXT_MODE"))
  /\ UNCHANGED <<state, cur, target, backup, sync, ready, flags, svc, plug, hf>>

\* The tail of MainAppServiceStarting: the last service has started.
Boot(ok) ==
  /\ at = "boot" /\ at' = "recv"
  /\ CanFail(ok)
  /\ flags' = flags \cup WaitModeMask
  /\ cur' = Waiting /\ target' = Waiting
  /\ app' = Created(Waiting, ok)
  /\ IF ok
       THEN MState' = "Enter" /\ state' = "Running" /\ mainQ' = mainQ
       ELSE /\ MState' = "Exit" /\ state' = state
            /\ mainQ' = Sent(mainQ, Message("NEXT_MODE"))
  /\ UNCHANGED <<backup, sync, ready, svc, plug, hf>>

-------------------------------------------------------------------------------
(* One message. *)

Receive(m) ==
  /\ at = "recv" /\ mainQ # <<>> /\ m = Head(mainQ)

Taken == mainQ' = Tail(mainQ)

\* A running or a pausing appliance; a ready one throws its messages away.
Runs == state \in {"Running", "Pausing"}

HandleRequest(m) ==
  /\ Receive(m) /\ Runs /\ m.id \in Requests
  /\ Taken
  /\ LET r == Asked(m) IN
     /\ target' = r.target /\ backup' = r.backup
     /\ flags' = IF r.play THEN flags \cup {"Playback"} ELSE flags
     /\ hf' = [hf EXCEPT !.g = r.g]
  /\ UNCHANGED <<state, MState, cur, sync, at, ready, app, svc, plug, acts>>

\* A CREATED or a STARTED of any mode answers for the current one.
GoesOn == state # "Pausing" /\ (cur = target \/ Waits)

\* A slip of HandleCreated that starts the mode and does not wait for it.
HandleCreatedWorks(m) ==
  /\ Receive(m) /\ Runs /\ MState = "Enter" /\ m.id = "CREATED"
  /\ Taken
  /\ IF GoesOn THEN app' = Started /\ MState' = "Work" ELSE StartModeExit
  /\ UNCHANGED <<state, cur, target, backup, sync, at, ready, flags, svc, plug, hf, acts>>

HandleCreated(m) ==
  /\ Receive(m) /\ Runs /\ MState = "Enter" /\ m.id = "CREATED"
  /\ Taken
  /\ IF GoesOn THEN app' = Started /\ UNCHANGED MState ELSE StartModeExit
  /\ UNCHANGED <<state, cur, target, backup, sync, at, ready, flags, svc, plug, hf, acts>>

HandleStarted(m) ==
  /\ Receive(m) /\ Runs /\ MState = "Enter" /\ m.id = "STARTED"
  /\ Taken
  /\ IF GoesOn THEN MState' = "Work" /\ UNCHANGED app ELSE StartModeExit
  /\ UNCHANGED <<state, cur, target, backup, sync, at, ready, flags, svc, plug, hf, acts>>

HandleStopped(m) ==
  /\ Receive(m) /\ Runs /\ MState = "Exit" /\ m.id \in {"STOPPED", "NEXT_MODE"}
  /\ Taken
  /\ EndModeExit
  /\ UNCHANGED <<svc, plug, acts>>

\* MSG_MEDIA_PLAY_MODE_FAILURE: the medium cannot be played.
HandleFailure(m) ==
  /\ Receive(m) /\ Runs /\ MState = "Work" /\ m.id = "FAILURE"
  /\ Taken
  /\ target' = NextModeProcess
  /\ StartModeExit
  /\ UNCHANGED <<state, cur, backup, sync, at, ready, flags, svc, plug, hf, acts>>

\* MSG_WAITING_PERMISSION_MODE and AfterWaitingMode: Waiting is over if some mode
\* can be entered, the remembered one first.
HandlePermission(m) ==
  /\ Receive(m) /\ Runs /\ MState = "Work" /\ m.id = "PERMISSION"
  /\ Taken
  /\ target' = IF backup # Idle THEN NextModeProcess ELSE FindPriorityMode(ready)
  /\ IF target' # Waiting THEN StartModeExit ELSE UNCHANGED <<MState, app>>
  /\ UNCHANGED <<state, cur, backup, sync, at, ready, flags, svc, plug, hf, acts>>

\* MSG_DEEPSLEEP and MainAppServicePause.  A call is left first.
HandleDeepSleep(m) ==
  /\ Receive(m) /\ m.id = "DEEPSLEEP"
  /\ IF cur = "BtHf" /\ "BtHfDelayEnterSleep" \notin flags
       THEN ExitBtHfMode(Tail(mainQ), flags \cup {"BtHfDelayEnterSleep"},
                         [hf EXCEPT !.g = FALSE])
       ELSE Taken /\ UNCHANGED <<ready, flags, hf>>
  /\ IF state = "Running"
       THEN /\ state' = "Pausing" /\ sync' = {}
            /\ svc' = [s \in Services |-> [svc[s] EXCEPT !.box = Append(@, "PAUSE")]]
            /\ IF MState = "Work" THEN StartModeExit ELSE UNCHANGED <<MState, app>>
       ELSE UNCHANGED <<state, sync, svc, MState, app>>
  /\ UNCHANGED <<cur, target, backup, at, plug, acts>>

\* A slip of HandlePaused that forgets to wait for the mode.
HandlePausedNoMode(m) ==
  /\ Receive(m) /\ state = "Pausing" /\ m.id = "PAUSED"
  /\ Taken
  /\ sync' = sync \cup {m.of}
  /\ at' = IF AllPaused(sync') THEN "sleep" ELSE at
  /\ UNCHANGED <<state, MState, cur, target, backup, ready, flags, app, svc, plug, hf, acts>>

\* A slip of HandlePaused that forgets the service that paused before.
HandlePausedForgets(m) ==
  /\ Receive(m) /\ state = "Pausing" /\ m.id = "PAUSED"
  /\ Taken
  /\ sync' = {m.of}
  /\ at' = IF AllPaused(sync') /\ MState \in {"None", "Pause"} THEN "sleep" ELSE at
  /\ UNCHANGED <<state, MState, cur, target, backup, ready, flags, app, svc, plug, hf, acts>>

\* MainAppServicePausing
HandlePaused(m) ==
  /\ Receive(m) /\ state = "Pausing" /\ m.id = "PAUSED"
  /\ Taken
  /\ sync' = sync \cup {m.of}
  /\ at' = IF AllPaused(sync') /\ MState \in {"None", "Pause"} THEN "sleep" ELSE at
  /\ UNCHANGED <<state, MState, cur, target, backup, ready, flags, app, svc, plug, hf, acts>>

\* MSG_DEVICE_SERVICE_ENTER_BTHF_MODE; the link may be lost again by then.
HandleEnterBtHf(m, linked) ==
  /\ Receive(m) /\ m.id = "ENTER_BTHF"
  /\ IF linked THEN acts' = acts ELSE Act("call")
  /\ EnterBtHfMode(Tail(mainQ), linked)
  /\ UNCHANGED <<state, MState, cur, target, backup, sync, at, app, svc, plug>>

\* Every other message: an answer that comes in no state that waits for it.
Ignored(m) ==
  \/ m.id \in Requests /\ ~Runs
  \/ m.id \in {"CREATED", "STARTED"} /\ ~(Runs /\ MState = "Enter")
  \/ m.id \in {"STOPPED", "NEXT_MODE"} /\ ~(Runs /\ MState = "Exit")
  \/ m.id \in {"FAILURE", "PERMISSION"} /\ ~(Runs /\ MState = "Work")
  \/ m.id = "PAUSED" /\ state # "Pausing"

HandleIgnored(m) ==
  /\ Receive(m) /\ Ignored(m)
  /\ Taken
  /\ UNCHANGED <<mainVars, ready, flags, app, svc, plug, hf, acts>>

-------------------------------------------------------------------------------
(* The mode timer. *)

\* The mode's task or its decoder is still at work on what it was told.
Answering ==
  \/ app.todo # <<>>
  \/ app.dec \notin {"none", "hung"} /\ (app.dec = "Creating" \/ app.orders # <<>>)
  \/ app.mode = "BtHf" /\ app.st = "Creating"

\* A slip of Overdue: the timer protects the way in and is not set on the way out.
OverdueOnEnter == at = "recv" /\ Runs /\ MState = "Enter" /\ ~Answering

\* An answer that has been given and not yet taken.
Answered == \E i \in DOMAIN mainQ : mainQ[i].id \in {"CREATED", "STARTED", "STOPPED", "NEXT_MODE"}

\* The timer is looked at after a receive: what is sent in between, such as a
\* late answer, stays in the queue.
Overdue == at = "recv" /\ Runs /\ (LateAnswers \/ ~(Answered \/ Answering))

EnterTimeout ==
  /\ Overdue /\ MState = "Enter"
  /\ StartModeExit
  /\ UNCHANGED <<state, cur, target, backup, sync, at, ready, flags, mainQ, svc, plug, hf, acts>>

ExitTimeout ==
  /\ Overdue /\ MState = "Exit"
  /\ EndModeExit
  /\ UNCHANGED <<mainQ, svc, plug, acts>>

\* StateAtAppRunning: the request has been quiet for MODE_JITTER_TIME.
JitterOver ==
  /\ at = "recv" /\ Runs
  /\ MState = "Work" /\ cur # target
  /\ StartModeExit
  /\ UNCHANGED <<state, cur, target, backup, sync, at, ready, flags, mainQ, svc, plug, hf, acts>>

-------------------------------------------------------------------------------
\* The wake-up half of MainAppServicePausing.  The mode that was left is entered
\* again without asking for its source, and its creation is not looked at.
Wake(ok) ==
  /\ at = "sleep" /\ at' = "recv"
  /\ CanFail(ok)
  /\ svc' = [s \in Services |-> [svc[s] EXCEPT !.box = Append(@, "RESUME")]]
  /\ LET called  == "BtHfDelayEnterSleep" \in flags
         another == ModeResumeMask(cur) \/ (cur = Waiting /\ ~Waits)
     IN /\ cur' = IF called THEN "BtPlay" ELSE IF another THEN NextModeProcess ELSE cur
        /\ backup' = IF called \/ another THEN Idle ELSE backup
        /\ flags' = flags \ ({"BtHfDelayEnterSleep"}
                             \cup IF another /\ ~called THEN {"Playback"} ELSE {})
  /\ target' = cur'
  /\ app' = Created(cur', ok)
  /\ MState' = "Enter" /\ state' = "Running"
  /\ UNCHANGED <<sync, ready, mainQ, plug, hf>>

MainStep ==
  \/ \E ok \in BOOLEAN : CreateMode(ok) \/ Boot(ok) \/ Wake(ok)
  \/ EnterTimeout \/ ExitTimeout \/ JitterOver
  \/ /\ mainQ # <<>>
     /\ LET m == Head(mainQ) IN
          \/ HandleRequest(m) \/ HandleCreated(m) \/ HandleStarted(m) \/ HandleStopped(m)
          \/ HandleFailure(m) \/ HandlePermission(m) \/ HandleDeepSleep(m)
          \/ HandlePaused(m) \/ HandleIgnored(m)
          \/ \E linked \in BOOLEAN : HandleEnterBtHf(m, linked)
===============================================================================
