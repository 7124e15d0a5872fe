------------------------------ MODULE Appliance ------------------------------
(***************************************************************************)
(* The main task together with the tasks it drives: the task of the current *)
(* mode and its decoder, the device and remind services, the Bluetooth      *)
(* stack's call events, and the user's acts that the device service reports. *)
(***************************************************************************)
EXTENDS MainApp

-------------------------------------------------------------------------------
(* The device and remind services (device_service.c, remind_sound_service.c) *)

Pauses(s) ==
  /\ svc[s].box # <<>>
  /\ (s = "Device") => (plug = NoPlug)
  /\ LET word == Head(svc[s].box) IN
     /\ svc' = [svc EXCEPT ![s] = [st |-> IF word = "PAUSE" THEN "Paused" ELSE "Running",
                                   box |-> Tail(@.box)]]
     /\ mainQ' = IF word = "PAUSE" THEN Sent(mainQ, About("PAUSED", s)) ELSE mainQ
  /\ UNCHANGED <<mainVars, ready, flags, app, plug, hf, acts>>

DeviceRuns == svc["Device"].st = "Running" /\ plug = NoPlug

\* The source is registered or struck off at once; the message follows.
PlugMoves(p) ==
  /\ DeviceRuns /\ at # "boot" /\ Act("plug")
  /\ IF Gives(p) \cap ready = {}
       THEN ready' = ready \cup Gives(p) /\ plug' = About("IN", p)
       ELSE ready' = ready \ Gives(p)    /\ plug' = About("OUT", p)
  /\ UNCHANGED <<mainVars, flags, mainQ, app, svc, hf>>

PlugSent ==
  /\ plug # NoPlug /\ plug' = NoPlug
  /\ mainQ' = Sent(mainQ, plug)
  /\ UNCHANGED <<mainVars, ready, flags, app, svc, hf, acts>>

\* A key the device service reads, or the clock's alarm (RtcStateCtrl).
Key(kind, id) ==
  /\ DeviceRuns /\ at # "boot" /\ Act(kind)
  /\ Says(id)
  /\ UNCHANGED <<mainVars, ready, flags, app, svc, plug, hf>>

\* The end of the connection prompt: the call that waited for it is entered.
RemindEnds ==
  /\ svc["Remind"].st = "Running" /\ "DelayEnterBtHf" \in flags
  /\ flags' = flags \ {"DelayEnterBtHf"}
  /\ Says("ENTER_BTHF")
  /\ UNCHANGED <<mainVars, ready, app, svc, plug, hf, acts>>

ServiceStep == (\E s \in Services : Pauses(s)) \/ PlugSent \/ RemindEnds

-------------------------------------------------------------------------------
(* The Bluetooth stack (bt_hfp_app.c): not while it is killed for a sleep.   *)

CallBegins(linked) ==
  /\ at \notin {"boot", "sleep"} /\ Act("call")
  /\ EnterBtHfMode(mainQ, linked)
  /\ UNCHANGED <<mainVars, app, svc, plug>>

CallEnds ==
  /\ at \notin {"boot", "sleep"} /\ Act("call")
  /\ ExitBtHfMode(mainQ, flags, hf)
  /\ UNCHANGED <<mainVars, app, svc, plug>>

\* MSG_BT_MID_HFP_CONNECTED
HfpConnects ==
  /\ at \notin {"boot", "sleep"} /\ Act("connect")
  /\ hf' = [hf EXCEPT !.g = FALSE]
  /\ UNCHANGED <<mainVars, ready, flags, mainQ, app, svc, plug>>

Outside == \/ \E p \in PlugSet : PlugMoves(p)
           \/ Key("mode", "MODE") \/ Key("playback", "REC_PLAYBACK")
           \/ Key("sleep", "DEEPSLEEP") \/ Key("alarm", "ALARM")
           \/ MediaFails \/ Records \/ DecoderHangs
           \/ (\E linked \in BOOLEAN : CallBegins(linked)) \/ CallEnds \/ HfpConnects

-------------------------------------------------------------------------------
\* The last STARTED of the services is being handled; ResourcePreSet has run.
\* The backup mode is the one remembered from the last power-off, if any.
Init ==
  /\ state = "Ready" /\ MState = "None" /\ at = "boot" /\ sync = {}
  /\ cur = Idle /\ target = Idle
  /\ backup \in {Idle} \cup {ModeLoop[i] : i \in Places}
  /\ ready = {"Dac"} \cup Static
  /\ flags = {} /\ mainQ = <<>> /\ app = NoApp
  /\ svc = [s \in Services |-> [st |-> "Running", box |-> <<>>]]
  /\ plug = NoPlug /\ hf = NoCall /\ acts = 0

Next == MainStep \/ AppStep \/ ServiceStep \/ Outside

Spec == Init /\ [][Next]_vars

\* Every task gets the processor in time: the scheduler is preemptive, and no
\* task of a lower priority is starved for good.  What the user, the medium and
\* the caller do is not promised.
FairSpec ==
  /\ Spec
  /\ WF_vars(MainStep) /\ WF_vars(AppStep) /\ WF_vars(ServiceStep)

-------------------------------------------------------------------------------
AppStates == {"none", "failed", "Creating", "Ready", "Starting", "Running",
              "Stopping", "Stopped"}
DecStates == {"none", "Creating", "Ready", "Running", "Stopped", "hung"}
FlagSet   == {"WaitDetect", "WaitSysRemind", "Playback", "Recording",
              "BtHfDelayEnterSleep", "DelayEnterBtHf"}
PlainIds  == {"MODE", "REC_PLAYBACK", "BTHF_IN", "BTHF_OUT", "CREATED", "STARTED",
              "STOPPED", "NEXT_MODE", "FAILURE", "PERMISSION", "DEEPSLEEP",
              "ENTER_BTHF", "ALARM"}
PlugMsgs  == [id : {"IN", "OUT"}, of : Plugs]
Messages  == [id : PlainIds, of : {"none"}] \cup PlugMsgs
               \cup [id : {"PAUSED"}, of : Services]
Wanted    == Modes \cup {Idle}
Orders    == Seq({"START", "STOP"})
Words     == Seq({"START", "STOP", "DECODER_CREATED", "DECODER_STARTED", "DECODER_STOPPED"})
Notes     == {"fresh", "failing", "failed", "configured"}
AppTasks  == [mode : Wanted, st : AppStates, todo : Words, note : Notes,
              dsync : BOOLEAN, dec : DecStates, orders : Orders, heir : BOOLEAN]
SvcTasks  == [st : {"Running", "Paused"}, box : Seq({"PAUSE", "RESUME"})]
CallFlags == [g : BOOLEAN, enter : BOOLEAN, exit : BOOLEAN, list : BOOLEAN]

\* The values the code gives its variables; the queue is never longer than it is.
TypeOK ==
  /\ state \in {"Ready", "Running", "Pausing"}
  /\ MState \in {"None", "Enter", "Work", "Exit", "Pause"}
  /\ cur \in Wanted /\ target \in Wanted /\ backup \in Wanted
  /\ sync \subseteq Services
  /\ at \in {"boot", "recv", "create", "sleep"}
  /\ ready \subseteq Resources /\ flags \subseteq FlagSet
  /\ mainQ \in Seq(Messages) /\ Len(mainQ) <= MainQLen
  /\ app \in AppTasks /\ svc \in [Services -> SvcTasks]
  /\ plug \in {NoPlug} \cup PlugMsgs
  /\ hf \in CallFlags
  /\ acts \in 0 .. MaxActs

-------------------------------------------------------------------------------
(* Safety. *)

\* Whatever the order of creations, kills, time-outs and sleeps, the mode task
\* that lives is the one of the current mode: EndModeExit kills it before
\* SelectModeBeforeEnter moves appCurrentMode, and ModeKill goes by the latter.
AppIsCurrent == app.st # "none" => app.mode = cur

\* No message, key or plug takes the appliance out of the Waiting mode before the
\* boot prompt and the device scan are over (main_task.c 339-345, 1137).
WaitsHold == Waits => cur = Waiting

\* When MainAppServicePausing puts the chip to sleep, nothing is half done: the
\* mode's task is gone, both services have stopped and owe no message.
SleepIsQuiet ==
  at = "sleep" => /\ app.st = "none" /\ plug = NoPlug
                  /\ \A s \in Services : svc[s] = [st |-> "Paused", box |-> <<>>]

\* The main task takes a mode to be at work only when that mode's own task has
\* answered STARTED (main_task.c 1172-1193), however late the answers of its time
\* and of the modes before it are, unless the task was created over an answer that a
\* dead one left in the queue: that one is taken for its own.
WorkMeansStarted == MState = "Work" /\ ~app.heir => app.st = "Running"

\* SelectModeBeforeEnter never enters a mode whose source has gone, however many
\* plug messages are still on their way.
EntersWithSource ==
  [][at = "recv" /\ at' = "create" => CheckModeResource(cur', ready)]_vars

\* While an exit from hands-free is under way the hands-free mode is the current
\* one and its task exists: the flag that makes ExitBtHfMode and EnterBtHfMode
\* ignore everything cannot outlive the mode it stands for.
ExitInHandsFree == hf.exit => cur = "BtHf" /\ app.st # "none"

-------------------------------------------------------------------------------
(* The life of the modes, as the main task and their tasks live it. *)

\* While the main task waits for a message its phase is MState.
Phase  == IF at = "recv" THEN MState ELSE at
Living == IF HasQueue THEN {app.mode} ELSE {}

Turns == INSTANCE ModeLife
           WITH Names <- Modes, First <- Waiting,
                phase <- Phase, mode <- cur, alive <- Living

\* Whatever is asked, lost, late or fails, the modes take turns as ModeLife says:
\* EndModeExit kills the mode's task before SelectModeBeforeEnter moves
\* appCurrentMode, nothing else ends or begins one, and no key, plug, call or sleep
\* moves appCurrentMode while a task lives (main_task.c 1000-1084).
ModesTakeTurns == Turns!Spec

-------------------------------------------------------------------------------
(* Liveness, when the outside world has gone quiet (it acts at most MaxActs     *)
(* times).                                                                      *)

\* The appliance comes to rest in a mode that works and is the one wanted: no
\* lost answer, time-out, sleep or call leaves it between two modes.
Settles == <>[](state = "Running" /\ MState = "Work" /\ cur = target)

\* It does not rest in a mode whose source was pulled out, even if the message of
\* that came while the mode was being entered or left.
HasSource == <>[](CheckModeResource(cur, ready))

\* What AfterWaitingMode says: the appliance goes on waiting only when there is no
\* suitable mode.
IdlesOnlyWithoutSource == <>[](cur = Waiting => Open(ready) = {})

\* An exit that came before MSG_BT_HF_MODE_RUN_CONFIG and is kept, in the task the
\* main task has created and, the second, in one that has begun: BtHfEntrance clears
\* BtHfModeEixtList (bt_hf_mode.c 1055).
KeptEarly == hf.list /\ app.mode = "BtHf" /\ app.st = "Creating"
KeptExit  == hf.list /\ app.mode = "BtHf" /\ app.st \notin {"none", "failed", "Creating"}

\* A call that ends once BtHfEntrance has begun is left, whether ExitBtHfMode
\* withdrew its resource or kept the exit for the end of the initialisation.  One
\* that ends earlier need not be: ExitKeptEarly.
CallEndIsFollowed ==
  (cur = "BtHf" /\ ("BtHf" \notin ready \/ KeptExit)) ~> cur # "BtHf"

\* What the comments in ExitBtHfMode say of an exit before the mode is initialised
\* (bt_hf_mode.c 1984, 2004): it is kept, and the mode is left when its
\* initialisation is over.
ExitKeptEarly == KeptEarly ~> cur # "BtHf"

===============================================================================
