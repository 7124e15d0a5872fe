------------------------------ MODULE FrameSize ------------------------------
(* The change of the frame size: the tuning tool asks for another one, and the *)
(* main task has the audio core stop, the mode give up its buffers, allocates  *)
(* its own anew, has the mode do the same and lets the core go on.  Eight      *)
(* messages between three tasks, which a change of the mode may cross.         *)
EXTENDS Naturals, Sequences

CONSTANTS
  Frames,    \* the frame sizes an effect may ask for
  First,     \* CFG_PARA_SAMPLES_PER_FRAME
  Overlaps,  \* TRUE: the tool's next change may find the last one under way
  MaxActs    \* bound: how often the tool, the user and the medium act

ASSUME FrameAssumption == First \in Frames /\ Overlaps \in BOOLEAN /\ MaxActs \in Nat

NoBuf == "none"

VARIABLES
  main,   \* MState, target # current, SoftFlagFrameSizeChange, in the handler of
          \* MSG_APP_RES_RELEASE_SUC between release and allocation
  mainQ,  \* its messages
  size,   \* mainAppCt.SamplesPreFrame
  tool,   \* gCtrlVars.SamplesPerFrame, IsEffectSampleLenChange, IsEffectChange
  core,   \* serviceState, IsAudioCorePause, IsAudioCorePauseMsgSend, its queue
  app,    \* the mode's task: its state, its queue, the size its buffers have
  acts    \* what the outside has done

vars == <<main, mainQ, size, tool, core, app, acts>>
-----------------------------------------------------------------------------
Received(msg) ==
  /\ ~main.freed /\ mainQ # <<>> /\ Head(mainQ) = msg /\ mainQ' = Tail(mainQ)

ToApp(msg)  == app' = [app EXCEPT !.box = Append(@, msg)]
ToCore(msg) == core' = [core EXCEPT !.box = Append(@, msg)]

\* A slip of FrameSizeChange: it does not wait for the core.
FrameSizeChangeAtOnce ==
  /\ ~main.freed /\ mainQ # <<>> /\ Head(mainQ) = "FRAME"
  /\ main' = [main EXCEPT !.flag = TRUE]
  /\ mainQ' = Append(Tail(mainQ), "PAUSED") /\ ToCore("PAUSE")
  /\ UNCHANGED <<size, tool, app, acts>>

\* MSG_AUDIO_CORE_FRAME_SIZE_CHANGE.  A core that has stopped already is not asked.
FrameSizeChange ==
  /\ ~main.freed /\ mainQ # <<>> /\ Head(mainQ) = "FRAME"
  /\ main' = [main EXCEPT !.flag = TRUE]
  /\ IF core.st = "Paused"
       THEN mainQ' = Append(Tail(mainQ), "PAUSED") /\ UNCHANGED core
       ELSE mainQ' = Tail(mainQ) /\ ToCore("PAUSE")
  /\ UNCHANGED <<size, tool, app, acts>>

\* MSG_AUDIO_CORE_EFFECT_CHANGE.
EffectUpdate ==
  /\ Received("EFFECT")
  /\ IF core.st = "Paused" THEN ToCore("RESUME") ELSE UNCHANGED core
  /\ UNCHANGED <<main, size, tool, app, acts>>

\* MSG_AUDIO_CORE_SERVICE_PAUSED.
ServicePaused ==
  /\ Received("PAUSED") /\ ToApp("RELEASE")
  /\ UNCHANGED <<main, size, tool, core, acts>>

\* MSG_APP_RES_RELEASE_SUC: AudioResRelease, then the new size and AudioResMalloc.
\* The core has the main task's priority and may run between them.
ResRelease ==
  /\ Received("RELEASE_SUC") /\ main' = [main EXCEPT !.freed = TRUE]
  /\ UNCHANGED <<size, tool, core, app, acts>>
ResMalloc ==
  /\ main.freed /\ main' = [main EXCEPT !.freed = FALSE]
  /\ size' = tool.want /\ ToApp("MALLOC")
  /\ UNCHANGED <<mainQ, tool, core, acts>>

\* MSG_APP_RES_MALLOC_SUC.
ResInit ==
  /\ Received("MALLOC_SUC") /\ ToApp("INIT")
  /\ UNCHANGED <<main, size, tool, core, acts>>

\* A slip of InitDone: the flag is not cleared.
InitDoneKeepsFlag ==
  /\ Received("INIT_SUC") /\ ToCore("RESUME")
  /\ UNCHANGED <<main, size, tool, app, acts>>

\* MSG_APP_RES_INIT_SUC.
InitDone ==
  /\ Received("INIT_SUC") /\ ToCore("RESUME")
  /\ main' = [main EXCEPT !.flag = FALSE]
  /\ UNCHANGED <<size, tool, app, acts>>

\* EffectChange, at the end of a pass of the main task, asks for the flag and its timer
\* only.  The timer is of 500 ms (5 ms once, at the end of a prompt) and a FRAME sets the
\* flag in the pass that takes it; that a change is not UnderWay, from its message in the
\* queue to the last answer, is what Overlaps = FALSE supposes of these times.
UnderWay ==
  \/ main.flag \/ main.freed \/ core.box # <<>> \/ (core.pause /\ core.tell)
  \/ \E i \in DOMAIN app.box : app.box[i] \notin {"START", "STOP"}
  \/ \E i \in DOMAIN mainQ : mainQ[i] \notin {"CREATED", "STARTED", "STOPPED", "FAILURE"}
EffectChange ==
  /\ ~main.freed /\ main.st = "Work" /\ ~main.flag
  /\ Overlaps \/ ~UnderWay
  /\ IF tool.len /\ tool.want # size
       THEN mainQ' = Append(mainQ, "FRAME")
       ELSE tool.eff /\ mainQ' = Append(mainQ, "EFFECT")
  /\ tool' = [tool EXCEPT !.len = FALSE, !.eff = FALSE]
  /\ UNCHANGED <<main, size, core, app, acts>>
-----------------------------------------------------------------------------
(* The life of the modes, as far as it crosses a change. *)

NewApp == [st |-> "Creating", box |-> <<>>, buf |-> size]

StartModeExit ==
  /\ main' = [main EXCEPT !.st = "Exit"]
  /\ ToApp("STOP")

\* StateAtAppRunning.
TargetChanged ==
  /\ ~main.freed /\ main.st = "Work" /\ main.other /\ ~main.flag
  /\ StartModeExit
  /\ UNCHANGED <<mainQ, size, tool, core, acts>>

\* MSG_MEDIA_PLAY_MODE_FAILURE, which does not look at the flag.
ModeFailure ==
  /\ Received("FAILURE")
  /\ IF main.st = "Work"
       THEN /\ main' = [main EXCEPT !.st = "Exit", !.other = TRUE]
            /\ ToApp("STOP")
       ELSE UNCHANGED <<main, app>>
  /\ UNCHANGED <<size, tool, core, acts>>

Created ==
  /\ Received("CREATED")
  /\ IF main.other THEN StartModeExit ELSE ToApp("START") /\ UNCHANGED main
  /\ UNCHANGED <<size, tool, core, acts>>
Started ==
  /\ Received("STARTED")
  /\ IF main.other
       THEN StartModeExit
       ELSE main' = [main EXCEPT !.st = "Work"] /\ UNCHANGED app
  /\ UNCHANGED <<size, tool, core, acts>>

\* EndModeExit: the old mode is killed with its queue, the next one allocates its
\* buffers, and the flag is cleared.
EndModeExit ==
  /\ Received("STOPPED") /\ app' = NewApp
  /\ main' = [main EXCEPT !.st = "Enter", !.other = FALSE, !.flag = FALSE]
  /\ UNCHANGED <<size, tool, core, acts>>
-----------------------------------------------------------------------------
(* The mode's task. *)

Tells(msg) == mainQ' = Append(mainQ, msg)

\* Its decoder answers; a mode that has stopped clears its queue.
DecoderAnswers ==
  /\ \/ app.st = "Creating" /\ app' = [app EXCEPT !.st = "Ready"] /\ Tells("CREATED")
     \/ app.st = "Starting" /\ app' = [app EXCEPT !.st = "Running"] /\ Tells("STARTED")
     \/ /\ app.st = "Stopping" /\ Tells("STOPPED")
        /\ app' = [app EXCEPT !.st = "Stopped", !.box = <<>>]
  /\ UNCHANGED <<main, size, tool, core, acts>>

AppTakes(msg, to) ==
  /\ app.box # <<>> /\ Head(app.box) = msg
  /\ app' = [app EXCEPT !.box = Tail(@), !.st = to.st, !.buf = to.buf]

Orders ==
  /\ \/ AppTakes("START", [app EXCEPT !.st = "Starting"])
     \/ AppTakes("STOP", [app EXCEPT !.st = "Stopping"])
  /\ UNCHANGED <<main, mainQ, size, tool, core, acts>>

\* MSG_APP_RES_RELEASE, MSG_APP_RES_MALLOC, MSG_APP_RES_INIT.
AppResRelease ==
  /\ AppTakes("RELEASE", [app EXCEPT !.buf = NoBuf]) /\ Tells("RELEASE_SUC")
  /\ UNCHANGED <<main, size, tool, core, acts>>
AppResMalloc ==
  /\ AppTakes("MALLOC", [app EXCEPT !.buf = size]) /\ Tells("MALLOC_SUC")
  /\ UNCHANGED <<main, size, tool, core, acts>>
AppResInit ==
  /\ AppTakes("INIT", app) /\ Tells("INIT_SUC")
  /\ UNCHANGED <<main, size, tool, core, acts>>
-----------------------------------------------------------------------------
(* The audio core. *)

CoreReceives ==
  /\ core.box # <<>>
  /\ \/ /\ Head(core.box) = "PAUSE" /\ UNCHANGED mainQ
        /\ core' = [core EXCEPT !.box = Tail(@), !.pause = TRUE, !.tell = TRUE]
     \/ /\ Head(core.box) = "HOLD" /\ Tells("PAUSED")
        /\ core' = [core EXCEPT !.box = Tail(@), !.st = "Paused"]
     \/ /\ Head(core.box) = "RESUME" /\ UNCHANGED mainQ
        /\ core' = [core EXCEPT !.box = Tail(@), !.pause = FALSE, !.st = "Running"]
  /\ UNCHANGED <<main, size, tool, app, acts>>

\* A slip of RunCheck: IsAudioCorePauseMsgSend is not cleared.
RunCheckRepeats ==
  /\ core.st = "Running" /\ core.pause /\ core.tell
  /\ core' = [core EXCEPT !.box = Append(@, "HOLD")]
  /\ UNCHANGED <<main, mainQ, size, tool, app, acts>>

\* AudioCoreRun comes to AC_RUN_CHECK: no frame is half mixed.
RunCheck ==
  /\ core.st = "Running" /\ core.pause /\ core.tell
  /\ core' = [core EXCEPT !.tell = FALSE, !.box = Append(@, "HOLD")]
  /\ UNCHANGED <<main, mainQ, size, tool, app, acts>>
-----------------------------------------------------------------------------
(* The outside. *)

Acts == acts < MaxActs /\ acts' = acts + 1

\* The tool switches an effect that has, or has not, a frame size of its own.
Tunes(frame) ==
  /\ Acts
  /\ tool' = [want |-> frame, len |-> tool.len \/ frame # size, eff |-> TRUE]
  /\ UNCHANGED <<main, mainQ, size, core, app>>

\* A plug or a key; the MODE key is ignored while the flag is set.
WantsOther ==
  /\ Acts /\ ~main.other
  /\ main' = [main EXCEPT !.other = TRUE]
  /\ UNCHANGED <<mainQ, size, tool, core, app>>

MediumFails ==
  /\ Acts /\ app.st = "Running" /\ Tells("FAILURE")
  /\ UNCHANGED <<main, size, tool, core, app>>
-----------------------------------------------------------------------------
Init ==
  /\ main = [st |-> "Work", other |-> FALSE, flag |-> FALSE, freed |-> FALSE]
  /\ mainQ = <<>> /\ size = First
  /\ tool = [want |-> First, len |-> FALSE, eff |-> TRUE]
  /\ core = [st |-> "Running", pause |-> FALSE, tell |-> FALSE, box |-> <<>>]
  /\ app = [st |-> "Running", box |-> <<>>, buf |-> First]
  /\ acts = 0

MainStep ==
  \/ FrameSizeChange \/ EffectUpdate \/ ServicePaused \/ ResRelease \/ ResMalloc
  \/ ResInit \/ InitDone \/ ModeFailure \/ Created \/ Started \/ EndModeExit
AppStep == DecoderAnswers \/ Orders \/ AppResRelease \/ AppResMalloc \/ AppResInit
CoreStep == CoreReceives \/ RunCheck
Outside == (\E frame \in Frames : Tunes(frame)) \/ WantsOther \/ MediumFails

Next == MainStep \/ TargetChanged \/ EffectChange \/ AppStep \/ CoreStep \/ Outside

Spec == Init /\ [][Next]_vars

FairSpec ==
  /\ Spec
  /\ WF_vars(MainStep) /\ WF_vars(TargetChanged) /\ WF_vars(EffectChange)
  /\ WF_vars(CoreStep) /\ WF_vars(Orders \/ AppResRelease \/ AppResMalloc \/ AppResInit)
  /\ WF_vars(DecoderAnswers)
-----------------------------------------------------------------------------
\* The values the code gives its variables.  The core's queue holds four messages and
\* the others ten: no message of a change is lost to a full queue.
AppMsgs == {"START", "STOP", "RELEASE", "MALLOC", "INIT"}
MainMsgs == {"FRAME", "EFFECT", "PAUSED", "RELEASE_SUC", "MALLOC_SUC", "INIT_SUC",
             "CREATED", "STARTED", "STOPPED", "FAILURE"}
TypeOK ==
  /\ main \in [st : {"Enter", "Work", "Exit"}, other : BOOLEAN, flag : BOOLEAN,
               freed : BOOLEAN]
  /\ mainQ \in Seq(MainMsgs) /\ Len(mainQ) <= 10
  /\ size \in Frames /\ tool \in [want : Frames, len : BOOLEAN, eff : BOOLEAN]
  /\ core \in [st : {"Running", "Paused"}, pause : BOOLEAN, tell : BOOLEAN,
               box : Seq({"PAUSE", "HOLD", "RESUME"})] /\ Len(core.box) <= 4
  /\ app \in [st : {"Creating", "Ready", "Starting", "Running", "Stopping", "Stopped"},
              box : Seq(AppMsgs), buf : Frames \cup {NoBuf}] /\ Len(app.box) <= 10
  /\ acts \in 0 .. MaxActs

\* "Only once AudioCore has been stopped may the frame size be switched" (main_task.c
\* 2405): the core mixes only when all buffers are there, the mode's have the size that
\* the main task's have, whatever of the change a switch of the mode has cut off.
CoreHasBuffers == core.st = "Running" => ~main.freed /\ app.buf = size

\* A change that a working mode is subject to is carried through, the core runs again
\* and the mode can be switched, unless the mode is left meanwhile (StateAtAppRunning
\* waits for the flag, ModeFailure does not).
ChangeCompletes ==
  (main.flag /\ main.st = "Work") ~> ((core.st = "Running" /\ ~main.flag) \/ main.st # "Work")
=============================================================================
