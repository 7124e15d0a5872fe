------------------------------- MODULE ModeTask -------------------------------
(***************************************************************************)
(* The task of a mode (apps/*_mode.c) and the decoder service it creates    *)
(* (services/decoder_service.c).  The main task's orders and the decoder's  *)
(* answers share the mode's queue; a mode answers the main task when its    *)
(* decoder has answered it, and it takes what comes in whatever state it is.*)
(* It never leaves its loop: ModeKill deletes the task and its decoder.     *)
(***************************************************************************)
EXTENDS BtHandsFree

\* ...ModeStop asks the decoder to stop whatever DecoderSync says.
StopsBlindly == {"Card", "UDisk", "CardPlayBack", "UDiskPlayBack",
                 "Hdmi", "UsbDevice", "UsbPhone", "Optical", "Coaxial"}

\* ...Init and ...ModeCreate.  DecoderSync starts as None, except where creating
\* the decoder marks it; a narrow-band call needs no decoder.
NewTask(mode) == [mode |-> mode, st |-> "Creating", todo |-> <<>>, note |-> "fresh",
                  dsync |-> mode \in StopsBlindly \cup {"BtPlay"},
                  dec |-> IF mode = "BtHf" THEN "none" ELSE "Creating",
                  orders |-> <<>>, heir |-> Owing(mainQ)]

Alive    == app.st \notin {"none", "failed"}
Says(id) == mainQ' = Sent(mainQ, Message(id))

\* A running Waiting mode handles STOP and drops the rest of its services' talk.
Heeds == ~(app.mode = Waiting /\ app.st = "Running")

\* The task is in its loop: not in its Entrance, nor in the midst of a failure.
Hears(word) == /\ Alive /\ app.note # "failing"
               /\ ~(app.mode = "BtHf" /\ app.st = "Creating")
               /\ app.todo # <<>> /\ Head(app.todo) = word

-------------------------------------------------------------------------------
(* The decoder service. *)

DecoderCreated ==
  /\ app.dec = "Creating"
  /\ app' = [app EXCEPT !.dec = "Ready", !.todo = Append(@, "DECODER_CREATED")]
  /\ UNCHANGED <<mainVars, ready, flags, mainQ, svc, plug, hf, acts>>

DecoderStarted ==
  /\ app.dec \in {"Ready", "Running", "Stopped"}
  /\ app.orders # <<>> /\ Head(app.orders) = "START"
  /\ app' = IF app.dec = "Ready"
              THEN [app EXCEPT !.dec = "Running",
                               !.todo = Append(@, "DECODER_STARTED"),
                               !.orders = Tail(@)]
              ELSE [app EXCEPT !.orders = Tail(@)]
  /\ UNCHANGED <<mainVars, ready, flags, mainQ, svc, plug, hf, acts>>

DecoderStopped ==
  /\ app.dec \in {"Ready", "Running", "Stopped"}
  /\ app.orders # <<>> /\ Head(app.orders) = "STOP"
  /\ app' = [app EXCEPT !.dec = "Stopped",
                        !.todo = Append(@, "DECODER_STOPPED"), !.orders = <<>>]
  /\ UNCHANGED <<mainVars, ready, flags, mainQ, svc, plug, hf, acts>>

\* Its creation failed, which no mode looks at, or it is stuck on a bad stream.
DecoderHangs ==
  /\ Act("hang")
  /\ \/ app.dec = "Creating"
     \/ app.dec \in {"Ready", "Running", "Stopped"} /\ app.orders # <<>>
  /\ app' = [app EXCEPT !.dec = "hung"]
  /\ UNCHANGED <<mainVars, ready, flags, mainQ, svc, plug, hf>>

-------------------------------------------------------------------------------
(* The mode's task. *)

\* BtHfEntrance answers at once, the other modes when the decoder exists.
AppCreated ==
  /\ \/ app.mode = "BtHf" /\ app.st = "Creating"
        /\ app' = [app EXCEPT !.st = "Ready"]
     \/ Hears("DECODER_CREATED") /\ Heeds
        /\ app' = [app EXCEPT !.st = "Ready", !.dsync = TRUE, !.todo = Tail(@)]
  /\ Says("CREATED")
  /\ hf' = AtEntrance
  /\ UNCHANGED <<mainVars, ready, flags, svc, plug, acts>>

AppStart ==
  /\ Hears("START") /\ Heeds /\ app.mode # "BtHf"
  /\ app' = [app EXCEPT !.st = "Starting", !.dsync = TRUE, !.todo = Tail(@),
                        !.orders = Append(@, "START")]
  /\ UNCHANGED <<mainVars, ready, flags, mainQ, svc, plug, hf, acts>>

AppStarted ==
  /\ \/ Hears("START") /\ app.mode = "BtHf"
     \/ Hears("DECODER_STARTED") /\ Heeds
  /\ app' = [app EXCEPT !.st = "Running", !.dsync = app.mode # "BtHf",
                        !.todo = Tail(@)]
  /\ Says("STARTED")
  /\ UNCHANGED <<mainVars, ready, flags, svc, plug, hf, acts>>

StopsAtOnce == app.mode = "BtHf" \/ (~app.dsync /\ app.mode \notin StopsBlindly)

AppStop ==
  /\ Hears("STOP") /\ ~StopsAtOnce
  /\ app' = [app EXCEPT !.st = "Stopping", !.todo = Tail(@),
                        !.orders = Append(@, "STOP")]
  /\ UNCHANGED <<mainVars, ready, flags, mainQ, svc, plug, hf, acts>>

\* ...ModeStopped: the queue is cleared before the answer is sent.  The decoder's
\* STOPPED counts only while the state is still Stopping.
AppStopped ==
  /\ \/ Hears("STOP") /\ StopsAtOnce
     \/ Hears("DECODER_STOPPED") /\ app.st = "Stopping"
  /\ app' = [app EXCEPT !.st = "Stopped", !.dsync = FALSE, !.todo = <<>>]
  /\ Says("STOPPED")
  /\ UNCHANGED <<mainVars, ready, flags, svc, plug, hf, acts>>

\* What a running Waiting mode drops, and a STOPPED of the decoder that finds the
\* mode in another state than Stopping.
AppDrops ==
  /\ \/ \E word \in {"START", "DECODER_CREATED", "DECODER_STARTED"} : Hears(word) /\ ~Heeds
     \/ Hears("DECODER_STOPPED") /\ app.st # "Stopping"
  /\ app' = [app EXCEPT !.dsync = @ /\ (Head(app.todo) # "DECODER_STOPPED" \/ ~Heeds),
                        !.todo = Tail(@)]
  /\ UNCHANGED <<mainVars, ready, flags, mainQ, svc, plug, hf, acts>>

\* A slip of WaitOver that asks whether the waits are over before its own is.
WaitOverAsked(flag) ==
  /\ flags' = flags \ {flag}
  /\ IF ~Waits THEN Says("PERMISSION") ELSE mainQ' = mainQ

\* The end of one of the two waits of the boot: the last one gives permission.
WaitOver(flag) ==
  /\ flags' = flags \ {flag}
  /\ IF WaitModeMask \cap flags = {flag} THEN Says("PERMISSION") ELSE mainQ' = mainQ

\* MODE_WAIT_DEVICE_TIME has passed; looked at on every turn of the loop.
DetectOver ==
  /\ Alive /\ app.mode = Waiting /\ "WaitDetect" \in flags
  /\ WaitOver("WaitDetect")
  /\ UNCHANGED <<mainVars, ready, app, svc, plug, hf, acts>>

\* The boot prompt, asked for when the mode started, has ended or was refused.
PromptOver ==
  /\ app.st = "Running" /\ app.mode = Waiting /\ "WaitSysRemind" \in flags
  /\ WaitOver("WaitSysRemind")
  /\ UNCHANGED <<mainVars, ready, app, svc, plug, hf, acts>>

\* MediaPlayerStart: first the failure is reported, then the medium is struck
\* from the registry - that of the mode that is current by then.
MediaFails ==
  /\ app.mode \in {"Card", "UDisk"} /\ app.st = "Running" /\ app.note = "fresh"
  /\ IF CheckModeResource(app.mode, ready) THEN Act("fail") ELSE UNCHANGED acts
  /\ app' = [app EXCEPT !.note = "failing"]
  /\ Says("FAILURE")
  /\ UNCHANGED <<mainVars, ready, flags, svc, plug, hf>>

MediaStruck ==
  /\ Alive /\ app.note = "failing"
  /\ app' = [app EXCEPT !.note = "failed"]
  /\ ready' = ready \ CASE cur = "Card"  -> {"CardForPlay"}
                        [] cur = "UDisk" -> {"UDiskForPlay"}
                        [] OTHER         -> {}
  /\ UNCHANGED <<mainVars, flags, mainQ, svc, plug, hf, acts>>

\* The recorder, a service of the mode, marks that it records.
Records ==
  /\ Act("record")
  /\ app.st = "Running" /\ app.mode # Waiting
  /\ flags' = IF "Recording" \in flags THEN flags \ {"Recording"}
                                       ELSE flags \cup {"Recording"}
  /\ UNCHANGED <<mainVars, ready, mainQ, app, svc, plug, hf>>

CallConfigured ==
  /\ app.mode = "BtHf" /\ app.st = "Running" /\ app.note = "fresh"
  /\ app' = [app EXCEPT !.note = "configured"]
  /\ RunConfig
  /\ UNCHANGED <<mainVars, flags, svc, plug, acts>>

AppStep == \/ DecoderCreated \/ DecoderStarted \/ DecoderStopped
           \/ AppCreated \/ AppStart \/ AppStarted \/ AppStop \/ AppStopped \/ AppDrops
           \/ DetectOver \/ PromptOver \/ MediaStruck \/ CallConfigured
===============================================================================
