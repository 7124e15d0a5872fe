----------------------------- MODULE RemindSound -----------------------------
(***************************************************************************)
(* The prompts (services/remind_sound_service.c) and the one decoder they   *)
(* share with the mode (services/decoder_service.c).  In a mode that does   *)
(* not decode ("Line", which stands for the USB sound card too) the service *)
(* takes the decoder; in Bluetooth play ("Bt") it must ask for it: NEED goes*)
(* through the main task to the mode, the mode resets the decoder, gives it *)
(* out when the decoder answers, and takes it back at the next answer.  The *)
(* media player ("Media": card and disk) does so too, but announces itself  *)
(* before it takes up its medium: it waits for that first prompt (wait).    *)
(* The modes' creation and end are those of ModeTask, here in one step each.*)
(***************************************************************************)
EXTENDS Integers, Sequences

CONSTANTS
  Kinds,         \* the kinds of mode a run enters
  Missing,       \* TRUE: the flash may not hold the clip that is asked for, or holds
                 \* one that the decoder refuses
  MaxActs,       \* bound on requests, streams and player changes
  MaxModes       \* bound on the modes entered

ASSUME KindAssumption  == Kinds \subseteq {"Line", "Bt", "Media"}
ASSUME BoundAssumption == /\ MaxActs \in Nat /\ MaxModes \in Nat
                          /\ Missing \in BOOLEAN

VARIABLES
  remind,   \* RemindSoundServiceCt: its state, where its task is, RequestRemind
            \* (req), the filling of RemindBlockCircular (blk) and IsBlock
  remQ,     \* the service's queue
  decoder,  \* decoderState, and whose stream it was initialised for
  decQ,     \* the decoder's queue
  pcm,      \* the decoder's PCM FIFO holds samples
  flags,    \* SoftwareFlag, as far as the decoder goes
  app,      \* the mode: kind, state, sbcDecoderStarted, mute of its source; of the
            \* player ModeRemindWait, CurPlayState and what it believes of the decoder
  appQ,     \* the mode's queue
  MState,   \* mainAppCt.MState
  mainQ,    \* the main task's queue
  refresh,  \* the stack or the decoder is in the wait of BtSbcDecoderRefresh
  acts, modes

service  == <<remind, remQ>>
decoding == <<decoder, decQ, pcm>>
mode     == <<app, appQ>>
main     == <<MState, mainQ>>
rest     == <<refresh, acts, modes>>
vars     == <<remind, remQ, decoder, decQ, pcm, flags, app, appQ, MState, mainQ,
              refresh, acts, modes>>

Act == acts < MaxActs /\ acts' = acts + 1 /\ modes' = modes

DecoderRuns  == "DecoderRun" \in flags
\* SoftFlagDecoderMask & ~SoftFlagDecoderApp: the decoder is not the app's now.
Lent         == flags \cap {"DecoderRemind", "DecoderSwitch"} # {}

\* A message to the decoder is lost on a decoder that does not exist.
Told(q, m) == IF decoder.st = "Absent" THEN q ELSE Append(q, m)

\* The service and the mode have priority 3, the decoder 4: before they go on it has
\* done what it was told.
Preempted == decQ # <<>>

Runs  == app.st = "Running"
Bt    == app.kind = "Bt"
Media == app.kind = "Media"

Idle == [st |-> "STANDBY", at |-> "recv", req |-> FALSE, blk |-> 0, isBlock |-> FALSE]

-------------------------------------------------------------------------------
(* Requests. *)

\* RemindSoundServiceItemRequest in a mode whose decoder runs.  It refuses a block
\* request only when the list is full, which takes the calls' number prompts.
ItemRequest(block) ==
  /\ remind' = IF block THEN [remind EXCEPT !.blk = @ + 1] ELSE [remind EXCEPT !.req = TRUE]
  /\ remQ' = Append(remQ, "REQUEST")

-------------------------------------------------------------------------------
(* The service. *)

\* What RemindSoundServicePlayItem may pick: the first listed clip that is in
\* flash, else the plain request.  Listed clips are used up, a request whose
\* clip is missing is not.
Picks ==
  LET Left   == IF Missing THEN 0 .. remind.blk - 1
                ELSE {remind.blk - 1} \cap Nat
      Blocks == {[found |-> TRUE, svc |-> [remind EXCEPT !.blk = n, !.isBlock = TRUE]]
                   : n \in Left}
      Plain  == {[found |-> TRUE, svc |-> [remind EXCEPT !.blk = 0, !.req = FALSE,
                                                         !.isBlock = FALSE]]}
      None   == {[found |-> FALSE, svc |-> [remind EXCEPT !.blk = 0]]}
  IN  Blocks \cup IF remind.blk > 0 /\ ~Missing THEN {}
                  ELSE (IF remind.req THEN Plain ELSE {})
                       \cup (IF Missing \/ ~remind.req THEN None ELSE {})

\* DecoderInit accepts a decoder that is at rest only.
Free == decoder.st \in {"None", "Initialized"}

Plays(pick) == pick.found /\ DecoderRuns /\ Free

\* RemindSoundServicePlayItem up to its delay of 10 ms.
PlayItem(pick) ==
  /\ remind'  = [pick.svc EXCEPT !.st = "PLAY", !.at = "play"]
  /\ decoder' = [st |-> "Initialized", by |-> "remind"]

\* RemindSoundServicePlayEnd
PlayEndFlags == IF "DecoderApp" \in flags THEN flags ELSE flags \ {"DecoderRemind"}

\* Slips of PlayFails: the decoder is not reset, or nothing is said.
PlayFailsNoReset(pick) ==
  /\ remind' = [pick.svc EXCEPT !.st = "STANDBY", !.isBlock = FALSE]
  /\ flags'  = PlayEndFlags
  /\ mainQ'  = Append(mainQ, "DONE")
  /\ UNCHANGED <<decoder, decQ>>
PlayFailsSilently(pick) ==
  /\ remind' = [pick.svc EXCEPT !.st = "STANDBY", !.isBlock = FALSE]
  /\ flags'  = PlayEndFlags
  /\ decQ'   = Told(decQ, "RESET")
  /\ UNCHANGED <<decoder, mainQ>>

\* Nothing (more) to play: the decoder goes back by way of a reset.
PlayFails(pick) ==
  /\ remind' = [pick.svc EXCEPT !.st = "STANDBY", !.isBlock = FALSE]
  /\ flags'  = PlayEndFlags
  /\ mainQ'  = Append(mainQ, "DONE")
  /\ decQ'   = Told(decQ, "RESET")
  /\ UNCHANGED decoder

\* DecoderInit refuses a decoder that is not at rest, and a clip it cannot play.
Fails(pick) == ~Plays(pick) \/ Missing

PlayOrEnd ==
  \E pick \in Picks :
    \/ Plays(pick) /\ PlayItem(pick) /\ UNCHANGED <<flags, mainQ, decQ>>
    \/ Fails(pick) /\ PlayFails(pick)

Serves(m) == /\ remind.at = "recv" /\ ~Preempted
             /\ remQ # <<>> /\ Head(remQ) = m
             /\ remQ' = Tail(remQ)

Nothing == remind.blk = 0 /\ ~remind.req

RequestIgnored ==
  /\ Serves("REQUEST")
  /\ \/ Nothing
     \/ DecoderRuns /\ remind.st \in {"WAIT_DECODER", "STOPPING", "STOPPED"}
     \/ DecoderRuns /\ remind.st = "PLAY" /\ remind.isBlock
  /\ UNCHANGED <<remind, decoding, flags, mode, main, rest>>

RequestRejected ==
  /\ Serves("REQUEST") /\ ~Nothing /\ ~DecoderRuns
  /\ remind' = Idle
  /\ mainQ' = Append(mainQ, "FAIL")
  /\ UNCHANGED <<decoding, flags, mode, MState, rest>>

\* "Play Direct": if it fails nobody is told, and the flag is kept.
RequestPlays ==
  /\ Serves("REQUEST") /\ ~Nothing /\ DecoderRuns
  /\ remind.st = "STANDBY" /\ "DecoderApp" \notin flags
  /\ flags' = flags \cup {"DecoderRemind"}
  /\ \E pick \in Picks :
       \/ Plays(pick) /\ PlayItem(pick)
       \/ Fails(pick) /\ remind' = pick.svc /\ UNCHANGED decoder
  /\ UNCHANGED <<decQ, pcm, mode, main, rest>>

RequestWaits ==
  /\ Serves("REQUEST") /\ ~Nothing /\ DecoderRuns
  /\ remind.st = "STANDBY" /\ "DecoderApp" \in flags
  /\ remind' = [remind EXCEPT !.st = "WAIT_DECODER"]
  /\ mainQ' = Append(mainQ, "NEED")
  /\ UNCHANGED <<decoding, flags, mode, MState, rest>>

\* A prompt that may be cut short is stopped.  The decoder may end it between the
\* test of RemindState and its assignment, and DecoderMuteAndStop waits 20 ms.
RequestCuts ==
  /\ Serves("REQUEST") /\ ~Nothing /\ DecoderRuns
  /\ remind.st = "PLAY" /\ ~remind.isBlock
  /\ remind' = [remind EXCEPT !.at = "cut"]
  /\ UNCHANGED <<decoding, flags, mode, main, rest>>

Cuts ==
  /\ remind.at = "cut" /\ ~Preempted
  /\ remind' = [remind EXCEPT !.st = "STOPPING", !.at = "stop"]
  /\ UNCHANGED <<remQ, decoding, flags, mode, main, rest>>

Stops ==
  /\ remind.at = "stop" /\ ~Preempted
  /\ remind' = [remind EXCEPT !.at = "recv"]
  /\ decQ' = Told(decQ, "STOP")
  /\ UNCHANGED <<remQ, decoder, pcm, flags, mode, main, rest>>

\* The end of RemindSoundServicePlayItem, after its delay.
Starts ==
  /\ remind.at = "play" /\ ~Preempted
  /\ remind' = [remind EXCEPT !.at = "recv"]
  /\ decQ' = Told(decQ, "PLAY")
  /\ UNCHANGED <<remQ, decoder, pcm, flags, mode, main, rest>>

\* MSG_REMIND_SOUND_PLAY: the mode has given the decoder out.
HandlePlay ==
  /\ Serves("PLAY")
  /\ IF "DecoderRemind" \in flags /\ remind.st = "WAIT_DECODER"
       THEN PlayOrEnd ELSE UNCHANGED <<remind, decoder, decQ, flags, mainQ>>
  /\ UNCHANGED <<pcm, mode, MState, rest>>

\* MSG_REMIND_SOUND_PLAY_RESET: a mode ends.
HandleReset ==
  /\ Serves("RESET")
  /\ remind' = Idle
  /\ decQ' = IF "DecoderRemind" \in flags THEN Told(decQ, "STOP") ELSE decQ
  /\ flags' = flags \ {"DecoderRemind"}
  /\ UNCHANGED <<decoder, pcm, mode, main, rest>>

\* A slip of HandleStopped: the stop of a stream that ends a prompt unasked is not its.
HandleStoppedAsked ==
  /\ Serves("STOPPED")
  /\ remind' = IF "DecoderRemind" \in flags /\ remind.st = "STOPPING"
                 THEN [remind EXCEPT !.st = "STOPPED"] ELSE remind
  /\ UNCHANGED <<decoding, flags, mode, main, rest>>

HandleStopped ==
  /\ Serves("STOPPED")
  /\ remind' = IF "DecoderRemind" \in flags /\ remind.st \in {"STOPPING", "PLAY"}
                 THEN [remind EXCEPT !.st = "STOPPED"] ELSE remind
  /\ UNCHANGED <<decoding, flags, mode, main, rest>>

\* A look every 10 ms and after every message, until the samples have been heard.
Drained ==
  /\ remind.at = "recv" /\ ~Preempted
  /\ remind.st = "STOPPED" /\ "DecoderRemind" \in flags /\ (~pcm \/ ~DecoderRuns)
  /\ PlayOrEnd
  /\ UNCHANGED <<remQ, pcm, mode, MState, rest>>

ServiceStep ==
  \/ RequestIgnored \/ RequestRejected \/ RequestPlays \/ RequestWaits
  \/ RequestCuts \/ Cuts \/ Stops \/ Starts
  \/ HandlePlay \/ HandleReset \/ HandleStopped \/ Drained

-------------------------------------------------------------------------------
(* The decoder. *)

Decodes(m) == decQ # <<>> /\ Head(decQ) = m /\ decQ' = Tail(decQ)

\* The state becomes Play, and a service that runs begins to decode and says so: only
\* the media player looks at that.
Decoding ==
  /\ decoder' = [decoder EXCEPT !.st = "Play"] /\ pcm' = FALSE
  /\ appQ' = IF Media /\ DecoderRuns THEN Append(appQ, "PLAYING") ELSE appQ

DecoderPlays ==
  /\ Decodes("PLAY")
  /\ IF decoder.st = "Initialized" THEN Decoding ELSE UNCHANGED <<decoder, pcm, appQ>>
  /\ UNCHANGED <<service, flags, app, main, rest>>

\* MSG_DECODER_RESUME
DecoderResumes ==
  /\ Decodes("RESUME")
  /\ IF decoder.st # "None" THEN Decoding ELSE UNCHANGED <<decoder, pcm, appQ>>
  /\ UNCHANGED <<service, flags, app, main, rest>>

DecoderPauses ==
  /\ Decodes("PAUSE")
  /\ decoder' = [decoder EXCEPT !.st = "Pause"]
  /\ UNCHANGED <<service, pcm, flags, mode, main, rest>>

\* Stop and DecoderStopProcess.
DecoderStops ==
  /\ Decodes("STOP")
  /\ decoder' = [decoder EXCEPT !.st = IF DecoderRuns THEN "None" ELSE "Stop"]
  /\ appQ' = IF DecoderRuns THEN Append(appQ, "DECODER_STOPPED") ELSE appQ
  /\ UNCHANGED <<service, pcm, flags, app, main, rest>>

DecoderResets ==
  /\ Decodes("RESET")
  /\ appQ' = Append(appQ, "DECODER_RESET")
  /\ decoder' = [decoder EXCEPT !.st = "None"]
  /\ pcm' = FALSE
  /\ UNCHANGED <<service, flags, app, main, rest>>

\* MSG_TASK_STOP
DecoderServiceStops ==
  /\ decQ # <<>> /\ Head(decQ) = "TASK_STOP"
  /\ flags' = flags \ {"DecoderRun"}
  /\ decoder' = [decoder EXCEPT !.st = "None"]
  /\ decQ' = <<>>
  /\ appQ' = Append(appQ, "SERVICE_STOPPED")
  /\ UNCHANGED <<service, pcm, app, main, rest>>

DecoderFills ==
  /\ decoder.st = "Play" /\ ~pcm /\ DecoderRuns
  /\ pcm' = TRUE
  /\ UNCHANGED <<service, decoder, decQ, flags, mode, main, rest>>

\* RemindSoundServiceFillStreamCallback, in the decoder's task: the clip is read.  A
\* decoding error in the midst of a clip is left out: the clips were verified at the start
\* (remind_sound_service.c 193), and the decoder goes on to their end.
ClipEnds ==
  /\ decoder = [st |-> "Play", by |-> "remind"] /\ decQ = <<>>
  /\ remind.st # "STOPPING" /\ DecoderRuns
  /\ remind' = [remind EXCEPT !.st = "STOPPING"]
  /\ decQ' = Append(decQ, "STOP")
  /\ UNCHANGED <<remQ, decoder, pcm, flags, mode, main, rest>>

\* The app's stream has no more data; a song has ended.
StreamDry ==
  /\ decoder = [st |-> "Play", by |-> "app"] /\ DecoderRuns
  /\ decoder' = [decoder EXCEPT !.st = "Pause"]
  /\ IF Media THEN Act /\ appQ' = Append(appQ, "PLAY_END") ELSE UNCHANGED <<appQ, acts, modes>>
  /\ UNCHANGED <<service, decQ, pcm, flags, app, main, refresh>>

\* The audio core takes the decoded samples.
PcmPlays ==
  /\ pcm /\ pcm' = FALSE
  /\ UNCHANGED <<service, decoder, decQ, flags, mode, main, rest>>

DecoderStep == DecoderPlays \/ DecoderResumes \/ DecoderPauses \/ DecoderStops \/ DecoderResets
               \/ DecoderServiceStops

-------------------------------------------------------------------------------
(* The mode. *)

Due(m)   == /\ app.st \notin {"none", "Starting"} /\ ~Preempted
            /\ appQ # <<>> /\ Head(appQ) = m
Hears(m) == Due(m) /\ appQ' = Tail(appQ)

\* ...ModeStarting, after it has told the main task: most modes announce
\* themselves; a line mode that does not unmutes itself.
ModeStarts ==
  /\ app.st = "Starting" /\ ~Preempted /\ ~Media
  /\ \/ /\ ItemRequest(FALSE)
        /\ app' = [app EXCEPT !.st = "Running"]
     \/ /\ ~Bt /\ ItemRequest(TRUE)
        /\ app' = [app EXCEPT !.st = "Running"]
     \/ /\ app' = [app EXCEPT !.st = "Running", !.muted = @ /\ Bt]
        /\ UNCHANGED service
  /\ UNCHANGED <<decoding, flags, appQ, main, rest>>

\* A key or an event in a running mode has its prompt (CommonMsgProccess).
Asks ==
  /\ Runs /\ ~Preempted /\ Act
  /\ ItemRequest(FALSE)
  /\ UNCHANGED <<decoding, flags, mode, main, refresh>>

\* A slip of NeedDecoder: the decoder is given out as it is.
NeedDecoderAtOnce ==
  /\ flags' = flags \cup {"DecoderRemind"}
  /\ remQ' = Append(remQ, "PLAY")
  /\ app' = [app EXCEPT !.muted = TRUE]
  /\ UNCHANGED decQ

\* MSG_REMIND_SOUND_NEED_DECODER in BtPlayRunning and MediaPlayEntrance.
NeedDecoder ==
  /\ flags' = flags \cup {"DecoderSwitch"}
  /\ decQ' = Told(decQ, "RESET")
  /\ app' = [app EXCEPT !.muted = TRUE]
  /\ UNCHANGED remQ

\* A player that waits for its first prompt does not use the decoder yet.
FirstPrompt ==
  /\ flags' = flags \cup {"DecoderRemind"}
  /\ remQ' = Append(remQ, "PLAY")
  /\ app' = [app EXCEPT !.muted = TRUE]
  /\ UNCHANGED decQ

HandleNeed ==
  /\ Hears("NEED")
  /\ \/ app.wait /\ FirstPrompt
     \/ ~app.wait /\ Runs /\ (Bt \/ Media) /\ ~Lent /\ NeedDecoder
     \/ ~app.wait /\ ~(Runs /\ (Bt \/ Media) /\ ~Lent) /\ UNCHANGED <<flags, decQ, app, remQ>>
  /\ UNCHANGED <<remind, decoder, pcm, main, rest>>

GiveOut == /\ flags' = (flags \cup {"DecoderRemind"}) \ {"DecoderSwitch"}
           /\ remQ' = Append(remQ, "PLAY")
           /\ UNCHANGED app

\* A slip of TakeBack: the flag stays.
TakeBackKeeps == /\ app' = [app EXCEPT !.sbc = FALSE]
                 /\ UNCHANGED <<flags, remQ>>

TakeBack == /\ flags' = flags \ {"DecoderRemind", "DecoderSwitch"}
            /\ app' = [app EXCEPT !.sbc = FALSE]       \* SbcDecoderRefresh
            /\ UNCHANGED remQ

\* MSG_DECODER_RESET in BtPlayRunning; no line mode knows it.
HandleDecoderReset ==
  /\ ~Media /\ Hears("DECODER_RESET")
  /\ \/ Runs /\ Bt /\ "DecoderSwitch" \in flags /\ GiveOut
     \/ Runs /\ Bt /\ "DecoderSwitch" \notin flags /\ TakeBack
     \/ ~(Runs /\ Bt) /\ UNCHANGED <<flags, remQ, app>>
  /\ UNCHANGED <<remind, decoding, main, rest>>

HandleDecoderStopped ==
  /\ ~Media /\ Hears("DECODER_STOPPED")
  /\ remQ' = IF Runs /\ "DecoderRemind" \in flags THEN Append(remQ, "STOPPED") ELSE remQ
  /\ UNCHANGED <<remind, decoding, flags, app, main, rest>>

\* ..._PLAY_DONE and, in a line mode, ..._PLAY_REQUEST_FAIL.
HandleDone ==
  /\ Hears("DONE") \/ (Hears("FAIL") /\ (Media => Runs))
  /\ app' = IF Media THEN app ELSE [app EXCEPT !.muted = @ /\ Bt /\ Head(appQ) = "FAIL"]
  /\ UNCHANGED <<service, decoding, flags, main, rest>>

\* MSG_BT_PLAY_DECODER_START and SbcDecoderStart, which withdraws the two flags of
\* the hand-over whatever they stand for.  BtPlayState says what follows the play,
\* a stop with the source muted.  DecoderInit refuses a decoder that is not at rest,
\* and a stream it cannot make out.
HandleDecoderStart ==
  /\ Hears("START")
  /\ \/ /\ Runs /\ Free
        /\ decoder' = [st |-> "Initialized", by |-> "app"]
        /\ flags' = flags \ {"DecoderRemind", "DecoderSwitch"}
        /\ \E next \in {<<"PLAY">>, <<"PLAY", "PAUSE">>, <<"PLAY", "STOP">>} :
             /\ decQ' = decQ \o next
             /\ app' = [app EXCEPT !.sbc = TRUE, !.muted = next = <<"PLAY", "STOP">>]
     \/ /\ Runs
        /\ app' = [app EXCEPT !.sbc = FALSE, !.muted = FALSE]
        /\ UNCHANGED <<decoder, decQ, flags>>
     \/ ~Runs /\ UNCHANGED <<decoder, decQ, flags, app>>
  /\ UNCHANGED <<service, pcm, main, rest>>

\* MSG_BT_PLAY_STATE_CHANGED to playing: BtSbcDecoderRefresh, in the mode's task.
PlayerChanges ==
  /\ Runs /\ Bt /\ ~Preempted /\ app.sbc /\ ~Lent /\ Act
  /\ decQ' = Told(decQ, "STOP")
  /\ app' = [app EXCEPT !.sbc = FALSE, !.muted = TRUE]
  /\ UNCHANGED <<service, decoder, pcm, flags, appQ, main, refresh>>

\* BtSbcDecoderRefresh in another task: the stack's, for a full buffer, or the
\* decoder's, for a stream it cannot decode.  DecoderMuteAndStop finds the decoder
\* with the app and waits 20 ms, in which the mode may give it out.
RefreshBegins ==
  /\ Runs /\ Bt /\ ~refresh /\ app.sbc /\ ~Lent /\ Act
  /\ refresh' = TRUE
  /\ app' = [app EXCEPT !.muted = TRUE]
  /\ UNCHANGED <<service, decoding, flags, appQ, main>>

RefreshEnds ==
  /\ refresh /\ refresh' = FALSE
  /\ decQ' = Told(decQ, "STOP")
  /\ app' = [app EXCEPT !.sbc = @ /\ Lent]
  /\ UNCHANGED <<service, decoder, pcm, flags, appQ, main, acts, modes>>

\* MSG_TASK_STOP: RemindSoundServiceReset and DecoderServiceStop.
HandleStop ==
  /\ Hears("TASK_STOP")
  /\ app' = [app EXCEPT !.st = "Stopping"]
  /\ remQ' = IF Media /\ ~app.wait /\ ~Runs THEN remQ ELSE Append(remQ, "RESET")
  /\ decQ' = Told(decQ, "TASK_STOP")
  /\ UNCHANGED <<remind, decoder, pcm, flags, main, rest>>

\* In Bluetooth play BtPlayModeStopping asks for a prompt first, which is refused
\* because the decoder does not run any more.
HandleServiceStopped ==
  /\ Due("SERVICE_STOPPED")
  /\ IF app.st = "Stopping"
       THEN /\ app' = [app EXCEPT !.st = "Stopped"]
            /\ appQ' = <<>>
            /\ mainQ' = mainQ \o (IF Bt THEN <<"FAIL", "STOPPED">> ELSE <<"STOPPED">>)
       ELSE appQ' = Tail(appQ) /\ UNCHANGED <<app, mainQ>>
  /\ UNCHANGED <<service, decoding, flags, MState, rest>>

-------------------------------------------------------------------------------
(* The media player. *)

Player(st, player, sync, muted) ==
  [app EXCEPT !.st = st, !.player = player, !.sync = sync, !.muted = muted, !.wait = FALSE]

\* MediaPlayerStart takes up the medium: a song plays, or the main task is told that
\* there is none.
PlayerStarts ==
  \/ /\ Free
     /\ decoder' = [st |-> "Initialized", by |-> "app"]
     /\ decQ' = Told(decQ, "PLAY")
     /\ app' = Player("Running", "play", "Initialized", FALSE)
     /\ UNCHANGED mainQ
  \/ /\ app' = Player("Running", "idle", "Deinitializing", app.muted)
     /\ mainQ' = Append(mainQ, "FAILURE")
     /\ UNCHANGED <<decoder, decQ>>

\* MediaPlayModeStarting: it may announce itself and wait for that.
MediaStarts ==
  /\ app.st = "Starting" /\ ~Preempted /\ Media
  /\ \/ /\ ItemRequest(FALSE)
        /\ app' = [app EXCEPT !.st = "Paused", !.wait = TRUE]
        /\ UNCHANGED <<decoder, decQ, mainQ>>
     \/ PlayerStarts /\ UNCHANGED service
  /\ UNCHANGED <<pcm, flags, appQ, MState, rest>>

\* MediaPlayerSongRefresh when the song can be opened and decoded ...
SongPlays(a) ==
  /\ Free
  /\ flags' = flags \ {"DecoderRemind", "DecoderSwitch"}
  /\ decoder' = [st |-> "Initialized", by |-> "app"]
  /\ decQ' = IF a.player = "play" THEN Told(decQ, "PLAY") ELSE decQ
  /\ app' = [a EXCEPT !.sync = "Initialized", !.player = IF @ = "idle" THEN "pause" ELSE @]
\* ... and when it cannot.
SongFails(a) ==
  /\ flags' = flags \ {"DecoderRemind", "DecoderSwitch"}
  /\ \E sync \in {"Deinitializing"} \cup (IF Free THEN {a.sync} ELSE {}) :
       app' = [a EXCEPT !.sync = sync]
  /\ UNCHANGED <<decoder, decQ>>

\* The decoder is the player's, who takes up the song that is next; if it cannot it
\* sends itself MSG_NEXT.
NextSongPlays(a) ==
  \/ /\ a.player = "idle"
     /\ app' = a /\ appQ' = Tail(appQ)
     /\ flags' = flags \ {"DecoderRemind", "DecoderSwitch"}
     /\ UNCHANGED <<decoder, decQ, acts, modes>>
  \/ /\ a.player # "idle"
     /\ SongPlays(a) /\ appQ' = Tail(appQ) /\ UNCHANGED <<acts, modes>>
  \/ /\ a.player # "idle"
     /\ SongFails(a) /\ appQ' = Append(Tail(appQ), "NEXT")
     /\ (~Free /\ UNCHANGED <<acts, modes>>) \/ Act

\* MSG_DECODER_STOPPED
MediaDecoderStopped ==
  /\ Media /\ Due("DECODER_STOPPED")
  /\ LET off == [app EXCEPT !.sync = "None"]
     IN  \/ /\ "DecoderRemind" \in flags
            /\ remQ' = Append(remQ, "STOPPED") /\ app' = off /\ appQ' = Tail(appQ)
            /\ UNCHANGED <<decoder, decQ, flags, acts, modes>>
         \/ /\ "DecoderRemind" \notin flags /\ (Runs => "DecoderSwitch" \in flags)
            /\ app' = off /\ appQ' = Tail(appQ)
            /\ UNCHANGED <<remQ, decoder, decQ, flags, acts, modes>>
         \/ ~Lent /\ Runs /\ NextSongPlays(off) /\ UNCHANGED remQ
  /\ UNCHANGED <<remind, pcm, main, refresh>>

\* MSG_DECODER_RESET, and the refusal of a prompt in a player that does not run yet:
\* the first prompt is over, or the decoder goes out, or it comes back.
MediaDecoderReset ==
  /\ Media /\ (Due("DECODER_RESET") \/ (Due("FAIL") /\ ~Runs))
  /\ LET off == [app EXCEPT !.sync = "None"]
     IN  \/ /\ app.wait /\ PlayerStarts
            /\ flags' = flags \ {"DecoderRemind", "DecoderSwitch"}
            /\ appQ' = Tail(appQ) /\ UNCHANGED <<remQ, acts, modes>>
         \/ /\ ~app.wait /\ Runs /\ "DecoderSwitch" \in flags
            /\ flags' = (flags \cup {"DecoderRemind"}) \ {"DecoderSwitch"}
            /\ remQ' = Append(remQ, "PLAY") /\ app' = off /\ appQ' = Tail(appQ)
            /\ UNCHANGED <<decoder, decQ, mainQ, acts, modes>>
         \/ /\ ~app.wait /\ Runs /\ "DecoderSwitch" \notin flags
            /\ NextSongPlays(off) /\ UNCHANGED <<remQ, mainQ>>
         \/ /\ ~app.wait /\ ~Runs /\ appQ' = Tail(appQ)
            /\ UNCHANGED <<remQ, decoder, decQ, flags, app, mainQ, acts, modes>>
  /\ UNCHANGED <<remind, pcm, MState, refresh>>

\* MediaPlayerDecoderStop, and MediaPlayerNextSong or MediaPlayerStop with it.
PlayerStops(player) ==
  LET stops == ~Lent /\ app.sync \notin {"None", "Stop"}
  IN  /\ decQ' = IF stops THEN Told(decQ, "STOP") ELSE decQ
      /\ app' = IF stops THEN [app EXCEPT !.sync = "Stop", !.muted = TRUE, !.player = player]
                         ELSE [app EXCEPT !.player = player]

NextSong == ItemRequest(FALSE) /\ PlayerStops("play")

\* MSG_NEXT from the player itself, the end of a song (the last one may be the last to
\* be played), MSG_DECODER_PLAYING.
MediaGoesOn ==
  /\ \/ /\ Hears("NEXT")
        /\ IF Runs THEN NextSong ELSE UNCHANGED <<service, app, decQ>>
     \/ /\ Hears("PLAY_END") /\ UNCHANGED service
        /\ IF Runs /\ decoder.st = "Pause" THEN \E player \in {"play", "idle"} : PlayerStops(player)
                                          ELSE UNCHANGED <<app, decQ>>
     \/ /\ Hears("PLAYING") /\ UNCHANGED <<service, decQ>>
        /\ app' = IF Runs THEN [app EXCEPT !.sync = "Play", !.muted = FALSE] ELSE app
  /\ UNCHANGED <<decoder, pcm, flags, main, rest>>

\* MediaPlayerPlayPause.  A decoder that does not decode is not told to pause.
MediaPlayPause ==
  \/ /\ app.player = "play" /\ app' = [app EXCEPT !.player = "pause"]
     /\ decQ' = IF ~Lent /\ decoder.st = "Play" THEN Append(decQ, "PAUSE") ELSE decQ
     /\ UNCHANGED <<decoder, flags>>
  \/ /\ app.player = "pause" /\ app' = [app EXCEPT !.player = "play"]
     /\ decQ' = IF ~Lent THEN Append(decQ, "RESUME") ELSE decQ
     /\ UNCHANGED <<decoder, flags>>
  \/ LET on == [app EXCEPT !.player = "play"]
     IN  /\ app.player = "idle"
         /\ \/ Lent /\ app' = on /\ UNCHANGED <<decoder, decQ, flags>>
            \/ ~Lent /\ (SongPlays(on) \/ SongFails(on))

\* The keys NEXT (PRE alike), STOP and PLAY/PAUSE: a key is passed on in Work only.
MediaKey ==
  /\ Media /\ Runs /\ MState = "Work" /\ ~Preempted /\ Act
  /\ \/ NextSong /\ UNCHANGED <<decoder, flags>>
     \/ PlayerStops("idle") /\ UNCHANGED <<service, decoder, flags>>
     \/ MediaPlayPause /\ UNCHANGED service
  /\ UNCHANGED <<pcm, appQ, main, refresh>>

ModeStep ==
  \/ MediaStarts \/ MediaDecoderStopped \/ MediaDecoderReset \/ MediaGoesOn
  \/ ModeStarts \/ HandleNeed \/ HandleDecoderReset \/ HandleDecoderStopped
  \/ HandleDone \/ HandleDecoderStart \/ HandleStop \/ HandleServiceStopped

-------------------------------------------------------------------------------
(* The main task and the Bluetooth stack. *)

NoMode == [kind |-> "none", st |-> "none", sbc |-> FALSE, muted |-> FALSE,
           wait |-> FALSE, player |-> "idle", sync |-> "None"]

\* A mode and its decoder are created and started.  EndModeExit and the delay of
\* 10 ms before ModeCreate have let the service come to rest: only these delays do, no
\* test in the code.
EnterMode(kind) ==
  /\ MState = "None" /\ modes < MaxModes
  /\ remQ = <<>> /\ remind.at = "recv" /\ ~refresh
  /\ MState' = "Enter"
  /\ \E sbc \in {FALSE, kind = "Bt"} :     \* FALSE when a stream is there already
       app' = [NoMode EXCEPT !.kind = kind, !.st = "Starting", !.sbc = sbc, !.muted = TRUE]
  /\ decoder' = [st |-> "None", by |-> "none"]
  /\ pcm' = FALSE
  /\ flags' = flags \cup {"DecoderRun"} \cup (IF kind # "Line" THEN {"DecoderApp"} ELSE {})
  /\ mainQ' = Append(mainQ, "STARTED")
  /\ modes' = modes + 1
  /\ UNCHANGED <<service, decQ, appQ, refresh, acts>>

\* StartModeExit
LeaveMode ==
  /\ MState = "Work" /\ modes < MaxModes
  /\ MState' = "Exit"
  /\ appQ' = Append(appQ, "TASK_STOP")
  /\ UNCHANGED <<service, decoding, flags, app, mainQ, rest>>

MainTakes(m) == mainQ # <<>> /\ Head(mainQ) = m /\ mainQ' = Tail(mainQ)

\* MainAppModeProcess: what the service says goes to the mode in Work only.
Forward ==
  /\ \E m \in {"NEED", "DONE", "FAIL"} :
       /\ MainTakes(m)
       /\ appQ' = IF MState = "Work" THEN Append(appQ, m) ELSE appQ
  /\ UNCHANGED <<service, decoding, flags, app, MState, rest>>

ModeStarted ==
  /\ MainTakes("STARTED")
  /\ MState' = IF MState = "Enter" THEN "Work" ELSE MState
  /\ UNCHANGED <<service, decoding, flags, mode, rest>>

\* MSG_MEDIA_PLAY_MODE_FAILURE
MediaFailed ==
  /\ MainTakes("FAILURE")
  /\ MState' = IF MState = "Work" THEN "Exit" ELSE MState
  /\ appQ' = IF MState = "Work" THEN Append(appQ, "TASK_STOP") ELSE appQ
  /\ UNCHANGED <<service, decoding, flags, app, rest>>

\* EndModeExit: the flags are cleared, the task and its decoder deleted, when the mode
\* has answered or, should it have nothing left to do and not answer, after 3 s.
Overdue == mainQ = <<>> /\ appQ = <<>> /\ decQ = <<>> /\ app.st = "Running"
ModeStopped ==
  /\ MState = "Exit"
  /\ MainTakes("STOPPED") \/ (Overdue /\ UNCHANGED mainQ)
  /\ MState' = "None"
  /\ flags' = flags \ {"DecoderRemind", "DecoderSwitch", "DecoderApp", "DecoderRun"}
  /\ app' = NoMode /\ appQ' = <<>>
  /\ decoder' = [st |-> "Absent", by |-> "none"]
  /\ decQ' = <<>> /\ pcm' = FALSE
  /\ UNCHANGED <<service, rest>>

MainStep == Forward \/ ModeStarted \/ MediaFailed \/ ModeStopped

\* SaveBtA2dpStreamData, in the stack's task: enough of a stream has come.
StreamComes ==
  /\ Runs /\ Bt /\ ~Lent /\ ~app.sbc /\ Act
  /\ app' = [app EXCEPT !.sbc = TRUE]
  /\ appQ' = Append(appQ, "START")
  /\ UNCHANGED <<service, decoding, flags, main, refresh>>

-------------------------------------------------------------------------------
Init ==
  /\ remind = Idle /\ remQ = <<>>
  /\ decoder = [st |-> "Absent", by |-> "none"] /\ decQ = <<>> /\ pcm = FALSE
  /\ flags = {}
  /\ app = NoMode /\ appQ = <<>>
  /\ MState = "None" /\ mainQ = <<>>
  /\ refresh = FALSE /\ acts = 0 /\ modes = 0

Next ==
  \/ ServiceStep \/ DecoderStep \/ ModeStep \/ MainStep
  \/ DecoderFills \/ ClipEnds \/ StreamDry \/ PcmPlays
  \/ Asks \/ MediaKey \/ PlayerChanges \/ StreamComes \/ LeaveMode
  \/ RefreshBegins \/ RefreshEnds
  \/ \E kind \in Kinds : EnterMode(kind)

Spec == Init /\ [][Next]_vars

\* Every task gets its turn; what the user and the phone do is their affair.
Fairness ==
  /\ WF_vars(ServiceStep) /\ WF_vars(DecoderStep) /\ WF_vars(ModeStep)
  /\ WF_vars(MainStep) /\ WF_vars(ClipEnds) /\ WF_vars(PcmPlays)
  /\ WF_vars(RefreshEnds)

FairSpec == Spec /\ Fairness

-------------------------------------------------------------------------------
TypeOK ==
  /\ remind \in [st : {"STANDBY", "WAIT_DECODER", "PLAY", "STOPPING", "STOPPED"},
                 at : {"recv", "cut", "stop", "play"}, req : BOOLEAN,
                 blk : 0 .. 1, isBlock : BOOLEAN]
  /\ remQ \in Seq({"REQUEST", "PLAY", "RESET", "STOPPED"})
  /\ decoder \in [st : {"Absent", "None", "Initialized", "Play", "Pause", "Stop"},
                  by : {"none", "app", "remind"}]
  /\ decQ \in Seq({"PLAY", "PAUSE", "RESUME", "STOP", "RESET", "TASK_STOP"})
  /\ flags \subseteq {"DecoderRun", "DecoderApp", "DecoderRemind", "DecoderSwitch"}
  /\ app \in [kind : Kinds \cup {"none"},
              st : {"none", "Starting", "Paused", "Running", "Stopping", "Stopped"},
              sbc : BOOLEAN, muted : BOOLEAN, wait : BOOLEAN,
              player : {"idle", "play", "pause"},
              sync : {"None", "Initialized", "Deinitializing", "Play", "Stop"}]
  /\ appQ \in Seq({"NEED", "DONE", "FAIL", "START", "TASK_STOP", "DECODER_RESET",
                   "DECODER_STOPPED", "SERVICE_STOPPED", "PLAYING", "PLAY_END", "NEXT"})
  /\ MState \in {"None", "Enter", "Work", "Exit"}
  /\ mainQ \in Seq({"STARTED", "STOPPED", "FAILURE", "NEED", "DONE", "FAIL"})
  /\ pcm \in BOOLEAN /\ refresh \in BOOLEAN /\ acts \in 0 .. MaxActs /\ modes \in 0 .. MaxModes

\* While a Bluetooth mode or a player runs, a decoder at work for a prompt has been given out,
\* and one that has been given out does not work for the phone's stream or the song.
OneOwner ==
  Runs /\ (Bt \/ Media) /\ decoder.st \in {"Initialized", "Play", "Pause"}
    => (decoder.by = "remind" <=> "DecoderRemind" \in flags)

In(q, m) == \E i \in DOMAIN q : q[i] = m

\* What the main task's queue q holds of m will reach the mode that is there, st being
\* MState: messages before its STARTED will be dropped.
Live(q, st, i) ==
  st = "Work" \/ (st = "Enter" /\ \E j \in DOMAIN q : j < i /\ q[j] = "STARTED")
Fresh(q, st, m) == \E i \in DOMAIN q : q[i] = m /\ Live(q, st, i)

Lends  == "DecoderRemind" \in flags
Switch == "DecoderSwitch" \in flags
Own    == "DecoderApp" \in flags

\* The mode ends, and has the service reset.
WillReset == In(remQ, "RESET") \/ In(appQ, "TASK_STOP")
\* The decoder stops, or the news of it is on its way.
WillStop  == In(decQ, "STOP") \/ In(appQ, "DECODER_STOPPED") \/ In(remQ, "STOPPED")

\* The service's request for the decoder is under way.
Wanted == In(appQ, "NEED") \/ Fresh(mainQ, MState, "NEED")
Waits ==
  \/ Wanted
  \/ Switch /\ (In(decQ, "RESET") \/ In(appQ, "DECODER_RESET"))
  \/ Lends /\ In(remQ, "PLAY")
PlaysOn ==
  Lends /\ \/ remind.at \in {"play", "cut"} \/ In(decQ, "PLAY")
           \/ decoder = [st |-> "Play", by |-> "remind"]
           \/ WillStop
ComesBack ==
  \/ remind.st \in {"PLAY", "STOPPING", "STOPPED"} \/ In(remQ, "PLAY")
  \/ In(decQ, "RESET") \/ In(appQ, "DECODER_RESET")

\* A mode that plays itself gets its decoder back.
DecoderReturns ==
  {"DecoderApp", "DecoderRemind"} \subseteq flags ~> "DecoderRemind" \notin flags

===============================================================================
