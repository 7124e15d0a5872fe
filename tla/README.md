# A verification development for the BP10xx audio appliance firmware

This directory holds TLA+ modules that model the control software of
`castleodinland/compile_project_by_andes_toolchains`: the firmware of an audio
appliance (Bluetooth, SD card, USB disk, line, HDMI, radio, S/PDIF, I2S and USB
audio sources; hands-free calls; recorder; voice prompts; deep sleep) on a
Mountain View BP10xx chip under FreeRTOS. It holds the TLC configurations that
check them and theorems checked by TLAPS. `PROJECT.json` maps every
definition to the lines it stands for.

Paths are relative to the repository: *apps* is
`BT_Audio_APP/bt_audio_app_src/apps`, *services* its neighbour `services`,
*driver* `MVsB1_Base_SDK/driver/driver_api/src`, *middleware*
`MVsB1_Base_SDK/middleware`.

## 1. The system

### 1.1 Components

**Main task** (*apps* `main_task.c`). One FreeRTOS task with a queue of ten
messages, and the only one that decides which mode the appliance is in. State:
`mainAppCt.state` (Ready, Running, Pausing), `MState` (None, Enter, Work, Exit,
Pause), the current, the target and the backup mode, the mode timer, and which
services have answered. It creates a mode's task, starts it, notices that the
target has become another mode, stops it and kills it; a timer of 5 s protects
the way in and one of 3 s the way out. It also puts the chip to deep sleep and
wakes it. Hard: every decision is made on state that other tasks change (the
resource registry, the software flags, the call flags), and each of its waits
can be answered late, twice or never. Correct means: one mode lives at a time;
a mode is entered only when its source is there; whatever is lost or late, the
appliance comes to rest in a working mode; sleep finds everything at rest.

**Mode table and searches** (*apps* `mode_switch_api.c`). A constant table: per
mode the resources it needs and the plug messages it belongs to; loops that find
the next mode, the mode of highest priority and the mode of a plug. Correct means:
what they return is available, wraps round the loop once and is `Waiting` when
there is nothing else.

**Message queues and software flags** (*middleware* `rtos_api.c`;
`mode_switch_api.c`, `main_task.c`). `MessageSend` drops the message when the
queue is full, and no caller looks. `SoftwareFlag` and `ModeResourceReady` are
words that several tasks read, change and write back without a lock.

**Mode tasks** (*apps* `*_mode.c`). One file per kind of mode, all on one
pattern: a task with its queue, a state (Creating, Ready, Starting, Running,
Stopping, Stopped), a decoder service that it creates, and answers to the main
task's START and STOP that it gives when its decoder has answered. A task
never ends itself: `ModeKill` deletes it and its decoder. Correct means: each
order is answered or its timer runs out, in whatever order decoder and main task
speak.

**Hands-free entry and exit** (*apps* `bt_hf_mode.c`). `EnterBtHfMode` and
`ExitBtHfMode` run in the Bluetooth stack's task, in the main task and in the
mode's, on four unprotected booleans. Correct means: a call that ended is left,
and no flag survives the call it is about.

**Decoder service** (*services* `decoder_service.c`). A task per mode, owned by a
player (`DecoderApp`) or by the prompt service (`DecoderRemind`) in turn. Hard:
its owner is written in flags that the mode, the prompt service and the main task
change, while its answers are still in a queue. Correct means: it works for one of
them at a time and comes back.

**Device service** (*services* `device_service.c`). Scans plugs and keys,
registers and withdraws resources at once and sends the message afterwards.

**Remind sound service** (*services* `remind_sound_service.c`). Voice prompts: a
list of clips that must be heard to their end, a state machine that borrows the
decoder from the mode, and the boot prompt which the Waiting mode must let end.
Hard: a prompt that is cut short, missing, or overtaken by the end of its mode.
Correct means: whatever becomes of a prompt, the service rests again and the player
is heard again.

**Recorder service** (*services* `recorder_service.c`). Records to card or disk;
while it does, plugs do not switch the mode.

**Bluetooth stack service** (*services* `bt_stack_service.c`). The task in which the
closed stack runs: its callbacks, the timers, the opening and closing of Bluetooth
by the modes (`btScanPageState`), the factory reset. Hard: the main task, of the same
priority, writes `btScanPageState` between the test and the assignment of its check.

**Bluetooth manager** (*middleware* `bluetooth/src/bt_manager.c`, `bt_a2dp_app.c`,
`bt_avrcp_app.c`, `bt_hfp_app.c`). State: the profiles that are up, the link state, the
last device and its profiles, the event list with one reconnecting, its tries and
timers. Operations: it returns to the last device after power-on and after a lost link,
profile by profile, and gives way to a phone that connects by itself. Hard: every
counter and timer is moved by callbacks that come in any order. Correct means: the last
device is the one linked, no stranger is asked while a phone is connected, and the
asking ends.

**Bluetooth device database** (`bt_ddb_flash.c`, `bt_platform_interface.c`). Paired
devices with their keys in RAM; a log of whole lists in two flash sectors, the log of
last devices in a third. Operations: load, add, delete, save, erase. Hard: a save is up
to ten flash calls, and programming can only clear bits. Correct means: a power cut
leaves the old list or a prefix of the new one, never a wrong key, and the last device
is one whose key is known.

**MCU circular buffer** (*driver* `mcu_circular_buf.c`). The ring that carries
every audio stream between an interrupt and a task or between two tasks. No
lock: each side owns one pointer. Correct means: a FIFO whose lengths may be
relied on by the side that asks.

**USB audio FIFOs** (*apps* `otg_device_audio.c`). The isochronous interrupts at
one end of such a ring.

**Audio core** (*services* `audio_core_service.c`, `audio_core_api.c`). Mixes sources
into sinks, frame by frame. State: running, pausing, paused. A change of the frame
size, which the tuning tool asks for (*audio* `communication.c`), is a chain of eight
messages between main task, core and mode, in which all buffers are given up and
allocated anew. Correct means: the core never mixes without buffers, and the change is
carried through.

**Media player** (*apps* `media_play_mode.c`, `media_play_api.c`). Plays the songs of a
card or disk. State: playing, paused or idle, what it believes of the decoder
(`DecoderSync`), whether it still waits for its first prompt (`ModeRemindWait`).
Operations: start, next, stop, play and pause, refresh of the song when the decoder has
stopped or comes back. Hard: whose answer `MSG_DECODER_RESET` is depends on flags that
may have changed since. Correct means: a player that is to play is heard.

**Bluetooth play control** (`bt_play_api.c`): the start, refresh and end of the phone's
stream. **Hands-free audio** (`bt_hf_api.c`): data flow of a call.

**Break points and power-off memory** (*device* `breakpoint.c`). Images of the settings
appended to blocks of flash that are erased together when all are full. Correct means: a
start loads the newest whole image whatever power cut came before.

**Device detection** (`device_detect.c`), **keys** (`key.c` and its drivers), **deep
sleep hardware**, **power monitor, upgrade, RTC, display**, **AI services**, **heap**
(`heap_5s.c`), **card and USB host drivers**. See `PROJECT.json` for the state of each.

Left out as third-party, generated or data: FreeRTOS, FatFs, the codecs, `ctrlvars`,
the effect tables, the serial protocol of the tuning tool and the register drivers.
They are the greater part of the 220,000 lines of the repository, so the definitions,
which follow the control software, map only a few per cent of it.
The shipped configuration (`app_config.h`) is the one modelled: Rest mode,
Bluetooth record mode, automatic modes, the power key and the error-mode switch
are off, so their branches are not compiled.

### 1.2 How they interact

```
 device service --plug, key messages--> main task --create/start/stop/kill--> mode task
      |  ^                               ^  |  ^                               |   ^
      |  +---- PAUSE / RESUME -----------+--+  +---- CREATED/STARTED/STOPPED --+   |
      |                                  |                                         |
      +-- ModeResourceReady ------------>+        mode task --START/STOP--> decoder service
 Bluetooth stack --Enter/ExitBtHfMode--> call flags, registry, main queue
 remind service  --PAUSED, ENTER_BTHF--> main task; the boot prompt's end --> Waiting mode
```

Shared without a lock: the resource registry, the software flags, the call flags,
`appCurrentMode` and `appTargetMode`. All the rest goes through queues.

### 1.3 What is hard, and what is true of it

The hazards are listed in `PROJECT.json` at the lines where they bite. The
groups, and the property that answers each:

| what can go wrong | answered by |
|---|---|
| the source of a mode disappears while the mode is chosen, created or left | `EntersWithSource`, `HasSource` |
| an answer is late and is taken for the next mode's | `ModesTakeTurns`, `WorkMeansStarted` |
| a decoder hangs, a medium fails, an answer is missed | `Settles` |
| keys and plugs during the boot prompt and scan | `WaitsHold`, `IdlesOnlyWithoutSource` |
| sleep asked for while a mode is entered, left or called away | `SleepIsQuiet`, `Settles` |
| a call begins or ends while hands-free is half entered or left | `ExitInHandsFree`, `CallEndIsFollowed`, `ExitKeptEarly` (violated) |
| two pointers of a ring that move under each other | `FifoIntact`, `LenExact`, `ImplementsFifo` |
| loops that wrap, ties of priority | `NextAgrees`, `PriorityAgrees` |
| the decoder changing hands between a player and the prompts | `OneOwner`, `NoHandOverIsLost`, `DecoderReturns`, `PlayerIsHeard` |
| a prompt that is cut, missing, overtaken or never given the decoder | `NoHandOverIsLost`, `ServiceRests` |
| songs, keys and first prompts that cross the hand-over of the decoder | `PlayerIsHeard`, `ServiceRests` |
| a power cut between the flash calls of a saved list of devices | `SavedListSurvives`, `CutLeavesOldOrNew` |
| a last device without its key, or another one than the manager holds | `LastDeviceAgrees`, `LinkedDeviceIsKnown` |
| a power cut while settings are written or full blocks erased | `NewestIsLoaded`, `EraseKeepsNewest`, `NothingOlderComesBack` |
| a phone that overtakes a reconnecting, profiles in any order | `LastIsLinked`, `LinkHonest`, `NoStranger` |
| tries and timers moved by five kinds of callback | `PagingEnds`, `BtReconnect`'s `TypeOK` |
| a change of the frame size crossed by a change of the mode | `CoreHasBuffers`, `ChangeCompletes` |

## 2. The modules

| module | models | proved about in |
|---|---|---|
| `CircularBuf` | the ring in byte and pointer steps of a reader and a writer, `MCUCircular_*` | `CircularBuf_proofs` |
| `ByteFifo` | what the ring promises: a FIFO of at most BufDepth - 1 bytes | `CircularBuf_proofs` |
| `ModeTable` | `ResourcesAppMask`, the searches by what they return | `Appliance_proofs` |
| `ModeSearch` | the same searches as the loops of the code | `ModeSearch_proofs` |
| `SharedState` | the shared globals, queues, flags, resources | `Appliance_proofs` |
| `BtHandsFree` | `EnterBtHfMode`, `ExitBtHfMode`, run configuration, protecting flags | `Appliance_proofs` |
| `ModeTask` | a mode's task and its decoder | `Appliance_proofs` |
| `MainApp` | the main task: one operator per handler | `Appliance_proofs` |
| `Appliance` | their composition with the device, remind and Bluetooth tasks; the specification and the properties | `Appliance_proofs` |
| `ModeLife` | what the main task promises of the modes: they take turns, one task at a time | `Appliance_proofs` |
| `RemindSound` | the prompt service, the decoder it shares with Bluetooth play and the media player, and the hand-over between them | `RemindSound_proofs` |
| `RemindHistory` | `RemindSound` with a history variable: a prompt that a stream has robbed of the decoder | `RemindSound_proofs` |
| `BtDdb` | the list of paired devices and its two logs in flash, with power cuts | `BtDdb_proofs` |
| `BtReconnect` | the manager's return to the last device, the profiles, opening and closing of Bluetooth | `BtReconnect_proofs` |
| `BreakPoint` | the images of the settings in flash, with power cuts between and inside writes | `BreakPoint_proofs` |
| `FrameSize` | the change of the frame size between main task, audio core and mode | `FrameSize_proofs` |

`MCCircularBuf`, `MCAppliance` and `MCBtDdb` are the instances for TLC.
`MainApp` extends `ModeTask`, which extends `BtHandsFree`, which extends
`SharedState`, which extends `ModeSearch`, which extends `ModeTable`; `Appliance` closes the
chain, and implements `ModeLife` as `CircularBuf` implements `ByteFifo`. `ModeSearch` declares
the registry `ready` and states the loops of the searches over it; the appliance calls the
searches as `ModeTable` states them, and `PriorityAgrees` and `NextAgrees` say, of every
registry it reaches, that this is the same.

Two notes of the model are not in the code: `app.heir` (the task was created over the answer
of a dead one) and `robbed` (a prompt that a stream has robbed of the decoder). No step reads
them: they remember that a hazard of the code which nothing prevents has occurred, for the
properties to except.
The others stand by themselves, and need no instance of their own where the values of
their constants say all. `RemindSound` and `FrameSize` take up, from the side of the
decoder and of the buffers, the modes that `Appliance` models from the side of their
life. `BtDdb` and `BtReconnect` share the last device: one says what a restart finds of
it, the other how it is changed.

### 2.1 State and actions of the appliance

`state`, `MState`, `cur`, `target`, `backup` are the fields and globals of those
names (`appCurrentMode` ...). `sync` is the set of services that said PAUSED.
`ready` and `flags` are the two words as sets of their bits. `app` is the task
of the current mode: its state, queue (`todo`), what it believes of its decoder
(`DecoderSync` as `dsync`), the decoder and its queue (`orders`), and `heir`. `hf` holds
`gEnterBtHfMode`, `BtHfModeEnterFlag`, `BtHfModeExitFlag` and
`BtHfModeEixtList`.

The main task takes one message per step and does all that its handlers do for
it; other tasks step in between. A handler that sleeps in the middle is two
steps, with `at` saying where it is: before `ModeCreate` it delays 10 ms
(`at = "create"`), in a deep sleep it waits for a wake-up (`at = "sleep"`). The
plug scan is two steps as well: the registry changes first (`PlugMoves`), the
message is sent afterwards (`PlugSent`). The failing medium is two steps
(`MediaFails`, `MediaStruck`) because the code reports the failure before it
withdraws the resource.

### 2.2 What is abstracted

* The mode timer is not a variable. `Overdue` says when 5 s or 3 s may have run
  out: with `LateAnswers = FALSE` only when no answer is given or being worked
  on, with `LateAnswers = TRUE` at any time. The 50 ms of jitter may end whenever
  target and current mode differ in Work.
* All modes share `ModeTask`. They differ in what they do at STOP: `StopsBlindly`
  modes (media, HDMI, USB device, S/PDIF) always ask the decoder; the others
  answer at once when `DecoderSync` says that there is none; hands-free over
  CVSD has no decoder (the mSBC path is left out, and with it the assignment at
  `bt_hf_mode.c:863`). A running Waiting mode drops what its services say
  of their creation. The USB phone mode has its row in the table and answers no plug.
* A `DECODER_CREATED` or `DECODER_STARTED` that arrives after STOP overwrites the
  Stopping state, as in the code; the exit timer then ends it.
* `DecoderServiceCreate`'s result, which no mode looks at, is `DecoderHangs` while
  Creating. The recorder's STOPPED is folded into the decoder's.
* The queue of a mode is unbounded; that of the main task is not (`MainQLen`).
* The software flag of the frame-size change, CEC wake-up, the wake-up source
  mask, `flagVoiceDelayExitBtHf` and the reset of the USB detection on exit
  touch no property and are left out; so is `gHfFuncState`, which a call during an exit
  sets and `ExitBtHfMode` clears (`bt_hf_mode.c:1937`, `1975`), and which nothing else reads.
* An alarm (`rtc_ctrl.c`) is an act of the outside that sends `MSG_RTC_ALARMING`. It asks for
  the Rest mode, which the shipped configuration has switched off: the confirmation
  at the entrance then goes on to the next mode.
* In this model the boot prompt ends (`PromptOver`). That it does is a claim about
  the prompts of the Waiting mode, which are not modelled yet.

### 2.3 The prompts and the decoder

`remind` is `RemindSoundServiceCt`: `RemindState` (`st`), `RequestRemind` (`req`),
how many clips `RemindBlockCircular` holds (`blk`), `IsBlock`, and where its task
is (`at`): in its queue, in the 10 ms of `RemindSoundServicePlayItem`, between the
test and the assignment of a cut, or in the 20 ms of `DecoderMuteAndStop`.
`decoder` is `decoderState`, with the stream it was initialised for; `pcm` says
whether its FIFO holds samples; `flags` are the four bits of `SoftwareFlag` the
hand-over is about. `app` is the mode: its state, `sbcDecoderStarted` and whether
its source is muted. `refresh` is the 20 ms which the Bluetooth stack, or the
decoder itself, spends in `BtSbcDecoderRefresh`. The four queues are those of the
service, the decoder, the mode and the main task, which passes the service's
messages to the mode when it is in Work and drops them otherwise.

The hand-over in Bluetooth play: the service says NEED, the mode sets
`DecoderSwitch` and resets the decoder; at the decoder's answer it sets
`DecoderRemind`, clears `DecoderSwitch` and tells the service to play. When the clip
has been heard the service resets the decoder, and since `DecoderSwitch` is not set
the mode takes this answer for the return.

The media player takes part in the same way, with two differences. It announces itself
before it takes up its medium (`app.wait` is `ModeRemindWait`, its state is Paused
meanwhile) and gives the decoder out at once then; and what it does at an answer of the
decoder is a song refresh, which may find a file it cannot open or decode. `app.player`
is `CurPlayState`, `app.sync` what it believes of the decoder (`DecoderSync`).

Abstracted:

* Three kinds of mode: "Bt" (Bluetooth play), "Media" (card and disk), "Line" (line in;
  the USB sound card differs in that its prompt is a block prompt). A mode is created,
  and is killed, in one step each; `ModeTask` has the steps. The exit timer of 3 s
  (`Overdue`) ends a mode that runs with nothing left to do and has not answered.
* `Preempted`: the service and the mode have priority 3, the decoder 4. They do not
  go on before the decoder has dealt with what is in its queue. The stack, the main
  task and the callback that reads the clip are not held back. The 20 ms of a stop that
  the mode itself asks for are left out, since the mode then does nothing else.
* `EnterMode` waits until the service has emptied its queue and the refresh is
  over: `RemindSoundServiceReset`, `EndModeExit` and `SelectModeBeforeEnter` delay
  10 ms each, between which the decoder stops. Nothing but these delays
  keeps the reset of one mode from the prompt of the next.
* A stream may begin at any moment (`StreamComes`), also while a prompt waits for the
  decoder or plays. Then `SbcDecoderStart` withdraws `DecoderSwitch` or `DecoderRemind`
  (`bt_play_api.c:300`) and the service, which has no timeout, is left waiting until its mode
  ends. `RemindHistory` remembers in `robbed` that this has become of the prompt at hand.
* Which clip is asked for, its data, and the flash that holds it: `Missing = TRUE`
  lets any look for a clip fail, and the decoder refuse one that was found (`Fails`), as it
  may refuse a stream or a song. An error in the middle of a clip is left out:
  the clips are verified when the service starts (`remind_sound_service.c:193`). An image
  without any valid clip (`SoftFlagNoRemind`) refuses all requests and is left out.
* Of the player: a song is one that plays or one that does not; each one that does not
  is an act, since a medium without any playable song makes it try for ever. Which song,
  folder or repeat mode, seeking, the recorder and the count of disk errors are left out.
* Block requests of hands-free (the number prompt), `MSG_REMIND_SOUND_PLAY_END`, the
  local ring and the Waiting mode are not in this model.

### 2.4 The device database

`records` holds the blocks of whole lists, `last` the entries of last devices, `list`
the records in RAM. A handler computes the calls of the flash driver it makes (`todo`);
`FlashStep` carries them out one at a time and `PowerCut` may come before each. A call is
atomic; a cell programmed twice with different values holds neither (`Mixed`), which is
what clearing bits amounts to. One block straddles the two sectors, as in the code,
where they are erased one after the other. After a cut between the two erases
(`halfErased`) the tail of that block survives and the next list is programmed on top of
it: three properties except this state until the next erase, because they do not hold
in it. TWS records, the parameters block and the test modes that suppress writes are left
out.

### 2.5 The power-off memory

`image[b][s]` is the image in slot `s` of block `b`: its ids and settings, or `Torn` when
the write was cut short (its CRC is wrong). `LatestIn` is `FindLatestBPBak`, `SaveCalls`
the erases and the write of a save, `LoadedFrom` and `LoadCalls` a start. All images have
one size, since a changed `BP_INFO` comes with a new program; writes that the driver
refuses, and the play times in battery-backed memory, are left out. `left` says what an
erasing that was cut short has left: older blocks at the end, which pass for the newest
once the blocks before them are full again, or, when another erasing is cut short before
that, older blocks in pieces, the first of which to be reached does. These are the two
exceptions of `NewestIsLoaded` (`Misread`). The second was found by the proof: three
blocks, which TLC had been given first, are too few for it.

### 2.6 Reconnecting

The manager's fields are the record `m`; each function of the code that changes them is
an operator from `m` to `m`, and the callbacks and timers are actions that compose them in
the code's order. `used`, `started` and `tries` are the reconnecting of `btEventList`,
`page` is the request the stack is at, `asked` counts the requests since the manager was
armed. `check` splits `BtScanPageStateCheck` into its test and its assignment: the main
task has the Bluetooth task's priority and may run in between. The callbacks and the
timers may not (`Loops`): the Bluetooth task runs them itself, before or after.

The stack and the phones are external: one link at a time, callbacks in any order a
link allows, no access while it is open, pages that are answered or time out. Timers
fire at any time after they were set, which covers every length they have. `fate` says
how a link goes down: hung up, lost, broken off. The reset's state FINISHED lasts one
pass of the task, in which no profile comes up. TWS, sniff and the test modes are left out.

### 2.7 The frame size

`main` is the main task (`MState`, whether the target differs, the flag of the change,
and `freed`, the point between release and allocation where the audio core may run);
`core` the audio core with its queue of four; `app` one mode of the generic kind with the
size its buffers have; `tool` what the tuning tool has written. Every one of the eight
messages is an action; modes are left, fail and are created anew around them.
`Overlaps = FALSE` keeps the tool from asking again while a change is under way. In the code
three things see to that. `EffectChange` tests the flag of the change
(`communication.c:6855`), which is set from the message's arrival to `InitDone`. The core's
RESUME, sent just before the flag is cleared, has two delays of 10 ms in which to be taken
(`main_task.c:2450`, `2461`). While the message still lies in the queue only the timer of
500 ms keeps the next one away. `remind_sound_service.c:508` cuts that timer to 5 ms at the
end of a prompt: then it is the main task, which asks once in a pass and must not have had
more than 5 ms of other messages before it, on whose promptness this rests.
Left out are
deep sleep, the timeouts of the modes, the frame size of hands-free
(`bt_hf_mode.c:1172`), the Waiting mode, which does not answer the release, and an
allocation that fails (`main_task.c:2407`).

## 3. The runs

The instance of the appliance has the loop card, Bluetooth, HDMI, and Waiting
outside it: a removable medium that can fail, a source that is always
registered, and a plugged source that cannot fail. Two sources that plug and
one that does not are the least with which the searches, the backup mode and the
confirmation at the entrance all come into play. `switching` adds I2S, always registered
and of the priority of Bluetooth, so that the searches meet ties. `sleeping` and `late` move
the card only, to make room for calls, sleep, hangs and losses; `early_exit` has nothing but
a call. `MaxActs` bounds the acts of
the outside world (plugs, keys, calls, failures): three or four reach every pair
and triple of such acts at every point of a switch, and the main task's own
work is not bounded by it. `MainQLen` is the code's ten, except where losses
are the subject. A system whose outside is quiet comes to rest, which TLC would
take for a deadlock: `CHECK_DEADLOCK FALSE` in the appliance's runs, and
`Settles` says where it rests.

| run | question | distinct states |
|---|---|---|
| `circ_checked` | is the ring a FIFO with trustworthy lengths when both sides ask first? | 11,677 |
| `switching` | plugs, keys, failures, playback, recorder, alarm from boot on | 169,804 |
| `sleeping` | sleep in every state, with plugs, calls, alarms, a hung decoder | 576,186 |
| `late` | a queue of three that loses messages, answers after their timer | 2.8 million |
| `prompts` | does the decoder always come back, the service rest, the player play? | 381,885 |
| `pairing` | what does a restart find of the paired devices and of the last one? | 1,194,946 |
| `poweroff` | what does a restart find of the settings? | 264,540 |
| `reconnect` | whom does the manager ask for, whom does it take for linked, does it stop? | 304,719 |
| `framesize` | does the core always have its buffers, is a change carried through? | 24,034 |
| `early_exit`, `aborted`, `fallback` | three sentences of the code that the code does not keep (violated) | |

`prompts` has all three kinds of mode, two modes one after the other in any order,
and three acts (requests by a key, streams that begin, changes of the player,
refreshes, keys of the media player, songs that end or fail) besides the prompt with
which a mode announces itself: enough for a prompt to be cut by another one, for a
stream or a song to be refreshed while the decoder is given out, and for all of it to be
met by the end of the mode.

`pairing` has three devices for a list of two, so that the oldest record is dropped, two
keys, so that a device pairs anew, two profiles, so that the first and the second take
their different ways into flash, and logs of two entries, so that three changes of the
list fill and erase them; devices and keys are interchangeable (symmetry). `poweroff`
has three contents and four blocks of two images: the least with which erasing can be
cut short twice and leave older images in pieces (the code has eight blocks). Power cuts
are not bounded in either.

`reconnect` has two phones (the last device and a stranger), one try after power-on
and two after a lost link, and three acts of users and phones: a lost link, a phone that
comes first and a key that meets both. `framesize` has three sizes, so that a second
change may go up or down, and five acts of the tool, the user and the medium.

The registries that `switching` reaches are those of four sources; that the loops return what
`ModeTable` states for every other one is proved (`PrioritySearch`, `NextSearch`).
`circ_checked` has a ring of a few cells, so that the pointers wrap and the copy
splits many times; the steps are single bytes and pointer writes, finer than any
interleaving of the processor.

### 3.1 Fairness

`FairSpec` gives weak fairness to the main task, to the mode and its
decoder, and to the services: the scheduler is preemptive, each of them blocks
in its queue with a timeout, and none spins at a priority that would starve the
others. Nothing is promised of the outside: no plug, key, call, failure or
hang is fair, so no liveness property rests on one. In `RemindSound` the same
holds of its four tasks, of the clip, which is finite (`ClipEnds`), of the audio
core, which takes the samples (`PcmPlays`), and of the 20 ms of a refresh; a
stream need never come or run dry, a song need never end, and a mode need never be left.

`BtReconnect` is fair to what the Bluetooth task does every millisecond, its timers and
checks, and to four things it relies on: a request is answered or times out, a link that
goes down goes down, one without a profile is closed, and the service discovery is
free in the end. Phones and users owe nothing; `PagingEnds` is about a stack to which no
phone answers any more. `FrameSize` is fair to the main task, the core and the mode.
`BtDdb` and `BreakPoint` state no fairness: the power may fail for ever.

### 3.2 Properties

Safety. `WaitsHold`: nothing leaves Waiting during the boot prompt and the scan.
`WorkMeansStarted`: MState says Work only when the current mode's own task has
answered, however late answers are, unless that task was created while the answer of a dead
one was still in the queue (`heir`): CREATED and STARTED carry no mode
(`mode_switch_api.c:722`), and the dead one's is taken for its own. `ModesTakeTurns`: the appliance implements `ModeLife` - a mode's task lives
from its creation to the end of its exit, alone, and only then is another mode current -
with `MState` (or where the main task is) as the phase. `SleepIsQuiet`:
asleep means no mode task, both services paused, no plug message owed.
`ExitInHandsFree`: the exit flag does not outlive its mode. `EntersWithSource`
(action property): no mode is entered whose source is not registered at that
moment.

Liveness, once the outside is quiet. `Settles`: Running, in Work, in the wanted
mode. `HasSource`: with its source there. `IdlesOnlyWithoutSource`: Waiting only
when no mode is available. `CallEndIsFollowed`: a call that ends once `BtHfEntrance` has begun is left,
whether `ExitBtHfMode` withdrew the resource or kept the exit for the end of the
initialisation. One that ends earlier need not be (`ExitKeptEarly`, 3.3).

Of the prompts. `OneOwner`: in Bluetooth play and the player a decoder that works for a prompt has
been given out, and one that has been given out does not work for the stream.
`NoHandOverIsLost`: each of the five waits of a hand-over (the service for the decoder,
for the end of a clip it plays, of one it stops, of the samples; the flags for the
return) has the one message that ends it on its way, or its mode ends and resets the
service. None of the waits has a timeout, so a message that is dropped, or taken for the
answer to something else, would leave the service silent for as long as the mode lasts.
There is one way in which this does happen, and it is in the model: a stream of the phone
begins between the request for the decoder and the answer, or while the prompt has it, and
`SbcDecoderStart` withdraws the flags (`bt_play_api.c:300`). `Robs` is that step, `robbed`
lasts until the service is at `REMIND_STANDBY` again, and the property says that no prompt
but a robbed one loses its message. A START that is handled while the NEED is still on its way
robs nobody.
`ServiceRests`: a service that is not at rest rests again, whether the prompt is
heard, cut, missing, or its mode left, or it has been robbed. `DecoderReturns`: a decoder taken from a player
is given back. `PlayerIsHeard`: a player that was muted for it is unmuted or ends.

Of flash. `SavedListSurvives`: between saves a restart finds the list last saved, through
the scan for the newest block, the erasing of full sectors and blocks torn before.
`CutLeavesOldOrNew`: in the middle of a save it finds the old list, none, or the first
records of the new one. `LastDeviceAgrees`: the last device in flash, its profiles and
the slot remembered are those in RAM. `LinkedDeviceIsKnown`: a device whose link is up
and whose record was saved is known after a restart by the same key. `NewestIsLoaded`,
`EraseKeepsNewest`, `NothingOlderComesBack`: a start loads the settings saved last, the
erasing of full blocks loses nothing before its last step, and no cut brings older
settings back.

Of the Bluetooth manager. `LinkHonest`: the link state follows the profiles, in whatever
order they come and go. `LastIsLinked`: while a profile is up, the last device is
the one linked, also when another phone came first. `NoStranger`: while a phone is
connected no other is asked. `PagingEnds`: when no phone answers any more, the asking
ends; `TypeOK` bounds how often: no mixture of page timeouts, access reports and busy
answers asks more than three times beyond the tries, when the manager is armed, for a
connect key that was interrupted, and for AVRCP when that is due. Three acts do not reach
the third; the proof does.

Of the frame size. `CoreHasBuffers`: the core runs only when the buffers of main task and
mode are there and of one size. `ChangeCompletes`: a change in a mode that stays ends with
the core running and the flag cleared.

Some of them hold only under a run's conditions, and this is a result too:

* `HasSource` fails when sleeps are added: the wake-up enters the mode that was
  left without asking for its source.
* `CallEndIsFollowed` fails when `HFP_CONNECTED` arrives during a call: it resets
  `gEnterBtHfMode` and the BTHF_OUT that follows is ignored.
* `IdlesOnlyWithoutSource` fails with calls: a call taken in Waiting makes
  Waiting the mode to come back to.
* `NoHandOverIsLost` and `ServiceRests` fail for a prompt that a stream robs: the service
  waits for the decoder until the mode is left, and all prompts of that mode are ignored.
* `CoreHasBuffers` fails with `Overlaps = TRUE`: a second change meets the answers of
  the first.
* `FifoIntact` and `LenExact` fail with `Checked = FALSE`, a writer that does not ask for
  space, as the isochronous USB interrupt (`otg_device_audio.c:199`): the pointers
  coincide over a full ring, which then reads as empty.
* `LinkedDeviceIsKnown` excepts records behind a hole (deleting the last place
  clears place 0 instead, `bt_ddb_flash.c:203`): the next save does not count them.

### 3.3 Where the code and its own comments disagree

The three violation runs, each quoted in `PROJECT.json`:

1. `early_exit`: a call that ends while hands-free is being entered has its exit kept in
   `BtHfModeEixtList`, and the comments at `bt_hf_mode.c:1984` and `2004` say that the mode is left
   when its initialisation is over. But `BtHfEntrance`, which begins in between, clears
   that flag (line 1055), and the appliance stays in hands-free without a call.
2. `aborted`: `BtLinkStateDisconnect` clears the event of a broken-off link
   (`BtStopReconnect`, `bt_manager.c:2731`) just before it tests it, so the return that
   the comment at `bt_manager.c:428` promises never starts.
3. `fallback`: when the newest image of the settings is torn the others are to be tried
   (`breakpoint.c:531`), but the first slot that was never written makes the search
   erase them all.

Seen while modelling and not made into runs.

Of the appliance: with a backup mode equal to the current mode the MODE key does
nothing; a mode that cannot be created is tried again without end, because
`MSG_MAINAPP_NEXT_MODE` (`main_task.c:1046`, whose debug text, commented out, speaks of
the next mode) finds the same target; a Waiting mode that cannot be created at boot
leaves the main task in Ready, where it throws all messages away; a BTHF_IN ignored
during the boot wait leaves `BtHfModeEnterFlag` set, and no later call enters
hands-free; a PAUSED lost by a full queue leaves the appliance pausing; an alarm, for which
the Rest mode is switched off, ends the mode at hand, also a call's, for the backup mode or the
next of the loop; the flag that protects a playback is
cleared by `EndModeExit` before the playback begins.

Of the prompts: a clip that is missing leaves a line mode muted; "Play Direct" of a
missing clip fails without a message. A STOP that finds the first prompt of a media
player just over, with the decoder's answer behind it in the queue, makes the player take
up its medium and run again (`media_play_mode.c:724`); `SERVICE_STOPPED` is then not
answered and the mode ends by its exit timer. STOP followed by PLAY before the decoder's
answer refreshes the song twice, and the stale answer skips one.

Of Bluetooth: neither "Bluetooth opens in its mode", nor "a reset ends", nor
"reconnecting ends in a closed mode" holds: an order written between test and assignment
of `btScanPageState` is lost, and a link lost while closing starts a reconnecting that
only the hang-up at `bt_stack_service.c:1026` stops, again and again. The reset
leaves `btLinkDeviceInfo` and the last profiles as they were (1105-1110), so that the
manager may page address zero; the 5 s in which AVRCP must follow the end of A2DP
(`bt_a2dp_app.c:136`) are never cleared when an abort ends in between, because
`bt_stack_service.c:487` clears another count; a timeout of the A2DP request
(`bt_a2dp_app.c:143`) leaves the reconnecting waiting when A2DP was not up. A deletion
does not mark the list as changed (`bt_platform_interface.c:203`): the record is back
after a restart.

Of the frame size: a change that crosses the failure of its medium leaves the core
paused until the tool acts again; one whose release is answered after the next mode was
created makes that mode allocate its buffers a second time.

## 4. The proofs

Proved for every value of the constants, under the named assumptions of the modules
(sizes are positive, a ring is shorter than 2^16 bytes, since its lengths are kept in
`uint16_t`, sets are subsets of the table's, kinds of mode are the three of
2.3, tries are counts, "no device" and "no record" are neither, a count is not a blank
byte, the first frame size is one of the sizes):

* `RingIsIntact`, `RingLengthsAreExact`: `FifoIntact` and `LenExact` hold in
  every ring whose sides check first (`Checked`). The inductive invariant relates
  the bytes already copied to the pointer not yet moved: an unfinished put
  has filled a prefix of the free cells, an unfinished get has taken a prefix of
  the full ones, and the other side's pointer, read earlier, was on the safe side.
* `NextIsAvailable`, `PriorityIsAvailable`, `ResourceIsAvailable`: for every loop
  and registry the searches return an available mode, or Waiting. They
  are about the searches as stated in `ModeTable`.
* `PrioritySearch`, `NextSearch`: `PriorityAgrees` and `NextAgrees` hold of every state, for
  every loop and every content of the registry: the loops of the code return what `ModeTable` states. `ModeSearch` writes a
  loop as its rounds (`Rounds`, a recursive function over the counter). That such a
  function exists, and that what every round keeps holds at the end, are proved once
  (`HistoryExists`, `RoundsKeep`) from the least number principle: the shortest loop
  without a result, and the first round that breaks what is kept, contradict
  themselves. What is kept is the line of the best open place so far (`FoundPlace`), the
  best user so far (`FoundLine`), and an index that stands behind the places visited, none
  of them available (`Standing`, `Returned`). That each mode has one row (`OneRow`) and that an index
  below twice the length wraps by one subtraction (`Wraps`) is what the loops rely on.
* `TypeCorrect`, `LivingTaskIsCurrent`, `EntryHasSource`. The inductive invariant
  is `Inv1 == TypeOK /\ HasDac /\ AppIsCurrent`. (`AppIsCurrent`, that the living task is
  the current mode's, has no run of its own: `ModesTakeTurns` says more.) `HasDac` (the DAC is always
  registered) is needed because Waiting, which the searches fall back on, needs
  it; without it EntersWithSource is not preserved by a search that fails.
  `TypeOK` needs that no handler lengthens the main queue beyond `MainQLen`.
* `SleepFindsQuiet`: `SleepIsQuiet`. No PAUSED says of which pause it is, so the
  invariant `Books` keeps account: for each service, an answer is in the queue
  at most once and only of the pause under way; a service that has been counted
  stays paused with an empty box; a task that is gone is so in MState too
  (`ModeBooks`); a paused device service owes no plug message (`PlugBooks`). It
  holds with losses and late answers, so the theorem covers the `late` run's
  conditions for every queue length.
* `LifeOfTheModes`, `OneModeAtATime`: `ModesTakeTurns`, and what it promises
  (`OneAtATime`, which includes `AppIsCurrent` of every task that exists). No other task's
  step is seen in `ModeLife` (`OthersUnseen`); a handler of the main task that ends in
  `EndModeExit` is an End, a creation a Boot, Create or Wake, and of the others those that
  change `MState` are a Work or a Leave. It needs `Books`, since MState must be Pause, not
  None, when the last PAUSED puts the chip to sleep, and `Booted`: after the boot the current
  mode is never `AppModeIdle`, so that what a wake-up enters is a mode. It holds with
  losses and late answers: those may take the appliance from entering to working too
  early (`WorkIsStarted` says when not), but never let two tasks live.
* `LinkFollowsProfiles`, `LastDeviceIsLinked`, `StrangersAreNotAsked`: `LinkHonest`,
  `LastIsLinked`, `NoStranger`. The invariant adds to them that a profile needs a link to
  the device it is of, and that a reset that has forgotten the devices found no profile
  up. Reconnecting is `Quiet`: whatever timer, timeout or busy answer moves it, it
  touches none of profiles, link state, remote and last device, and asks only the last
  device; so only the callbacks of the profiles and the reset can break the three.
* `CoreNeverStarves`: `CoreHasBuffers`, when changes do not overlap (`~Overlaps`). A change
  is a baton in exactly one of three queues or two flags (`Baton`, said of a
  queue by `Carries`), and where it is says whether the core stands still (`Safe`). The
  baton is lost when a mode ends with its queue; that the core is then paused until the
  next mode has its buffers needs the life of the mode as a second baton (`Life`): a
  mode that has stopped is being left, and no answer of its start is still to come.
* `QueuesSuffice`: `FrameSize`'s `TypeOK`, under the same condition and for at most eight
  acts of the outside. The two batons are one message each, wherever they are (`Held`,
  `Once`): the mode's queue holds at most both, the core's one. The main task's queue holds
  beside them only the reports of a medium that fails, and each of these is an act
  (`Room`).
* `AskingIsBounded`: `BtReconnect`'s `TypeOK`, with its bound on the asking. What is
  asked, the tries left, a running timer and the request for AVRCP that is due, added up,
  never grow between two successes (`Within`), except by the one that an interrupted
  connect key still owes (`Bound`).
* `RingTypes`, `RingIsAFifo`: the ring implements `ByteFifo` (`ImplementsFifo`), step by
  step: what is unread, from the read pointer on, is the abstract queue; the write of a
  pointer is a put or a get of what was copied, and every copied byte is a stutter.
* `SlotsExist`, `LoadsTheNewest`, `ErasesOldestFirst`, `CutBringsBackTheLast`: `TypeOK` and
  the three properties of `BreakPoint`, for every number of blocks and of images in a
  block. In the invariant the images of a block stand one behind the other (`Runs`), at
  most one block is partly filled, and it is the highest one in use (`OneRoom`,
  `RoomIsLast`); what is to be done is nothing, one write behind the newest image, or the
  erasing of the blocks from some one on (`Resting`, `Writing`, `ErasingFrom`), and what
  an interrupted erasing left says how far the blocks are in order (`Shaped`).
* `DatabaseTypes`, `SavedListIsFound`, `CutKeepsOneList`, `LastDeviceIsFound`,
  `LinkedDeviceIsFound`: the five invariants of `BtDdb`, for every number of devices, of
  blocks and of log entries. The invariant (`Phases`) says what the handler's calls of the
  flash driver still have to do and what the two logs hold meanwhile: both sectors to
  erase, a header to write below the blocks in use (`Heading`), some of its records
  (`Filling`), the last device only (`Naming`), or nothing (`Resting`). A save needs the
  blocks below those in use to be blank (`Clean`), since programming a cell twice mixes two
  values; that no handler, and no power cut, leaves anything there is the heart of the
  proof. It fails only between the erasing of the two sectors (`halfErased`), as the
  properties say. The link needs three more facts: the device with a profile up is the
  last one (`OnLine`); behind an unused place, except the first, the list in RAM is empty
  (`OneHole`, where deleting from the last slot clears the first one); and an unmarked
  list holds only saved records (`Known`).
* `BootWaitIsKept`: `WaitsHold`. While the boot prompt runs, neither a permission nor a
  failure can be in the queue, and hands-free was not entered (`WaitBooks`).
* `ExitFlagDiesWithTheMode`: `ExitInHandsFree`, from `Inv1`, `Books` and `WaitBooks`.
* `WorkIsStarted`: `WorkMeansStarted`, for answers as late as may be. The current mode's
  task is in one of a few stages, each with the answers that may be under way (`Stages`),
  or it was created over an answer of a dead one (`heir`). A task created over a queue
  without answers begins at the first stage, and until it is at work every answer in the
  queue is its own, and the one its stage allows (`Hearkening`). Of a mode that is being left nothing is
  said, neither what it has answered nor when its timer kills it: there is no way from
  there to Work but by another creation, which looks at the queue anew.
* `PromptTypes`, `DecoderHasOneOwner`: `TypeOK` (which no run repeats) and `OneOwner` of
  `RemindSound`, for every
  number of requests, streams, keys and modes, whether or not clips are missing, and whenever
  a stream begins. A flag and a message say nothing of which prompt they
  are for, so the invariant says what lies in the queues. In a mode that has a decoder of
  its own and is not ending, one hand-over is under way at a time (`Cycle`): the service
  waits while a NEED or a `DecoderSwitch` is out, PLAY reaches it only while it waits, and
  an answer to a reset never finds a prompt on the decoder, so that taking the decoder
  back is right. A NEED in the main task's queue counts only if it will reach this
  mode (`Fresh`): those before its STARTED are dropped. The end of a mode is in one
  place, asked of the mode, of its decoder, or done (`Ends`), and only then is the service
  reset (`Resets`): from there on `Cycle` need not hold, and `Owners`, which implies
  `OneOwner`, rests on a decoder that does not run for a prompt any more. `Resets` bounds
  the list of prompts, too: no mode that lends its decoder lists one.
* `HandOversArrive`: `NoHandOverIsLost`, for every number of requests, streams, songs, keys
  and modes, and streams that begin at any moment. The invariant says for each wait, while the mode is at
  work (`AtWork`: its decoder runs and no reset is under way), what ends it: NEED, the
  reset at the decoder's head or its answer, or PLAY for the service (`OnWait`); the use or
  the reset for what is lent (`OnLoan`); the decoder set up with PLAY before it, at play, or
  a stop on its way for the prompt (`OnPlay`, `OnRest`). `Cycle` is what makes it inductive: since
  one hand-over is under way at a time, the answer that is heard is the one that is waited
  for, and a NEED that is refused because the decoder is lent would have met a lent decoder
  with nothing to bring it back. A START heard in between withdraws both flags. Where
  that robs the prompt, the invariant goes on with `Lost` instead: nothing is lent, promised
  or asked for, and the service is not at rest, so that it asks for nothing new either.
  Where the service has nothing, or a NEED is still on its way, nothing is lost (`Unasked`).
  `Mains` had to say that STARTED is in the main task's queue exactly in Enter, so that
  what the service sends after a mode is entered is not dropped.

The step lemmas have one step per action; operators that change a record have
lemmas of their own (`TaskFields`, `CallFields`, `SentIsQueue`).

Only model-checked: every liveness property (fairness and ENABLED are out of the
prover's reach).

## 5. The plan

Done in this order: the ring and its proofs; the mode table and its searches; the
main task with its modes, services and calls; the proofs about them; the prompts and
the decoder; the device database, the power-off memory, the reconnecting and the frame
size; the media player's part in the hand-over; the proofs about them, the hand-over's and
the refinement of `ModeLife` last.

Next, most important first:

1. `RemindSound`, extended: the Waiting mode, whose boot prompt must end, and hands-free
   with its number prompt, its full block list and `MSG_REMIND_SOUND_PLAY_END`.
2. `FrameSize` with deep sleep and hands-free's own size.
3. `AtomicFlags`: `SoftwareFlag` and `ModeResourceReady` with split
   read and write, tasks of different priority.
4. `DeviceDetect` and `Keys`: debouncing machines over all bounded inputs.
   `Recorder`: its two-list buffers and its medium. `Heap5s`: allocation from both ends.

### Not modelled

Signal processing and effects, the closed Bluetooth stack, register-level drivers,
FatFs and FreeRTOS themselves, the tables of the tuning protocol, and what the shipped
configuration switches off. They hold most of the repository's lines and hardly any of
the control that the properties here are about.
