----------------------------- MODULE SharedState -----------------------------
(***************************************************************************)
(* The globals the tasks of the appliance share, and the two services they  *)
(* use on them: message queues (rtos_api.c) and software flags.             *)
(***************************************************************************)
EXTENDS ModeSearch

CONSTANTS
  MainQLen,      \* length of the main task's queue (ten in the code)
  Static,        \* what ResourcePreSet registers under the build's switches
  PlugSet,       \* the plugs that are moved in a run
  Acts,          \* the kinds of outside act a run allows
  MaxActs,       \* bound on the number of outside acts
  LateAnswers    \* TRUE: an answer may take longer than its protection timer

ASSUME QueueAssumption  == MainQLen \in Nat \ {0}
ASSUME StaticAssumption == Static \subseteq Resources
ASSUME PlugAssumption   == PlugSet \subseteq Plugs
ASSUME BoundAssumption  == MaxActs \in Nat /\ LateAnswers \in BOOLEAN

\* ModeSearch has ModeResourceReady: ready.
VARIABLES
  state,    \* mainAppCt.state: Ready, Running, Pausing
  MState,   \* mainAppCt.MState: None, Enter, Work, Exit, Pause
  cur, target, backup,   \* appCurrentMode, appTargetMode, appBackupMode
  sync,     \* DeviceSync and RemindSoundSync: the services that said PAUSED
  at,       \* where the main task is: boot, recv, create (the vTaskDelay(10)
            \* before ModeCreate) or sleep
  flags,    \* SoftwareFlag
  mainQ,    \* the main task's queue
  app,      \* the mode's task: its mode, state and queue, what it notes of itself
            \* and, as DecoderSync, of its decoder; the decoder and its queue; and heir,
            \* which no step reads: that it was created over an answer still Owing
  svc,      \* the device and remind services: Running or Paused, their queue
  plug,     \* a plug change the device service registered and has not yet sent
  hf,       \* gEnterBtHfMode, BtHfModeEnterFlag, ...ExitFlag, ...EixtList
  acts      \* outside acts so far

mainVars == <<state, MState, cur, target, backup, sync, at>>
vars     == <<state, MState, cur, target, backup, sync, at,
              ready, flags, mainQ, app, svc, plug, hf, acts>>

\* An act of the outside world: a user, a medium, a caller.
Act(kind) == kind \in Acts /\ acts < MaxActs /\ acts' = acts + 1

Services == {"Device", "Remind"}

\* A message is its MSG_ id and what it is about: the plug or the service.
Message(id)  == [id |-> id, of |-> "none"]
About(id, x) == [id |-> id, of |-> x]
NoPlug       == Message("none")

\* A slip of Sent that takes the queue to be endless.
SentAlways(q, m) == Append(q, m)

\* MessageSend gives a full queue no time to empty: the message is lost, and no
\* caller looks at the result.
Sent(q, m) == IF Len(q) < MainQLen THEN Append(q, m) ELSE q

\* CREATED and STARTED do not say of which mode they are.  One that is in the queue
\* when a mode's task is created comes of a task that had outlasted its protection
\* timer and is dead.
AnswerIds == {"CREATED", "STARTED"}
Owing(q)  == \E i \in DOMAIN q : q[i].id \in AnswerIds

WaitModeMask == {"WaitDetect", "WaitSysRemind"}
Waits        == flags \cap WaitModeMask # {}     \* SoftFlagGet(SoftFlagWaitModeMask)

NoApp == [mode |-> Waiting, st |-> "none", todo |-> <<>>, note |-> "fresh",
          dsync |-> FALSE, dec |-> "none", orders |-> <<>>, heir |-> FALSE]

\* The states in which the mode's context and its queue exist.
HasQueue == app.st \notin {"none", "failed"}
===============================================================================
