-------------------------- MODULE FrameSize_proofs --------------------------
(***************************************************************************)
(* The core never mixes without buffers, for every set of frame sizes and  *)
(* whatever the tool, the user and the medium do.  A change is one baton   *)
(* that the three tasks hand on: at any time it is in one place (Baton),   *)
(* and where it is says whether the core stands still and the buffers are  *)
(* there (Safe).  The life of the mode is a baton of its own (Life), which *)
(* the argument needs where the mode ends and the first baton is lost.     *)
(***************************************************************************)
EXTENDS FrameSize, TLAPS

\* Of the messages msgs the queue q holds just tok, or none when tok is not one of them.
Carries(q, msgs, tok) ==
  /\ \A i \in DOMAIN q : q[i] \in msgs => q[i] = tok
  /\ \A i, j \in DOMAIN q : q[i] \in msgs /\ q[j] \in msgs => i = j
  /\ tok \in msgs => \E i \in DOMAIN q : q[i] = tok

MainToks == {"FRAME", "EFFECT", "PAUSED", "RELEASE_SUC", "MALLOC_SUC", "INIT_SUC"}
AppToks  == {"RELEASE", "MALLOC", "INIT"}
CoreToks == {"PAUSE", "HOLD", "RESUME"}
Toks     == MainToks \cup AppToks \cup CoreToks \cup {"FREED", "TELL", "NONE"}

MainLife == {"CREATED", "STARTED", "STOPPED"}
AppLife  == {"START", "STOP"}

\* Where the change is.
Baton(tok) ==
  /\ Carries(mainQ, MainToks, tok) /\ Carries(app.box, AppToks, tok)
  /\ core.box = IF tok \in CoreToks THEN <<tok>> ELSE <<>>
  /\ main.freed <=> tok = "FREED"
  /\ (core.pause /\ core.tell) <=> tok = "TELL"

\* What that says.  A mode that has stopped may have lost the baton with its queue.
Safe(tok) ==
  /\ core.st = "Running" => tok \notin {"PAUSED", "RELEASE", "RELEASE_SUC", "FREED", "MALLOC"}
  /\ app.buf # size =>
       /\ core.st = "Paused"
       /\ tok \in {"RELEASE_SUC", "FREED", "MALLOC"} \/ (tok = "NONE" /\ main.st = "Exit")

\* Where the life of the mode is: an order, an answer, or its decoder at work.
Stage(tok) ==
  \/ tok \in {"CREATED", "START"} /\ main.st = "Enter" /\ app.st = "Ready"
  \/ tok = "STARTED" /\ main.st = "Enter" /\ app.st = "Running"
  \/ tok = "STOP" /\ main.st = "Exit" /\ app.st \in {"Ready", "Running"}
  \/ tok = "STOPPED" /\ main.st = "Exit" /\ app.st = "Stopped"
  \/ tok = "NONE" /\ <<main.st, app.st>> \in
       {<<"Enter", "Creating">>, <<"Enter", "Starting">>, <<"Work", "Running">>,
        <<"Exit", "Stopping">>}
Life(tok) ==
  Carries(mainQ, MainLife, tok) /\ Carries(app.box, AppLife, tok) /\ Stage(tok)

MainStates == [st : {"Enter", "Work", "Exit"}, other : BOOLEAN, flag : BOOLEAN,
               freed : BOOLEAN]
ToolStates == [want : Frames, len : BOOLEAN, eff : BOOLEAN]
CoreStates == [st : {"Running", "Paused"}, pause : BOOLEAN, tell : BOOLEAN,
               box : Seq(CoreToks)]
AppStates  == [st : {"Creating", "Ready", "Starting", "Running", "Stopping", "Stopped"},
               box : Seq(AppMsgs), buf : Frames \cup {NoBuf}]
Types ==
  /\ main \in MainStates /\ mainQ \in Seq(MainMsgs) /\ size \in Frames
  /\ tool \in ToolStates /\ core \in CoreStates /\ app \in AppStates

\* The invariant.
IInv ==
  /\ Types
  /\ \E tok \in Toks : Baton(tok) /\ Safe(tok)
  /\ \E life \in MainLife \cup AppLife \cup {"NONE"} : Life(life)

-----------------------------------------------------------------------------
(* Queues that carry. *)

LEMMA AppendCarries ==
  ASSUME NEW S, NEW q \in Seq(S), NEW msgs, NEW tok, NEW x, Carries(q, msgs, tok)
  PROVE  /\ x \notin msgs => Carries(Append(q, x), msgs, tok)
         /\ tok \notin msgs => Carries(Append(q, x), msgs, x)
<1> DEFINE r == Append(q, x)
<1>1. /\ Len(q) \in Nat /\ DOMAIN q = 1 .. Len(q) /\ DOMAIN r = 1 .. Len(q) + 1
      /\ r[Len(q) + 1] = x /\ \A i \in DOMAIN q : r[i] = q[i]
  OBVIOUS
<1> HIDE DEF r
<1>2. DOMAIN r = DOMAIN q \cup {Len(q) + 1}
  BY <1>1
<1>3. x \notin msgs => Carries(r, msgs, tok)
  BY <1>1, <1>2 DEF Carries
<1>4. tok \notin msgs => Carries(r, msgs, x)
  BY <1>1, <1>2 DEF Carries
<1> QED BY <1>3, <1>4 DEF r

\* What is handed on elsewhere leaves a queue without any.
LEMMA OtherCarries ==
  ASSUME NEW S, NEW q \in Seq(S), NEW msgs, NEW tok, NEW to, Carries(q, msgs, tok),
         tok \notin msgs, to \notin msgs
  PROVE  Carries(q, msgs, to)
BY DEF Carries

LEMMA EmptyCarries ==
  ASSUME NEW msgs, NEW tok, tok \notin msgs PROVE Carries(<<>>, msgs, tok)
BY DEF Carries

LEMMA HeadCarries ==
  ASSUME NEW S, NEW q \in Seq(S), NEW msgs, NEW tok, Carries(q, msgs, tok), q # <<>>
  PROVE  /\ Tail(q) \in Seq(S) /\ Head(q) \in S
         /\ Head(q) \in msgs => Head(q) = tok
         /\ Head(q) \notin msgs => Carries(Tail(q), msgs, tok)
         /\ \A to : Head(q) \in msgs /\ to \notin msgs => Carries(Tail(q), msgs, to)
<1>1. Tail(q) \in Seq(S) /\ Head(q) \in S
  OBVIOUS
<1>2. 1 \in DOMAIN q /\ Head(q) = q[1] /\ Len(q) \in Nat /\ DOMAIN q = 1 .. Len(q)
  OBVIOUS
<1>3. /\ DOMAIN Tail(q) = 1 .. Len(q) - 1
      /\ \A i \in DOMAIN Tail(q) : i + 1 \in DOMAIN q /\ Tail(q)[i] = q[i + 1]
  OBVIOUS
<1>4. \A i \in DOMAIN q : i = 1 \/ (i - 1 \in DOMAIN Tail(q) /\ Tail(q)[i - 1] = q[i])
  OBVIOUS
<1>5. Head(q) \in msgs => Head(q) = tok
  BY <1>2 DEF Carries
<1>6. ASSUME Head(q) \notin msgs PROVE Carries(Tail(q), msgs, tok)
  <2>1. \A i \in DOMAIN Tail(q) : Tail(q)[i] \in msgs => Tail(q)[i] = tok
    BY <1>3 DEF Carries
  <2>2. \A i, j \in DOMAIN Tail(q) : Tail(q)[i] \in msgs /\ Tail(q)[j] \in msgs => i = j
    <3> SUFFICES ASSUME NEW i \in DOMAIN Tail(q), NEW j \in DOMAIN Tail(q),
                        Tail(q)[i] \in msgs, Tail(q)[j] \in msgs
                 PROVE  i = j
      OBVIOUS
    <3>1. i + 1 = j + 1
      BY <1>3 DEF Carries
    <3> QED BY <3>1, <1>3
  <2>3. tok \in msgs => \E i \in DOMAIN Tail(q) : Tail(q)[i] = tok
    BY <1>6, <1>2, <1>4 DEF Carries
  <2> QED BY <2>1, <2>2, <2>3 DEF Carries
<1>7. ASSUME NEW to, Head(q) \in msgs, to \notin msgs PROVE Carries(Tail(q), msgs, to)
  <2>1. \A i \in DOMAIN Tail(q) : Tail(q)[i] \notin msgs
    <3> SUFFICES ASSUME NEW i \in DOMAIN Tail(q), Tail(q)[i] \in msgs PROVE FALSE
      OBVIOUS
    <3>1. i + 1 = 1
      BY <1>7, <1>2, <1>3 DEF Carries
    <3> QED BY <3>1, <1>3
  <2> QED BY <2>1, <1>7 DEF Carries
<1> QED BY <1>1, <1>5, <1>6, <1>7

-----------------------------------------------------------------------------
(* The queues of the main task and of the mode, for the two batons at once. *)

Counts(tok, life) == Baton(tok) /\ Life(life)

LEMMA MainTakes ==
  ASSUME Types, NEW tok \in Toks, NEW life, Counts(tok, life), mainQ # <<>>
  PROVE  /\ Tail(mainQ) \in Seq(MainMsgs)
         /\ Head(mainQ) \in MainToks =>
              /\ tok = Head(mainQ) /\ Carries(Tail(mainQ), MainLife, life)
              /\ \A to : to \notin MainToks => Carries(Tail(mainQ), MainToks, to)
         /\ Head(mainQ) \in MainLife =>
              /\ life = Head(mainQ) /\ Carries(Tail(mainQ), MainToks, tok)
              /\ \A to : to \notin MainLife => Carries(Tail(mainQ), MainLife, to)
         /\ Head(mainQ) = "FAILURE" =>
              Carries(Tail(mainQ), MainToks, tok) /\ Carries(Tail(mainQ), MainLife, life)
<1>1. mainQ \in Seq(MainMsgs) /\ Carries(mainQ, MainToks, tok) /\ Carries(mainQ, MainLife, life)
  BY DEF Types, Counts, Baton, Life
<1>2. MainToks \cap MainLife = {} /\ "FAILURE" \notin MainToks \cup MainLife
  BY DEF MainToks, MainLife
<1> QED BY <1>1, <1>2, HeadCarries

LEMMA AppTakesOne ==
  ASSUME Types, NEW tok \in Toks, NEW life, Counts(tok, life), app.box # <<>>
  PROVE  /\ Tail(app.box) \in Seq(AppMsgs)
         /\ Head(app.box) \in AppToks =>
              /\ tok = Head(app.box) /\ Carries(Tail(app.box), AppLife, life)
              /\ \A to : to \notin AppToks => Carries(Tail(app.box), AppToks, to)
         /\ Head(app.box) \in AppLife =>
              /\ life = Head(app.box) /\ Carries(Tail(app.box), AppToks, tok)
              /\ \A to : to \notin AppLife => Carries(Tail(app.box), AppLife, to)
<1>1. app.box \in Seq(AppMsgs) /\ Carries(app.box, AppToks, tok) /\ Carries(app.box, AppLife, life)
  BY DEF Types, AppStates, Counts, Baton, Life
<1>2. AppToks \cap AppLife = {}
  BY DEF AppToks, AppLife
<1> QED BY <1>1, <1>2, HeadCarries

-----------------------------------------------------------------------------
(* The types. *)

LEMMA Sends ==
  ASSUME Types
  PROVE  /\ \A msg \in AppMsgs : ToApp(msg) => app' \in AppStates
         /\ \A msg \in CoreToks : ToCore(msg) => core' \in CoreStates
         /\ \A msg \in MainMsgs : Tells(msg) => mainQ' \in Seq(MainMsgs)
<1>1. ASSUME NEW msg \in AppMsgs, ToApp(msg) PROVE app' \in AppStates
  <2>1. Append(app.box, msg) \in Seq(AppMsgs)
    BY DEF Types, AppStates
  <2> QED BY <1>1, <2>1 DEF Types, AppStates, ToApp
<1>2. ASSUME NEW msg \in CoreToks, ToCore(msg) PROVE core' \in CoreStates
  <2>1. Append(core.box, msg) \in Seq(CoreToks)
    BY DEF Types, CoreStates
  <2> QED BY <1>2, <2>1 DEF Types, CoreStates, ToCore
<1>3. ASSUME NEW msg \in MainMsgs, Tells(msg) PROVE mainQ' \in Seq(MainMsgs)
  BY <1>3 DEF Types, Tells
<1> QED BY <1>1, <1>2, <1>3

LEMMA Takes ==
  ASSUME Types
  PROVE  /\ mainQ # <<>> => Tail(mainQ) \in Seq(MainMsgs)
         /\ core.box # <<>> => Tail(core.box) \in Seq(CoreToks)
         /\ \A msg, to : AppTakes(msg, to) /\ to \in AppStates => app' \in AppStates
<1>1. /\ mainQ \in Seq(MainMsgs)
      /\ core.box \in Seq(CoreToks) /\ app.box \in Seq(AppMsgs)
  BY DEF Types, CoreStates, AppStates
<1>2. ASSUME NEW msg, NEW to, AppTakes(msg, to), to \in AppStates PROVE app' \in AppStates
  <2>1. Tail(app.box) \in Seq(AppMsgs)
    BY <1>1, <1>2 DEF AppTakes
  <2> QED BY <1>2, <2>1 DEF Types, AppStates, AppTakes
<1> QED BY <1>1, <1>2

LEMMA TypesKept == ASSUME Types, [Next]_vars PROVE Types'
<1>t. /\ main \in MainStates /\ mainQ \in Seq(MainMsgs) /\ size \in Frames
      /\ tool \in ToolStates /\ core \in CoreStates /\ app \in AppStates
  BY DEF Types
<1>q. mainQ # <<>> => Tail(mainQ) \in Seq(MainMsgs)
  BY Takes
<1>a. \A q \in Seq(MainMsgs), x \in MainMsgs : Append(q, x) \in Seq(MainMsgs)
  OBVIOUS
<1>m. /\ {"PAUSED", "RELEASE_SUC", "MALLOC_SUC", "INIT_SUC", "FRAME", "EFFECT", "CREATED",
           "STARTED", "STOPPED", "FAILURE"} \subseteq MainMsgs
      /\ {"START", "STOP", "RELEASE", "MALLOC", "INIT"} \subseteq AppMsgs
      /\ {"PAUSE", "HOLD", "RESUME"} \subseteq CoreToks
  BY DEF MainMsgs, AppMsgs, CoreToks
<1>r. \A msg : Received(msg) => mainQ' \in Seq(MainMsgs)
  BY <1>q DEF Received
<1>s. StartModeExit => app' \in AppStates /\ main' \in MainStates
  BY <1>t, <1>m, Sends DEF StartModeExit, MainStates
<1>1. CASE FrameSizeChange
  <2>1. mainQ' \in Seq(MainMsgs)
    BY <1>1, <1>q, <1>a, <1>m DEF FrameSizeChange
  <2>2. core' \in CoreStates
    BY <1>1, <1>t, <1>m, Sends DEF FrameSizeChange
  <2> QED BY <1>1, <1>t, <2>1, <2>2 DEF FrameSizeChange, Types, MainStates
<1>2. CASE EffectUpdate
  <2>1. core' \in CoreStates
    BY <1>2, <1>t, <1>m, Sends DEF EffectUpdate
  <2> QED BY <1>2, <1>t, <1>r, <2>1 DEF EffectUpdate, Types
<1>3. CASE ServicePaused
  BY <1>3, <1>t, <1>r, <1>m, Sends DEF ServicePaused, Types
<1>4. CASE ResRelease
  BY <1>4, <1>t, <1>r DEF ResRelease, Types, MainStates
<1>5. CASE ResMalloc
  <2>1. app' \in AppStates
    BY <1>5, <1>m, Sends DEF ResMalloc
  <2> QED BY <1>5, <1>t, <2>1 DEF ResMalloc, Types, MainStates, ToolStates
<1>6. CASE ResInit
  BY <1>6, <1>t, <1>r, <1>m, Sends DEF ResInit, Types
<1>7. CASE InitDone
  <2>1. core' \in CoreStates
    BY <1>7, <1>m, Sends DEF InitDone
  <2> QED BY <1>7, <1>t, <1>r, <2>1 DEF InitDone, Types, MainStates
<1>8. CASE ModeFailure
  <2>1. app' \in AppStates
    BY <1>8, <1>t, <1>m, Sends DEF ModeFailure
  <2> QED BY <1>8, <1>t, <1>r, <2>1 DEF ModeFailure, Types, MainStates
<1>9. CASE Created
  BY <1>9, <1>t, <1>r, <1>s, <1>m, Sends DEF Created, Types
<1>10. CASE Started
  BY <1>10, <1>t, <1>r, <1>s DEF Started, Types, MainStates
<1>11. CASE EndModeExit
  <2>1. NewApp \in AppStates
    BY <1>t DEF NewApp, AppStates
  <2> QED BY <1>11, <1>t, <1>r, <2>1 DEF EndModeExit, Types, MainStates
<1>12. CASE TargetChanged
  BY <1>12, <1>t, <1>s DEF TargetChanged, Types
<1>13. CASE EffectChange
  <2>1. mainQ' \in Seq(MainMsgs)
    BY <1>13, <1>t, <1>a, <1>m DEF EffectChange
  <2> QED BY <1>13, <1>t, <2>1 DEF EffectChange, Types, ToolStates
<1>14. CASE DecoderAnswers
  <2>1. mainQ' \in Seq(MainMsgs)
    BY <1>14, <1>m, Sends DEF DecoderAnswers
  <2>2. app' \in AppStates
    <3>1. <<>> \in Seq(AppMsgs)
      OBVIOUS
    <3>2. \A st \in {"Ready", "Running"} : [app EXCEPT !.st = st] \in AppStates
      BY <1>t DEF AppStates
    <3>3. [app EXCEPT !.st = "Stopped", !.box = <<>>] \in AppStates
      BY <1>t, <3>1 DEF AppStates
    <3> QED BY <1>14, <3>2, <3>3 DEF DecoderAnswers
  <2> QED BY <1>14, <1>t, <2>1, <2>2 DEF DecoderAnswers, Types
<1>15. CASE Orders
  <2>1. \A st \in {"Starting", "Stopping"} : [app EXCEPT !.st = st] \in AppStates
    BY <1>t DEF AppStates
  <2> QED BY <1>15, <1>t, <2>1, Takes DEF Orders, Types
<1>16. CASE AppResRelease \/ AppResMalloc \/ AppResInit
  <2>1. [app EXCEPT !.buf = NoBuf] \in AppStates /\ [app EXCEPT !.buf = size] \in AppStates
    BY <1>t DEF AppStates
  <2>2. app' \in AppStates
    <3>1. CASE AppResRelease
      BY <3>1, <2>1, Takes DEF AppResRelease
    <3>2. CASE AppResMalloc
      BY <3>2, <2>1, Takes DEF AppResMalloc
    <3>3. CASE AppResInit
      BY <3>3, <1>t, Takes DEF AppResInit
    <3> QED BY <1>16, <3>1, <3>2, <3>3
  <2>3. mainQ' \in Seq(MainMsgs)
    BY <1>16, <1>m, Sends DEF AppResRelease, AppResMalloc, AppResInit
  <2> QED BY <1>16, <1>t, <2>2, <2>3 DEF AppResRelease, AppResMalloc, AppResInit, Types
<1>17. CASE CoreReceives
  <2>1. mainQ' \in Seq(MainMsgs)
    BY <1>17, <1>t, <1>m, Sends DEF CoreReceives
  <2>2. core' \in CoreStates
    <3>1. Tail(core.box) \in Seq(CoreToks)
      BY <1>17, Takes DEF CoreReceives
    <3> QED BY <1>17, <1>t, <3>1 DEF CoreReceives, CoreStates
  <2> QED BY <1>17, <1>t, <2>1, <2>2 DEF CoreReceives, Types
<1>18. CASE RunCheck
  <2>1. Append(core.box, "HOLD") \in Seq(CoreToks)
    BY <1>t, <1>m DEF CoreStates
  <2> QED BY <1>18, <1>t, <2>1 DEF RunCheck, Types, CoreStates
<1>19. CASE Outside
  <2>1. CASE \E frame \in Frames : Tunes(frame)
    BY <2>1, <1>t DEF Tunes, Types, ToolStates
  <2>2. CASE WantsOther
    BY <2>2, <1>t DEF WantsOther, Types, MainStates
  <2>3. CASE MediumFails
    BY <2>3, <1>t, <1>m, Sends DEF MediumFails, Types
  <2> QED BY <1>19, <2>1, <2>2, <2>3 DEF Outside
<1>20. CASE UNCHANGED vars
  BY <1>20 DEF vars, Types
<1> QED BY <1>1, <1>2, <1>3, <1>4, <1>5, <1>6, <1>7, <1>8, <1>9, <1>10, <1>11, <1>12,
           <1>13, <1>14, <1>15, <1>16, <1>17, <1>18, <1>19, <1>20
        DEF Next, MainStep, AppStep, CoreStep

-----------------------------------------------------------------------------
(* What sending and taking do to the fields. *)

LEMMA Fields ==
  ASSUME Types
  PROVE  /\ app.box \in Seq(AppMsgs) /\ mainQ \in Seq(MainMsgs)
         /\ \A msg : ToApp(msg) =>
              app'.box = Append(app.box, msg) /\ app'.st = app.st /\ app'.buf = app.buf
         /\ \A msg : ToCore(msg) =>
              /\ core'.box = Append(core.box, msg) /\ core'.st = core.st
              /\ core'.pause = core.pause /\ core'.tell = core.tell
         /\ StartModeExit =>
              /\ main'.st = "Exit" /\ main'.freed = main.freed
              /\ app'.box = Append(app.box, "STOP") /\ app'.st = app.st /\ app'.buf = app.buf
BY DEF Types, MainStates, CoreStates, AppStates, ToApp, ToCore, StartModeExit

Kinds == MainToks \cup AppToks \cup {"FAILURE"}
LEMMA KindsDiffer ==
  /\ Kinds \cap (MainLife \cup AppLife) = {} /\ MainLife \cap AppLife = {}
  /\ {"FRAME", "EFFECT", "PAUSED", "RELEASE_SUC", "MALLOC_SUC", "INIT_SUC"} = MainToks
  /\ {"RELEASE", "MALLOC", "INIT"} = AppToks /\ {"START", "STOP"} = AppLife
  /\ {"CREATED", "STARTED", "STOPPED"} = MainLife /\ "NONE" \notin MainLife \cup AppLife
  /\ "NONE" \notin MainToks \cup AppToks
  /\ MainToks \cap AppToks = {} /\ CoreToks \cap (MainToks \cup AppToks) = {}
BY DEF Kinds, MainToks, AppToks, MainLife, AppLife, CoreToks

-----------------------------------------------------------------------------
(* The life of the mode. *)

Lives == MainLife \cup AppLife \cup {"NONE"}

\* A message of a change is none of the mode's life, wherever it is put or taken.
LEMMA ChangesLeaveLife ==
  ASSUME Types, NEW tok \in Toks, NEW life \in Lives, Counts(tok, life)
  PROVE  /\ \A x \in Kinds : /\ Carries(Append(mainQ, x), MainLife, life)
                              /\ Carries(Append(app.box, x), AppLife, life)
         /\ mainQ # <<>> /\ Head(mainQ) \in MainToks =>
              /\ Carries(Tail(mainQ), MainLife, life)
              /\ \A x \in Kinds : Carries(Append(Tail(mainQ), x), MainLife, life)
         /\ app.box # <<>> /\ Head(app.box) \in AppToks =>
              Carries(Tail(app.box), AppLife, life)
<1>1. Carries(mainQ, MainLife, life) /\ Carries(app.box, AppLife, life)
  BY DEF Counts, Life
<1>2. app.box \in Seq(AppMsgs) /\ mainQ \in Seq(MainMsgs)
  BY Fields
<1>3. \A x \in Kinds : x \notin MainLife /\ x \notin AppLife
  BY KindsDiffer
<1>4. \A x \in Kinds : /\ Carries(Append(mainQ, x), MainLife, life)
                       /\ Carries(Append(app.box, x), AppLife, life)
  BY <1>1, <1>2, <1>3, AppendCarries
<1>5. ASSUME mainQ # <<>>, Head(mainQ) \in MainToks
      PROVE  /\ Carries(Tail(mainQ), MainLife, life)
             /\ \A x \in Kinds : Carries(Append(Tail(mainQ), x), MainLife, life)
  <2>1. Tail(mainQ) \in Seq(MainMsgs) /\ Carries(Tail(mainQ), MainLife, life)
    BY <1>5, MainTakes
  <2> QED BY <2>1, <1>3, AppendCarries
<1>6. ASSUME app.box # <<>>, Head(app.box) \in AppToks
      PROVE  Carries(Tail(app.box), AppLife, life)
  BY <1>6, AppTakesOne
<1> QED BY <1>4, <1>5, <1>6

LEMMA StagesStay ==
  ASSUME NEW life, Stage(life), main'.st = main.st, app'.st = app.st PROVE Stage(life)'
BY DEF Stage

LEMMA LivingKept ==
  ASSUME Types, NEW tok \in Toks, NEW life \in Lives, Counts(tok, life), [Next]_vars
  PROVE  \E to \in Lives : Life(to)'
<1>c. /\ Carries(mainQ, MainLife, life) /\ Carries(app.box, AppLife, life)
      /\ Stage(life)
  BY DEF Counts, Life
<1>m. main.st \in {"Enter", "Work", "Exit"} /\ app.box \in Seq(AppMsgs) /\ mainQ \in Seq(MainMsgs)
  BY DEF Types, MainStates, AppStates
<1>g. \A to : Life(to)' <=> /\ Carries(mainQ', MainLife, to) /\ Carries(app'.box, AppLife, to)
                            /\ Stage(to)'
  BY DEF Life
<1>k. \A x \in MainToks \cup AppToks \cup {"FAILURE"} : x \in Kinds
  BY DEF Kinds
<1>1. CASE FrameSizeChange
  <2>1. Head(mainQ) \in MainToks /\ mainQ # <<>> /\ "PAUSED" \in Kinds
    BY <1>1, KindsDiffer, <1>k DEF FrameSizeChange
  <2>2. Carries(mainQ', MainLife, life)
    BY <1>1, <2>1, ChangesLeaveLife DEF FrameSizeChange
  <2>3. main'.st = main.st /\ app' = app
    BY <1>1 DEF FrameSizeChange, Types, MainStates
  <2> QED BY <1>c, <1>g, <2>2, <2>3, StagesStay
<1>2. CASE EffectUpdate \/ ResRelease \/ InitDone
  <2>1. Head(mainQ) \in MainToks /\ mainQ # <<>> /\ mainQ' = Tail(mainQ)
    BY <1>2, KindsDiffer DEF EffectUpdate, ResRelease, InitDone, Received
  <2>2. Carries(mainQ', MainLife, life)
    BY <2>1, ChangesLeaveLife
  <2>3. main'.st = main.st /\ app' = app
    BY <1>2 DEF EffectUpdate, ResRelease, InitDone, Types, MainStates
  <2> QED BY <1>c, <1>g, <2>2, <2>3, StagesStay
<1>3. CASE ServicePaused \/ ResInit
  <2>1. Head(mainQ) \in MainToks /\ mainQ # <<>> /\ mainQ' = Tail(mainQ) /\ main' = main
    BY <1>3, KindsDiffer DEF ServicePaused, ResInit, Received
  <2>2. \E x \in AppToks : ToApp(x)
    BY <1>3, KindsDiffer DEF ServicePaused, ResInit
  <2>3. \E x \in Kinds : app'.box = Append(app.box, x) /\ app'.st = app.st
    BY <2>2, Fields, <1>k
  <2>4. Carries(mainQ', MainLife, life) /\ Carries(app'.box, AppLife, life)
    BY <2>1, <2>3, ChangesLeaveLife
  <2> QED BY <1>c, <1>g, <2>1, <2>3, <2>4, StagesStay
<1>4. CASE ResMalloc
  <2>1. main'.st = main.st /\ mainQ' = mainQ
    BY <1>4 DEF ResMalloc, Types, MainStates
  <2>2. app'.box = Append(app.box, "MALLOC") /\ app'.st = app.st /\ "MALLOC" \in Kinds
    BY <1>4, Fields, KindsDiffer, <1>k DEF ResMalloc
  <2>3. Carries(app'.box, AppLife, life)
    BY <2>2, ChangesLeaveLife
  <2> QED BY <1>c, <1>g, <2>1, <2>2, <2>3, StagesStay
<1>5. CASE EffectChange \/ MediumFails
  <2>1. \E x \in Kinds : mainQ' = Append(mainQ, x)
    BY <1>5, KindsDiffer, <1>k DEF EffectChange, MediumFails, Tells
  <2>2. Carries(mainQ', MainLife, life)
    BY <2>1, ChangesLeaveLife
  <2>3. main' = main /\ app' = app
    BY <1>5 DEF EffectChange, MediumFails
  <2> QED BY <1>c, <1>g, <2>2, <2>3, StagesStay
<1>6. CASE AppResRelease \/ AppResMalloc \/ AppResInit
  <2>1. main' = main /\ \E x \in Kinds : mainQ' = Append(mainQ, x)
    BY <1>6, KindsDiffer, <1>k DEF AppResRelease, AppResMalloc, AppResInit, Tells
  <2>2. /\ app.box # <<>> /\ Head(app.box) \in AppToks /\ app'.box = Tail(app.box)
        /\ app'.st = app.st
    <3>1. CASE AppResRelease
      BY <3>1, KindsDiffer DEF AppResRelease, AppTakes, Types, AppStates
    <3>2. CASE AppResMalloc
      BY <3>2, KindsDiffer DEF AppResMalloc, AppTakes, Types, AppStates
    <3>3. CASE AppResInit
      BY <3>3, KindsDiffer DEF AppResInit, AppTakes, Types, AppStates
    <3> QED BY <1>6, <3>1, <3>2, <3>3
  <2>3. Carries(mainQ', MainLife, life) /\ Carries(app'.box, AppLife, life)
    BY <2>1, <2>2, ChangesLeaveLife
  <2> QED BY <1>c, <1>g, <2>1, <2>2, <2>3, StagesStay
<1>7. CASE CoreReceives
  <2>1. mainQ' = mainQ \/ mainQ' = Append(mainQ, "PAUSED")
    BY <1>7 DEF CoreReceives, Tells
  <2>2. Carries(mainQ', MainLife, life)
    BY <2>1, <1>c, <1>k, KindsDiffer, ChangesLeaveLife
  <2>3. main' = main /\ app' = app
    BY <1>7 DEF CoreReceives
  <2> QED BY <1>c, <1>g, <2>2, <2>3, StagesStay
<1>8. CASE RunCheck \/ (\E frame \in Frames : Tunes(frame)) \/ WantsOther \/ UNCHANGED vars
  <2>1. main'.st = main.st /\ app' = app /\ mainQ' = mainQ
    BY <1>8 DEF RunCheck, Tunes, WantsOther, vars, Types, MainStates
  <2> QED BY <1>c, <1>g, <2>1, StagesStay
<1>9. CASE TargetChanged \/ ModeFailure
  <2>1. CASE main'.st = main.st /\ app' = app
    <3>1. ModeFailure
      BY <1>9, <2>1, Fields DEF TargetChanged
    <3>2. mainQ' = Tail(mainQ) /\ Head(mainQ) = "FAILURE" /\ mainQ # <<>>
      BY <3>1 DEF ModeFailure, Received
    <3>3. Carries(mainQ', MainLife, life)
      BY <3>2, MainTakes
    <3> QED BY <1>c, <1>g, <2>1, <3>3, StagesStay
  <2>2. CASE ~(main'.st = main.st /\ app' = app)
    <3>1. main.st = "Work" /\ main'.st = "Exit" /\ ToApp("STOP")
      BY <1>9, <2>2 DEF TargetChanged, ModeFailure, StartModeExit, Types, MainStates
    <3>2. app'.box = Append(app.box, "STOP") /\ app'.st = app.st
      BY <3>1, Fields
    <3>3. life = "NONE" /\ app.st = "Running"
      BY <1>c, <3>1 DEF Stage
    <3>4. Carries(mainQ', MainLife, "NONE")
      <4>1. mainQ' = mainQ \/ (mainQ' = Tail(mainQ) /\ Head(mainQ) = "FAILURE" /\ mainQ # <<>>)
        BY <1>9 DEF TargetChanged, ModeFailure, Received
      <4> QED BY <4>1, <1>c, <3>3, MainTakes
    <3>5. mainQ' \in Seq(MainMsgs)
      BY TypesKept DEF Types
    <3>6. Carries(mainQ', MainLife, "STOP")
      BY <3>4, <3>5, KindsDiffer, OtherCarries
    <3>8. Carries(Append(app.box, "STOP"), AppLife, "STOP")
      BY <1>c, <1>m, <3>3, KindsDiffer, AppendCarries
    <3>7. Stage("STOP")'
      BY <3>1, <3>2, <3>3 DEF Stage
    <3> QED BY <1>g, <3>2, <3>6, <3>7, <3>8 DEF Lives, AppLife
  <2> QED BY <2>1, <2>2
<1>10. CASE Created \/ Started
  <2>1. /\ mainQ # <<>> /\ mainQ' = Tail(mainQ) /\ Head(mainQ) \in {"CREATED", "STARTED"}
        /\ Head(mainQ) = "CREATED" <=> Created
    BY <1>10 DEF Created, Started, Received
  <2>2. /\ life = Head(mainQ) /\ life \notin AppLife
        /\ \A to : to \notin MainLife => Carries(mainQ', MainLife, to)
    BY <2>1, MainTakes, KindsDiffer
  <2>3. main.st = "Enter" /\ app.st = IF life = "CREATED" THEN "Ready" ELSE "Running"
    BY <1>c, <2>1, <2>2 DEF Stage
  <2>4. CASE StartModeExit \/ (Created /\ ToApp("START") /\ main' = main)
    <3>1. \E x \in AppLife : /\ app'.box = Append(app.box, x) /\ app'.st = app.st
                             /\ x = "STOP" => main'.st = "Exit"
                             /\ x = "START" => main'.st = "Enter" /\ app.st = "Ready"
      BY <2>1, <2>2, <2>3, <2>4, Fields, KindsDiffer
    <3>2. PICK x \in AppLife : /\ app'.box = Append(app.box, x) /\ app'.st = app.st
                               /\ x = "STOP" => main'.st = "Exit"
                               /\ x = "START" => main'.st = "Enter" /\ app.st = "Ready"
      BY <3>1
    <3>3. Carries(Append(app.box, x), AppLife, x)
      BY <1>c, <1>m, <2>2, AppendCarries
    <3>4. Carries(mainQ', MainLife, x)
      BY <2>2, <3>2, KindsDiffer
    <3>5. Stage(x)'
      <4>1. app'.st \in {"Ready", "Running"}
        BY <3>2, <2>3
      <4>2. CASE x = "STOP"
        BY <4>1, <4>2, <3>2 DEF Stage
      <4>3. CASE x = "START"
        BY <4>3, <3>2 DEF Stage
      <4> QED BY <4>2, <4>3, KindsDiffer
    <3> QED BY <1>g, <3>2, <3>3, <3>4, <3>5 DEF Lives
  <2>5. CASE Started /\ app' = app /\ main'.st = "Work"
    <3>1. Carries(mainQ', MainLife, "NONE") /\ Carries(app'.box, AppLife, "NONE")
      BY <1>c, <1>m, <2>2, <2>5, KindsDiffer, OtherCarries
    <3>2. Stage("NONE")'
      BY <2>1, <2>2, <2>3, <2>5 DEF Stage, Created, Started, Received
    <3> QED BY <1>g, <3>1, <3>2 DEF Lives
  <2> QED BY <1>10, <2>4, <2>5 DEF Created, Started, Types, MainStates
<1>11. CASE EndModeExit
  <2>1. mainQ # <<>> /\ mainQ' = Tail(mainQ) /\ Head(mainQ) = "STOPPED"
    BY <1>11 DEF EndModeExit, Received
  <2>2. Carries(mainQ', MainLife, "NONE") /\ Carries(<<>>, AppLife, "NONE")
    BY <2>1, MainTakes, EmptyCarries, KindsDiffer
  <2>3. app'.box = <<>> /\ Stage("NONE")'
    BY <1>11 DEF EndModeExit, NewApp, Stage, Types, MainStates
  <2> QED BY <1>g, <2>2, <2>3 DEF Lives
<1>12. CASE DecoderAnswers
  <2>1. /\ app.st \in {"Creating", "Starting", "Stopping"} /\ main' = main
        /\ app.st = "Creating" => app'.st = "Ready" /\ app'.box = app.box /\ Tells("CREATED")
        /\ app.st = "Starting" => app'.st = "Running" /\ app'.box = app.box /\ Tells("STARTED")
        /\ app.st = "Stopping" => app'.st = "Stopped" /\ app'.box = <<>> /\ Tells("STOPPED")
    BY <1>12 DEF DecoderAnswers, Types, AppStates
  <2>2. life = "NONE"
    BY <2>1, <1>c DEF Stage
  <2>3. PICK x \in MainLife : mainQ' = Append(mainQ, x) /\ Stage(x)'
    BY <2>1, <2>2, <1>c DEF Stage, MainLife, Tells
  <2>4. Carries(mainQ', MainLife, x)
    BY <1>c, <1>m, <2>2, <2>3, KindsDiffer, AppendCarries
  <2>5. Carries(app'.box, AppLife, x)
    BY <1>c, <1>m, <2>1, <2>2, KindsDiffer, OtherCarries, EmptyCarries
  <2> QED BY <1>g, <2>3, <2>4, <2>5 DEF Lives
<1>13. CASE Orders
  <2>1. /\ app.box # <<>> /\ app'.box = Tail(app.box) /\ main' = main /\ mainQ' = mainQ
        /\ \/ Head(app.box) = "START" /\ app'.st = "Starting"
           \/ Head(app.box) = "STOP" /\ app'.st = "Stopping"
    <3>1. CASE AppTakes("START", [app EXCEPT !.st = "Starting"])
      BY <1>13, <3>1 DEF Orders, AppTakes, Types, AppStates
    <3>2. CASE AppTakes("STOP", [app EXCEPT !.st = "Stopping"])
      BY <1>13, <3>2 DEF Orders, AppTakes, Types, AppStates
    <3> QED BY <1>13, <3>1, <3>2 DEF Orders
  <2>2. life = Head(app.box) /\ Carries(app'.box, AppLife, "NONE")
    BY <2>1, AppTakesOne, KindsDiffer
  <2>3. Carries(mainQ', MainLife, "NONE")
    BY <1>c, <1>m, <2>1, <2>2, KindsDiffer, OtherCarries
  <2>4. Stage("NONE")'
    BY <1>c, <2>1, <2>2 DEF Stage
  <2> QED BY <1>g, <2>2, <2>3, <2>4 DEF Lives
<1> QED BY <1>1, <1>2, <1>3, <1>4, <1>5, <1>6, <1>7, <1>8, <1>9, <1>10, <1>11, <1>12, <1>13
        DEF Next, MainStep, AppStep, CoreStep, Outside

-----------------------------------------------------------------------------
(* The change. *)

\* What is not in a queue may be anywhere else, or be put there.
LEMMA HandsOn ==
  ASSUME Types, NEW tok \in Toks, Baton(tok)
  PROVE  /\ tok \notin MainToks =>
              /\ \A to : to \notin MainToks => Carries(mainQ, MainToks, to)
              /\ \A to : Carries(Append(mainQ, to), MainToks, to)
         /\ tok \notin AppToks =>
              /\ \A to : to \notin AppToks => Carries(app.box, AppToks, to)
              /\ \A to : Carries(Append(app.box, to), AppToks, to)
         /\ \A x : x \notin MainToks => Carries(Append(mainQ, x), MainToks, tok)
         /\ \A x : x \notin AppToks => Carries(Append(app.box, x), AppToks, tok)
<1>1. Carries(mainQ, MainToks, tok) /\ Carries(app.box, AppToks, tok)
  BY DEF Baton
<1>2. app.box \in Seq(AppMsgs) /\ mainQ \in Seq(MainMsgs)
  BY Fields
<1> QED BY <1>1, <1>2, AppendCarries, OtherCarries

\* From the main task's queue to a place elsewhere.
LEMMA MainGives ==
  ASSUME Types, NEW tok \in Toks, NEW life \in Lives, Counts(tok, life),
         mainQ # <<>>, Head(mainQ) \in MainToks
  PROVE  /\ tok = Head(mainQ) /\ core.box = <<>> /\ tok \notin AppToks
         /\ \A to : to \notin MainToks => Carries(Tail(mainQ), MainToks, to)
         /\ \A to : to \in MainToks => Carries(Append(Tail(mainQ), to), MainToks, to)
         /\ \A to : to \notin AppToks => Carries(app.box, AppToks, to)
         /\ \A to : Carries(Append(app.box, to), AppToks, to)
         /\ ~main.freed /\ ~(core.pause /\ core.tell)
<1>1. tok = Head(mainQ) /\ \A to : to \notin MainToks => Carries(Tail(mainQ), MainToks, to)
  BY MainTakes
<1>2. Tail(mainQ) \in Seq(MainMsgs) /\ Carries(Tail(mainQ), MainToks, "NONE") /\ "NONE" \notin MainToks
  BY <1>1, MainTakes DEF MainToks
<1>3. \A to : to \in MainToks => Carries(Append(Tail(mainQ), to), MainToks, to)
  BY <1>2, AppendCarries
<1>4. tok \notin AppToks /\ tok \notin CoreToks /\ tok \notin {"FREED", "TELL"}
  BY <1>1, KindsDiffer DEF MainToks, AppToks, CoreToks
<1>5. core.box = <<>> /\ main.freed = (tok = "FREED") /\ ~(core.pause /\ core.tell)
  BY <1>4 DEF Counts, Baton, Types, MainStates
<1> QED BY <1>1, <1>3, <1>4, <1>5, HandsOn DEF Counts

LEMMA Given ==
  ASSUME NEW to,
         Carries(mainQ', MainToks, to), Carries(app'.box, AppToks, to),
         core'.box = (IF to \in CoreToks THEN <<to>> ELSE <<>>),
         main'.freed <=> to = "FREED",
         (core'.pause /\ core'.tell) <=> to = "TELL"
  PROVE  Baton(to)'
BY DEF Baton

LEMMA ChangeByMain ==
  ASSUME Types, NEW tok \in Toks, NEW life \in Lives, Counts(tok, life), Safe(tok),
         FrameSizeChange \/ EffectUpdate \/ ServicePaused \/ ResRelease \/ ResMalloc
         \/ ResInit \/ InitDone
  PROVE  \E to \in Toks : Baton(to)' /\ Safe(to)'
<1> USE DEF Toks
<1>b. Baton(tok) /\ main \in MainStates /\ core \in CoreStates
  BY DEF Counts, Types
<1>e. \A x : Append(<<>>, x) = <<x>>
  OBVIOUS
<1>1. CASE FrameSizeChange /\ core.st = "Paused"
  <2>1. /\ mainQ # <<>> /\ Head(mainQ) = "FRAME" /\ mainQ' = Append(Tail(mainQ), "PAUSED")
        /\ main'.freed = main.freed /\ main'.st = main.st /\ core' = core /\ app' = app /\ size' = size
    BY <1>1, <1>b DEF FrameSizeChange, MainStates
  <2>2. Baton("PAUSED")'
    BY <2>1, MainGives, KindsDiffer, Given DEF MainToks, AppToks, CoreToks
  <2>3. Safe("PAUSED")'
    BY <1>1, <2>1, MainGives DEF Safe, MainToks
  <2> QED BY <2>2, <2>3 DEF MainToks
<1>2. CASE FrameSizeChange /\ core.st # "Paused"
  <2>1. /\ mainQ # <<>> /\ Head(mainQ) = "FRAME" /\ mainQ' = Tail(mainQ)
        /\ main'.freed = main.freed /\ main'.st = main.st /\ ToCore("PAUSE") /\ app' = app /\ size' = size
    BY <1>2, <1>b DEF FrameSizeChange, MainStates
  <2>2. /\ core'.box = Append(core.box, "PAUSE") /\ core'.st = core.st
        /\ core'.pause = core.pause /\ core'.tell = core.tell
    BY <2>1, Fields
  <2>3. core'.box = <<"PAUSE">>
    BY <2>1, <2>2, <1>e, MainGives DEF MainToks
  <2>4. Baton("PAUSE")'
    BY <2>1, <2>2, <2>3, MainGives, Given DEF MainToks, AppToks, CoreToks
  <2>5. Safe("PAUSE")'
    BY <2>1, <2>2, MainGives DEF Safe, MainToks
  <2> QED BY <2>4, <2>5 DEF CoreToks
<1>3. CASE EffectUpdate
  <2>1. /\ mainQ # <<>> /\ Head(mainQ) = "EFFECT" /\ mainQ' = Tail(mainQ)
        /\ main' = main /\ app' = app /\ size' = size
    BY <1>3 DEF EffectUpdate, Received
  <2>2. tok = "EFFECT" /\ app.buf = size /\ core.box = <<>>
    BY <2>1, MainGives DEF Safe, MainToks
  <2>3. CASE core.st = "Paused"
    <3>1. /\ core'.box = <<"RESUME">> /\ core'.pause = core.pause /\ core'.tell = core.tell
      BY <1>3, <2>2, <2>3, <1>e, Fields DEF EffectUpdate
    <3>2. Baton("RESUME")'
      BY <2>1, <3>1, MainGives, Given DEF MainToks, AppToks, CoreToks
    <3>3. Safe("RESUME")'
      BY <2>1, <2>2 DEF Safe
    <3> QED BY <3>2, <3>3 DEF CoreToks
  <2>4. CASE core.st # "Paused"
    <3>1. core' = core
      BY <1>3, <2>4 DEF EffectUpdate
    <3>2. Baton("NONE")'
      BY <2>1, <2>2, <3>1, MainGives, Given DEF MainToks, AppToks, CoreToks
    <3>3. Safe("NONE")'
      BY <2>1, <2>2 DEF Safe
    <3> QED BY <3>2, <3>3
  <2> QED BY <2>3, <2>4
<1>4. CASE ServicePaused \/ ResInit
  <2>1. PICK to \in {"RELEASE", "INIT"} :
          /\ mainQ # <<>> /\ mainQ' = Tail(mainQ) /\ ToApp(to)
          /\ Head(mainQ) = IF to = "RELEASE" THEN "PAUSED" ELSE "MALLOC_SUC"
          /\ main' = main /\ core' = core /\ size' = size
    BY <1>4 DEF ServicePaused, ResInit, Received
  <2>2. app'.box = Append(app.box, to) /\ app'.buf = app.buf
    BY <2>1, Fields
  <2>3. Head(mainQ) \in MainToks /\ to \in AppToks /\ to \notin MainToks \cup CoreToks \cup {"FREED", "TELL"}
    BY <2>1 DEF MainToks, AppToks, CoreToks
  <2>4. Baton(to)'
    BY <2>1, <2>2, <2>3, MainGives, Given
  <2>5. Safe(to)'
    BY <2>1, <2>2, <2>3, MainGives DEF Safe
  <2> QED BY <2>3, <2>4, <2>5
<1>5. CASE ResRelease
  <2>1. /\ mainQ # <<>> /\ Head(mainQ) = "RELEASE_SUC" /\ mainQ' = Tail(mainQ)
        /\ main'.freed /\ core' = core /\ app' = app /\ size' = size
    BY <1>5, <1>b DEF ResRelease, Received, MainStates
  <2>2. Baton("FREED")'
    BY <2>1, MainGives, Given DEF MainToks, AppToks, CoreToks
  <2>3. Safe("FREED")'
    BY <1>b, <2>1, MainGives DEF Safe, MainToks, CoreStates
  <2> QED BY <2>2, <2>3
<1>6. CASE ResMalloc
  <2>1. /\ main.freed /\ ~main'.freed /\ app'.box = Append(app.box, "MALLOC")
        /\ mainQ' = mainQ /\ core' = core
    BY <1>6, <1>b, Fields DEF ResMalloc, MainStates
  <2>2. tok = "FREED"
    BY <1>b, <2>1 DEF Baton
  <2>3. Baton("MALLOC")'
    BY <1>b, <2>1, <2>2, HandsOn, Given DEF Baton, MainToks, AppToks, CoreToks
  <2>4. Safe("MALLOC")'
    BY <1>b, <2>1, <2>2 DEF Safe, CoreStates
  <2> QED BY <2>3, <2>4 DEF AppToks
<1>7. CASE InitDone
  <2>1. /\ mainQ # <<>> /\ Head(mainQ) = "INIT_SUC" /\ mainQ' = Tail(mainQ)
        /\ main'.freed = main.freed /\ ToCore("RESUME") /\ app' = app /\ size' = size
    BY <1>7, <1>b DEF InitDone, Received, MainStates
  <2>2. /\ core'.box = Append(core.box, "RESUME") /\ core'.st = core.st
        /\ core'.pause = core.pause /\ core'.tell = core.tell
    BY <2>1, Fields
  <2>3. core'.box = <<"RESUME">>
    BY <2>1, <2>2, <1>e, MainGives DEF MainToks
  <2>4. Baton("RESUME")'
    BY <2>1, <2>2, <2>3, MainGives, Given DEF MainToks, AppToks, CoreToks
  <2>5. Safe("RESUME")'
    BY <2>1, <2>2, MainGives DEF Safe, MainToks
  <2> QED BY <2>4, <2>5 DEF CoreToks
<1> QED BY <1>1, <1>2, <1>3, <1>4, <1>5, <1>6, <1>7

LEMMA ChangeByModes ==
  ASSUME Types, NEW tok \in Toks, NEW life \in Lives, Counts(tok, life), Safe(tok),
         DecoderAnswers \/ Orders \/ AppResRelease \/ AppResMalloc \/ AppResInit
  PROVE  \E to \in Toks : Baton(to)' /\ Safe(to)'
<1> USE DEF Toks
<1>b. /\ Baton(tok) /\ Life(life) /\ Stage(life) /\ mainQ \in Seq(MainMsgs)
      /\ main \in MainStates /\ core \in CoreStates /\ app \in AppStates
  BY DEF Counts, Types, Life
<1>f. main' = main /\ core' = core /\ size' = size
  BY DEF DecoderAnswers, Orders, AppResRelease, AppResMalloc, AppResInit
<1>1. CASE DecoderAnswers
  <2>1. /\ app'.buf = app.buf /\ \E x \in MainLife : mainQ' = Append(mainQ, x)
        /\ app'.box = app.box \/ (app'.box = <<>> /\ app.st = "Stopping")
    BY <1>1, <1>b DEF DecoderAnswers, Tells, AppStates, MainLife
  <2>2. Carries(mainQ', MainToks, tok)
    BY <1>b, <2>1, HandsOn, KindsDiffer DEF Kinds
  <2>3. CASE app'.box = app.box \/ tok \notin AppToks
    <3>1. Carries(app'.box, AppToks, tok)
      BY <1>b, <2>1, <2>3, EmptyCarries DEF Baton
    <3>2. Baton(tok)' /\ Safe(tok)'
      BY <1>b, <1>f, <2>1, <2>2, <3>1 DEF Baton, Safe
    <3> QED BY <3>2
  <2>4. CASE app'.box # app.box /\ tok \in AppToks
    <3>1. app'.box = <<>> /\ main.st = "Exit"
      BY <1>b, <2>1, <2>4 DEF Stage
    <3>2. tok \notin MainToks \cup CoreToks \cup {"FREED", "TELL"}
      BY <2>4 DEF AppToks, MainToks, CoreToks
    <3>3. Carries(mainQ', MainToks, "NONE") /\ Carries(app'.box, AppToks, "NONE")
      <4>1. mainQ' \in Seq(MainMsgs)
        BY <1>1, TypesKept DEF Types, Next, AppStep
      <4>2. Carries(mainQ', MainToks, "NONE")
        BY <2>2, <3>2, <4>1, OtherCarries, KindsDiffer
      <4>3. Carries(<<>>, AppToks, "NONE")
        BY EmptyCarries, KindsDiffer
      <4> QED BY <3>1, <4>2, <4>3
    <3>4. Baton("NONE")'
      BY <1>b, <1>f, <3>2, <3>3, Given DEF Baton, CoreToks
    <3>5. Safe("NONE")'
      BY <1>f, <2>1, <3>1 DEF Safe
    <3> QED BY <3>4, <3>5
  <2> QED BY <2>3, <2>4
<1>2. CASE Orders
  <2>1. /\ app.box # <<>> /\ app'.box = Tail(app.box) /\ mainQ' = mainQ /\ app'.buf = app.buf
        /\ Head(app.box) \in AppLife
    BY <1>2, <1>b, KindsDiffer DEF Orders, AppTakes, AppStates
  <2>2. Carries(app'.box, AppToks, tok)
    BY <2>1, AppTakesOne
  <2>3. Baton(tok)' /\ Safe(tok)'
    BY <1>b, <1>f, <2>1, <2>2 DEF Baton, Safe
  <2> QED BY <2>3
<1>3. CASE AppResRelease \/ AppResMalloc \/ AppResInit
  <2>1. PICK to \in {"RELEASE_SUC", "MALLOC_SUC", "INIT_SUC"} :
          /\ app.box # <<>> /\ app'.box = Tail(app.box) /\ mainQ' = Append(mainQ, to)
          /\ to = "RELEASE_SUC" => Head(app.box) = "RELEASE"
          /\ to = "MALLOC_SUC" => Head(app.box) = "MALLOC" /\ app'.buf = size
          /\ to = "INIT_SUC" => Head(app.box) = "INIT" /\ app'.buf = app.buf
    <3>1. CASE AppResRelease
      BY <3>1, <1>b DEF AppResRelease, AppTakes, AppStates, Tells
    <3>2. CASE AppResMalloc
      BY <3>2, <1>b DEF AppResMalloc, AppTakes, AppStates, Tells
    <3>3. CASE AppResInit
      BY <3>3, <1>b DEF AppResInit, AppTakes, AppStates, Tells
    <3> QED BY <1>3, <3>1, <3>2, <3>3
  <2>2. /\ Head(app.box) \in AppToks /\ to \in MainToks
        /\ to \notin AppToks \cup CoreToks \cup {"FREED", "TELL"}
    BY <2>1 DEF MainToks, AppToks, CoreToks
  <2>3. tok = Head(app.box) /\ Carries(app'.box, AppToks, to)
    BY <2>1, <2>2, AppTakesOne
  <2>4. tok \notin MainToks \cup CoreToks \cup {"FREED", "TELL"}
    BY <2>2, <2>3 DEF MainToks, AppToks, CoreToks
  <2>5. Carries(mainQ', MainToks, to)
    BY <1>b, <2>1, <2>4, HandsOn
  <2>6. Baton(to)'
    BY <1>b, <1>f, <2>2, <2>3, <2>4, <2>5, Given DEF Baton
  <2>7. Safe(to)'
    BY <1>b, <1>f, <2>1, <2>3 DEF Safe, CoreStates
  <2> QED BY <2>2, <2>6, <2>7
<1> QED BY <1>1, <1>2, <1>3

LEMMA ChangeByCore ==
  ASSUME Types, NEW tok \in Toks, NEW life \in Lives, Counts(tok, life), Safe(tok),
         CoreReceives \/ RunCheck
  PROVE  \E to \in Toks : Baton(to)' /\ Safe(to)'
<1> USE DEF Toks
<1>b. /\ Baton(tok) /\ core \in CoreStates
  BY DEF Counts, Types
<1>f. main' = main /\ app' = app /\ size' = size
  BY DEF CoreReceives, RunCheck
<1>1. CASE CoreReceives
  <2>1. core.box = <<tok>> /\ tok \in CoreToks
    BY <1>1, <1>b DEF CoreReceives, Baton
  <2>2. Head(core.box) = tok /\ Tail(core.box) = <<>>
    BY <2>1
  <2>3. tok \notin MainToks \cup AppToks \cup {"FREED", "TELL"}
    BY <2>1 DEF MainToks, AppToks, CoreToks
  <2>4. CASE tok = "PAUSE"
    <3>1. /\ mainQ' = mainQ /\ core'.box = <<>> /\ core'.pause /\ core'.tell /\ core'.st = core.st
      BY <1>1, <1>b, <2>2, <2>4 DEF CoreReceives, CoreStates
    <3>2. Baton("TELL")'
      BY <1>b, <1>f, <2>3, <3>1, HandsOn, Given DEF Baton, MainToks, AppToks, CoreToks
    <3>3. Safe("TELL")'
      BY <1>f, <2>4, <3>1 DEF Safe
    <3> QED BY <3>2, <3>3
  <2>5. CASE tok = "HOLD"
    <3>1. /\ mainQ' = Append(mainQ, "PAUSED") /\ core'.box = <<>> /\ core'.st = "Paused"
          /\ core'.pause = core.pause /\ core'.tell = core.tell
      BY <1>1, <1>b, <2>2, <2>5 DEF CoreReceives, CoreStates, Tells
    <3>2. Carries(mainQ', MainToks, "PAUSED") /\ Carries(app.box, AppToks, "PAUSED")
      BY <1>b, <2>3, <3>1, HandsOn DEF AppToks
    <3>3. Baton("PAUSED")'
      BY <1>b, <1>f, <2>3, <3>1, <3>2, Given DEF Baton, CoreToks
    <3>4. Safe("PAUSED")'
      BY <1>f, <2>5, <3>1 DEF Safe
    <3> QED BY <3>3, <3>4 DEF MainToks
  <2>6. CASE tok = "RESUME"
    <3>1. /\ mainQ' = mainQ /\ core'.box = <<>> /\ ~core'.pause
      BY <1>1, <1>b, <2>2, <2>6 DEF CoreReceives, CoreStates
    <3>2. Baton("NONE")'
      BY <1>b, <1>f, <2>3, <3>1, HandsOn, Given DEF Baton, MainToks, AppToks, CoreToks
    <3>3. Safe("NONE")'
      BY <1>f, <2>6 DEF Safe
    <3> QED BY <3>2, <3>3
  <2> QED BY <2>1, <2>4, <2>5, <2>6 DEF CoreToks
<1>2. CASE RunCheck
  <2>1. tok = "TELL" /\ core.box = <<>>
    BY <1>2, <1>b DEF RunCheck, Baton, CoreToks
  <2>2. /\ core'.box = Append(core.box, "HOLD") /\ ~core'.tell /\ core'.st = core.st
        /\ mainQ' = mainQ
    BY <1>2, <1>b DEF RunCheck, CoreStates
  <2>3. core'.box = <<"HOLD">>
    BY <2>1, <2>2
  <2>4. Baton("HOLD")'
    BY <1>b, <1>f, <2>1, <2>2, <2>3, HandsOn, Given DEF Baton, MainToks, AppToks, CoreToks
  <2>5. Safe("HOLD")'
    BY <1>f, <2>1, <2>2 DEF Safe
  <2> QED BY <2>4, <2>5 DEF CoreToks
<1> QED BY <1>1, <1>2

\* A new change finds none under way (UnderWay); what the modes and the outside do leaves
\* one that is where it is, except that a mode which is killed takes its queue along.
LEMMA ChangeKept ==
  ASSUME ~Overlaps, Types, NEW tok \in Toks, NEW life \in Lives, Counts(tok, life), Safe(tok),
         [Next]_vars
  PROVE  \E to \in Toks : Baton(to)' /\ Safe(to)'
<1> USE DEF Toks
<1>b. /\ Baton(tok) /\ Stage(life) /\ main \in MainStates /\ core \in CoreStates /\ app \in AppStates
      /\ mainQ \in Seq(MainMsgs) /\ app.box \in Seq(AppMsgs)
  BY Fields DEF Counts, Life, Types
<1>1. CASE EffectChange
  <2>1. PICK to \in {"FRAME", "EFFECT"} :
          /\ mainQ' = Append(mainQ, to) /\ main' = main /\ core' = core /\ app' = app /\ size' = size
          /\ ~UnderWay /\ main.st = "Work"
    BY <1>1 DEF EffectChange
  <2>2. tok \notin MainToks
    <3>1. ASSUME tok \in MainToks PROVE FALSE
      <4>1. PICK i \in DOMAIN mainQ : mainQ[i] = tok
        BY <1>b, <3>1 DEF Baton, Carries
      <4>2. tok \notin {"CREATED", "STARTED", "STOPPED", "FAILURE"}
        BY <3>1 DEF MainToks
      <4> QED BY <2>1, <4>1, <4>2 DEF UnderWay
    <3> QED BY <3>1
  <2>3. tok \notin AppToks
    <3>1. ASSUME tok \in AppToks PROVE FALSE
      <4>1. PICK i \in DOMAIN app.box : app.box[i] = tok
        BY <1>b, <3>1 DEF Baton, Carries
      <4>2. tok \notin {"START", "STOP"}
        BY <3>1 DEF AppToks
      <4> QED BY <2>1, <4>1, <4>2 DEF UnderWay
    <3> QED BY <3>1
  <2>4. tok = "NONE"
    <3>1. core.box = <<>> /\ ~main.freed /\ ~(core.pause /\ core.tell)
      BY <2>1 DEF UnderWay
    <3>2. tok \notin CoreToks /\ tok # "FREED" /\ tok # "TELL"
      <4>1. <<tok>> # <<>>
        OBVIOUS
      <4> QED BY <1>b, <3>1, <4>1 DEF Baton
    <3> QED BY <2>2, <2>3, <3>2
  <2>5. app.buf = size
    BY <2>1, <2>4 DEF Safe
  <2>6. to \in MainToks /\ to \notin AppToks \cup CoreToks \cup {"FREED", "TELL"}
    BY <2>1 DEF MainToks, AppToks, CoreToks
  <2>7. Carries(mainQ', MainToks, to) /\ Carries(app.box, AppToks, to)
    BY <1>b, <2>1, <2>2, <2>3, <2>6, HandsOn
  <2>8. Baton(to)'
    BY <1>b, <2>1, <2>4, <2>6, <2>7, Given DEF Baton, CoreToks
  <2>9. Safe(to)'
    BY <2>1, <2>5 DEF Safe
  <2> QED BY <2>6, <2>8, <2>9
<1>2. CASE EndModeExit
  <2>1. /\ mainQ # <<>> /\ Head(mainQ) \in MainLife /\ mainQ' = Tail(mainQ)
        /\ app'.box = <<>> /\ app'.buf = size /\ main'.freed = main.freed
        /\ core' = core /\ size' = size
    BY <1>2, <1>b, KindsDiffer DEF EndModeExit, NewApp, Received, MainStates
  <2>2. Carries(mainQ', MainToks, tok) /\ mainQ' \in Seq(MainMsgs)
    BY <2>1, MainTakes
  <2>3. CASE tok \notin AppToks
    <3>1. Carries(app'.box, AppToks, tok)
      BY <2>1, <2>3, EmptyCarries
    <3>2. Baton(tok)' /\ Safe(tok)'
      BY <1>b, <2>1, <2>2, <3>1 DEF Baton, Safe
    <3> QED BY <3>2
  <2>4. CASE tok \in AppToks
    <3>1. tok \notin MainToks \cup CoreToks \cup {"FREED", "TELL"}
      BY <2>4 DEF AppToks, MainToks, CoreToks
    <3>2. Carries(mainQ', MainToks, "NONE") /\ Carries(app'.box, AppToks, "NONE")
      <4>1. Carries(mainQ', MainToks, "NONE")
        BY <2>2, <3>1, OtherCarries, KindsDiffer
      <4>2. Carries(<<>>, AppToks, "NONE")
        BY EmptyCarries, KindsDiffer
      <4> QED BY <2>1, <4>1, <4>2
    <3>3. Baton("NONE")'
      BY <1>b, <2>1, <3>1, <3>2, Given DEF Baton, CoreToks
    <3>4. Safe("NONE")'
      BY <2>1 DEF Safe
    <3> QED BY <3>3, <3>4
  <2> QED BY <2>3, <2>4
<1>3. CASE ModeFailure \/ Created \/ Started \/ TargetChanged
  <2>1. /\ core' = core /\ size' = size /\ main'.freed = main.freed
        /\ main.st = "Exit" => main'.st = "Exit" \/ Started
    BY <1>3, <1>b DEF ModeFailure, Created, Started, TargetChanged, StartModeExit, MainStates
  <2>2. Carries(mainQ', MainToks, tok)
    <3>1. mainQ' = mainQ \/ (/\ mainQ # <<>> /\ mainQ' = Tail(mainQ)
                             /\ Head(mainQ) \in MainLife \cup {"FAILURE"})
      BY <1>3, KindsDiffer DEF ModeFailure, Created, Started, TargetChanged, Received
    <3> QED BY <1>b, <3>1, MainTakes DEF Baton
  <2>3. app'.buf = app.buf /\ Carries(app'.box, AppToks, tok)
    <3>1. app' = app \/ ToApp("START") \/ ToApp("STOP")
      BY <1>3 DEF ModeFailure, Created, Started, TargetChanged, StartModeExit
    <3>2. app'.buf = app.buf /\ (app'.box = app.box \/ \E x \in AppLife : app'.box = Append(app.box, x))
      BY <3>1, Fields, KindsDiffer
    <3>3. Carries(app.box, AppToks, tok)
      BY <1>b DEF Baton
    <3>4. \A x \in AppLife : x \notin AppToks
      BY DEF AppLife, AppToks
    <3>5. \A x \in AppLife : Carries(Append(app.box, x), AppToks, tok)
      BY <1>b, <3>4, HandsOn
    <3> QED BY <3>2, <3>3, <3>5
  <2>4. Baton(tok)'
    BY <1>b, <2>1, <2>2, <2>3 DEF Baton
  <2>5. ASSUME Started PROVE main.st # "Exit"
    <3>1. life = "STARTED"
      BY <2>5, MainTakes, KindsDiffer DEF Started, Received
    <3> QED BY <1>b, <3>1 DEF Stage
  <2>6. Safe(tok)'
    BY <2>1, <2>3, <2>5 DEF Safe
  <2> QED BY <2>4, <2>6
<1>4. CASE Outside \/ UNCHANGED vars
  <2>1. /\ core' = core /\ app' = app /\ size' = size /\ main'.freed = main.freed /\ main'.st = main.st
        /\ mainQ' = mainQ \/ mainQ' = Append(mainQ, "FAILURE")
    BY <1>4, <1>b DEF Outside, Tunes, WantsOther, MediumFails, Tells, vars, MainStates
  <2>2. Carries(mainQ', MainToks, tok)
    BY <1>b, <2>1, HandsOn DEF Baton, MainToks
  <2>3. Baton(tok)' /\ Safe(tok)'
    BY <1>b, <2>1, <2>2 DEF Baton, Safe
  <2> QED BY <2>3
<1> QED BY <1>1, <1>2, <1>3, <1>4, ChangeByMain, ChangeByModes, ChangeByCore
        DEF Next, MainStep, AppStep, CoreStep

-----------------------------------------------------------------------------
LEMMA FirstOfAll == Init => IInv
<1> SUFFICES ASSUME Init PROVE IInv
  OBVIOUS
<1>1. Types
  BY FrameAssumption DEF Init, Types, MainStates, ToolStates, CoreStates, AppStates
<1>2. \A msgs : "NONE" \notin msgs => Carries(<<>>, msgs, "NONE")
  BY EmptyCarries
<1>3. Baton("NONE") /\ Safe("NONE")
  BY <1>2, KindsDiffer DEF Init, Baton, Safe, CoreToks
<1>4. Life("NONE")
  BY <1>2, KindsDiffer DEF Init, Life, Stage
<1> QED BY <1>1, <1>3, <1>4 DEF IInv, Toks

LEMMA StepsKeepIt == ASSUME ~Overlaps, IInv, [Next]_vars PROVE IInv'
<1>1. PICK tok \in Toks, life \in Lives : Counts(tok, life) /\ Safe(tok)
  BY DEF IInv, Lives, Counts
<1>2. Types'
  BY TypesKept DEF IInv
<1>3. \E to \in Toks : Baton(to)' /\ Safe(to)'
  BY <1>1, ChangeKept DEF IInv
<1>4. \E to \in Lives : Life(to)'
  BY <1>1, LivingKept DEF IInv
<1> QED BY <1>2, <1>3, <1>4 DEF IInv, Lives

\* When one change of the tool is carried through before the next one is told (Overlaps),
\* the core never mixes while the buffers are given up or of two sizes, whatever mode ends,
\* fails or is entered in the middle (FrameSizeChange, AudioCoreRun, EndModeExit).
THEOREM CoreNeverStarves == ~Overlaps => (Spec => []CoreHasBuffers)
<1> SUFFICES ASSUME ~Overlaps PROVE Spec => []CoreHasBuffers
  OBVIOUS
<1>1. Init => IInv
  BY FirstOfAll
<1>2. IInv /\ [Next]_vars => IInv'
  BY StepsKeepIt
<1>3. IInv => CoreHasBuffers
  BY DEF IInv, Types, CoreStates, Baton, Safe, CoreHasBuffers
<1> QED BY <1>1, <1>2, <1>3, PTL DEF Spec

-----------------------------------------------------------------------------
(* The queues: a message of the change at most, one of the mode's life, and   *)
(* what the medium reports.                                                   *)

Held(q, msgs) == IF \E i \in DOMAIN q : q[i] \in msgs THEN 1 ELSE 0
Fits(q, n) == Len(q) <= n + Held(q, MainToks) + Held(q, MainLife)
Once(q, msgs) == \A i, j \in DOMAIN q : q[i] \in msgs /\ q[j] \in msgs => i = j

LEMMA HeldIs ==
  ASSUME NEW S, NEW q \in Seq(S), NEW msgs
  PROVE  /\ Held(q, msgs) \in {0, 1} /\ Len(q) \in Nat
         /\ \A x : /\ Len(Append(q, x)) = Len(q) + 1
                   /\ x \notin msgs => Held(Append(q, x), msgs) = Held(q, msgs)
                   /\ x \in msgs => Held(Append(q, x), msgs) = 1
                   /\ x \in msgs /\ Once(Append(q, x), msgs) => Held(q, msgs) = 0
         /\ q # <<>> => /\ Tail(q) \in Seq(S) /\ Len(Tail(q)) = Len(q) - 1
                        /\ Head(q) \notin msgs => Held(Tail(q), msgs) = Held(q, msgs)
                        /\ Held(Tail(q), msgs) \in {0, 1}
<1>1. Held(q, msgs) \in {0, 1} /\ Len(q) \in Nat
  BY DEF Held
<1>2. ASSUME NEW x
      PROVE  /\ Len(Append(q, x)) = Len(q) + 1
             /\ x \notin msgs => Held(Append(q, x), msgs) = Held(q, msgs)
             /\ x \in msgs => Held(Append(q, x), msgs) = 1
             /\ x \in msgs /\ Once(Append(q, x), msgs) => Held(q, msgs) = 0
  <2> DEFINE r == Append(q, x)
  <2>1. /\ Len(q) \in Nat /\ DOMAIN q = 1 .. Len(q) /\ DOMAIN r = 1 .. Len(q) + 1
        /\ r[Len(q) + 1] = x /\ Len(r) = Len(q) + 1 /\ \A i \in DOMAIN q : r[i] = q[i]
    OBVIOUS
  <2> HIDE DEF r
  <2>2. DOMAIN r = DOMAIN q \cup {Len(q) + 1} /\ Len(q) + 1 \notin DOMAIN q
    BY <2>1
  <2>3. x \notin msgs => Held(r, msgs) = Held(q, msgs)
    BY <2>1, <2>2 DEF Held
  <2>4. x \in msgs => Held(r, msgs) = 1
    BY <2>1, <2>2 DEF Held
  <2>5. x \in msgs /\ Once(r, msgs) => Held(q, msgs) = 0
    BY <2>1, <2>2 DEF Held, Once
  <2> QED BY <2>1, <2>3, <2>4, <2>5 DEF r
<1>3. ASSUME q # <<>>
      PROVE  /\ Tail(q) \in Seq(S) /\ Len(Tail(q)) = Len(q) - 1
             /\ Head(q) \notin msgs => Held(Tail(q), msgs) = Held(q, msgs)
             /\ Held(Tail(q), msgs) \in {0, 1}
  <2>1. /\ Tail(q) \in Seq(S) /\ Len(Tail(q)) = Len(q) - 1 /\ Head(q) = q[1]
        /\ \A i \in DOMAIN Tail(q) : i + 1 \in DOMAIN q /\ Tail(q)[i] = q[i + 1]
    BY <1>3
  <2>2. \A i \in DOMAIN q : i = 1 \/ (i - 1 \in DOMAIN Tail(q) /\ Tail(q)[i - 1] = q[i])
    BY <1>3
  <2>3. Head(q) \notin msgs => Held(Tail(q), msgs) = Held(q, msgs)
    BY <2>1, <2>2 DEF Held
  <2> QED BY <2>1, <2>3 DEF Held
<1> QED BY <1>1, <1>2, <1>3

LEMMA QueueFits ==
  ASSUME NEW q \in Seq(MainMsgs), NEW n \in Nat, Fits(q, n)
  PROVE  /\ q # <<>> => Tail(q) \in Seq(MainMsgs) /\ Fits(Tail(q), n)
         /\ \A x \in MainToks \cup MainLife :
              Once(Append(q, x), MainToks) /\ Once(Append(q, x), MainLife)
                => Fits(Append(q, x), n)
         /\ Fits(Append(q, "FAILURE"), n + 1)
<1>1. /\ Len(q) \in Nat /\ Held(q, MainToks) \in {0, 1} /\ Held(q, MainLife) \in {0, 1}
      /\ Len(q) <= n + Held(q, MainToks) + Held(q, MainLife)
  BY HeldIs DEF Fits
<1>2. ASSUME q # <<>> PROVE Tail(q) \in Seq(MainMsgs) /\ Fits(Tail(q), n)
  <2>1. /\ Tail(q) \in Seq(MainMsgs) /\ Len(Tail(q)) = Len(q) - 1
        /\ Held(Tail(q), MainToks) \in {0, 1} /\ Held(Tail(q), MainLife) \in {0, 1}
        /\ Head(q) \notin MainToks => Held(Tail(q), MainToks) = Held(q, MainToks)
        /\ Head(q) \notin MainLife => Held(Tail(q), MainLife) = Held(q, MainLife)
    BY <1>2, HeldIs
  <2>2. Head(q) \notin MainToks \/ Head(q) \notin MainLife
    BY DEF MainToks, MainLife
  <2> QED BY <1>1, <2>1, <2>2 DEF Fits
<1>3. ASSUME NEW x \in MainToks \cup MainLife,
             Once(Append(q, x), MainToks), Once(Append(q, x), MainLife)
      PROVE  Fits(Append(q, x), n)
  <2>1. /\ Len(Append(q, x)) = Len(q) + 1
        /\ x \notin MainToks => Held(Append(q, x), MainToks) = Held(q, MainToks)
        /\ x \notin MainLife => Held(Append(q, x), MainLife) = Held(q, MainLife)
        /\ x \in MainToks => Held(Append(q, x), MainToks) = 1 /\ Held(q, MainToks) = 0
        /\ x \in MainLife => Held(Append(q, x), MainLife) = 1 /\ Held(q, MainLife) = 0
    BY <1>3, HeldIs
  <2>2. x \notin MainToks \/ x \notin MainLife
    BY DEF MainToks, MainLife
  <2> QED BY <1>1, <2>1, <2>2 DEF Fits
<1>4. Fits(Append(q, "FAILURE"), n + 1)
  <2>1. "FAILURE" \notin MainToks /\ "FAILURE" \notin MainLife
    BY DEF MainToks, MainLife
  <2>2. /\ Len(Append(q, "FAILURE")) = Len(q) + 1
        /\ Held(Append(q, "FAILURE"), MainToks) = Held(q, MainToks)
        /\ Held(Append(q, "FAILURE"), MainLife) = Held(q, MainLife)
    BY <2>1, HeldIs
  <2> QED BY <1>1, <2>2 DEF Fits
<1> QED BY <1>2, <1>3, <1>4

Room == acts \in 0 .. MaxActs /\ Fits(mainQ, acts)

\* What a step does to the main queue.
LEMMA QueueMoves ==
  ASSUME [Next]_vars
  PROVE  /\ acts' = acts \/ (acts < MaxActs /\ acts' = acts + 1)
         /\ \/ mainQ' = mainQ
            \/ mainQ # <<>> /\ mainQ' = Tail(mainQ)
            \/ \E x \in MainToks \cup MainLife :
                 \/ mainQ' = Append(mainQ, x)
                 \/ mainQ # <<>> /\ mainQ' = Append(Tail(mainQ), x)
            \/ mainQ' = Append(mainQ, "FAILURE") /\ acts' = acts + 1
<1> DEFINE Msgs == MainToks \cup MainLife
<1>m. {"FRAME", "EFFECT", "PAUSED", "RELEASE_SUC", "MALLOC_SUC", "INIT_SUC", "CREATED",
       "STARTED", "STOPPED"} \subseteq Msgs
  BY DEF MainToks, MainLife
<1> HIDE DEF Msgs
<1>1. acts' = acts \/ (acts < MaxActs /\ acts' = acts + 1)
  BY DEF Next, MainStep, AppStep, CoreStep, Outside, vars, Acts, FrameSizeChange,
  EffectUpdate, ServicePaused, ResRelease, ResMalloc, ResInit, InitDone, ModeFailure, Created,
  Started, EndModeExit, TargetChanged, EffectChange, DecoderAnswers, Orders, AppResRelease,
  AppResMalloc, AppResInit, CoreReceives, RunCheck, Tunes, WantsOther, MediumFails
<1>2. CASE MainStep
  <2>1. CASE FrameSizeChange
    BY <2>1, <1>m DEF FrameSizeChange, Msgs
  <2>2. CASE ~FrameSizeChange
    BY <1>2, <2>2 DEF MainStep, Received, EffectUpdate, ServicePaused, ResRelease, ResMalloc,
                      ResInit, InitDone, ModeFailure, Created, Started, EndModeExit
  <2> QED BY <2>1, <2>2
<1>3. CASE AppStep
  BY <1>3, <1>m DEF AppStep, Tells, DecoderAnswers, Orders, AppResRelease, AppResMalloc,
                    AppResInit, Msgs
<1>4. CASE CoreStep \/ TargetChanged \/ EffectChange
  BY <1>4, <1>m DEF CoreStep, Tells, CoreReceives, RunCheck, TargetChanged, EffectChange, Msgs
<1>5. CASE Outside \/ UNCHANGED vars
  BY <1>5 DEF Outside, Tunes, WantsOther, MediumFails, Tells, Acts, vars
<1> QED BY <1>1, <1>2, <1>3, <1>4, <1>5 DEF Next

LEMMA CarriedOnce == ASSUME IInv PROVE Once(mainQ, MainToks) /\ Once(mainQ, MainLife)
BY DEF IInv, Baton, Life, Carries, Once

LEMMA RoomKept == ASSUME IInv, IInv', Room, [Next]_vars PROVE Room'
<1>1. /\ mainQ \in Seq(MainMsgs) /\ acts \in Nat /\ Fits(mainQ, acts)
      /\ acts \in 0 .. MaxActs /\ MaxActs \in Nat
  BY FrameAssumption DEF IInv, Types, Room
<1>2. acts' \in 0 .. MaxActs /\ acts' \in Nat /\ (acts' = acts \/ acts' = acts + 1)
  BY <1>1, QueueMoves
<1>3. Once(mainQ', MainToks) /\ Once(mainQ', MainLife)
  BY CarriedOnce DEF IInv, Baton, Life, Carries, Once
<1>4. \A q : Fits(q, acts) /\ q \in Seq(MainMsgs) => Fits(q, acts')
  <2> TAKE q
  <2>1. q \in Seq(MainMsgs) => /\ Len(q) \in Nat /\ Held(q, MainToks) \in {0, 1}
                              /\ Held(q, MainLife) \in {0, 1}
    BY HeldIs
  <2> QED BY <1>1, <1>2, <2>1 DEF Fits
<1>5. mainQ' \in Seq(MainMsgs)
  BY DEF IInv, Types
<1>6. CASE mainQ' = mainQ \/ (mainQ # <<>> /\ mainQ' = Tail(mainQ))
  <2>1. Fits(mainQ', acts)
    BY <1>1, <1>6, QueueFits
  <2> QED BY <1>2, <1>4, <1>5, <2>1 DEF Room, Fits, Held
<1>7. ASSUME NEW x \in MainToks \cup MainLife,
             mainQ' = Append(mainQ, x) \/ (mainQ # <<>> /\ mainQ' = Append(Tail(mainQ), x))
      PROVE  Room'
  <2>1. PICK q \in Seq(MainMsgs) : Fits(q, acts) /\ mainQ' = Append(q, x)
    BY <1>1, <1>7, QueueFits
  <2>2. Fits(mainQ', acts)
    BY <1>1, <1>3, <2>1, QueueFits
  <2> QED BY <1>2, <1>4, <1>5, <2>2 DEF Room, Fits, Held
<1>8. CASE mainQ' = Append(mainQ, "FAILURE") /\ acts' = acts + 1
  <2>1. Fits(mainQ', acts')
    BY <1>1, <1>8, QueueFits
  <2> QED BY <1>2, <2>1 DEF Room, Fits, Held
<1> QED BY <1>6, <1>7, <1>8, QueueMoves

\* A queue that holds one message of two kinds at most has two at most.
LEMMA BoxesAreShort ==
  ASSUME IInv PROVE Len(app.box) <= 2 /\ Len(core.box) <= 1
<1>1. app.box \in Seq(AppMsgs) /\ Once(app.box, AppToks) /\ Once(app.box, AppLife)
  BY DEF IInv, Types, AppStates, Baton, Life, Carries, Once
<1>2. Len(app.box) <= 2
  <2> DEFINE q == app.box
  <2>1. /\ Len(q) \in Nat /\ DOMAIN q = 1 .. Len(q)
        /\ \A i \in DOMAIN q : q[i] \in AppToks \/ q[i] \in AppLife
    BY <1>1 DEF AppMsgs, AppToks, AppLife
  <2>2. Once(q, AppToks) /\ Once(q, AppLife)
    BY <1>1
  <2> HIDE DEF q
  <2>3. ASSUME 3 <= Len(q) PROVE FALSE
    <3>1. 1 \in DOMAIN q /\ 2 \in DOMAIN q /\ 3 \in DOMAIN q
      BY <2>1, <2>3
    <3> QED BY <2>1, <2>2, <3>1 DEF Once
  <2> QED BY <2>1, <2>3 DEF q
<1>3. Len(core.box) <= 1
  <2>1. PICK tok \in Toks : core.box = IF tok \in CoreToks THEN <<tok>> ELSE <<>>
    BY DEF IInv, Baton
  <2>2. Len(<<tok>>) = 1 /\ Len(<<>>) = 0
    OBVIOUS
  <2>3. core.box = <<tok>> \/ core.box = <<>>
    BY <2>1
  <2>4. Len(core.box) = 1 \/ Len(core.box) = 0
    BY <2>2, <2>3, Zenon
  <2>5. \A n : n = 1 \/ n = 0 => n <= 1
    OBVIOUS
  <2> QED BY <2>4, <2>5, Zenon
<1> QED BY <1>2, <1>3

\* No message is lost to a full queue: changes that do not overlap put two messages into the
\* mode's queue at most, one into the core's, and into the main task's ten places two beside
\* the reports of a medium that fails, of which there are no more than the outside does.
THEOREM QueuesSuffice == ~Overlaps /\ MaxActs <= 8 => (Spec => []TypeOK)
<1> SUFFICES ASSUME ~Overlaps, MaxActs <= 8 PROVE Spec => []TypeOK
  OBVIOUS
<1>1. Init => IInv /\ Room
  <2>1. Init => acts = 0 /\ mainQ = <<>>
    BY DEF Init
  <2>2. Init => Room
    BY <2>1, FrameAssumption DEF Room, Fits, Held
  <2> QED BY <2>2, FirstOfAll
<1>2. IInv /\ Room /\ [Next]_vars => IInv' /\ Room'
  BY StepsKeepIt, RoomKept
<1>3. IInv /\ Room => TypeOK
  <2> SUFFICES ASSUME IInv, Room PROVE TypeOK
    OBVIOUS
  <2>1. Types /\ Len(app.box) <= 2 /\ Len(core.box) <= 1
    BY BoxesAreShort DEF IInv
  <2>2. Len(mainQ) <= 10
    <3>1. /\ Len(mainQ) \in Nat /\ Held(mainQ, MainToks) \in {0, 1}
          /\ Held(mainQ, MainLife) \in {0, 1}
      BY <2>1, HeldIs DEF Types
    <3> QED BY <3>1, FrameAssumption DEF Room, Fits
  <2>3. core \in [st : {"Running", "Paused"}, pause : BOOLEAN, tell : BOOLEAN,
                  box : Seq({"PAUSE", "HOLD", "RESUME"})] /\ Len(core.box) <= 4
    <3>1. Len(core.box) \in Nat
      BY <2>1 DEF Types, CoreStates
    <3> QED BY <2>1, <3>1 DEF Types, CoreStates, CoreToks
  <2>4. app \in AppStates /\ Len(app.box) <= 10
    <3>1. Len(app.box) \in Nat
      BY <2>1 DEF Types, AppStates
    <3> QED BY <2>1, <3>1 DEF Types
  <2> QED BY <2>1, <2>2, <2>3, <2>4 DEF Types, TypeOK, MainStates, ToolStates, AppStates, Room
<1> QED BY <1>1, <1>2, <1>3, PTL DEF Spec
=============================================================================
