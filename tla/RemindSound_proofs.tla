------------------------- MODULE RemindSound_proofs -------------------------
(***************************************************************************)
(* The decoder has one owner at a time, whatever kinds of mode are entered  *)
(* and whatever prompts, streams, songs, keys and ends of modes cross.  A   *)
(* hand-over has two steps, and each is allowed by what lies in a queue:    *)
(* the service gets the decoder while it waits and has asked once (Cycle),  *)
(* the mode takes it back at an answer that no prompt can still be playing  *)
(* behind.  When a mode ends (Ends, Resets) the two sides lose touch, and   *)
(* what the flags say then rests on the decoder being at rest (Owners).     *)
(* That nothing a hand-over waits for is lost (Sound) is the converse: each *)
(* wait names the message that ends it, and a step that hears this message  *)
(* ends the wait.  A stream that begins may rob the service of the lot (the *)
(* history variable robbed): then nothing is left to come (Lost), and only  *)
(* the end of the mode ends the wait.                                       *)
(***************************************************************************)
EXTENDS RemindHistory, TLAPS

Once(q, m) == \A i, j \in DOMAIN q : q[i] = m /\ q[j] = m => i = j
\* Every a stands before every b.
Before(q, a, b) == \A i, j \in DOMAIN q : q[i] = a /\ q[j] = b => i < j
\* Behind the first only what may follow.
Follow(q) == \A i \in DOMAIN q : i > 1 => q[i] \in {"STOP", "PAUSE"}

FreshOnce(q, st, m) ==
  \A i, j \in DOMAIN q : q[i] = m /\ q[j] = m /\ Live(q, st, i) /\ Live(q, st, j) => i = j

\* What the decoder is to do next.
Call    == IF decQ = <<>> THEN "none" ELSE Head(decQ)
Asked   == Call = "RESET"
Ending  == Call = "TASK_STOP"
Active(who) == decoder.by = who /\ decoder.st \in {"Initialized", "Play", "Pause"}

-----------------------------------------------------------------------------
(* The invariant. *)

RemindSts    == {"STANDBY", "WAIT_DECODER", "PLAY", "STOPPING", "STOPPED"}
RemindAts    == {"recv", "cut", "stop", "play"}
RemindStates == [st : RemindSts, at : RemindAts, req : BOOLEAN, blk : 0 .. 1,
                 isBlock : BOOLEAN]
DecoderSts   == {"Absent", "None", "Initialized", "Play", "Pause", "Stop"}
Streams      == {"none", "app", "remind"}
DecoderStates == [st : DecoderSts, by : Streams]
ModeKinds    == Kinds \cup {"none"}
AppSts       == {"none", "Starting", "Paused", "Running", "Stopping", "Stopped"}
PlayerSts    == {"idle", "play", "pause"}
Syncs        == {"None", "Initialized", "Deinitializing", "Play", "Stop"}
AppStates    == [kind : ModeKinds, st : AppSts, sbc : BOOLEAN, muted : BOOLEAN, wait : BOOLEAN,
                 player : PlayerSts, sync : Syncs]
RemindMsgs   == {"REQUEST", "PLAY", "RESET", "STOPPED"}
DecoderMsgs  == {"PLAY", "PAUSE", "RESUME", "STOP", "RESET", "TASK_STOP"}
AppMsgs      == {"NEED", "DONE", "FAIL", "START", "TASK_STOP", "DECODER_RESET",
                 "DECODER_STOPPED", "SERVICE_STOPPED", "PLAYING", "PLAY_END", "NEXT"}
MainMsgs     == {"STARTED", "STOPPED", "FAILURE", "NEED", "DONE", "FAIL"}
SoftFlags    == {"DecoderRun", "DecoderApp", "DecoderRemind", "DecoderSwitch"}
Types ==
  /\ remind \in RemindStates /\ remQ \in Seq(RemindMsgs)
  /\ decoder \in DecoderStates /\ decQ \in Seq(DecoderMsgs) /\ pcm \in BOOLEAN
  /\ flags \subseteq SoftFlags
  /\ app \in AppStates /\ appQ \in Seq(AppMsgs)
  /\ MState \in {"None", "Enter", "Work", "Exit"} /\ mainQ \in Seq(MainMsgs)
  /\ refresh \in BOOLEAN /\ acts \in 0 .. MaxActs /\ modes \in 0 .. MaxModes

\* The mode, its kind and what it has of the decoder.
Modes ==
  /\ MState = "None" <=> app.kind = "none"
  /\ app.kind = "none" <=> app.st = "none"
  /\ MState = "None" =>
       app = NoMode /\ appQ = <<>> /\ decQ = <<>> /\ decoder.st = "Absent" /\ flags = {}
  /\ decoder.st = "Absent" => MState = "None"
  /\ Own <=> app.kind \in {"Bt", "Media"}
  /\ app.wait => app.kind = "Media" /\ app.st \in {"Paused", "Stopping", "Stopped"}
  /\ app.st = "Paused" => app.wait
  /\ app.wait \/ app.st = "Starting" => decoder.by # "app"
  /\ app.st = "Starting" /\ Own => ~Lends /\ ~Switch
  /\ app.wait => ~Switch

\* The end of a mode is in one place: asked of the mode, of its decoder, or done.
Ends ==
  /\ MState \in {"Enter", "Work"} => DecoderRuns /\ ~Ending /\ ~In(appQ, "TASK_STOP")
  /\ MState = "Exit" => In(appQ, "TASK_STOP") \/ Ending \/ ~DecoderRuns
  /\ In(appQ, "TASK_STOP") =>
       DecoderRuns /\ ~Ending /\ app.st \in {"Starting", "Paused", "Running"}
  /\ Ending => DecoderRuns /\ In(remQ, "RESET")
  /\ In(appQ, "SERVICE_STOPPED") \/ In(mainQ, "STOPPED") => ~DecoderRuns /\ MState = "Exit"
  /\ ~(In(appQ, "SERVICE_STOPPED") /\ In(mainQ, "STOPPED"))
  /\ Once(appQ, "TASK_STOP") /\ Once(appQ, "SERVICE_STOPPED") /\ Once(mainQ, "STOPPED")
  /\ app.st \in {"Stopping", "Stopped"} => Ending \/ ~DecoderRuns
  /\ app.st \in {"Starting", "Paused"} => DecoderRuns /\ ~Ending

\* The service is reset at the end of a mode, and only then.
Resets ==
  /\ In(remQ, "RESET") => Ending \/ ~DecoderRuns
  /\ ~DecoderRuns => In(remQ, "RESET") \/ (remind.st = "STANDBY" /\ remind.blk = 0)
  /\ DecoderRuns /\ (app.kind # "Line" \/ app.st = "Starting") /\ ~In(remQ, "RESET") =>
       remind.blk = 0
  /\ remind.at # "recv" => remind.st \in {"PLAY", "STOPPING"}

\* What the decoder is told.
Calls ==
  /\ Follow(decQ)
  /\ In(decQ, "PAUSE") => decoder.by = "app" /\ ~Lent
  /\ Call = "RESUME" => ~Lent /\ DecoderRuns
  /\ decoder.st = "Stop" => ~DecoderRuns
  /\ decoder.by = "none" => decoder.st \notin {"Initialized", "Play", "Pause"}

\* What reaches the mode by way of the main task.
Mains ==
  /\ In(mainQ, "STARTED") <=> MState = "Enter"
  /\ Once(mainQ, "STARTED")
  /\ ~In(appQ, "FAIL") /\ ~Fresh(mainQ, MState, "FAIL")

\* One hand-over at a time in a mode that has a decoder of its own and is not ending.
Cycle ==
  /\ Asked => ~In(appQ, "DECODER_RESET")
  /\ Once(appQ, "DECODER_RESET") /\ Once(appQ, "NEED") /\ Once(remQ, "PLAY")
  /\ FreshOnce(mainQ, MState, "NEED")
  /\ ~(In(appQ, "NEED") /\ Fresh(mainQ, MState, "NEED"))
  /\ Before(appQ, "DECODER_RESET", "NEED")
  /\ Wanted => remind.st = "WAIT_DECODER" /\ ~In(remQ, "PLAY") /\ ~Switch /\ ~Asked
  /\ Switch => remind.st = "WAIT_DECODER" /\ ~In(remQ, "PLAY")
  /\ Asked \/ In(appQ, "DECODER_RESET") =>
       remind.st \in {"STANDBY", "WAIT_DECODER"} /\ ~In(remQ, "PLAY")
  /\ In(remQ, "PLAY") => remind.st = "WAIT_DECODER"
  /\ remind.st \in {"STANDBY", "WAIT_DECODER"} => ~Active("remind") \/ Asked
Shares == Own /\ DecoderRuns /\ ~Ending => Cycle

\* Whose the decoder is.
Owners ==
  /\ Switch => Asked \/ ~Active("app")
  /\ Own /\ ~Lends => ~Active("remind")
  /\ Own /\ Lends => ~Active("app")
  /\ ~DecoderRuns => ~Active("remind")

\* Only a stream of the phone begins.
Begins == In(appQ, "START") => app.kind = "Bt"

\* What ends each wait of the hand-over, while no end of the mode does.
AtWork == DecoderRuns /\ ~WillReset
OnWait ==
  remind.st = "WAIT_DECODER" =>
    /\ Own
    /\ \/ Wanted
       \/ Switch /\ (Asked \/ In(appQ, "DECODER_RESET"))
       \/ Lends /\ In(remQ, "PLAY")
OnLoan ==
  Lends /\ Own =>
    \/ remind.st \in {"PLAY", "STOPPING", "STOPPED"} \/ In(remQ, "PLAY")
    \/ Asked \/ In(appQ, "DECODER_RESET")
SetUp  == decoder.by = "remind" /\ decoder.st = "Initialized"
AtPlay == decoder.by = "remind" /\ decoder.st = "Play"
OnPlay ==
  /\ remind.st = "PLAY" =>
       Lends /\ \/ remind.at = "cut" \/ AtPlay \/ WillStop
                \/ SetUp /\ (remind.at = "play" \/ Call = "PLAY")
  /\ remind.st = "STOPPING" => Lends /\ (remind.at = "stop" \/ WillStop)
  /\ remind.st = "STOPPED" => Lends
OnRest ==
  /\ Asked => remind.st \in {"STANDBY", "WAIT_DECODER"}
  /\ ~Own /\ remind.st \in {"STANDBY", "WAIT_DECODER"} => ~Active("remind") \/ Asked
Sound == OnWait /\ OnLoan /\ OnPlay /\ OnRest
\* What a stream leaves of a hand-over it robs: nothing, but the service that waits.
Lost  == ~Lends /\ ~Switch /\ ~Wanted /\ remind.st # "STANDBY"
Loans == Begins /\ (AtWork => IF robbed THEN Lost ELSE Sound)
\* What every step but a stream's beginning does to it.
Keeps == robbed' = (remind'.st # "STANDBY" /\ robbed)
LoansKept == Loans /\ Keeps => Loans'

\* What is so of the lives of the tasks, and what of the hand-over.
Lives == Modes /\ Ends /\ Resets /\ Calls /\ Mains
Hands == Shares /\ Owners
IInv  == Types /\ Lives /\ Hands

-----------------------------------------------------------------------------
(* Queues. *)

LEMMA EmptyQueue ==
  /\ \A m : ~In(<<>>, m) /\ Once(<<>>, m)
  /\ \A a, b : Before(<<>>, a, b)
  /\ Follow(<<>>)
BY DEF In, Once, Before, Follow

\* The queue r is q with x behind it.
Gains(q, r, x) ==
  /\ \A m : In(r, m) <=> In(q, m) \/ m = x
  /\ \A m : Once(q, m) /\ (m = x => ~In(q, m)) => Once(r, m)
  /\ \A a, b : Before(q, a, b) /\ a # b /\ (a = x => ~In(q, b)) => Before(r, a, b)

LEMMA Appended ==
  ASSUME NEW T, NEW q \in Seq(T), NEW x
  PROVE  Gains(q, Append(q, x), x)
<1> DEFINE r == Append(q, x)
<1>1. /\ Len(q) \in Nat /\ DOMAIN q = 1 .. Len(q) /\ DOMAIN r = 1 .. Len(q) + 1
      /\ r[Len(q) + 1] = x /\ \A i \in DOMAIN q : r[i] = q[i]
  OBVIOUS
<1> HIDE DEF r
<1>2. DOMAIN r = DOMAIN q \cup {Len(q) + 1} /\ \A i \in DOMAIN q : i \in Nat /\ i < Len(q) + 1
  BY <1>1
<1>3. \A m : In(r, m) <=> In(q, m) \/ m = x
  BY <1>1, <1>2 DEF In
<1>4. \A m : Once(q, m) /\ (m = x => ~In(q, m)) => Once(r, m)
  BY <1>1, <1>2 DEF In, Once
<1>5. \A a, b : Before(q, a, b) /\ a # b /\ (a = x => ~In(q, b)) => Before(r, a, b)
  BY <1>1, <1>2 DEF In, Before
<1> QED BY <1>3, <1>4, <1>5, Zenon DEF r, Gains

\* The queue r is q without x, which stood first.
Loses(q, r, x) ==
  /\ \A m : In(q, m) <=> In(r, m) \/ m = x
  /\ \A m : Once(q, m) => Once(r, m) /\ (m = x => ~In(r, m))
  /\ \A a, b : Before(q, a, b) => Before(r, a, b) /\ (b = x => ~In(q, a))

LEMMA Taken ==
  ASSUME NEW T, NEW q \in Seq(T), q # <<>>
  PROVE  /\ Tail(q) \in Seq(T) /\ Loses(q, Tail(q), Head(q))
         /\ Follow(q) => Follow(Tail(q)) /\ (Tail(q) # <<>> => Head(Tail(q)) \in {"STOP", "PAUSE"})
<1> DEFINE r == Tail(q)
<1>1. /\ r \in Seq(T) /\ Len(q) \in Nat /\ DOMAIN q = 1 .. Len(q) /\ 1 \in DOMAIN q
      /\ Head(q) = q[1] /\ DOMAIN r = 1 .. Len(q) - 1
      /\ \A i \in DOMAIN r : i + 1 \in DOMAIN q /\ r[i] = q[i + 1]
      /\ r # <<>> => 1 \in DOMAIN r /\ Head(r) = r[1]
  OBVIOUS
<1> HIDE DEF r
<1>2. \A i \in DOMAIN q : i = 1 \/ (i - 1 \in DOMAIN r /\ r[i - 1] = q[i])
  BY <1>1
<1>3. \A m : In(q, m) <=> In(r, m) \/ m = Head(q)
  <2>1. \A m : In(q, m) => In(r, m) \/ m = Head(q)
    BY <1>1, <1>2 DEF In
  <2>2. \A m : In(r, m) \/ m = Head(q) => In(q, m)
    BY <1>1 DEF In
  <2> QED BY <2>1, <2>2
<1>4. ASSUME NEW m, Once(q, m) PROVE Once(r, m) /\ (m = Head(q) => ~In(r, m))
  <2>1. \A i, j \in DOMAIN r : r[i] = m /\ r[j] = m => i + 1 = j + 1
    BY <1>1, <1>4 DEF Once
  <2>2. \A i, j \in DOMAIN r : i \in Nat /\ j \in Nat
    BY <1>1
  <2>3. Once(r, m)
    BY <2>1, <2>2 DEF Once
  <2>4. ASSUME m = Head(q), NEW i \in DOMAIN r, r[i] = m PROVE FALSE
    <3>1. i + 1 = 1
      BY <2>4, <1>1, <1>4 DEF Once
    <3> QED BY <3>1, <1>1
  <2> QED BY <2>3, <2>4 DEF In
<1>5. ASSUME NEW a, NEW b, Before(q, a, b) PROVE Before(r, a, b) /\ (b = Head(q) => ~In(q, a))
  <2>1. \A i, j \in DOMAIN r : r[i] = a /\ r[j] = b => i + 1 < j + 1
    BY <1>1, <1>5 DEF Before
  <2>2. \A i, j \in DOMAIN r : i \in Nat /\ j \in Nat
    BY <1>1
  <2>3. Before(r, a, b)
    BY <2>1, <2>2 DEF Before
  <2>4. ASSUME b = Head(q), NEW i \in DOMAIN q, q[i] = a PROVE FALSE
    <3>1. i < 1
      BY <2>4, <1>1, <1>5 DEF Before
    <3> QED BY <3>1, <1>1
  <2> QED BY <2>3, <2>4 DEF In
<1>6. ASSUME Follow(q) PROVE Follow(r) /\ (r # <<>> => Head(r) \in {"STOP", "PAUSE"})
  <2>1. \A i \in DOMAIN r : r[i] \in {"STOP", "PAUSE"}
    <3> SUFFICES ASSUME NEW i \in DOMAIN r PROVE r[i] \in {"STOP", "PAUSE"}
      OBVIOUS
    <3>1. i + 1 > 1 /\ i + 1 \in DOMAIN q
      BY <1>1
    <3> QED BY <3>1, <1>1, <1>6 DEF Follow
  <2> QED BY <2>1, <1>1 DEF Follow
<1>7. Loses(q, r, Head(q))
  BY <1>3, <1>4, <1>5, Zenon DEF Loses
<1> QED BY <1>1, <1>6, <1>7, Zenon DEF r

\* What the main task's queue still has for the mode.
FreshGains(q, r, st, x) ==
  /\ \A m : Fresh(r, st, m) => Fresh(q, st, m) \/ m = x
  /\ \A m : Fresh(q, st, m) => Fresh(r, st, m)
  /\ st = "Work" \/ (st = "Enter" /\ In(q, "STARTED")) => Fresh(r, st, x)
  /\ \A m : FreshOnce(q, st, m) /\ (m = x => ~Fresh(q, st, m)) => FreshOnce(r, st, m)

LEMMA FreshAppended ==
  ASSUME NEW T, NEW q \in Seq(T), NEW x, NEW st
  PROVE  FreshGains(q, Append(q, x), st, x)
<1> DEFINE r == Append(q, x)
<1>1. /\ Len(q) \in Nat /\ DOMAIN q = 1 .. Len(q) /\ DOMAIN r = 1 .. Len(q) + 1
      /\ r[Len(q) + 1] = x /\ \A i \in DOMAIN q : r[i] = q[i]
  OBVIOUS
<1> HIDE DEF r
<1>2. DOMAIN r = DOMAIN q \cup {Len(q) + 1} /\ \A i \in DOMAIN q : i \in Nat /\ i < Len(q) + 1
  BY <1>1
<1>3. \A i \in DOMAIN q : Live(r, st, i) <=> Live(q, st, i)
  BY <1>1, <1>2 DEF Live
<1>4. \A m : Fresh(r, st, m) => Fresh(q, st, m) \/ m = x
  BY <1>1, <1>2, <1>3 DEF Fresh
<1>5. \A m : FreshOnce(q, st, m) /\ (m = x => ~Fresh(q, st, m)) => FreshOnce(r, st, m)
  BY <1>1, <1>2, <1>3 DEF Fresh, FreshOnce
<1>6. \A m : Fresh(q, st, m) => Fresh(r, st, m)
  BY <1>1, <1>2, <1>3 DEF Fresh
<1>7. ASSUME st = "Work" \/ (st = "Enter" /\ In(q, "STARTED")) PROVE Fresh(r, st, x)
  <2>1. Live(r, st, Len(q) + 1)
    BY <1>1, <1>2, <1>7 DEF Live, In
  <2> QED BY <1>1, <1>2, <2>1 DEF Fresh
<1> QED BY <1>4, <1>5, <1>6, <1>7, Zenon DEF r, FreshGains

FreshLoses(q, r, st, to, x) ==
  /\ \A m : Fresh(r, to, m) => Fresh(q, st, m)
  /\ \A m : FreshOnce(q, st, m) => FreshOnce(r, to, m)
  /\ st = "Work" => Fresh(q, st, x) /\ (FreshOnce(q, st, x) => ~Fresh(r, st, x))
  /\ st = "Work" \/ x # "STARTED" \/ to # st =>
       \A m : Fresh(q, st, m) => Fresh(r, to, m) \/ (m = x /\ st = "Work")

LEMMA FreshTaken ==
  ASSUME NEW T, NEW q \in Seq(T), q # <<>>, NEW st, NEW to,
         to = st \/ (Head(q) = "STARTED" /\ st = "Enter" /\ to = "Work")
  PROVE  FreshLoses(q, Tail(q), st, to, Head(q))
<1> DEFINE r == Tail(q)
<1>1. /\ r \in Seq(T) /\ Len(q) \in Nat /\ DOMAIN q = 1 .. Len(q) /\ 1 \in DOMAIN q
      /\ Head(q) = q[1] /\ DOMAIN r = 1 .. Len(q) - 1
      /\ \A i \in DOMAIN r : i \in Nat /\ i + 1 \in DOMAIN q /\ i + 1 > 1 /\ r[i] = q[i + 1]
  OBVIOUS
<1> HIDE DEF r
<1>2. \A i \in DOMAIN r : Live(r, to, i) => Live(q, st, i + 1)
  <2> SUFFICES ASSUME NEW i \in DOMAIN r, Live(r, to, i) PROVE Live(q, st, i + 1)
    OBVIOUS
  <2>1. CASE Head(q) = "STARTED" /\ st = "Enter" /\ to = "Work"
    BY <2>1, <1>1 DEF Live
  <2>2. CASE to = st /\ st = "Work"
    BY <2>2 DEF Live
  <2>3. CASE to = st /\ st # "Work"
    <3>1. PICK j \in DOMAIN r : j < i /\ r[j] = "STARTED"
      BY <2>3 DEF Live
    <3>2. j + 1 \in DOMAIN q /\ j + 1 < i + 1 /\ q[j + 1] = "STARTED"
      BY <3>1, <1>1
    <3> QED BY <3>2, <2>3 DEF Live
  <2> QED BY <2>1, <2>2, <2>3
<1>3. \A m : Fresh(r, to, m) => Fresh(q, st, m)
  BY <1>1, <1>2 DEF Fresh
<1>4. \A m : FreshOnce(q, st, m) => FreshOnce(r, to, m)
  <2> SUFFICES ASSUME NEW m, FreshOnce(q, st, m), NEW i \in DOMAIN r, NEW j \in DOMAIN r,
                      r[i] = m, r[j] = m, Live(r, to, i), Live(r, to, j)
               PROVE  i = j
    BY DEF FreshOnce
  <2>1. i + 1 = j + 1
    BY <1>1, <1>2 DEF FreshOnce
  <2> QED BY <2>1, <1>1
<1>5. ASSUME st = "Work", NEW m, m = Head(q)
      PROVE  Fresh(q, st, m) /\ (FreshOnce(q, st, m) => ~Fresh(r, st, m))
  <2>1. \A i : Live(q, st, i)
    BY <1>5 DEF Live
  <2>2. Fresh(q, st, m)
    BY <2>1, <1>1, <1>5 DEF Fresh
  <2>3. ASSUME FreshOnce(q, st, m), NEW i \in DOMAIN r, r[i] = m PROVE FALSE
    <3>1. i + 1 = 1
      BY <2>1, <2>3, <1>1, <1>5 DEF FreshOnce
    <3> QED BY <3>1, <1>1
  <2> QED BY <2>2, <2>3 DEF Fresh
<1>6. ASSUME st = "Work" \/ Head(q) # "STARTED" \/ to # st, NEW m, Fresh(q, st, m)
      PROVE  Fresh(r, to, m) \/ (m = Head(q) /\ st = "Work")
  <2>1. PICK i \in DOMAIN q : q[i] = m /\ Live(q, st, i)
    BY <1>6 DEF Fresh
  <2>2. i = 1 \/ (i - 1 \in DOMAIN r /\ r[i - 1] = m)
    BY <1>1, <2>1
  <2>3. CASE st = "Work" \/ to # st
    <3>1. to = "Work"
      BY <2>3
    <3>2. st # "Work" => i # 1
      <4> SUFFICES ASSUME st # "Work", i = 1 PROVE FALSE
        OBVIOUS
      <4>1. PICK j \in DOMAIN q : j < 1
        BY <2>1 DEF Live
      <4> QED BY <4>1, <1>1
    <3>3. \A k : Live(r, to, k)
      BY <3>1 DEF Live
    <3> QED BY <1>1, <2>1, <2>2, <3>2, <3>3 DEF Fresh
  <2>4. CASE st # "Work" /\ to = st
    <3>1. PICK j \in DOMAIN q : j < i /\ q[j] = "STARTED" /\ st = "Enter"
      BY <2>1, <2>4 DEF Live
    <3>2. j # 1
      BY <1>1, <1>6, <2>4, <3>1
    <3>3. j - 1 \in DOMAIN r /\ r[j - 1] = "STARTED" /\ j - 1 < i - 1 /\ i # 1
      BY <1>1, <3>1, <3>2
    <3>4. Live(r, to, i - 1)
      BY <2>4, <3>1, <3>3 DEF Live
    <3> QED BY <2>2, <3>3, <3>4 DEF Fresh
  <2> QED BY <2>3, <2>4
<1> QED BY <1>3, <1>4, <1>5, <1>6, Zenon DEF r, FreshLoses

\* Nothing is fresh before the mode works, nor when it is left.
LEMMA NotFresh ==
  ASSUME NEW q, NEW st
  PROVE  /\ st \notin {"Enter", "Work"} => \A m : ~Fresh(q, st, m) /\ FreshOnce(q, st, m)
         /\ ~In(q, "STARTED") /\ st = "Enter" => \A m : ~Fresh(q, st, m) /\ FreshOnce(q, st, m)
BY DEF Fresh, FreshOnce, Live, In

LEMMA NotFreshYet ==
  ASSUME NEW T, NEW q \in Seq(T), ~In(q, "STARTED"), NEW m, m # "STARTED"
  PROVE  LET r == Append(q, "STARTED") IN ~Fresh(r, "Enter", m) /\ FreshOnce(r, "Enter", m)
<1> DEFINE r == Append(q, "STARTED")
<1>1. /\ Len(q) \in Nat /\ DOMAIN q = 1 .. Len(q) /\ DOMAIN r = 1 .. Len(q) + 1
      /\ r[Len(q) + 1] = "STARTED" /\ \A i \in DOMAIN q : r[i] = q[i]
  OBVIOUS
<1> HIDE DEF r
<1>2. \A i \in DOMAIN r : r[i] = m => i \in DOMAIN q
  BY <1>1
<1>3. \A i \in DOMAIN q : ~Live(r, "Enter", i)
  BY <1>1 DEF Live, In
<1>4. ~Fresh(r, "Enter", m) /\ FreshOnce(r, "Enter", m)
  BY <1>2, <1>3 DEF Fresh, FreshOnce
<1> QED BY <1>4 DEF r

-----------------------------------------------------------------------------
(* Records. *)

LEMMA RemindFields ==
  ASSUME NEW r \in RemindStates
  PROVE  /\ r.st \in RemindSts /\ r.at \in RemindAts /\ r.req \in BOOLEAN
         /\ r.blk \in 0 .. 1 /\ r.isBlock \in BOOLEAN
BY Zenon DEF RemindStates

LEMMA RemindSt ==
  ASSUME NEW r \in RemindStates, NEW x \in RemindSts
  PROVE  LET s == [r EXCEPT !.st = x]
         IN  s \in RemindStates /\ s.st = x /\ s.at = r.at /\ s.blk = r.blk
BY Zenon DEF RemindStates

LEMMA RemindAt ==
  ASSUME NEW r \in RemindStates, NEW x \in RemindAts
  PROVE  LET s == [r EXCEPT !.at = x]
         IN  s \in RemindStates /\ s.st = r.st /\ s.at = x /\ s.blk = r.blk
BY Zenon DEF RemindStates

LEMMA RemindReq ==
  ASSUME NEW r \in RemindStates, NEW x \in BOOLEAN
  PROVE  LET s == [r EXCEPT !.req = x]
         IN  s \in RemindStates /\ s.st = r.st /\ s.at = r.at /\ s.blk = r.blk
BY Zenon DEF RemindStates

LEMMA RemindBlk ==
  ASSUME NEW r \in RemindStates, NEW x \in 0 .. 1
  PROVE  LET s == [r EXCEPT !.blk = x]
         IN  s \in RemindStates /\ s.st = r.st /\ s.at = r.at /\ s.blk = x
BY Zenon DEF RemindStates

LEMMA RemindStAt ==
  ASSUME NEW r \in RemindStates, NEW x \in RemindSts, NEW y \in RemindAts
  PROVE  LET s == [r EXCEPT !.st = x, !.at = y]
         IN  s \in RemindStates /\ s.st = x /\ s.at = y /\ s.blk = r.blk
BY Zenon DEF RemindStates

LEMMA RemindStIsBlock ==
  ASSUME NEW r \in RemindStates, NEW x \in RemindSts, NEW y \in BOOLEAN
  PROVE  LET s == [r EXCEPT !.st = x, !.isBlock = y]
         IN  s \in RemindStates /\ s.st = x /\ s.at = r.at /\ s.blk = r.blk
BY Zenon DEF RemindStates

LEMMA RemindBlkIsBlock ==
  ASSUME NEW r \in RemindStates, NEW x \in 0 .. 1, NEW y \in BOOLEAN
  PROVE  LET s == [r EXCEPT !.blk = x, !.isBlock = y]
         IN  s \in RemindStates /\ s.st = r.st /\ s.at = r.at /\ s.blk = x
BY Zenon DEF RemindStates

LEMMA RemindBlkReqIsBlock ==
  ASSUME NEW r \in RemindStates, NEW x \in 0 .. 1, NEW y \in BOOLEAN, NEW z \in BOOLEAN
  PROVE  LET s == [r EXCEPT !.blk = x, !.req = y, !.isBlock = z]
         IN  s \in RemindStates /\ s.st = r.st /\ s.at = r.at /\ s.blk = x
BY Zenon DEF RemindStates

LEMMA AppFields ==
  ASSUME NEW a \in AppStates
  PROVE  /\ a.kind \in ModeKinds /\ a.st \in AppSts /\ a.sbc \in BOOLEAN /\ a.muted \in BOOLEAN
         /\ a.wait \in BOOLEAN /\ a.player \in PlayerSts /\ a.sync \in Syncs
BY Zenon DEF AppStates

LEMMA AppSt ==
  ASSUME NEW a \in AppStates, NEW x \in AppSts
  PROVE  LET s == [a EXCEPT !.st = x]
         IN  s \in AppStates /\ s.kind = a.kind /\ s.st = x /\ s.wait = a.wait
BY Zenon DEF AppStates

LEMMA AppSbc ==
  ASSUME NEW a \in AppStates, NEW x \in BOOLEAN
  PROVE  LET s == [a EXCEPT !.sbc = x]
         IN  s \in AppStates /\ s.kind = a.kind /\ s.st = a.st /\ s.wait = a.wait
BY Zenon DEF AppStates

LEMMA AppMuted ==
  ASSUME NEW a \in AppStates, NEW x \in BOOLEAN
  PROVE  LET s == [a EXCEPT !.muted = x]
         IN  s \in AppStates /\ s.kind = a.kind /\ s.st = a.st /\ s.wait = a.wait
BY Zenon DEF AppStates

LEMMA AppPlayer ==
  ASSUME NEW a \in AppStates, NEW x \in PlayerSts
  PROVE  LET s == [a EXCEPT !.player = x]
         IN  s \in AppStates /\ s.kind = a.kind /\ s.st = a.st /\ s.wait = a.wait
BY Zenon DEF AppStates

LEMMA AppSync ==
  ASSUME NEW a \in AppStates, NEW x \in Syncs
  PROVE  LET s == [a EXCEPT !.sync = x]
         IN  s \in AppStates /\ s.kind = a.kind /\ s.st = a.st /\ s.wait = a.wait
BY Zenon DEF AppStates

LEMMA AppStMuted ==
  ASSUME NEW a \in AppStates, NEW x \in AppSts, NEW y \in BOOLEAN
  PROVE  LET s == [a EXCEPT !.st = x, !.muted = y]
         IN  s \in AppStates /\ s.kind = a.kind /\ s.st = x /\ s.wait = a.wait
BY Zenon DEF AppStates

LEMMA AppSbcMuted ==
  ASSUME NEW a \in AppStates, NEW x \in BOOLEAN, NEW y \in BOOLEAN
  PROVE  LET s == [a EXCEPT !.sbc = x, !.muted = y]
         IN  s \in AppStates /\ s.kind = a.kind /\ s.st = a.st /\ s.wait = a.wait
BY Zenon DEF AppStates

LEMMA AppSyncPlayer ==
  ASSUME NEW a \in AppStates, NEW x \in Syncs, NEW y \in PlayerSts
  PROVE  LET s == [a EXCEPT !.sync = x, !.player = y]
         IN  s \in AppStates /\ s.kind = a.kind /\ s.st = a.st /\ s.wait = a.wait
BY Zenon DEF AppStates

LEMMA AppSyncMuted ==
  ASSUME NEW a \in AppStates, NEW x \in Syncs, NEW y \in BOOLEAN
  PROVE  LET s == [a EXCEPT !.sync = x, !.muted = y]
         IN  s \in AppStates /\ s.kind = a.kind /\ s.st = a.st /\ s.wait = a.wait
BY Zenon DEF AppStates

LEMMA AppSyncMutedPlayer ==
  ASSUME NEW a \in AppStates, NEW x \in Syncs, NEW y \in BOOLEAN, NEW z \in PlayerSts
  PROVE  LET s == [a EXCEPT !.sync = x, !.muted = y, !.player = z]
         IN  s \in AppStates /\ s.kind = a.kind /\ s.st = a.st /\ s.wait = a.wait
BY Zenon DEF AppStates

LEMMA DecoderChanges ==
  \A d \in DecoderStates, x \in DecoderSts :
     LET e == [d EXCEPT !.st = x] IN e \in DecoderStates /\ e.st = x /\ e.by = d.by
BY Zenon DEF DecoderStates

LEMMA DecoderFields ==
  /\ \A d \in DecoderStates : d.st \in DecoderSts /\ d.by \in Streams
  /\ \A x \in DecoderSts, y \in Streams :
       LET d == [st |-> x, by |-> y] IN d \in DecoderStates /\ d.st = x /\ d.by = y
BY DEF DecoderStates

-----------------------------------------------------------------------------
(* What a step takes from its queue, and what the decoder is told. *)

LEMMA ServedIs ==
  ASSUME Types, NEW m, Serves(m)
  PROVE  /\ remQ' \in Seq(RemindMsgs) /\ Loses(remQ, remQ', m)
         /\ decQ = <<>> /\ remind.at = "recv"
BY Taken DEF Types, Serves, Preempted

LEMMA DueIs ==
  ASSUME Types, NEW m, Due(m)
  PROVE  /\ Tail(appQ) \in Seq(AppMsgs) /\ Loses(appQ, Tail(appQ), m)
         /\ decQ = <<>> /\ app.st \notin {"none", "Starting"}
BY Taken DEF Types, Due, Preempted

LEMMA DecodedIs ==
  ASSUME Types, Follow(decQ), NEW m, decQ # <<>>, Head(decQ) = m, decQ' = Tail(decQ)
  PROVE  /\ decQ' \in Seq(DecoderMsgs) /\ Follow(decQ') /\ Loses(decQ, decQ', m)
         /\ Call = m /\ Call' \in {"none", "STOP", "PAUSE"}
BY Taken DEF Types, Call

LEMMA MainTakesIs ==
  ASSUME Types, NEW m, MainTakes(m), NEW to, to = MState \/ (m = "STARTED" /\ MState = "Enter" /\ to = "Work")
  PROVE  /\ mainQ' \in Seq(MainMsgs) /\ Loses(mainQ, mainQ', m)
         /\ FreshLoses(mainQ, mainQ', MState, to, m)
<1>1. mainQ \in Seq(MainMsgs) /\ mainQ # <<>> /\ Head(mainQ) = m /\ mainQ' = Tail(mainQ)
  BY DEF Types, MainTakes
<1> QED BY <1>1, Taken, FreshTaken

LEMMA MainSent ==
  ASSUME Types, NEW m \in MainMsgs, mainQ' = Append(mainQ, m)
  PROVE  /\ mainQ' \in Seq(MainMsgs) /\ Gains(mainQ, mainQ', m)
         /\ FreshGains(mainQ, mainQ', MState, m)
<1>1. mainQ \in Seq(MainMsgs)
  BY DEF Types
<1> QED BY <1>1, Appended, FreshAppended

LEMMA RemindSent ==
  ASSUME Types, NEW m \in RemindMsgs
  PROVE  Append(remQ, m) \in Seq(RemindMsgs) /\ Gains(remQ, Append(remQ, m), m)
BY Appended DEF Types

LEMMA AppSent ==
  ASSUME Types, NEW m \in AppMsgs
  PROVE  Append(appQ, m) \in Seq(AppMsgs) /\ Gains(appQ, Append(appQ, m), m)
BY Appended DEF Types

\* A decoder at rest that is told something, if it exists.
LEMMA ToldIs ==
  ASSUME decQ = <<>>, NEW m \in DecoderMsgs
  PROVE  LET r == Told(decQ, m)
         IN  /\ r \in Seq(DecoderMsgs) /\ Follow(r)
             /\ \A x : In(r, x) <=> x = m /\ decoder.st # "Absent"
             /\ decoder.st = "Absent" => r = <<>>
             /\ decoder.st # "Absent" => r # <<>> /\ Head(r) = m
<1>1. CASE decoder.st = "Absent"
  BY <1>1, EmptyQueue DEF Told
<1>2. CASE decoder.st # "Absent"
  BY <1>2 DEF Told, Follow, In
<1> QED BY <1>1, <1>2

\* What the mode and the main task are told of the steps of the others, where nothing
\* of that is about the hand-over.
LEMMA SwitchOff == Lent <=> Lends \/ Switch
BY DEF Lent, Lends, Switch

LEMMA Picked ==
  ASSUME remind \in RemindStates, NEW pick \in Picks
  PROVE  /\ pick.found \in BOOLEAN /\ pick.svc \in RemindStates
         /\ pick.svc.st = remind.st /\ pick.svc.at = remind.at
         /\ pick.svc.blk <= remind.blk
<1> DEFINE Left == IF Missing THEN 0 .. remind.blk - 1 ELSE {remind.blk - 1} \cap Nat
<1>1. \/ \E n \in Left : pick = [found |-> TRUE, svc |-> [remind EXCEPT !.blk = n, !.isBlock = TRUE]]
      \/ pick = [found |-> TRUE, svc |-> [remind EXCEPT !.blk = 0, !.req = FALSE, !.isBlock = FALSE]]
      \/ pick = [found |-> FALSE, svc |-> [remind EXCEPT !.blk = 0]]
  BY DEF Picks
<1>2. remind.blk \in 0 .. 1
  BY RemindFields
<1>3. \A n \in Left : n \in 0 .. 1 /\ n <= remind.blk
  BY <1>2
<1>4. 0 \in 0 .. 1 /\ 0 <= remind.blk
  BY <1>2
<1> HIDE DEF Left
<1>6. ASSUME NEW n \in Left, pick = [found |-> TRUE, svc |-> [remind EXCEPT !.blk = n, !.isBlock = TRUE]]
      PROVE  /\ pick.found \in BOOLEAN /\ pick.svc \in RemindStates /\ pick.svc.st = remind.st
             /\ pick.svc.at = remind.at /\ pick.svc.blk = n
  BY <1>6, <1>3, RemindBlkIsBlock
<1>7. CASE pick = [found |-> TRUE, svc |-> [remind EXCEPT !.blk = 0, !.req = FALSE, !.isBlock = FALSE]]
  BY <1>7, <1>4, RemindBlkReqIsBlock
<1>8. CASE pick = [found |-> FALSE, svc |-> [remind EXCEPT !.blk = 0]]
  BY <1>8, <1>4, RemindBlk
<1> QED BY <1>1, <1>3, <1>6, <1>7, <1>8

LEMMA PlayItemIs ==
  ASSUME NEW pick, pick.svc \in RemindStates, PlayItem(pick)
  PROVE  /\ remind' \in RemindStates /\ remind'.st = "PLAY" /\ remind'.at = "play"
         /\ remind'.blk = pick.svc.blk
<1>1. PICK r \in RemindStates : r = pick.svc
  OBVIOUS
<1>2. remind' = [r EXCEPT !.st = "PLAY", !.at = "play"]
  BY <1>1, Zenon DEF PlayItem
<1>3. "PLAY" \in RemindSts /\ "play" \in RemindAts
  BY DEF RemindSts, RemindAts
<1>4. remind' \in RemindStates /\ remind'.st = "PLAY" /\ remind'.at = "play" /\ remind'.blk = r.blk
  BY <1>2, <1>3, Zenon DEF RemindStates
<1> QED BY <1>1, <1>4

\* What RemindSoundServicePlayItem leaves: a prompt on the decoder, or the decoder on its
\* way back.
LEMMA PlayedOrEnded ==
  ASSUME remind \in RemindStates, PlayOrEnd
  PROVE  /\ remind' \in RemindStates /\ remind'.blk <= remind.blk
         /\ \/ /\ DecoderRuns /\ remind'.st = "PLAY" /\ remind'.at = "play"
               /\ decoder' = [st |-> "Initialized", by |-> "remind"]
               /\ UNCHANGED <<flags, mainQ, decQ>>
            \/ /\ remind'.st = "STANDBY" /\ remind'.at = remind.at
               /\ flags' = PlayEndFlags /\ mainQ' = Append(mainQ, "DONE")
               /\ decQ' = Told(decQ, "RESET") /\ UNCHANGED decoder
<1>2. PICK pick \in Picks :
        \/ Plays(pick) /\ PlayItem(pick) /\ UNCHANGED <<flags, mainQ, decQ>>
        \/ PlayFails(pick)
  BY DEF PlayOrEnd
<1>3. /\ pick.svc \in RemindStates /\ pick.svc.blk <= remind.blk
      /\ pick.svc.st = remind.st /\ pick.svc.at = remind.at
  BY Picked
<1>4. CASE Plays(pick) /\ PlayItem(pick) /\ UNCHANGED <<flags, mainQ, decQ>>
  <2>1. /\ remind' = [pick.svc EXCEPT !.st = "PLAY", !.at = "play"] /\ DecoderRuns
        /\ decoder' = [st |-> "Initialized", by |-> "remind"] /\ UNCHANGED <<flags, mainQ, decQ>>
    BY <1>4, Zenon DEF Plays, PlayItem
  <2>2. /\ remind' \in RemindStates /\ remind'.st = "PLAY" /\ remind'.at = "play"
        /\ remind'.blk = pick.svc.blk
    BY <1>3, <1>4, PlayItemIs
  <2> QED BY <1>3, <2>1, <2>2
<1>5. CASE PlayFails(pick)
  <2>1. /\ remind' = [pick.svc EXCEPT !.st = "STANDBY", !.isBlock = FALSE]
        /\ flags' = PlayEndFlags /\ mainQ' = Append(mainQ, "DONE")
        /\ decQ' = Told(decQ, "RESET") /\ UNCHANGED decoder
    BY <1>5, Zenon DEF PlayFails
  <2>2. "STANDBY" \in RemindSts /\ FALSE \in BOOLEAN
    BY DEF RemindSts
  <2>3. /\ remind' \in RemindStates /\ remind'.st = "STANDBY" /\ remind'.at = pick.svc.at
        /\ remind'.blk = pick.svc.blk
    BY <2>1, <2>2, <1>3, RemindStIsBlock, Zenon
  <2> QED BY <1>3, <2>1, <2>3
<1> QED BY <1>2, <1>4, <1>5

-----------------------------------------------------------------------------
(* The hand-over while no end of the mode is under way. *)

LEMMA AtWorkIs ==
  ASSUME IInv, AtWork
  PROVE  /\ MState \in {"Enter", "Work"} /\ ~Ending /\ decoder.st # "Absent"
         /\ Own => Cycle
         /\ app.st \in {"Starting", "Paused", "Running"} /\ (app.st = "Paused" => app.wait)
<1>1. Types /\ Lives /\ Shares /\ DecoderRuns /\ ~In(remQ, "RESET") /\ ~In(appQ, "TASK_STOP")
  BY DEF IInv, Hands, AtWork, WillReset
<1>2. MState # "None"
  BY <1>1 DEF Lives, Modes, DecoderRuns
<1>3. ~Ending
  BY <1>1 DEF Lives, Ends
<1>4. MState \in {"Enter", "Work"}
  BY <1>1, <1>2, <1>3 DEF Types, Lives, Ends
<1>5. app.st \in {"Starting", "Paused", "Running"} /\ (app.st = "Paused" => app.wait)
  BY <1>1, <1>2, <1>3, AppFields DEF Types, AppSts, Lives, Modes, Ends
<1> QED BY <1>1, <1>2, <1>3, <1>4, <1>5 DEF Shares, Lives, Modes

LEMMA LoansFollow ==
  ASSUME Begins => Begins', AtWork' => AtWork,
         AtWork /\ AtWork' => (Sound => Sound') /\ (Lost => Lost')
  PROVE  LoansKept
BY DEF Loans, Keeps, LoansKept, Lost

\* The service stays in its wait, and what ends the wait stays under way.
LEMMA LoansStay ==
  ASSUME remind'.st = remind.st, flags' = flags,
         remind'.at = remind.at \/ (remind'.at = "cut" /\ remind.st = "PLAY"),
         decoder' = decoder \/ (decoder.by # "remind" /\ decoder'.by # "remind"),
         Begins => Begins', AtWork' => AtWork, AtWork /\ Wanted' => Wanted,
         AtWork /\ Sound =>
           /\ Own /\ Wanted => Wanted'
           /\ Own /\ In(appQ, "DECODER_RESET") => In(appQ', "DECODER_RESET")
           /\ Lends /\ WillStop => WillStop'
           /\ Own /\ In(remQ, "PLAY") => In(remQ', "PLAY")
           /\ Asked' <=> Asked
           /\ Call = "PLAY" => Call' = "PLAY"
  PROVE  LoansKept
<1>1. ASSUME AtWork, Sound PROVE OnWait' /\ OnLoan'
  BY <1>1 DEF Sound, OnWait, OnLoan, Own, Lends, Switch
<1>2. ASSUME AtWork, Sound PROVE OnPlay'
  BY <1>2 DEF Sound, OnPlay, SetUp, AtPlay, Lends
<1>3. ASSUME AtWork, Sound PROVE OnRest'
  BY <1>3 DEF Sound, OnRest, Own, Active
<1>4. AtWork /\ Lost => Lost'
  BY DEF Lost, Lends, Switch
<1> QED BY <1>1, <1>2, <1>3, <1>4, LoansFollow DEF Sound

-----------------------------------------------------------------------------
(* The steps of the service. *)

LEMMA RequestIgnoredKeeps == ASSUME IInv, RequestIgnored PROVE IInv' /\ LoansKept
<1>0. Types
  BY DEF IInv
<1>1. Serves("REQUEST") /\ UNCHANGED <<remind, decoding, flags, mode, main, rest>>
  BY DEF RequestIgnored
<1>2. remQ' \in Seq(RemindMsgs) /\ Loses(remQ, remQ', "REQUEST")
  BY <1>0, <1>1, ServedIs
<1>3. Types'
  BY <1>0, <1>1, <1>2 DEF Types, decoding, mode, main, rest
<1>4. Lives'
  BY <1>1, <1>2 DEF Loses, decoding, mode, main, IInv, Lives, Modes, Ends, Resets, Calls,
     Mains, Ending, Call, Own, Lends, Switch, Lent, DecoderRuns
<1>5. Hands'
  BY <1>1, <1>2 DEF Loses, decoding, mode, main, IInv, Hands, Shares, Cycle, Wanted, Owners,
     Asked, Ending, Call, Own, Lends, Switch, DecoderRuns, Active
<1>6. LoansKept
  BY <1>1, <1>2, LoansStay DEF Loses, decoding, mode, main, IInv, Begins, AtWork, WillReset,
     WillStop, Wanted, Asked, Call, Lends, Switch, DecoderRuns
<1> QED BY <1>3, <1>4, <1>5, <1>6 DEF IInv

\* It is refused where no decoder runs: no mode is there to hear of that.
LEMMA RequestRejectedKeeps == ASSUME IInv, RequestRejected PROVE IInv' /\ LoansKept
<1>0. Types /\ Serves("REQUEST") /\ ~DecoderRuns
  BY DEF IInv, RequestRejected
<1>1. /\ remind' = Idle /\ mainQ' = Append(mainQ, "FAIL")
      /\ UNCHANGED <<decoding, flags, mode, MState, rest>>
  BY DEF RequestRejected
<1>2. remQ' \in Seq(RemindMsgs) /\ Loses(remQ, remQ', "REQUEST")
  BY <1>0, ServedIs
<1>3. /\ mainQ' \in Seq(MainMsgs) /\ Gains(mainQ, mainQ', "FAIL")
      /\ FreshGains(mainQ, mainQ', MState, "FAIL")
  BY <1>0, <1>1, MainSent DEF MainMsgs
<1>4. /\ remind' \in RemindStates /\ remind'.st = "STANDBY" /\ remind'.at = "recv"
      /\ remind'.blk = 0
  BY <1>1 DEF Idle, RemindStates, RemindSts, RemindAts
<1>5. Types'
  BY <1>0, <1>1, <1>2, <1>3, <1>4 DEF Types, decoding, mode, rest
<1>6. MState \notin {"Enter", "Work"}
  BY <1>0 DEF IInv, Lives, Ends
<1>7. Mains'
  BY <1>1, <1>3, <1>6, NotFresh DEF Gains, mode, IInv, Lives, Mains
<1>8. Lives'
  BY <1>0, <1>1, <1>2, <1>3, <1>4, <1>7 DEF Loses, Gains, decoding, mode, IInv, Lives,
     Modes, Ends, Resets, Calls, Ending, Call, Own, Lends, Switch, Lent, DecoderRuns
<1>9. Hands'
  BY <1>0, <1>1 DEF decoding, mode, IInv, Hands, Shares, Owners, Asked, Call, Own, Lends,
     Switch, DecoderRuns, Active
<1>10. LoansKept
  BY <1>0, <1>1, LoansFollow DEF decoding, mode, Begins, AtWork, DecoderRuns
<1> QED BY <1>5, <1>8, <1>9, <1>10 DEF IInv

LEMMA RequestPlaysKeeps == ASSUME IInv, RequestPlays PROVE IInv' /\ LoansKept
<1>0. Types /\ Serves("REQUEST") /\ DecoderRuns /\ ~Own /\ remind.st = "STANDBY"
  BY DEF IInv, RequestPlays, Own
<1>1. flags' = flags \cup {"DecoderRemind"} /\ UNCHANGED <<decQ, pcm, mode, main, rest>>
  BY DEF RequestPlays
<1>2. /\ remQ' \in Seq(RemindMsgs) /\ Loses(remQ, remQ', "REQUEST")
      /\ decQ = <<>> /\ remind.at = "recv" /\ remind \in RemindStates
  BY <1>0, ServedIs DEF Types
<1>3. PICK pick \in Picks :
        \/ Plays(pick) /\ PlayItem(pick)
        \/ remind' = pick.svc /\ UNCHANGED decoder
  BY DEF RequestPlays
<1>4. /\ pick.svc \in RemindStates /\ pick.svc.blk <= remind.blk
      /\ pick.svc.st = "STANDBY" /\ pick.svc.at = "recv"
  BY <1>0, <1>2, Picked
<1>5. /\ remind' \in RemindStates /\ remind'.blk <= remind.blk
      /\ \/ remind'.st = "STANDBY" /\ remind'.at = "recv" /\ UNCHANGED decoder
         \/ /\ remind'.st = "PLAY" /\ remind'.at = "play"
            /\ decoder' = [st |-> "Initialized", by |-> "remind"] /\ Free
  <2>1. CASE Plays(pick) /\ PlayItem(pick)
    <3>1. /\ remind' = [pick.svc EXCEPT !.st = "PLAY", !.at = "play"] /\ Free
          /\ decoder' = [st |-> "Initialized", by |-> "remind"]
      BY <2>1, Zenon DEF Plays, PlayItem
    <3>2. /\ remind' \in RemindStates /\ remind'.st = "PLAY" /\ remind'.at = "play"
          /\ remind'.blk = pick.svc.blk
      BY <1>4, <2>1, PlayItemIs
    <3> QED BY <3>1, <3>2, <1>4
  <2>2. CASE remind' = pick.svc /\ UNCHANGED decoder
    BY <1>4, <2>2
  <2> QED BY <1>3, <2>1, <2>2
<1>6. decoder' \in DecoderStates /\ decoder'.st \in DecoderSts /\ remind.blk \in 0 .. 1 /\ remind'.blk \in 0 .. 1
  BY <1>0, <1>2, <1>5, RemindFields, DecoderFields DEF Types, DecoderSts, Streams
<1>7. flags' \subseteq SoftFlags
  BY <1>0, <1>1 DEF Types, SoftFlags
<1>8. Types'
  BY <1>0, <1>1, <1>2, <1>5, <1>6, <1>7 DEF Types, mode, main, rest
<1>9. Lives'
  BY <1>0, <1>1, <1>2, <1>5, <1>6, EmptyQueue DEF Loses, Free, mode, main, IInv, Lives,
     Modes, Ends, Resets, Calls, Mains, Ending, Call, Own, DecoderRuns
<1>10. Hands'
  BY <1>0, <1>1, <1>2, <1>5 DEF mode, main, IInv, Hands, Shares, Owners, Asked, Call, Own,
     Switch, DecoderRuns, Active
<1>11. Begins => Begins'
  BY <1>0, <1>1 DEF mode, IInv, Lives, Modes, Begins, Own
<1>12. AtWork' => AtWork
  BY <1>0, <1>1, <1>2 DEF Loses, mode, AtWork, WillReset
<1>13. Sound => Sound'
  BY <1>0, <1>1, <1>2, <1>5 DEF Sound, OnWait, OnLoan, OnPlay, SetUp, OnRest, Asked, Call, Own,
     Lends, Active
<1>14. ~Lost
  BY <1>0 DEF Lost
<1>15. LoansKept
  BY <1>11, <1>12, <1>13, <1>14, LoansFollow
<1> QED BY <1>8, <1>9, <1>10, <1>15 DEF IInv

\* The one way to ask for the decoder: from rest, so that nothing of an earlier request
\* is under way.
LEMMA RequestWaitsKeeps == ASSUME IInv, RequestWaits PROVE IInv' /\ LoansKept
<1>0. Types /\ Serves("REQUEST") /\ DecoderRuns /\ Own /\ remind.st = "STANDBY"
  BY DEF IInv, RequestWaits, Own
<1>1. /\ remind' = [remind EXCEPT !.st = "WAIT_DECODER"] /\ mainQ' = Append(mainQ, "NEED")
      /\ UNCHANGED <<decoding, flags, mode, MState, rest>>
  BY DEF RequestWaits
<1>2. /\ remQ' \in Seq(RemindMsgs) /\ Loses(remQ, remQ', "REQUEST")
      /\ decQ = <<>> /\ remind.at = "recv" /\ remind \in RemindStates
  BY <1>0, ServedIs DEF Types
<1>3. /\ mainQ' \in Seq(MainMsgs) /\ Gains(mainQ, mainQ', "NEED")
      /\ FreshGains(mainQ, mainQ', MState, "NEED")
  BY <1>0, <1>1, MainSent DEF MainMsgs
<1>4. /\ remind' \in RemindStates /\ remind'.st = "WAIT_DECODER" /\ remind'.at = remind.at
      /\ remind'.blk = remind.blk
  BY <1>1, <1>2, RemindSt DEF RemindSts
<1>5. Types'
  BY <1>0, <1>1, <1>2, <1>3, <1>4 DEF Types, decoding, mode, rest
<1>6. Lives'
  BY <1>0, <1>1, <1>2, <1>3, <1>4 DEF Loses, Gains, FreshGains, decoding, mode, IInv, Lives,
     Modes, Ends, Resets, Calls, Mains, Ending, Call, Own, Lends, Switch, Lent, DecoderRuns
<1>7. Hands'
  BY <1>0, <1>1, <1>2, <1>3, <1>4 DEF Loses, Gains, FreshGains, decoding, mode, IInv, Hands,
     Shares, Cycle, Wanted, Owners, Asked, Ending, Call, Own, Lends, Switch, DecoderRuns,
     Active
<1>8. AtWork' => AtWork
  BY <1>1, <1>2 DEF Loses, decoding, mode, AtWork, WillReset, DecoderRuns
<1>9. AtWork /\ Sound => Sound'
  <2> SUFFICES ASSUME AtWork, Sound PROVE Sound'
    OBVIOUS
  <2>1. MState \in {"Enter", "Work"} /\ ~In(remQ, "PLAY")
    BY <1>0, AtWorkIs DEF Cycle
  <2>2. Fresh(mainQ', MState', "NEED")
    BY <1>1, <1>3, <2>1 DEF FreshGains, IInv, Lives, Mains
  <2> QED BY <1>0, <1>1, <1>2, <1>4, <2>1, <2>2 DEF Loses, decoding, mode, Sound, OnWait, OnLoan,
       OnPlay, OnRest, Wanted, Asked, Call, Own, Lends
<1>10. LoansKept
  BY <1>0, <1>1, <1>8, <1>9, LoansFollow DEF decoding, mode, Begins, Lost
<1> QED BY <1>5, <1>6, <1>7, <1>10 DEF IInv

LEMMA RequestCutsKeeps == ASSUME IInv, RequestCuts PROVE IInv' /\ LoansKept
<1>0. Types /\ Serves("REQUEST") /\ DecoderRuns /\ remind.st = "PLAY"
  BY DEF IInv, RequestCuts
<1>1. /\ remind' = [remind EXCEPT !.at = "cut"]
      /\ UNCHANGED <<decoding, flags, mode, main, rest>>
  BY DEF RequestCuts
<1>2. remQ' \in Seq(RemindMsgs) /\ Loses(remQ, remQ', "REQUEST") /\ remind \in RemindStates
  BY <1>0, ServedIs DEF Types
<1>3. /\ remind' \in RemindStates /\ remind'.st = remind.st /\ remind'.at = "cut"
      /\ remind'.blk = remind.blk
  BY <1>1, <1>2, RemindAt DEF RemindAts
<1>4. Types'
  BY <1>0, <1>1, <1>2, <1>3 DEF Types, decoding, mode, main, rest
<1>5. Lives'
  BY <1>0, <1>1, <1>2, <1>3 DEF Loses, decoding, mode, main, IInv, Lives, Modes, Ends,
     Resets, Calls, Mains, Ending, Call, Own, Lends, Switch, Lent, DecoderRuns
<1>6. Hands'
  BY <1>0, <1>1, <1>2, <1>3 DEF Loses, decoding, mode, main, IInv, Hands, Shares, Cycle,
     Wanted, Owners, Asked, Ending, Call, Own, Lends, Switch, DecoderRuns, Active
<1>7. LoansKept
  BY <1>0, <1>1, <1>2, <1>3, LoansStay DEF Loses, decoding, mode, main, IInv, Begins, AtWork,
     WillReset, WillStop, Wanted, Asked, Call, Lends, Switch, DecoderRuns
<1> QED BY <1>4, <1>5, <1>6, <1>7 DEF IInv

LEMMA CutsKeeps == ASSUME IInv, Cuts PROVE IInv' /\ LoansKept
<1>0. Types /\ remind.at = "cut" /\ remind.st \in {"PLAY", "STOPPING"}
  BY DEF IInv, Cuts, Lives, Resets
<1>1. /\ remind' = [remind EXCEPT !.st = "STOPPING", !.at = "stop"]
      /\ UNCHANGED <<remQ, decoding, flags, mode, main, rest>>
  BY DEF Cuts
<1>2. /\ remind' \in RemindStates /\ remind'.st = "STOPPING" /\ remind'.at = "stop"
      /\ remind'.blk = remind.blk
  BY <1>0, <1>1, RemindStAt DEF Types, RemindSts, RemindAts
<1>3. Types'
  BY <1>0, <1>1, <1>2 DEF Types, decoding, mode, main, rest
<1>4. Lives'
  BY <1>0, <1>1, <1>2 DEF decoding, mode, main, IInv, Lives, Modes, Ends, Resets, Calls,
     Mains, Ending, Call, Own, Lends, Switch, Lent, DecoderRuns
<1>5. Hands'
  BY <1>0, <1>1, <1>2 DEF decoding, mode, main, IInv, Hands, Shares, Cycle, Wanted, Owners,
     Asked, Ending, Call, Own, Lends, Switch, DecoderRuns, Active
<1>6. Sound => Sound'
  BY <1>0, <1>1, <1>2 DEF decoding, mode, Cuts, Preempted, Sound, OnWait, OnLoan, OnPlay, OnRest,
     Asked, Call, Own, Lends
<1>7. LoansKept
  BY <1>1, <1>2, <1>6, LoansFollow DEF decoding, mode, main, Begins, AtWork, WillReset, Lost,
     Wanted, Lends, Switch, DecoderRuns
<1> QED BY <1>3, <1>4, <1>5, <1>7 DEF IInv

\* The service tells the decoder to stop or to play: the decoder has nothing else to do.
LEMMA TellsKeeps ==
  ASSUME IInv, Stops \/ Starts PROVE IInv' /\ LoansKept
<1>0. Types /\ remind.at # "recv" /\ decQ = <<>> /\ decQ \in Seq(DecoderMsgs)
  BY DEF IInv, Stops, Starts, Preempted, Types
<1>1. PICK m \in {"STOP", "PLAY"} : decQ' = Told(decQ, m)
  BY DEF Stops, Starts
<1>2. /\ remind' = [remind EXCEPT !.at = "recv"]
      /\ UNCHANGED <<remQ, decoder, pcm, flags, mode, main, rest>>
  BY DEF Stops, Starts
<1>3. /\ decQ' \in Seq(DecoderMsgs) /\ Follow(decQ') /\ ~In(decQ', "PAUSE")
      /\ decoder.st = "Absent" => decQ' = <<>>
      /\ decoder.st # "Absent" => decQ' # <<>> /\ Head(decQ') = m /\ In(decQ', m)
  BY <1>0, <1>1, ToldIs DEF DecoderMsgs
<1>4. /\ remind' \in RemindStates /\ remind'.st = remind.st /\ remind'.at = "recv"
      /\ remind'.blk = remind.blk
  BY <1>0, <1>2, RemindAt DEF Types, RemindAts
<1>5. Types'
  BY <1>0, <1>2, <1>3, <1>4 DEF Types, mode, main, rest
<1>6. Lives'
  BY <1>0, <1>2, <1>3, <1>4 DEF mode, main, IInv, Lives, Modes, Ends, Resets, Calls, Mains,
     Ending, Call, Own, Lends, Switch, DecoderRuns
<1>7. Hands'
  BY <1>0, <1>2, <1>3, <1>4 DEF mode, main, IInv, Hands, Shares, Cycle, Wanted, Owners,
     Asked, Ending, Call, Own, Lends, Switch, DecoderRuns, Active
<1>8. ASSUME AtWork, Sound PROVE Sound'
  <2>1. decoder.st # "Absent" /\ remind.st \in {"PLAY", "STOPPING"}
    BY <1>0, <1>8, AtWorkIs DEF IInv, Lives, Resets
  <2>2. Call' = m /\ ~Asked' /\ In(decQ', m)
    BY <1>3, <2>1 DEF Call, Asked
  <2>3. remind.at = IF m = "STOP" THEN "stop" ELSE "play"
    BY <1>0, <1>1, <2>1 DEF Stops, Starts, Told
  <2>4. Lends /\ (remind.st = "PLAY" => AtPlay \/ WillStop \/ SetUp)
        /\ (remind.st = "STOPPING" => m = "STOP" \/ WillStop)
    BY <1>8, <2>1, <2>3 DEF Sound, OnPlay
  <2>5. WillStop => WillStop'
    BY <1>0, <1>2, EmptyQueue DEF mode, WillStop
  <2>6. OnPlay'
    <3>1. m = "STOP" => WillStop'
      BY <2>2 DEF WillStop
    <3> QED BY <1>1, <1>2, <1>4, <2>1, <2>2, <2>4, <2>5, <3>1 DEF OnPlay, Lends, SetUp, AtPlay
  <2> QED BY <1>2, <1>4, <2>1, <2>2, <2>6 DEF mode, Sound, OnWait, OnLoan, OnRest, Lends, Own
<1>9. LoansKept
  BY <1>2, <1>4, <1>8, LoansFollow DEF mode, main, Begins, AtWork, WillReset, Lost, Wanted, Lends,
     Switch, DecoderRuns
<1> QED BY <1>5, <1>6, <1>7, <1>9 DEF IInv

\* A prompt begins, or the service gives the decoder back: neither while the mode could
\* take an earlier answer of the decoder for the one to this.
LEMMA PlayOrEndKeeps ==
  ASSUME IInv, PlayOrEnd, decQ = <<>>, remind.at = "recv", Lends,
         UNCHANGED <<pcm, mode, MState, rest>>,
         \/ remQ' = remQ /\ remind.st = "STOPPED"
         \/ Serves("PLAY") /\ remind.st = "WAIT_DECODER"
  PROVE  IInv' /\ LoansKept
<1>0. Types /\ remind \in RemindStates /\ remind.blk \in 0 .. 1 /\ decQ \in Seq(DecoderMsgs)
  BY RemindFields DEF IInv, Types
<1>1. /\ remQ' \in Seq(RemindMsgs)
      /\ \/ remQ' = remQ /\ remind.st = "STOPPED"
         \/ Loses(remQ, remQ', "PLAY") /\ remind.st = "WAIT_DECODER"
  BY <1>0, ServedIs DEF Types
<1>2. remind' \in RemindStates /\ remind'.blk <= remind.blk /\ remind'.blk \in 0 .. 1
  BY <1>0, PlayedOrEnded, RemindFields
<1>3. CASE /\ DecoderRuns /\ remind'.st = "PLAY" /\ remind'.at = "play"
           /\ decoder' = [st |-> "Initialized", by |-> "remind"]
           /\ UNCHANGED <<flags, mainQ, decQ>>
  <2>1. decoder' \in DecoderStates
    BY <1>3 DEF DecoderStates, DecoderSts, Streams
  <2>2. Types'
    BY <1>0, <1>1, <1>2, <1>3, <2>1 DEF Types, mode, rest
  <2>3. Lives'
    BY <1>0, <1>1, <1>2, <1>3, EmptyQueue DEF Loses, mode, IInv, Lives, Modes, Ends, Resets,
       Calls, Mains, Ending, Call, Own, Switch, DecoderRuns
  <2>4. decoder'.by = "remind" /\ decoder'.st = "Initialized"
    BY <1>3
  <2>5. Owners'
    BY <1>3, <2>4 DEF mode, Owners, Lends, DecoderRuns, Active
  <2>6. Own /\ DecoderRuns /\ ~Ending /\ Cycle => Cycle'
    <3>1. Cycle => ~Wanted /\ ~Switch /\ ~In(appQ, "DECODER_RESET")
      BY <1>1 DEF Cycle, Loses
    <3>2. Cycle => ~In(remQ', "PLAY") /\ Once(remQ', "PLAY")
      BY <1>1 DEF Cycle, Loses
    <3> QED BY <1>3, <3>1, <3>2 DEF mode, Cycle, Wanted, Switch, Asked, Call
  <2>7. Shares'
    BY <1>3, <2>6 DEF mode, Shares, IInv, Hands, Own, DecoderRuns, Ending, Call
  <2>8. Sound'
    BY <1>3, <2>4 DEF Lends, Sound, OnWait, OnLoan, OnPlay, SetUp, OnRest, Asked, Call
  <2>9. LoansKept
    BY <1>1, <1>3, <2>8, LoansFollow DEF Loses, mode, Begins, AtWork, WillReset, Lost, DecoderRuns
  <2> QED BY <2>2, <2>3, <2>5, <2>7, <2>9 DEF IInv, Hands
<1>4. CASE /\ remind'.st = "STANDBY" /\ remind'.at = remind.at
           /\ flags' = PlayEndFlags /\ mainQ' = Append(mainQ, "DONE")
           /\ decQ' = Told(decQ, "RESET") /\ UNCHANGED decoder
  <2>1. /\ mainQ' \in Seq(MainMsgs) /\ Gains(mainQ, mainQ', "DONE")
        /\ FreshGains(mainQ, mainQ', MState, "DONE")
    BY <1>0, <1>4, MainSent DEF MainMsgs
  <2>2. /\ decQ' \in Seq(DecoderMsgs) /\ Follow(decQ') /\ ~In(decQ', "PAUSE")
        /\ decoder.st = "Absent" => decQ' = <<>>
        /\ decoder.st # "Absent" => decQ' # <<>> /\ Head(decQ') = "RESET"
    BY <1>4, ToldIs DEF DecoderMsgs
  <2>3. flags' = IF Own THEN flags ELSE flags \ {"DecoderRemind"}
    BY <1>4 DEF PlayEndFlags, Own
  <2>4. Types'
    BY <1>0, <1>1, <1>2, <1>4, <2>1, <2>2, <2>3 DEF Types, mode, rest
  <2>5. Lives'
    BY <1>0, <1>1, <1>2, <1>4, <2>1, <2>2, <2>3 DEF Loses, Gains, FreshGains, mode, IInv,
       Lives, Modes, Ends, Resets, Calls, Mains, Ending, Call, Own, Switch, DecoderRuns
  <2>6. Owners'
    BY <1>4, <2>2, <2>3 DEF mode, IInv, Hands, Owners, Asked, Call, Own, Lends, DecoderRuns,
       Active
  <2>7. Own /\ Cycle => Cycle'
    <3>1. Own => Call' = "RESET" /\ flags' = flags
      BY <2>2, <2>3 DEF Call, Modes, IInv, Lives, Own
    <3>2. Cycle => ~Wanted /\ ~Switch /\ ~In(appQ, "DECODER_RESET")
      BY <1>1 DEF Cycle, Loses
    <3>3. Cycle => ~In(remQ', "PLAY") /\ Once(remQ', "PLAY")
      BY <1>1 DEF Cycle, Loses
    <3>4. /\ Fresh(mainQ', MState, "NEED") => Fresh(mainQ, MState, "NEED")
          /\ FreshOnce(mainQ, MState, "NEED") => FreshOnce(mainQ', MState, "NEED")
      BY <2>1 DEF FreshGains
    <3> QED BY <1>4, <3>1, <3>2, <3>3, <3>4 DEF mode, Cycle, Wanted, Switch, Asked
  <2>8. Shares'
    BY <2>3, <2>7 DEF Shares, IInv, Hands, Own, DecoderRuns, Ending, Call
  <2>9. AtWork => Sound'
    <3>1. AtWork => Asked'
      BY <2>2, AtWorkIs DEF Asked, Call
    <3> QED BY <1>4, <3>1 DEF Sound, OnWait, OnLoan, OnPlay, OnRest
  <2>10. LoansKept
    BY <1>1, <2>3, <2>9, LoansFollow DEF Loses, mode, Begins, AtWork, WillReset, Lost, DecoderRuns
  <2> QED BY <2>4, <2>5, <2>6, <2>8, <2>10 DEF IInv, Hands
<1> QED BY <1>0, <1>3, <1>4, PlayedOrEnded

LEMMA HandlePlayKeeps == ASSUME IInv, HandlePlay PROVE IInv' /\ LoansKept
<1>0. Types /\ Serves("PLAY") /\ UNCHANGED <<pcm, mode, MState, rest>>
  BY DEF IInv, HandlePlay
<1>1. /\ remQ' \in Seq(RemindMsgs) /\ Loses(remQ, remQ', "PLAY")
      /\ decQ = <<>> /\ remind.at = "recv"
  BY <1>0, ServedIs
<1>2. CASE "DecoderRemind" \in flags /\ remind.st = "WAIT_DECODER"
  BY <1>0, <1>1, <1>2, PlayOrEndKeeps DEF HandlePlay, Lends
<1>3. CASE ~("DecoderRemind" \in flags /\ remind.st = "WAIT_DECODER")
  <2>1. UNCHANGED <<remind, decoder, decQ, flags, mainQ>>
    BY <1>3 DEF HandlePlay
  <2>2. Types'
    BY <1>0, <1>1, <2>1 DEF Types, mode, rest
  <2>3. Lives'
    BY <1>0, <1>1, <2>1 DEF Loses, mode, IInv, Lives, Modes, Ends, Resets, Calls, Mains,
       Ending, Call, Own, Lends, Switch, Lent, DecoderRuns
  <2>4. Hands'
    BY <1>0, <1>1, <2>1 DEF Loses, mode, IInv, Hands, Shares, Cycle, Owners, Asked, Ending,
       Call, Own, Lends, Switch, DecoderRuns, Active
  <2>5. AtWork /\ Sound => ~Own
    BY <1>1, <1>3, AtWorkIs DEF Loses, Sound, OnWait, Cycle, Lends
  <2>6. LoansKept
    BY <1>0, <1>1, <2>1, <2>5, LoansStay DEF Loses, mode, IInv, Begins, AtWork, WillReset,
       WillStop, Wanted, Asked, Call, Lends, Switch, DecoderRuns
  <2> QED BY <2>2, <2>3, <2>4, <2>6 DEF IInv
<1> QED BY <1>2, <1>3

\* The service is reset only when the mode's decoder does not run any more.
LEMMA HandleResetKeeps == ASSUME IInv, HandleReset PROVE IInv' /\ LoansKept
<1>0. Types /\ Serves("RESET") /\ decQ \in Seq(DecoderMsgs)
  BY DEF IInv, Types, HandleReset
<1>1. /\ remind' = Idle /\ flags' = flags \ {"DecoderRemind"}
      /\ decQ' = IF "DecoderRemind" \in flags THEN Told(decQ, "STOP") ELSE decQ
      /\ UNCHANGED <<decoder, pcm, mode, main, rest>>
  BY DEF HandleReset
<1>2. /\ remQ' \in Seq(RemindMsgs) /\ Loses(remQ, remQ', "RESET") /\ decQ = <<>>
  BY <1>0, ServedIs
<1>3. ~DecoderRuns
  BY <1>2 DEF Loses, IInv, Lives, Resets, Ending, Call
<1>4. /\ decQ' \in Seq(DecoderMsgs) /\ Follow(decQ') /\ ~In(decQ', "PAUSE")
      /\ decoder.st = "Absent" => decQ' = <<>>
      /\ decQ' = <<>> \/ Head(decQ') = "STOP"
  BY <1>0, <1>1, <1>2, ToldIs, EmptyQueue DEF DecoderMsgs
<1>5. /\ remind' \in RemindStates /\ remind'.st = "STANDBY" /\ remind'.at = "recv"
      /\ remind'.blk = 0
  BY <1>1 DEF Idle, RemindStates, RemindSts, RemindAts
<1>6. Types'
  BY <1>0, <1>1, <1>2, <1>4, <1>5 DEF Types, mode, main, rest
<1>7. Lives'
  BY <1>0, <1>1, <1>2, <1>3, <1>4, <1>5 DEF Loses, mode, main, IInv, Lives, Modes, Ends,
     Resets, Calls, Mains, Ending, Call, Own, Switch, DecoderRuns
<1>8. Hands'
  BY <1>0, <1>1, <1>2, <1>3, <1>4, <1>5 DEF mode, main, IInv, Hands, Shares, Owners, Asked,
     Call, Lends, Switch, DecoderRuns, Active
<1>9. LoansKept
  BY <1>1, <1>3, LoansFollow DEF mode, Begins, AtWork, DecoderRuns
<1> QED BY <1>6, <1>7, <1>8, <1>9 DEF IInv

LEMMA HandleStoppedKeeps == ASSUME IInv, HandleStopped PROVE IInv' /\ LoansKept
<1>0. Types /\ Serves("STOPPED") /\ UNCHANGED <<decoding, flags, mode, main, rest>>
  BY DEF IInv, HandleStopped
<1>1. /\ remQ' \in Seq(RemindMsgs) /\ Loses(remQ, remQ', "STOPPED")
      /\ decQ = <<>> /\ remind.at = "recv" /\ remind \in RemindStates
  BY <1>0, ServedIs DEF Types
<1>2. \/ remind' = remind /\ ~(Lends /\ remind.st \in {"STOPPING", "PLAY"})
      \/ /\ remind.st \in {"STOPPING", "PLAY"} /\ remind' \in RemindStates
         /\ remind'.st = "STOPPED" /\ remind'.at = remind.at /\ remind'.blk = remind.blk
         /\ Lends
  <2>1. \/ remind' = remind /\ ~(Lends /\ remind.st \in {"STOPPING", "PLAY"})
        \/ remind' = [remind EXCEPT !.st = "STOPPED"] /\ remind.st \in {"STOPPING", "PLAY"}
           /\ Lends
    BY Zenon DEF HandleStopped, Lends
  <2>2. CASE /\ remind' = [remind EXCEPT !.st = "STOPPED"]
             /\ remind.st \in {"STOPPING", "PLAY"} /\ Lends
    BY <1>1, <2>2, RemindSt DEF RemindSts
  <2> QED BY <2>1, <2>2
<1>3. Types'
  BY <1>0, <1>1, <1>2 DEF Types, decoding, mode, main, rest
<1>4. Lives'
  BY <1>0, <1>1, <1>2 DEF Loses, decoding, mode, main, IInv, Lives, Modes, Ends, Resets,
     Calls, Mains, Ending, Call, Own, Lends, Switch, Lent, DecoderRuns
<1>5. Hands'
  BY <1>0, <1>1, <1>2 DEF Loses, decoding, mode, main, IInv, Hands, Shares, Cycle, Wanted,
     Owners, Asked, Ending, Call, Own, Lends, Switch, DecoderRuns, Active
<1>6. Sound => Sound'
  BY <1>0, <1>1, <1>2 DEF Loses, decoding, mode, main, Sound, OnWait, OnLoan, OnPlay, OnRest,
     Wanted, Asked, Call, Own, Lends, Switch, Active
<1>7. LoansKept
  BY <1>0, <1>1, <1>2, <1>6, LoansFollow DEF Loses, decoding, mode, main, Begins, AtWork, WillReset,
     Lost, Wanted, Lends, Switch, DecoderRuns
<1> QED BY <1>3, <1>4, <1>5, <1>7 DEF IInv

LEMMA DrainedKeeps == ASSUME IInv, Drained PROVE IInv' /\ LoansKept
BY PlayOrEndKeeps DEF Drained, Preempted, Lends

LEMMA ServiceKeeps == IInv /\ ServiceStep => IInv' /\ LoansKept
BY RequestIgnoredKeeps, RequestRejectedKeeps, RequestPlaysKeeps, RequestWaitsKeeps,
   RequestCutsKeeps, CutsKeeps, TellsKeeps, HandlePlayKeeps, HandleResetKeeps,
   HandleStoppedKeeps, DrainedKeeps DEF ServiceStep

-----------------------------------------------------------------------------
(* The steps of the decoder. *)

\* A decoder that is told to go on goes on for the one it was set up for.
LEMMA DecodingKeeps ==
  ASSUME IInv, UNCHANGED <<service, flags, app, main, rest>>,
         NEW m \in {"PLAY", "RESUME"}, Decodes(m),
         IF (m = "PLAY" /\ decoder.st = "Initialized") \/ (m = "RESUME" /\ decoder.st # "None")
           THEN Decoding ELSE UNCHANGED <<decoder, pcm, appQ>>
  PROVE  IInv' /\ LoansKept
<1>0. Types /\ Follow(decQ) /\ decoder \in DecoderStates
  BY DEF IInv, Lives, Calls, Types
<1>1. /\ \/ m = "PLAY" /\ decoder.st = "Initialized"
         \/ m = "RESUME" /\ decoder.st # "None"
         \/ UNCHANGED <<decoder, pcm, appQ>>
      /\ Decoding \/ UNCHANGED <<decoder, pcm, appQ>>
  OBVIOUS
<1>2. /\ decQ' \in Seq(DecoderMsgs) /\ Follow(decQ') /\ Loses(decQ, decQ', m)
      /\ Call = m /\ Call' \in {"none", "STOP", "PAUSE"} /\ decQ # <<>>
  BY <1>0, DecodedIs DEF Decodes
<1>3. \/ UNCHANGED <<decoder, pcm, appQ>>
      \/ /\ decoder' \in DecoderStates /\ decoder'.st = "Play" /\ decoder'.by = decoder.by
         /\ decoder.by # "none" /\ pcm' = FALSE
         /\ decoder.st \in {"Initialized", "Play", "Pause"}
  <2>1. Decoding => /\ decoder' = [decoder EXCEPT !.st = "Play"] /\ pcm' = FALSE
    BY DEF Decoding
  <2>2. Decoding => decoder' \in DecoderStates /\ decoder'.st = "Play" /\ decoder'.by = decoder.by
    <3>1. CASE decoder' = [decoder EXCEPT !.st = "Play"]
      BY <1>0, <3>1, DecoderChanges DEF DecoderSts
    <3> QED BY <2>1, <3>1
  <2>3. \/ decoder.st \in {"Initialized", "Play", "Pause"} /\ decoder.by # "none"
        \/ UNCHANGED <<decoder, pcm, appQ>>
    <3>1. decoder.st \in DecoderSts
      BY <1>0, DecoderFields
    <3>2. decoder.st # "Absent" /\ (m = "RESUME" => decoder.st # "Stop")
      BY <1>2 DEF IInv, Lives, Modes, Calls
    <3> QED BY <1>1, <3>1, <3>2 DEF DecoderSts, IInv, Lives, Calls
  <2> QED BY <1>1, <2>1, <2>2, <2>3
<1>4. \/ appQ' = appQ
      \/ appQ' \in Seq(AppMsgs) /\ Gains(appQ, appQ', "PLAYING")
  BY <1>0, <1>1, AppSent DEF Decoding, AppMsgs
<1>5. Types'
  BY <1>0, <1>2, <1>3, <1>4 DEF Types, service, main, rest
<1>6. Lives'
  <2>1. appQ' = appQ \/ MState # "None"
    BY <1>2 DEF IInv, Lives, Modes
  <2> QED BY <1>2, <1>3, <1>4, <2>1 DEF Loses, Gains, service, main, IInv, Lives, Modes,
       Ends, Resets, Calls, Mains, Ending, Own, Lends, Switch, Lent, DecoderRuns
<1>7. Owners'
  BY <1>2, <1>3 DEF IInv, Hands, Owners, Asked, Own, Lends, Switch, DecoderRuns, Active
<1>8. Shares'
  BY <1>2, <1>3, <1>4 DEF Loses, Gains, service, main, IInv, Hands, Shares, Cycle, Wanted,
     Asked, Ending, Own, Switch, DecoderRuns, Active
<1>9. ASSUME AtWork, Sound PROVE Sound'
  <2>1. m = "PLAY" /\ SetUp => AtPlay'
    <3> SUFFICES ASSUME m = "PLAY", SetUp PROVE AtPlay'
      OBVIOUS
    <3>1. decoder' = [decoder EXCEPT !.st = "Play"]
      BY DEF SetUp, Decoding
    <3> QED BY <1>0, <3>1, DecoderChanges DEF DecoderSts, SetUp, AtPlay
  <2>2. ~Asked /\ ~Asked' /\ (WillStop => WillStop')
    BY <1>2, <1>4 DEF Asked, Loses, Gains, service, WillStop
  <2>3. OnPlay'
    BY <1>2, <1>3, <1>9, <2>1, <2>2 DEF service, Sound, OnPlay, SetUp, AtPlay, Lends
  <2>4. OnRest'
    BY <1>3, <1>9, <2>2 DEF service, Sound, OnRest, Own, Active
  <2> QED BY <1>4, <1>9, <2>2, <2>3, <2>4 DEF Gains, service, main, Sound, OnWait, OnLoan, Wanted,
       Own, Lends, Switch
<1>10. LoansKept
  BY <1>4, <1>9, LoansFollow DEF Gains, service, main, Begins, AtWork, WillReset, Lost, Wanted,
     Lends, Switch, DecoderRuns
<1> QED BY <1>5, <1>6, <1>7, <1>8, <1>10 DEF IInv, Hands

LEMMA DecoderPlaysKeeps == ASSUME IInv, DecoderPlays PROVE IInv' /\ LoansKept
BY DecodingKeeps DEF DecoderPlays

LEMMA DecoderResumesKeeps == ASSUME IInv, DecoderResumes PROVE IInv' /\ LoansKept
BY DecodingKeeps DEF DecoderResumes

LEMMA DecoderPausesKeeps == ASSUME IInv, DecoderPauses PROVE IInv' /\ LoansKept
<1>0. Types /\ Follow(decQ) /\ Decodes("PAUSE") /\ decoder \in DecoderStates
  BY DEF IInv, Lives, Calls, Types, DecoderPauses
<1>1. decoder' = [decoder EXCEPT !.st = "Pause"] /\ UNCHANGED <<service, pcm, flags, mode, main, rest>>
  BY DEF DecoderPauses
<1>2. /\ decQ' \in Seq(DecoderMsgs) /\ Follow(decQ') /\ Loses(decQ, decQ', "PAUSE")
      /\ Call = "PAUSE" /\ Call' \in {"none", "STOP", "PAUSE"} /\ decQ # <<>>
  BY <1>0, DecodedIs DEF Decodes
<1>3. decoder' \in DecoderStates /\ decoder'.st = "Pause" /\ decoder'.by = decoder.by
  BY <1>0, <1>1, DecoderChanges DEF DecoderSts
<1>4. decoder.by = "app" /\ ~Lent
  BY <1>2 DEF Loses, IInv, Lives, Calls
<1>5. Types'
  BY <1>0, <1>1, <1>2, <1>3 DEF Types, service, mode, main, rest
<1>6. Lives'
  BY <1>1, <1>2, <1>3, <1>4 DEF Loses, service, mode, main, IInv, Lives, Modes, Ends,
     Resets, Calls, Mains, Ending, Own, Lent, DecoderRuns
<1>7. Owners'
  BY <1>1, <1>3, <1>4, SwitchOff DEF Owners, Lends, Switch, Active
<1>8. Shares'
  BY <1>1, <1>2, <1>3, <1>4 DEF service, mode, main, IInv, Hands, Shares, Cycle, Wanted,
     Asked, Ending, Own, Switch, DecoderRuns, Active
<1>9. LoansKept
  BY <1>1, <1>2, <1>3, <1>4, LoansStay DEF Loses, service, mode, main, IInv, Begins, AtWork,
     WillReset, WillStop, Wanted, Asked, Lends, Switch, DecoderRuns
<1> QED BY <1>5, <1>6, <1>7, <1>8, <1>9 DEF IInv, Hands

\* A decoder that stops is nobody's at work.
LEMMA DecoderStopsKeeps == ASSUME IInv, DecoderStops PROVE IInv' /\ LoansKept
<1>0. Types /\ Follow(decQ) /\ Decodes("STOP") /\ decoder \in DecoderStates
  BY DEF IInv, Lives, Calls, Types, DecoderStops
<1>1. /\ decoder' = [decoder EXCEPT !.st = IF DecoderRuns THEN "None" ELSE "Stop"]
      /\ UNCHANGED <<service, pcm, flags, app, main, rest>>
  BY DEF DecoderStops
<1>2. /\ decQ' \in Seq(DecoderMsgs) /\ Follow(decQ') /\ Loses(decQ, decQ', "STOP")
      /\ Call = "STOP" /\ Call' \in {"none", "STOP", "PAUSE"} /\ decQ # <<>>
  BY <1>0, DecodedIs DEF Decodes
<1>3. /\ decoder' \in DecoderStates /\ decoder'.by = decoder.by
      /\ decoder'.st = IF DecoderRuns THEN "None" ELSE "Stop"
  <2>1. {"None", "Stop"} \subseteq DecoderSts
    BY DEF DecoderSts
  <2>2. CASE decoder' = [decoder EXCEPT !.st = "None"] /\ DecoderRuns
    BY <1>0, <2>1, <2>2, DecoderChanges, Zenon
  <2>3. CASE decoder' = [decoder EXCEPT !.st = "Stop"] /\ ~DecoderRuns
    BY <1>0, <2>1, <2>3, DecoderChanges, Zenon
  <2> QED BY <1>1, <2>2, <2>3
<1>4. \/ appQ' = appQ /\ ~DecoderRuns
      \/ appQ' \in Seq(AppMsgs) /\ Gains(appQ, appQ', "DECODER_STOPPED")
  BY <1>0, AppSent DEF DecoderStops, AppMsgs
<1>5. Types'
  BY <1>0, <1>1, <1>2, <1>3, <1>4 DEF Types, service, main, rest
<1>6. Lives'
  BY <1>1, <1>2, <1>3, <1>4 DEF Loses, Gains, service, main, IInv, Lives, Modes, Ends,
     Resets, Calls, Mains, Ending, Own, Lends, Switch, Lent, DecoderRuns
<1>7. Owners'
  BY <1>1, <1>3 DEF Owners, Active
<1>8. Shares'
  BY <1>1, <1>2, <1>3, <1>4 DEF Gains, service, main, IInv, Hands, Shares, Cycle, Wanted,
     Asked, Ending, Own, Switch, DecoderRuns, Active
<1>9. ASSUME AtWork, Sound PROVE Sound'
  <2>1. WillStop' /\ ~Asked /\ ~Asked' /\ ~Active("remind")'
    BY <1>2, <1>3, <1>4, <1>9 DEF AtWork, WillStop, Gains, Asked, Active
  <2> QED BY <1>1, <1>4, <1>9, <2>1 DEF Gains, service, main, Sound, OnWait, OnLoan, OnPlay,
       OnRest, Wanted, Own, Lends, Switch
<1>10. LoansKept
  BY <1>1, <1>4, <1>9, LoansFollow DEF Gains, service, main, Begins, AtWork, WillReset, Lost,
     Wanted, Lends, Switch, DecoderRuns
<1> QED BY <1>5, <1>6, <1>7, <1>8, <1>10 DEF IInv, Hands

\* The answer that moves the hand-over on: nothing of the next one is under way yet.
LEMMA DecoderResetsKeeps == ASSUME IInv, DecoderResets PROVE IInv' /\ LoansKept
<1>0. Types /\ Follow(decQ) /\ Decodes("RESET") /\ decoder \in DecoderStates
  BY DEF IInv, Lives, Calls, Types, DecoderResets
<1>1. /\ decoder' = [decoder EXCEPT !.st = "None"] /\ pcm' = FALSE
      /\ appQ' = Append(appQ, "DECODER_RESET") /\ UNCHANGED <<service, flags, app, main, rest>>
  BY DEF DecoderResets
<1>2. /\ decQ' \in Seq(DecoderMsgs) /\ Follow(decQ') /\ Loses(decQ, decQ', "RESET")
      /\ Call = "RESET" /\ Call' \in {"none", "STOP", "PAUSE"} /\ decQ # <<>>
  BY <1>0, DecodedIs DEF Decodes
<1>3. decoder' \in DecoderStates /\ decoder'.by = decoder.by /\ decoder'.st = "None"
  BY <1>0, <1>1, DecoderChanges DEF DecoderSts
<1>4. appQ' \in Seq(AppMsgs) /\ Gains(appQ, appQ', "DECODER_RESET")
  BY <1>0, <1>1, AppSent DEF AppMsgs
<1>5. Types'
  BY <1>0, <1>1, <1>2, <1>3, <1>4 DEF Types, service, main, rest
<1>6. Lives'
  BY <1>1, <1>2, <1>3, <1>4 DEF Loses, Gains, service, main, IInv, Lives, Modes, Ends,
     Resets, Calls, Mains, Ending, Own, Lends, Switch, Lent, DecoderRuns
<1>7. Owners'
  BY <1>1, <1>3 DEF Owners, Active
<1>8. Shares'
  BY <1>1, <1>2, <1>3, <1>4 DEF Gains, service, main, IInv, Hands, Shares, Cycle, Wanted,
     Asked, Ending, Own, Switch, DecoderRuns, Active
<1>9. ASSUME Sound PROVE Sound'
  <2>1. Asked /\ ~Asked' /\ ~Active("remind")' /\ In(appQ', "DECODER_RESET")
    BY <1>2, <1>3, <1>4 DEF Gains, Asked, Active
  <2> QED BY <1>1, <1>4, <1>9, <2>1 DEF Gains, service, main, Sound, OnWait, OnLoan, OnPlay,
       OnRest, Wanted, Own, Lends, Switch
<1>10. LoansKept
  BY <1>1, <1>4, <1>9, LoansFollow DEF Gains, service, main, Begins, AtWork, WillReset, Lost,
     Wanted, Lends, Switch, DecoderRuns
<1> QED BY <1>5, <1>6, <1>7, <1>8, <1>10 DEF IInv, Hands

LEMMA DecoderServiceStopsKeeps == ASSUME IInv, DecoderServiceStops PROVE IInv' /\ LoansKept
<1>0. Types /\ decoder \in DecoderStates /\ Ending /\ DecoderRuns /\ decQ # <<>>
  BY DEF IInv, Lives, Ends, Types, DecoderServiceStops, Ending, Call
<1>1. /\ decoder' = [decoder EXCEPT !.st = "None"] /\ decQ' = <<>>
      /\ flags' = flags \ {"DecoderRun"} /\ appQ' = Append(appQ, "SERVICE_STOPPED")
      /\ UNCHANGED <<service, pcm, app, main, rest>>
  BY DEF DecoderServiceStops
<1>2. decoder' \in DecoderStates /\ decoder'.by = decoder.by /\ decoder'.st = "None"
  BY <1>0, <1>1, DecoderChanges DEF DecoderSts
<1>3. appQ' \in Seq(AppMsgs) /\ Gains(appQ, appQ', "SERVICE_STOPPED")
  BY <1>0, <1>1, AppSent DEF AppMsgs
<1>4. Types'
  BY <1>0, <1>1, <1>2, <1>3, EmptyQueue DEF Types, service, main, rest
<1>5. MState = "Exit"
  BY <1>0 DEF IInv, Lives, Ends, Modes, Types
<1>6. Lives'
  BY <1>0, <1>1, <1>2, <1>3, <1>5, EmptyQueue DEF Gains, service, main, IInv, Lives, Modes,
     Ends, Resets, Calls, Mains, Ending, Call, Own, Switch, DecoderRuns
<1>7. Hands'
  BY <1>1, <1>2 DEF Shares, Hands, Owners, DecoderRuns, Active
<1>8. LoansKept
  BY <1>1, <1>3, LoansFollow DEF Gains, Begins, AtWork, DecoderRuns
<1> QED BY <1>4, <1>6, <1>7, <1>8 DEF IInv

LEMMA PcmKeeps ==
  ASSUME IInv, DecoderFills \/ PcmPlays PROVE IInv' /\ LoansKept
<1>1. pcm' \in BOOLEAN /\ UNCHANGED <<service, decoder, decQ, flags, mode, main, rest>>
  BY DEF DecoderFills, PcmPlays
<1>2. Types'
  BY <1>1 DEF IInv, Types, service, mode, main, rest
<1>3. Lives'
  BY <1>1 DEF service, mode, main, IInv, Lives, Modes, Ends, Resets, Calls, Mains, Ending,
     Call, Own, Lends, Switch, Lent, DecoderRuns
<1>4. Hands'
  BY <1>1 DEF service, mode, main, IInv, Hands, Shares, Cycle, Wanted, Owners, Asked,
     Ending, Call, Own, Lends, Switch, DecoderRuns, Active
<1>5. LoansKept
  BY <1>1, LoansStay DEF service, mode, main, IInv, Begins, AtWork, WillReset, WillStop, Wanted,
     Asked, Call, Lends, Switch, DecoderRuns
<1> QED BY <1>2, <1>3, <1>4, <1>5 DEF IInv

LEMMA ClipEndsKeeps == ASSUME IInv, ClipEnds PROVE IInv' /\ LoansKept
<1>0. /\ Types /\ decQ = <<>> /\ DecoderRuns /\ Active("remind") /\ decQ \in Seq(DecoderMsgs)
      /\ decoder.st = "Play"
  BY DEF IInv, Types, ClipEnds, Active
<1>1. /\ remind' = [remind EXCEPT !.st = "STOPPING"] /\ decQ' = Append(decQ, "STOP")
      /\ UNCHANGED <<remQ, decoder, pcm, flags, mode, main, rest>>
  BY DEF ClipEnds
<1>2. /\ decQ' \in Seq(DecoderMsgs) /\ Follow(decQ') /\ ~In(decQ', "PAUSE")
      /\ decQ' # <<>> /\ Head(decQ') = "STOP" /\ In(decQ', "STOP")
  BY <1>0, <1>1, ToldIs DEF DecoderMsgs, Told
<1>3. /\ remind' \in RemindStates /\ remind'.st = "STOPPING" /\ remind'.at = remind.at
      /\ remind'.blk = remind.blk
  BY <1>0, <1>1, RemindSt DEF Types, RemindSts
<1>4. Types'
  BY <1>0, <1>1, <1>2, <1>3 DEF Types, mode, main, rest
<1>5. Lives'
  BY <1>0, <1>1, <1>2, <1>3 DEF mode, main, IInv, Lives, Modes, Ends, Resets, Calls, Mains,
     Ending, Call, Own, Lends, Switch, DecoderRuns
<1>6. Hands'
  BY <1>0, <1>1, <1>2, <1>3 DEF mode, main, IInv, Hands, Shares, Cycle, Wanted, Owners,
     Asked, Ending, Call, Own, Lends, Switch, DecoderRuns, Active
<1>7. ASSUME AtWork, Sound PROVE Sound'
  <2>1. ~Asked /\ ~Asked' /\ WillStop'
    BY <1>0, <1>2 DEF Asked, Call, WillStop
  <2>2. remind.st \notin {"STANDBY", "WAIT_DECODER"}
    BY <1>0, <1>7, <2>1, AtWorkIs DEF Sound, OnRest, Cycle
  <2>3. Lends
    BY <1>0, <1>7, <2>2, RemindFields DEF Types, RemindSts, Sound, OnPlay
  <2> QED BY <1>1, <1>3, <2>1, <2>3 DEF mode, Sound, OnWait, OnLoan, OnPlay, OnRest, Own, Lends
<1>8. LoansKept
  BY <1>1, <1>3, <1>7, LoansFollow DEF mode, main, Begins, AtWork, WillReset, Lost, Wanted, Lends,
     Switch, DecoderRuns
<1> QED BY <1>4, <1>5, <1>6, <1>8 DEF IInv

LEMMA StreamDryKeeps == ASSUME IInv, StreamDry PROVE IInv' /\ LoansKept
<1>0. /\ Types /\ DecoderRuns /\ decoder.by = "app" /\ decoder.st = "Play" /\ decoder \in DecoderStates
      /\ MaxActs \in Nat
  BY BoundAssumption DEF IInv, Types, StreamDry
<1>1. /\ decoder' = [decoder EXCEPT !.st = "Pause"]
      /\ UNCHANGED <<service, decQ, pcm, flags, app, main, refresh>>
      /\ modes' = modes /\ acts' \in 0 .. MaxActs
  BY <1>0 DEF StreamDry, Act, Types
<1>2. decoder' \in DecoderStates /\ decoder'.by = "app" /\ decoder'.st = "Pause"
  BY <1>0, <1>1, DecoderChanges DEF DecoderSts
<1>3. appQ' = appQ \/ (appQ' \in Seq(AppMsgs) /\ Gains(appQ, appQ', "PLAY_END"))
  BY <1>0, AppSent DEF StreamDry, AppMsgs
<1>4. Types'
  BY <1>0, <1>1, <1>2, <1>3 DEF Types, service, main
<1>5. MState # "None"
  BY <1>0 DEF IInv, Lives, Modes
<1>6. Lives'
  BY <1>0, <1>1, <1>2, <1>3, <1>5 DEF Gains, service, main, IInv, Lives, Modes, Ends,
     Resets, Calls, Mains, Ending, Call, Own, Lent, DecoderRuns
<1>7. Hands'
  BY <1>0, <1>1, <1>2, <1>3 DEF Gains, service, main, IInv, Hands, Shares, Cycle, Wanted,
     Owners, Asked, Ending, Call, Own, Lends, Switch, Active
<1>8. LoansKept
  BY <1>0, <1>1, <1>2, <1>3, LoansStay DEF Gains, service, main, IInv, Begins, AtWork, WillReset,
     WillStop, Wanted, Asked, Call, Lends, Switch, DecoderRuns
<1> QED BY <1>4, <1>6, <1>7, <1>8 DEF IInv

LEMMA DecoderKeeps ==
  IInv /\ (DecoderStep \/ DecoderFills \/ ClipEnds \/ StreamDry \/ PcmPlays)
    => IInv' /\ LoansKept
BY DecoderPlaysKeeps, DecoderResumesKeeps, DecoderPausesKeeps, DecoderStopsKeeps,
   DecoderResetsKeeps, DecoderServiceStopsKeeps, PcmKeeps, ClipEndsKeeps, StreamDryKeeps
DEF DecoderStep

-----------------------------------------------------------------------------
(* The steps of the main task. *)

\* What the service says reaches the mode that it was said to, once.
LEMMA ForwardKeeps == ASSUME IInv, Forward PROVE IInv' /\ LoansKept
<1>0. Types /\ UNCHANGED <<service, decoding, flags, app, MState, rest>>
  BY DEF IInv, Forward
<1>1. PICK m \in {"NEED", "DONE", "FAIL"} :
        MainTakes(m) /\ appQ' = IF MState = "Work" THEN Append(appQ, m) ELSE appQ
  BY DEF Forward
<1>2. /\ mainQ' \in Seq(MainMsgs) /\ Loses(mainQ, mainQ', m)
      /\ FreshLoses(mainQ, mainQ', MState, MState, m)
  BY <1>0, <1>1, MainTakesIs
<1>3. \/ appQ' = appQ
      \/ MState = "Work" /\ appQ' \in Seq(AppMsgs) /\ Gains(appQ, appQ', m)
  BY <1>0, <1>1, AppSent DEF AppMsgs
<1>4. Types'
  BY <1>0, <1>2, <1>3 DEF Types, service, decoding, rest
<1>5. Lives'
  BY <1>0, <1>2, <1>3 DEF Loses, FreshLoses, Gains, service, decoding, IInv, Lives, Modes,
     Ends, Resets, Calls, Mains, Ending, Call, Own, Lends, Switch, Lent, DecoderRuns
<1>6. Owners'
  BY <1>0 DEF decoding, IInv, Hands, Owners, Asked, Call, Own, Lends, Switch, DecoderRuns,
     Active
<1>7. Cycle => Cycle'
  BY <1>0, <1>2, <1>3 DEF FreshLoses, Gains, service, decoding, Cycle, Wanted, Asked, Call,
     Active, Switch
<1>8. Shares'
  BY <1>0, <1>7 DEF decoding, Shares, IInv, Hands, Own, DecoderRuns, Ending, Call
<1>9. Begins => Begins'
  BY <1>0, <1>3 DEF Gains, Begins, Lends, Switch
<1>10. Wanted => Wanted'
  <2>1. m # "STARTED"
    OBVIOUS
  <2>2. Fresh(mainQ, MState, "NEED") => Fresh(mainQ', MState, "NEED") \/ (m = "NEED" /\ MState = "Work")
    BY <1>2, <2>1 DEF FreshLoses
  <2>3. m = "NEED" /\ MState = "Work" => In(appQ', "NEED")
    BY <1>0, <1>1, AppSent DEF Gains, AppMsgs
  <2> QED BY <1>0, <1>3, <2>2, <2>3 DEF Gains, Wanted
<1>11. Wanted' => Wanted
  <2>1. Fresh(mainQ', MState, "NEED") => Fresh(mainQ, MState, "NEED")
    BY <1>2 DEF FreshLoses
  <2>2. m = "NEED" /\ MState = "Work" => Fresh(mainQ, MState, "NEED")
    BY <1>2 DEF FreshLoses
  <2> QED BY <1>0, <1>3, <2>1, <2>2 DEF Gains, Wanted
<1>12. LoansKept
  BY <1>0, <1>3, <1>9, <1>10, <1>11, LoansStay DEF Gains, service, decoding, AtWork, WillReset,
     WillStop, Asked, Call, DecoderRuns
<1> QED BY <1>4, <1>5, <1>6, <1>8, <1>12 DEF IInv, Hands

\* The mode is at work: what was said since its start is for it.
LEMMA ModeStartedKeeps == ASSUME IInv, ModeStarted PROVE IInv' /\ LoansKept
<1>0. Types /\ MainTakes("STARTED") /\ UNCHANGED <<service, decoding, flags, mode, rest>>
  BY DEF IInv, ModeStarted
<1>1. In(mainQ, "STARTED") /\ MState = "Enter" /\ MState' = "Work"
  <2>1. In(mainQ, "STARTED")
    BY <1>0, MainTakesIs DEF Loses
  <2> QED BY <2>1 DEF IInv, Lives, Mains, ModeStarted
<1>2. /\ mainQ' \in Seq(MainMsgs) /\ Loses(mainQ, mainQ', "STARTED")
      /\ FreshLoses(mainQ, mainQ', MState, MState', "STARTED")
  BY <1>0, <1>1, MainTakesIs
<1>3. Types'
  BY <1>0, <1>1, <1>2 DEF Types, service, decoding, mode, rest
<1>4. Lives'
  BY <1>0, <1>1, <1>2 DEF Loses, FreshLoses, service, decoding, mode, IInv, Lives, Modes,
     Ends, Resets, Calls, Mains, Ending, Call, Own, Lends, Switch, Lent, DecoderRuns
<1>5. Hands'
  BY <1>0, <1>1, <1>2 DEF FreshLoses, service, decoding, mode, IInv, Hands, Shares, Cycle,
     Wanted, Owners, Asked, Ending, Call, Own, Lends, Switch, DecoderRuns, Active
<1>6. LoansKept
  BY <1>0, <1>1, <1>2, LoansStay DEF FreshLoses, service, decoding, mode, IInv, Begins, AtWork,
     WillReset, WillStop, Wanted, Asked, Call, Lends, Switch, DecoderRuns
<1> QED BY <1>3, <1>4, <1>5, <1>6 DEF IInv

\* A mode at work is told to stop, by the user or for a medium that fails.
LEMMA ToldToStopKeeps ==
  ASSUME IInv, MState = "Work", MState' = "Exit", appQ' = Append(appQ, "TASK_STOP"),
         UNCHANGED <<service, decoding, flags, app, rest>>,
         mainQ' = mainQ \/ MainTakes("FAILURE")
  PROVE  IInv' /\ LoansKept
<1>0. Types
  BY DEF IInv
<1>1. mainQ' \in Seq(MainMsgs) /\ (mainQ' = mainQ \/ Loses(mainQ, mainQ', "FAILURE"))
  BY <1>0, MainTakesIs DEF Types
<1>2. appQ' \in Seq(AppMsgs) /\ Gains(appQ, appQ', "TASK_STOP")
  BY <1>0, AppSent DEF AppMsgs
<1>3. \A m : ~Fresh(mainQ', MState', m) /\ FreshOnce(mainQ', MState', m)
  BY NotFresh
<1>4. Types'
  BY <1>0, <1>1, <1>2 DEF Types, service, decoding, rest
<1>5. app.st \in {"Starting", "Paused", "Running"}
  BY <1>0, AppFields DEF Types, AppSts, IInv, Lives, Modes, Ends
<1>6. Lives'
  BY <1>0, <1>1, <1>2, <1>3, <1>5 DEF Loses, Gains, service, decoding, IInv, Lives, Modes,
     Ends, Resets, Calls, Mains, Ending, Call, Own, Lends, Switch, Lent, DecoderRuns
<1>7. Hands'
  BY <1>0, <1>2, <1>3 DEF Gains, service, decoding, IInv, Hands, Shares, Cycle, Wanted,
     Owners, Asked, Ending, Call, Own, Lends, Switch, DecoderRuns, Active
<1>8. LoansKept
  BY <1>2, LoansFollow DEF Gains, Begins, AtWork, WillReset
<1> QED BY <1>4, <1>6, <1>7, <1>8 DEF IInv

LEMMA LeaveModeKeeps == ASSUME IInv, LeaveMode PROVE IInv' /\ LoansKept
BY ToldToStopKeeps DEF LeaveMode

LEMMA MediaFailedKeeps == ASSUME IInv, MediaFailed PROVE IInv' /\ LoansKept
<1>0. Types /\ MainTakes("FAILURE") /\ UNCHANGED <<service, decoding, flags, app, rest>>
  BY DEF IInv, MediaFailed
<1>1. CASE MState = "Work"
  BY <1>0, <1>1, ToldToStopKeeps DEF MediaFailed
<1>2. CASE MState # "Work"
  <2>1. UNCHANGED <<MState, appQ>>
    BY <1>2 DEF MediaFailed
  <2>2. /\ mainQ' \in Seq(MainMsgs) /\ Loses(mainQ, mainQ', "FAILURE")
        /\ FreshLoses(mainQ, mainQ', MState, MState, "FAILURE")
    BY <1>0, MainTakesIs
  <2>3. Types'
    BY <1>0, <2>1, <2>2 DEF Types, service, decoding, rest
  <2>4. Lives'
    BY <1>0, <2>1, <2>2 DEF Loses, FreshLoses, service, decoding, IInv, Lives, Modes, Ends,
       Resets, Calls, Mains, Ending, Call, Own, Lends, Switch, Lent, DecoderRuns
  <2>5. Hands'
    BY <1>0, <2>1, <2>2 DEF FreshLoses, service, decoding, IInv, Hands, Shares, Cycle,
       Wanted, Owners, Asked, Ending, Call, Own, Lends, Switch, DecoderRuns, Active
  <2>6. LoansKept
    BY <1>0, <2>1, <2>2, LoansStay DEF FreshLoses, service, decoding, IInv, Begins, AtWork,
       WillReset, WillStop, Wanted, Asked, Call, Lends, Switch, DecoderRuns
  <2> QED BY <2>3, <2>4, <2>5, <2>6 DEF IInv
<1> QED BY <1>1, <1>2

\* A mode is gone.  What the service still does is of no consequence to the next.
LEMMA ModeStoppedKeeps == ASSUME IInv, ModeStopped PROVE IInv' /\ LoansKept
<1>0. Types /\ MState = "Exit" /\ MState' = "None" /\ UNCHANGED <<service, rest>>
  BY DEF IInv, ModeStopped
<1>1. /\ app' = NoMode /\ appQ' = <<>> /\ decQ' = <<>> /\ pcm' = FALSE
      /\ decoder' = [st |-> "Absent", by |-> "none"]
      /\ flags' = flags \ {"DecoderRemind", "DecoderSwitch", "DecoderApp", "DecoderRun"}
  BY DEF ModeStopped
<1>2. (mainQ' = mainQ /\ mainQ = <<>>) \/ Loses(mainQ, mainQ', "STOPPED")
  BY <1>0, MainTakesIs DEF ModeStopped, Overdue
<1>3. mainQ' \in Seq(MainMsgs)
  BY <1>0, MainTakesIs DEF ModeStopped, Types
<1>4. flags' = {}
  BY <1>0, <1>1 DEF Types, SoftFlags
<1>5. ~DecoderRuns
  <2>1. CASE MainTakes("STOPPED")
    BY <1>0, <2>1, MainTakesIs DEF Loses, IInv, Lives, Ends
  <2>2. CASE Overdue
    BY <1>0, <2>2, EmptyQueue DEF Overdue, IInv, Lives, Ends, Ending, Call
  <2> QED BY <2>1, <2>2 DEF ModeStopped
<1>6. /\ app' \in AppStates /\ app'.kind = "none" /\ app'.st = "none" /\ ~app'.wait
      /\ decoder' \in DecoderStates /\ decoder'.st = "Absent" /\ decoder'.by = "none"
  BY <1>1 DEF NoMode, AppStates, ModeKinds, AppSts, PlayerSts, Syncs, DecoderStates,
     DecoderSts, Streams
<1>7. Types'
  <2>1. decQ' \in Seq(DecoderMsgs) /\ appQ' \in Seq(AppMsgs) /\ flags' \subseteq SoftFlags
    BY <1>1, <1>4
  <2> QED BY <1>0, <1>1, <1>3, <1>6, <2>1 DEF Types, service, rest
<1>8. ~In(mainQ', "STOPPED") /\ ~In(mainQ', "STARTED") /\ Once(mainQ', "STARTED")
      /\ Once(mainQ', "STOPPED")
  BY <1>0, <1>2, EmptyQueue DEF Loses, IInv, Lives, Mains, Ends
<1>9. ~Fresh(mainQ', MState', "FAIL")
  BY <1>0, NotFresh
<1>10. Lives'
  BY <1>0, <1>1, <1>4, <1>5, <1>6, <1>8, <1>9, EmptyQueue DEF service, IInv, Lives, Modes,
     Ends, Resets, Calls, Mains, Ending, Call, Own, DecoderRuns
<1>11. Hands'
  BY <1>4, <1>6 DEF Shares, Hands, Owners, DecoderRuns, Active
<1>12. LoansKept
  BY <1>1, <1>4, EmptyQueue, LoansFollow DEF Begins, AtWork, DecoderRuns
<1> QED BY <1>7, <1>10, <1>11, <1>12 DEF IInv

\* The next mode finds a service at rest, and nothing of the last one.
LEMMA EnterModeKeeps == ASSUME IInv, NEW kind \in Kinds, EnterMode(kind) PROVE IInv' /\ LoansKept
<1>0. /\ Types /\ MState = "None" /\ remQ = <<>> /\ remind.at = "recv" /\ ~refresh
      /\ MState' = "Enter" /\ modes' = modes + 1 /\ modes < MaxModes /\ MaxModes \in Nat
      /\ UNCHANGED <<service, decQ, appQ, refresh, acts>>
  BY BoundAssumption DEF IInv, EnterMode
<1>1. /\ decoder' = [st |-> "None", by |-> "none"] /\ pcm' = FALSE
      /\ mainQ' = Append(mainQ, "STARTED")
      /\ flags' = flags \cup {"DecoderRun"} \cup (IF kind # "Line" THEN {"DecoderApp"} ELSE {})
  BY DEF EnterMode
<1>2. /\ appQ = <<>> /\ decQ = <<>> /\ flags = {} /\ ~DecoderRuns
      /\ remind.st = "STANDBY" /\ remind.blk = 0
  BY <1>0, EmptyQueue DEF IInv, Lives, Modes, Resets, DecoderRuns
<1>3. kind \in {"Line", "Bt", "Media"}
  BY KindAssumption
<1>4. /\ app' \in AppStates /\ app'.kind = kind /\ app'.st = "Starting" /\ app'.wait = FALSE
  <2>1. PICK sbc \in {FALSE, kind = "Bt"} :
          app' = [NoMode EXCEPT !.kind = kind, !.st = "Starting", !.sbc = sbc, !.muted = TRUE]
    BY DEF EnterMode
  <2>2. app' = [kind |-> kind, st |-> "Starting", sbc |-> sbc, muted |-> TRUE, wait |-> FALSE,
                player |-> "idle", sync |-> "None"]
    BY <2>1 DEF NoMode
  <2>3. sbc \in BOOLEAN
    OBVIOUS
  <2> QED BY <2>2, <2>3 DEF AppStates, ModeKinds, AppSts, PlayerSts, Syncs
<1>5. decoder' \in DecoderStates /\ decoder'.st = "None" /\ decoder'.by = "none"
  BY <1>1 DEF DecoderStates, DecoderSts, Streams
<1>6. ~In(mainQ, "STARTED") /\ mainQ \in Seq(MainMsgs)
  BY <1>0 DEF IInv, Lives, Mains, Types
<1>7. mainQ' \in Seq(MainMsgs) /\ Gains(mainQ, mainQ', "STARTED")
  BY <1>0, <1>1, MainSent DEF MainMsgs
<1>8. \A m \in {"NEED", "FAIL"} : ~Fresh(mainQ', MState', m) /\ FreshOnce(mainQ', MState', m)
  BY <1>0, <1>1, <1>6, NotFreshYet
<1>9. Types'
  <2>1. flags' \subseteq SoftFlags
    BY <1>1, <1>2 DEF SoftFlags
  <2>2. modes' \in 0 .. MaxModes
    BY <1>0 DEF Types
  <2> QED BY <1>0, <1>1, <1>4, <1>5, <1>7, <2>1, <2>2 DEF Types, service
<1>10. Lives'
  BY <1>0, <1>1, <1>2, <1>3, <1>4, <1>5, <1>7, <1>8, EmptyQueue
     DEF Gains, service, IInv, Lives, Modes, Ends, Resets, Calls, Mains, Ending, Call, Own,
        Lends, Switch, DecoderRuns
<1>11. Hands'
  BY <1>0, <1>1, <1>2, <1>4, <1>5, <1>8, EmptyQueue DEF service, Hands, Shares, Cycle,
     Wanted, Owners, Switch, Active
<1>12. Sound'
  <2>1. ~Asked' /\ ~Lends' /\ ~Active("remind")' /\ remind'.st = "STANDBY"
    BY <1>0, <1>1, <1>2, <1>5 DEF service, Asked, Call, Lends, Active
  <2> QED BY <2>1 DEF Sound, OnWait, OnLoan, OnPlay, OnRest
<1>13. LoansKept
  BY <1>0, <1>2, <1>12, EmptyQueue DEF service, Loans, LoansKept, Keeps, Begins
<1> QED BY <1>9, <1>10, <1>11, <1>13 DEF IInv

LEMMA MainKeeps ==
  IInv /\ (MainStep \/ LeaveMode \/ \E kind \in Kinds : EnterMode(kind))
    => IInv' /\ LoansKept
BY ForwardKeeps, ModeStartedKeeps, MediaFailedKeeps, ModeStoppedKeeps, LeaveModeKeeps,
   EnterModeKeeps DEF MainStep

-----------------------------------------------------------------------------
(* What the steps of the mode have in common. *)

\* The hand-over does not wait for m, or what waits for it has been told.
Misses(m, told) == /\ Own => m \notin {"NEED", "DECODER_RESET"}
                   /\ m = "DECODER_STOPPED" /\ Lends => told

\* A message is heard, a prompt asked for, a stream stopped: nothing of the hand-over.
LEMMA AsideKeeps ==
  ASSUME IInv, MState # "None",
         remind' \in RemindStates, remind'.st = remind.st, remind'.at = remind.at,
         remind'.blk = remind.blk,
         remQ' = remQ \/ \E m \in {"REQUEST", "STOPPED"} : remQ' = Append(remQ, m),
         UNCHANGED <<decoder, pcm, flags, main, modes>>,
         \/ decQ' = decQ
         \/ decQ = <<>> /\ decQ' = Told(decQ, "STOP"),
         app' \in AppStates, app'.kind = app.kind, app'.wait = app.wait,
         app'.st = app.st \/ (app.st = "Starting" /\ app'.st = "Running"),
         \/ appQ' = appQ
         \/ appQ' = Append(appQ, "START") /\ Bt /\ ~Lent
         \/ /\ appQ' = Tail(appQ)
            /\ \E m : /\ Due(m) /\ m # "TASK_STOP"
                      /\ AtWork /\ Sound => Misses(m, remQ' = Append(remQ, "STOPPED")),
         refresh' \in BOOLEAN, acts' \in 0 .. MaxActs
  PROVE  IInv' /\ LoansKept
<1>0. Types /\ decoder.st # "Absent"
  BY DEF IInv, Lives, Modes
<1>1. remQ' \in Seq(RemindMsgs) /\ (remQ' = remQ \/ \E m \in {"REQUEST", "STOPPED"} : Gains(remQ, remQ', m))
  BY <1>0, RemindSent DEF Types, RemindMsgs
<1>2. /\ decQ' \in Seq(DecoderMsgs)
      /\ \/ decQ' = decQ
         \/ /\ decQ = <<>> /\ Follow(decQ') /\ ~In(decQ', "PAUSE")
            /\ decQ' # <<>> /\ Head(decQ') = "STOP"
  <2>1. CASE decQ' = decQ
    BY <1>0, <2>1 DEF Types
  <2>2. CASE decQ = <<>> /\ decQ' = Told(decQ, "STOP")
    <3>1. "STOP" \in DecoderMsgs /\ decQ = <<>>
      BY <2>2 DEF DecoderMsgs
    <3>2. LET r == Told(decQ, "STOP")
          IN  /\ r \in Seq(DecoderMsgs) /\ Follow(r) /\ ~In(r, "PAUSE")
              /\ r # <<>> /\ Head(r) = "STOP"
      BY <1>0, <3>1, ToldIs
    <3> QED BY <2>2, <3>2
  <2> QED BY <2>1, <2>2
<1>3. /\ appQ' \in Seq(AppMsgs)
      /\ \/ appQ' = appQ \/ Gains(appQ, appQ', "START")
         \/ \E m : /\ m # "TASK_STOP" /\ Loses(appQ, appQ', m)
                   /\ AtWork /\ Sound => Misses(m, In(remQ', "STOPPED"))
  <2>1. remQ' = Append(remQ, "STOPPED") => In(remQ', "STOPPED")
    BY <1>0, RemindSent DEF Gains, RemindMsgs
  <2> QED BY <1>0, <2>1, AppSent, DueIs DEF Types, AppMsgs, Misses
<1>4. Types'
  BY <1>0, <1>1, <1>2, <1>3 DEF Types, main
<1>5. Modes'
  BY <1>0 DEF main, IInv, Lives, Modes, Own, Lends, Switch
<1>6. Ends'
  BY <1>0, <1>1, <1>2, <1>3 DEF Gains, Loses, main, IInv, Lives, Ends, DecoderRuns, Ending,
     Call
<1>7. Resets'
  BY <1>0, <1>1, <1>2, <1>3 DEF Gains, Loses, main, IInv, Lives, Resets, DecoderRuns,
     Ending, Call
<1>8. Calls'
  BY <1>2 DEF IInv, Lives, Calls, Call, Lent, DecoderRuns
<1>9. Mains'
  BY <1>3 DEF Gains, Loses, main, IInv, Lives, Mains
<1>10. Owners'
  BY <1>2 DEF IInv, Hands, Owners, Asked, Call, Own, Lends, Switch, DecoderRuns, Active
<1>11. Cycle => Cycle'
  BY <1>1, <1>2, <1>3 DEF Gains, Loses, main, Cycle, Wanted, Asked, Call, Active, Switch
<1>12. Shares'
  BY <1>2, <1>11 DEF Shares, IInv, Hands, Own, DecoderRuns, Ending, Call
<1>13. Begins => Begins'
  <2>1. CASE appQ' = appQ \/ (appQ' = Tail(appQ) /\ \E m : Due(m))
    <3>1. appQ' = appQ \/ \E m : Loses(appQ, appQ', m)
      BY <1>0, <2>1, DueIs
    <3> QED BY <3>1 DEF Loses, Begins
  <2>2. CASE appQ' = Append(appQ, "START") /\ Bt
    BY <2>2 DEF Begins, Bt
  <2> QED BY <2>1, <2>2
<1>14. AtWork' => AtWork
  <2>1. In(remQ, "RESET") => In(remQ', "RESET")
    BY <1>1 DEF Gains
  <2>2. In(appQ, "TASK_STOP") => In(appQ', "TASK_STOP")
    BY <1>3 DEF Gains, Loses
  <2> QED BY <2>1, <2>2 DEF AtWork, WillReset, DecoderRuns
<1>15. Asked' <=> Asked
  BY <1>2 DEF Asked, Call
<1>16. Call = "PLAY" => Call' = "PLAY"
  BY <1>2 DEF Call
<1>17. In(decQ, "STOP") => In(decQ', "STOP")
  BY <1>2, EmptyQueue
<1>18. ASSUME AtWork, Sound
       PROVE  /\ Own /\ Wanted => Wanted'
              /\ Own /\ In(appQ, "DECODER_RESET") => In(appQ', "DECODER_RESET")
              /\ Lends /\ WillStop => WillStop'
              /\ Own /\ In(remQ, "PLAY") => In(remQ', "PLAY")
  <2>1. /\ In(remQ, "PLAY") => In(remQ', "PLAY")
        /\ In(remQ, "STOPPED") => In(remQ', "STOPPED")
    BY <1>1 DEF Gains
  <2>2. Own => /\ In(appQ, "NEED") => In(appQ', "NEED")
               /\ In(appQ, "DECODER_RESET") => In(appQ', "DECODER_RESET")
    BY <1>3, <1>18 DEF Gains, Loses, Misses
  <2>3. Lends /\ In(appQ, "DECODER_STOPPED") => In(appQ', "DECODER_STOPPED") \/ In(remQ', "STOPPED")
    BY <1>3, <1>18 DEF Gains, Loses, Misses
  <2>4. Fresh(mainQ, MState, "NEED") => Fresh(mainQ', MState', "NEED")
    BY DEF main
  <2> QED BY <1>17, <2>1, <2>2, <2>3, <2>4 DEF Wanted, WillStop
<1>19. Wanted' => Wanted
  BY <1>3 DEF Gains, Loses, main, Wanted
<1>20. LoansKept
  BY <1>13, <1>14, <1>15, <1>16, <1>18, <1>19, LoansStay
<1> QED BY <1>4, <1>5, <1>6, <1>7, <1>8, <1>9, <1>10, <1>12, <1>20 DEF IInv, Lives, Hands

\* Nothing that is withdrawn from the service is wanted by it.
Unasked == ~Switch /\ (Lends => remind.st \in {"STANDBY", "WAIT_DECODER"} /\ ~In(remQ, "PLAY"))

\* The mode begins to play: it takes the decoder, and withdraws what it had given.
LEMMA TakesUpKeeps ==
  ASSUME IInv, decQ = <<>>, Free, decoder' = [st |-> "Initialized", by |-> "app"],
         flags' = flags \ {"DecoderRemind", "DecoderSwitch"},
         decQ' \in Seq(DecoderMsgs), Follow(decQ'), Call' \in {"none", "PLAY"},
         app' \in AppStates, app'.kind = app.kind, app'.st = "Running", app'.wait = FALSE,
         \/ appQ' = appQ
         \/ appQ' = Tail(appQ) /\ \E m : Due(m) /\ m \notin {"TASK_STOP", "NEED"},
         UNCHANGED <<service, pcm, main, refresh, modes>>, acts' \in 0 .. MaxActs
  PROVE  IInv' /\ ((AtWork /\ Sound => Unasked) => LoansKept)
<1>0. /\ Types /\ decoder.st # "Absent" /\ MState # "None"
      /\ decoder' \in DecoderStates /\ decoder'.st = "Initialized" /\ decoder'.by = "app"
  BY DEF IInv, Lives, Modes, Free, DecoderStates, DecoderSts, Streams
<1>1. /\ appQ' \in Seq(AppMsgs)
      /\ appQ' = appQ \/ \E m : m \notin {"TASK_STOP", "NEED"} /\ Loses(appQ, appQ', m)
  BY <1>0, DueIs DEF Types
<1>2. Types'
  BY <1>0, <1>1 DEF Types, service, main
<1>3. Lives'
  BY <1>0, <1>1 DEF Loses, service, main, IInv, Lives, Modes, Ends, Resets, Calls, Mains,
     Ending, Call, Own, Lent, DecoderRuns
<1>4. Owners'
  BY <1>0 DEF Owners, Lends, Switch, Active
<1>5. Cycle => Cycle'
  BY <1>0, <1>1 DEF Loses, service, main, Cycle, Wanted, Asked, Call, Active, Switch
<1>6. Shares'
  BY <1>5 DEF Shares, IInv, Hands, Own, DecoderRuns, Ending, Call
<1>7. Begins => Begins'
  BY <1>1 DEF Loses, Begins
<1>8. AtWork' => AtWork
  BY <1>1 DEF Loses, service, AtWork, WillReset, DecoderRuns
<1>9. ASSUME Unasked, Sound PROVE Sound'
  <2>1. ~Lends' /\ ~Asked' /\ ~Asked /\ ~Active("remind")' /\ (Own' <=> Own)
    BY <1>0 DEF Lends, Asked, Call, Active, Own
  <2>2. remind.st \notin {"PLAY", "STOPPING", "STOPPED"}
    BY <1>9 DEF Sound, OnPlay, Unasked
  <2>3. remind.st = "WAIT_DECODER" => Own /\ Wanted
    BY <1>9, <2>1 DEF Sound, OnWait, Unasked
  <2>4. Wanted => Wanted'
    BY <1>1 DEF Loses, main, Wanted
  <2> QED BY <2>1, <2>2, <2>3, <2>4 DEF service, Sound, OnWait, OnLoan, OnPlay, OnRest
<1>10. Lost => Lost'
  BY <1>1 DEF Loses, service, main, Lost, Wanted, Lends, Switch
<1>11. (AtWork /\ Sound => Unasked) => LoansKept
  BY <1>7, <1>8, <1>9, <1>10, LoansFollow
<1> QED BY <1>2, <1>3, <1>4, <1>6, <1>11 DEF IInv, Hands

\* Behind the answer of a reset no prompt has the decoder.
LEMMA BackFromPrompt ==
  ASSUME IInv, Own, Due("DECODER_RESET")
  PROVE  ~Active("remind")
<1>1. decQ = <<>> /\ In(appQ, "DECODER_RESET")
  BY DueIs DEF Loses, IInv
<1>2. CASE ~DecoderRuns
  BY <1>2 DEF IInv, Hands, Owners
<1>3. CASE DecoderRuns
  BY <1>1, <1>3 DEF IInv, Hands, Shares, Cycle, Asked, Ending, Call
<1> QED BY <1>2, <1>3

\* The mode takes the decoder back, whether or not it has something to play.
LEMMA TakesBackKeeps ==
  ASSUME IInv, decQ = <<>>, MState # "None",
         flags' = flags \ {"DecoderRemind", "DecoderSwitch"},
         Own /\ Lends => ~Active("remind"),
         app' \in AppStates, app'.kind = app.kind,
         \/ app'.st = app.st /\ app'.wait = app.wait
         \/ app'.st = "Running" /\ app'.wait = FALSE,
         NEW q, q = appQ \/ (q = Tail(appQ) /\ \E m : Due(m) /\ m \notin {"TASK_STOP", "NEED"}),
         AtWork /\ Sound => Unasked,
         appQ' = q \/ appQ' = Append(q, "NEXT"),
         mainQ' = mainQ \/ mainQ' = Append(mainQ, "FAILURE"),
         UNCHANGED <<service, decoding, MState, refresh, modes>>, acts' \in 0 .. MaxActs
  PROVE  IInv' /\ LoansKept
<1>0. Types /\ decoder.st # "Absent"
  BY DEF IInv, Lives, Modes
<1>1. q \in Seq(AppMsgs) /\ (q = appQ \/ \E m : m \notin {"TASK_STOP", "NEED"} /\ Loses(appQ, q, m))
  BY <1>0, DueIs DEF Types
<1>2. appQ' \in Seq(AppMsgs) /\ (appQ' = q \/ Gains(q, appQ', "NEXT"))
  <2>1. Append(q, "NEXT") \in Seq(AppMsgs)
    BY <1>1 DEF AppMsgs
  <2> QED BY <1>1, <2>1, Appended
<1>3. /\ mainQ' \in Seq(MainMsgs)
      /\ \/ mainQ' = mainQ
         \/ Gains(mainQ, mainQ', "FAILURE") /\ FreshGains(mainQ, mainQ', MState, "FAILURE")
  BY <1>0, MainSent DEF Types, MainMsgs
<1>4. Types'
  BY <1>0, <1>1, <1>2, <1>3 DEF Types, service, decoding
<1>5. \A m : m # "NEXT" =>
        /\ In(appQ', m) => In(appQ, m)
        /\ Once(appQ, m) => Once(appQ', m)
        /\ m \in {"TASK_STOP", "NEED"} => (In(appQ', m) <=> In(appQ, m))
  BY <1>1, <1>2 DEF Loses, Gains
<1>6. Before(appQ, "DECODER_RESET", "NEED") => Before(appQ', "DECODER_RESET", "NEED")
  BY <1>1, <1>2 DEF Loses, Gains
<1>7. Lives'
  BY <1>0, <1>3, <1>5, EmptyQueue DEF Gains, FreshGains, service, decoding, IInv, Lives,
     Modes, Ends, Resets, Calls, Mains, Ending, Call, Own, Lends, Switch, DecoderRuns
<1>8. Owners'
  BY DEF decoding, IInv, Hands, Owners, Own, Lends, Switch, DecoderRuns, Active
<1>9. Cycle => Cycle'
  BY <1>3, <1>5, <1>6 DEF FreshGains, service, decoding, Cycle, Wanted, Asked, Call, Active,
     Switch
<1>10. Shares'
  BY <1>9 DEF decoding, Shares, IInv, Hands, Own, DecoderRuns, Ending, Call
<1>11. Begins => Begins'
  BY <1>5 DEF Begins
<1>12. AtWork' => AtWork
  BY <1>5 DEF service, AtWork, WillReset, DecoderRuns
<1>13. ASSUME AtWork, Sound PROVE Sound'
  <2>1. ~Lends' /\ ~Asked' /\ ~Asked /\ (Active("remind")' <=> Active("remind")) /\ (Own' <=> Own)
    BY DEF decoding, Lends, Asked, Call, Active, Own
  <2>2. remind.st \notin {"PLAY", "STOPPING", "STOPPED"}
    BY <1>13 DEF Sound, OnPlay, Unasked
  <2>3. remind.st = "WAIT_DECODER" => Own /\ Wanted
    BY <1>13, <2>1 DEF Sound, OnWait, Unasked
  <2>4. Wanted => Wanted'
    BY <1>3, <1>5 DEF FreshGains, Wanted
  <2>5. OnRest'
    BY <1>13, <2>1 DEF service, Sound, OnRest
  <2> QED BY <2>1, <2>2, <2>3, <2>4, <2>5 DEF service, Sound, OnWait, OnLoan, OnPlay
<1>14. Lost => Lost'
  <2>1. Wanted' => Wanted
    BY <1>3, <1>5 DEF FreshGains, Wanted
  <2> QED BY <2>1 DEF service, Lost, Lends, Switch
<1>15. LoansKept
  BY <1>11, <1>12, <1>13, <1>14, LoansFollow
<1> QED BY <1>4, <1>7, <1>8, <1>10, <1>15 DEF IInv, Hands

\* The decoder is free, and the mode gives it to the service that waits.
LEMMA GivesOutKeeps ==
  ASSUME IInv, Due("DECODER_RESET"), Own, Switch, appQ' = Tail(appQ),
         flags' = (flags \cup {"DecoderRemind"}) \ {"DecoderSwitch"},
         remQ' = Append(remQ, "PLAY"), app' \in AppStates, app'.kind = app.kind,
         app'.st = app.st, app'.wait = app.wait, app.st = "Running",
         UNCHANGED <<remind, decoding, main, rest>>
  PROVE  IInv' /\ LoansKept
<1>0. Types /\ MState # "None"
  BY DEF IInv, Lives, Modes
<1>1. appQ' \in Seq(AppMsgs) /\ Loses(appQ, appQ', "DECODER_RESET") /\ decQ = <<>>
  BY <1>0, DueIs
<1>2. remQ' \in Seq(RemindMsgs) /\ Gains(remQ, remQ', "PLAY")
  BY <1>0, RemindSent DEF RemindMsgs
<1>3. flags' \subseteq SoftFlags
  BY <1>0 DEF Types, SoftFlags
<1>4. Types'
  BY <1>0, <1>1, <1>2, <1>3 DEF Types, decoding, main, rest
<1>5. Lives'
  BY <1>0, <1>1, <1>2, EmptyQueue DEF Gains, Loses, decoding, main, IInv, Lives, Modes,
     Ends, Resets, Calls, Mains, Ending, Call, Own, DecoderRuns
<1>6. Owners'
  BY <1>1 DEF decoding, IInv, Hands, Owners, Asked, Call, Lends, DecoderRuns, Active
<1>7. Cycle => Cycle'
  BY <1>1, <1>2 DEF Gains, Loses, decoding, main, Cycle, Wanted, Asked, Call, Active, Switch
<1>8. Shares'
  BY <1>7 DEF decoding, Shares, IInv, Hands, Own, DecoderRuns, Ending, Call
<1>9. Begins => Begins'
  BY <1>1 DEF Loses, main, Begins
<1>10. AtWork' => AtWork
  BY <1>1, <1>2 DEF Gains, Loses, AtWork, WillReset, DecoderRuns
<1>11. AtWork => Sound'
  <2> SUFFICES ASSUME AtWork PROVE Sound'
    OBVIOUS
  <2>1. remind.st = "WAIT_DECODER"
    BY AtWorkIs DEF Cycle
  <2>2. Lends' /\ Own' /\ In(remQ', "PLAY")
    BY <1>2 DEF Gains, Lends, Own
  <2> QED BY <2>1, <2>2 DEF Sound, OnWait, OnLoan, OnPlay, OnRest
<1>12. LoansKept
  BY <1>9, <1>10, <1>11, LoansFollow DEF Lost
<1> QED BY <1>4, <1>5, <1>6, <1>8, <1>12 DEF IInv, Hands

-----------------------------------------------------------------------------
(* The steps of the mode and of the stack. *)

\* At the decoder's answer no prompt has it, nor is the service told to take it.
LEMMA Answered ==
  ASSUME IInv, AtWork, Own, Due("DECODER_RESET")
  PROVE  remind.st \in {"STANDBY", "WAIT_DECODER"} /\ ~In(remQ, "PLAY")
<1>1. Cycle
  BY AtWorkIs
<1>2. In(appQ, "DECODER_RESET")
  BY DueIs DEF Loses, IInv
<1> QED BY <1>1, <1>2 DEF Cycle

LEMMA Requested ==
  ASSUME Types, ItemRequest(FALSE)
  PROVE  /\ remind' \in RemindStates /\ remind'.st = remind.st /\ remind'.at = remind.at
         /\ remind'.blk = remind.blk /\ remQ' = Append(remQ, "REQUEST")
<1>1. remind' = [remind EXCEPT !.req = TRUE] /\ remQ' = Append(remQ, "REQUEST")
  BY DEF ItemRequest
<1> QED BY <1>1, RemindReq DEF Types

LEMMA ActIs ==
  ASSUME Types, Act PROVE acts' \in 0 .. MaxActs /\ modes' = modes
BY BoundAssumption DEF Types, Act

LEMMA ToldToPlay ==
  ASSUME Types, decQ = <<>>, decQ' = decQ \/ decQ' = Told(decQ, "PLAY")
  PROVE  decQ' \in Seq(DecoderMsgs) /\ Follow(decQ') /\ Call' \in {"none", "PLAY"}
BY ToldIs, EmptyQueue DEF Types, DecoderMsgs, Call

\* The one mode that blocks with its request has no decoder of its own, and finds the list
\* empty: only a mode that starts does so.
LEMMA ModeStartsKeeps == ASSUME IInv, ModeStarts PROVE IInv' /\ LoansKept
<1>0. /\ Types /\ app.st = "Starting" /\ ~Media /\ app \in AppStates /\ decQ = <<>>
      /\ MState # "None" /\ UNCHANGED <<decoding, flags, appQ, main, rest>>
  BY DEF IInv, Types, Lives, Modes, ModeStarts, Preempted
<1>1. PICK app2 \in AppStates :
        /\ app' = app2 /\ app2.kind = app.kind /\ app2.wait = app.wait /\ app2.st = "Running"
  <2>1. \/ app' = [app EXCEPT !.st = "Running"]
        \/ app' = [app EXCEPT !.st = "Running", !.muted = app.muted /\ Bt]
    BY DEF ModeStarts
  <2>2. (app.muted /\ Bt) \in BOOLEAN
    BY <1>0, AppFields DEF Bt
  <2>3. CASE app' = [app EXCEPT !.st = "Running"]
    <3>1. "Running" \in AppSts
      BY DEF AppSts
    <3> QED BY <1>0, <2>3, <3>1, AppSt, Zenon
  <2>4. CASE app' = [app EXCEPT !.st = "Running", !.muted = app.muted /\ Bt]
    <3>1. PICK b \in BOOLEAN : app' = [app EXCEPT !.st = "Running", !.muted = b]
      BY <2>2, <2>4
    <3>2. "Running" \in AppSts
      BY DEF AppSts
    <3>3. /\ app' \in AppStates /\ app'.kind = app.kind /\ app'.wait = app.wait
          /\ app'.st = "Running"
      BY <1>0, <3>1, <3>2, AppStMuted
    <3> QED BY <3>3
  <2> QED BY <2>1, <2>3, <2>4
<1>2. CASE ItemRequest(FALSE) \/ UNCHANGED service
  <2>1. /\ remind' \in RemindStates /\ remind'.st = remind.st /\ remind'.at = remind.at
        /\ remind'.blk = remind.blk /\ (remQ' = remQ \/ remQ' = Append(remQ, "REQUEST"))
    BY <1>0, <1>2, Requested DEF Types, service
  <2>2. refresh' \in BOOLEAN /\ acts' \in 0 .. MaxActs
    BY <1>0 DEF Types, rest
  <2> QED BY <1>0, <1>1, <2>1, <2>2, AsideKeeps DEF decoding, rest
<1>3. CASE ~Bt /\ ItemRequest(TRUE)
  <2>1. app.kind = "Line"
    BY <1>0, <1>3, KindAssumption, AppFields DEF ModeKinds, Bt, Media, IInv, Lives, Modes
  <2>2. DecoderRuns /\ ~Ending /\ ~In(remQ, "RESET") /\ remind.blk = 0
    BY <1>0 DEF IInv, Lives, Ends, Resets
  <2>3. remind' = [remind EXCEPT !.blk = 1] /\ remQ' = Append(remQ, "REQUEST")
    BY <1>3, <2>2 DEF ItemRequest
  <2>4. /\ remind' \in RemindStates /\ remind'.st = remind.st /\ remind'.at = remind.at
        /\ remind'.blk = 1
    <3>1. 1 \in 0 .. 1 /\ remind \in RemindStates
      BY <1>0 DEF Types
    <3> QED BY <2>3, <3>1, RemindBlk
  <2>5. remQ' \in Seq(RemindMsgs) /\ Gains(remQ, remQ', "REQUEST")
    BY <1>0, <2>3, RemindSent DEF RemindMsgs
  <2>6. Types'
    BY <1>0, <1>1, <2>4, <2>5 DEF Types, decoding, main, rest
  <2>7. Lives'
    BY <1>0, <1>1, <2>1, <2>2, <2>4, <2>5 DEF Gains, decoding, main, IInv, Lives, Modes,
       Ends, Resets, Calls, Mains, Ending, Call, Own, Lends, Switch, DecoderRuns
  <2>8. ~Own
    BY <2>1 DEF IInv, Lives, Modes
  <2>9. Hands'
    BY <1>0, <2>8 DEF decoding, Shares, IInv, Hands, Owners, Asked, Call, Own, Switch,
       DecoderRuns, Active
  <2>10. LoansKept
    BY <1>0, <1>1, <2>4, <2>5, <2>8, LoansStay DEF Gains, decoding, main, IInv, Bt, Begins, AtWork,
       WillReset, WillStop, Wanted, Asked, Call, Own, Lends, Switch, DecoderRuns
  <2> QED BY <2>6, <2>7, <2>9, <2>10 DEF IInv
<1> QED BY <1>2, <1>3 DEF ModeStarts

LEMMA AsksKeeps == ASSUME IInv, Asks PROVE IInv' /\ LoansKept
<1>0. Types /\ MState # "None" /\ ItemRequest(FALSE) /\ UNCHANGED <<decoding, flags, mode, main, refresh>> /\ Act
  BY DEF IInv, Lives, Modes, Asks, Runs
<1>1. /\ remind' \in RemindStates /\ remind'.st = remind.st /\ remind'.at = remind.at
      /\ remind'.blk = remind.blk /\ remQ' = Append(remQ, "REQUEST")
  BY <1>0, Requested
<1>2. acts' \in 0 .. MaxActs /\ modes' = modes /\ app \in AppStates /\ refresh \in BOOLEAN
  BY <1>0, ActIs DEF Types
<1> QED BY <1>0, <1>1, <1>2, AsideKeeps DEF decoding, mode

\* The decoder is wanted: a player that has not begun gives it at once, a mode at work has it
\* reset first.
LEMMA HandleNeedKeeps == ASSUME IInv, HandleNeed PROVE IInv' /\ LoansKept
<1>0. /\ Types /\ Due("NEED") /\ appQ' = Tail(appQ) /\ app \in AppStates
      /\ UNCHANGED <<remind, decoder, pcm, main, rest>>
  BY DEF IInv, Types, HandleNeed, Hears
<1>1. /\ appQ' \in Seq(AppMsgs) /\ Loses(appQ, appQ', "NEED") /\ decQ = <<>>
      /\ app.st \notin {"none", "Starting"}
  BY <1>0, DueIs
<1>2. MState # "None" /\ decoder.st # "Absent"
  BY <1>1 DEF IInv, Lives, Modes
<1>0w. /\ AtWork /\ Own => Cycle /\ remind.st = "WAIT_DECODER"
       /\ app'.kind = app.kind /\ Begins => Begins'
       /\ ~Lost
  <2>1. AtWork /\ Own => Cycle /\ remind.st = "WAIT_DECODER"
    BY <1>1, AtWorkIs DEF Loses, Cycle, Wanted
  <2>2. app'.kind = app.kind /\ Begins => Begins'
    BY <1>1 DEF Loses, Begins
  <2>3. ~Lost
    BY <1>1 DEF Loses, Lost, Wanted
  <2> QED BY <2>1, <2>2, <2>3
<1>3. CASE app.wait /\ FirstPrompt
  <2>1. /\ flags' = flags \cup {"DecoderRemind"} /\ remQ' = Append(remQ, "PLAY")
        /\ app' = [app EXCEPT !.muted = TRUE] /\ decQ' = decQ
    BY <1>3 DEF FirstPrompt
  <2>2. /\ app' \in AppStates /\ app'.kind = app.kind /\ app'.st = app.st /\ app'.wait = app.wait
    BY <1>0, <2>1, AppMuted
  <2>3. remQ' \in Seq(RemindMsgs) /\ Gains(remQ, remQ', "PLAY")
    BY <1>0, <2>1, RemindSent DEF RemindMsgs
  <2>4. decoder.by # "app" /\ flags' \subseteq SoftFlags
    BY <1>0, <1>3, <2>1 DEF IInv, Lives, Modes, Types, SoftFlags
  <2>5. Types'
    BY <1>0, <1>1, <2>1, <2>2, <2>3, <2>4 DEF Types, main, rest
  <2>6. Lives'
    BY <1>0, <1>1, <1>2, <2>1, <2>2, <2>3, EmptyQueue DEF Gains, Loses, main, IInv, Lives,
       Modes, Ends, Resets, Calls, Mains, Ending, Call, Own, Switch, DecoderRuns
  <2>7. Owners'
    BY <1>0, <2>1, <2>4 DEF IInv, Hands, Owners, Lends, DecoderRuns, Active
  <2>8. Cycle => Cycle'
    BY <1>0, <1>1, <2>1, <2>3 DEF Gains, Loses, main, Cycle, Wanted, Asked, Call, Active,
       Switch
  <2>9. Shares'
    BY <2>1, <2>8 DEF Shares, IInv, Hands, Own, DecoderRuns, Ending, Call
  <2>10. AtWork' => AtWork
    BY <1>1, <2>1, <2>3 DEF Gains, Loses, AtWork, WillReset, DecoderRuns
  <2>11. ASSUME AtWork PROVE Sound'
    <3>1. Own /\ Own' /\ Lends' /\ In(remQ', "PLAY")
      BY <1>3, <2>1, <2>3 DEF Gains, IInv, Lives, Modes, Own, Lends
    <3>2. remind'.st = "WAIT_DECODER"
      BY <1>0, <1>0w, <2>11, <3>1
    <3> QED BY <3>1, <3>2 DEF Sound, OnWait, OnLoan, OnPlay, OnRest
  <2>12. LoansKept
    BY <1>0w, <2>2, <2>10, <2>11, LoansFollow
  <2> QED BY <2>5, <2>6, <2>7, <2>9, <2>12 DEF IInv, Hands
<1>4. CASE ~app.wait /\ Runs /\ (Bt \/ Media) /\ ~Lent /\ NeedDecoder
  <2>1. /\ flags' = flags \cup {"DecoderSwitch"} /\ decQ' = Told(decQ, "RESET")
        /\ app' = [app EXCEPT !.muted = TRUE] /\ remQ' = remQ
    BY <1>4 DEF NeedDecoder
  <2>2. /\ app' \in AppStates /\ app'.kind = app.kind /\ app'.st = app.st /\ app'.wait = app.wait
    BY <1>0, <2>1, AppMuted
  <2>3. /\ decQ' \in Seq(DecoderMsgs) /\ Follow(decQ') /\ ~In(decQ', "PAUSE")
        /\ decQ' # <<>> /\ Head(decQ') = "RESET"
    BY <1>1, <1>2, <2>1, ToldIs DEF DecoderMsgs
  <2>4. flags' \subseteq SoftFlags
    BY <1>0, <2>1 DEF Types, SoftFlags
  <2>5. Types'
    BY <1>0, <1>1, <2>1, <2>2, <2>3, <2>4 DEF Types, main, rest
  <2>6. Lives'
    BY <1>0, <1>1, <1>2, <1>4, <2>1, <2>2, <2>3, EmptyQueue DEF Loses, Runs, main, IInv,
       Lives, Modes, Ends, Resets, Calls, Mains, Ending, Call, Own, Lends, DecoderRuns
  <2>7. Owners'
    BY <1>0, <2>1, <2>3 DEF IInv, Hands, Owners, Asked, Call, Own, Lends, DecoderRuns,
       Active
  <2>8. Cycle => Cycle'
    BY <1>0, <1>1, <2>1, <2>3 DEF Loses, main, Cycle, Wanted, Asked, Call, Active, Switch
  <2>9. Shares'
    BY <1>1, <2>1, <2>8 DEF Shares, IInv, Hands, Own, DecoderRuns, Ending, Call
  <2>10. AtWork' => AtWork
    BY <1>1, <2>1 DEF Loses, AtWork, WillReset, DecoderRuns
  <2>11. ASSUME AtWork PROVE Sound'
    <3>1. Own /\ Own' /\ ~Lends' /\ Switch' /\ Asked'
      BY <1>4, <2>1, <2>3, SwitchOff DEF IInv, Lives, Modes, Bt, Media, Own, Lends, Switch, Asked, Call
    <3>2. remind'.st = "WAIT_DECODER"
      BY <1>0, <1>0w, <2>11, <3>1
    <3> QED BY <3>1, <3>2 DEF Sound, OnWait, OnLoan, OnPlay, OnRest
  <2>12. LoansKept
    BY <1>0w, <2>2, <2>10, <2>11, LoansFollow
  <2> QED BY <2>5, <2>6, <2>7, <2>9, <2>12 DEF IInv, Hands
<1>5. CASE ~app.wait /\ ~(Runs /\ (Bt \/ Media) /\ ~Lent) /\ UNCHANGED <<flags, decQ, app, remQ>>
  <2>1. refresh \in BOOLEAN /\ acts \in 0 .. MaxActs /\ remind \in RemindStates
    BY <1>0 DEF Types
  <2>2. ASSUME AtWork, Sound PROVE ~Own
    <3> SUFFICES ASSUME Own PROVE FALSE
      OBVIOUS
    <3>1. app.st = "Running" /\ Cycle
      BY <1>1, <1>5, <2>2, AtWorkIs
    <3>2. Lent
      BY <1>5, <3>1 DEF Runs, Bt, Media, IInv, Lives, Modes
    <3>3. /\ remind.st = "WAIT_DECODER" /\ ~In(remQ, "PLAY") /\ ~Switch /\ ~Asked
          /\ ~In(appQ, "DECODER_RESET")
      BY <1>1, <3>1 DEF Loses, Cycle, Wanted
    <3> QED BY <2>2, <3>2, <3>3, SwitchOff DEF Sound, OnLoan
  <2>3. AtWork /\ Sound => Misses("NEED", remQ' = Append(remQ, "STOPPED"))
    BY <2>2 DEF Misses
  <2>4. "NEED" # "TASK_STOP"
    OBVIOUS
  <2> QED BY <1>0, <1>2, <1>5, <2>1, <2>3, <2>4, AsideKeeps DEF rest
<1> QED BY <1>3, <1>4, <1>5 DEF HandleNeed

LEMMA HandleDecoderResetKeeps == ASSUME IInv, HandleDecoderReset PROVE IInv' /\ LoansKept
<1>0. /\ Types /\ Due("DECODER_RESET") /\ appQ' = Tail(appQ) /\ app \in AppStates
      /\ UNCHANGED <<remind, decoding, main, rest>>
      /\ refresh \in BOOLEAN /\ acts \in 0 .. MaxActs /\ remind \in RemindStates
      /\ ~Media
  BY DEF IInv, Types, HandleDecoderReset, Hears
<1>1. decQ = <<>> /\ app.st \notin {"none", "Starting"}
  BY <1>0, DueIs
<1>2. MState # "None"
  BY <1>1 DEF IInv, Lives, Modes
<1>3. CASE Runs /\ Bt /\ "DecoderSwitch" \in flags /\ GiveOut
  <2>1. Own /\ Switch /\ app.st = "Running"
    BY <1>3 DEF IInv, Lives, Modes, Bt, Runs, Switch
  <2> QED BY <1>0, <1>3, <2>1, GivesOutKeeps DEF GiveOut
<1>4. CASE Runs /\ Bt /\ "DecoderSwitch" \notin flags /\ TakeBack
  <2>1. app' = [app EXCEPT !.sbc = FALSE] /\ remQ' = remQ
        /\ flags' = flags \ {"DecoderRemind", "DecoderSwitch"}
    BY <1>4 DEF TakeBack
  <2>2. /\ app' \in AppStates /\ app'.kind = app.kind /\ app'.st = app.st /\ app'.wait = app.wait
    BY <1>0, <2>1, AppSbc
  <2>3. Own => ~Active("remind")
    BY <1>0, BackFromPrompt
  <2>4. "DECODER_RESET" \notin {"TASK_STOP", "NEED"}
    OBVIOUS
  <2>5. /\ Own /\ ~Switch
        /\ AtWork => Unasked
    BY <1>0, <1>4, Answered DEF Bt, IInv, Lives, Modes, Switch, Unasked
  <2> QED BY <1>0, <1>1, <1>2, <2>1, <2>2, <2>3, <2>4, <2>5, TakesBackKeeps
       DEF service, main, rest
<1>5. CASE ~(Runs /\ Bt) /\ UNCHANGED <<flags, remQ, app>>
  <2>1. AtWork => ~Own
    BY <1>0, <1>1, <1>5, AtWorkIs DEF Runs, Bt, Media, IInv, Lives, Modes
  <2>2. AtWork => Misses("DECODER_RESET", remQ' = Append(remQ, "STOPPED"))
    BY <2>1 DEF Misses
  <2>3. "DECODER_RESET" # "TASK_STOP"
    OBVIOUS
  <2> QED BY <1>0, <1>2, <1>5, <2>2, <2>3, AsideKeeps DEF decoding, rest
<1> QED BY <1>3, <1>4, <1>5 DEF HandleDecoderReset

LEMMA HeardAsideKeeps ==
  ASSUME IInv, HandleDecoderStopped \/ HandleDone PROVE IInv' /\ LoansKept
<1>0. Types /\ remind \in RemindStates /\ app \in AppStates /\ refresh \in BOOLEAN /\ acts \in 0 .. MaxActs
  BY DEF IInv, Types
<1>1. PICK m \in {"DECODER_STOPPED", "DONE", "FAIL"} : Due(m) /\ appQ' = Tail(appQ)
  BY DEF HandleDecoderStopped, HandleDone, Hears
<1>2. app.st # "none" /\ MState # "None"
  BY <1>0, <1>1, DueIs DEF IInv, Lives, Modes
<1>3. UNCHANGED <<remind, decoding, flags, main, rest>> /\ (remQ' = remQ \/ remQ' = Append(remQ, "STOPPED"))
  BY DEF HandleDecoderStopped, HandleDone, service
<1>4. /\ app' \in AppStates /\ app'.kind = app.kind /\ app'.st = app.st /\ app'.wait = app.wait
  <2>1. CASE app' = app
    BY <1>0, <2>1
  <2>2. CASE app' = [app EXCEPT !.muted = app.muted /\ Bt /\ Head(appQ) = "FAIL"]
    BY <1>0, <2>2, AppFields, AppMuted DEF Bt
  <2> QED BY <2>1, <2>2 DEF HandleDecoderStopped, HandleDone
<1>5. AtWork => Misses(m, remQ' = Append(remQ, "STOPPED"))
  <2>1. CASE HandleDone
    <3>1. Head(appQ) = m /\ Head(appQ) \in {"DONE", "FAIL"}
      BY <1>1, <2>1 DEF HandleDone, Hears, Due
    <3> QED BY <3>1 DEF Misses
  <2>2. CASE HandleDecoderStopped
    <3>1. AtWork => Runs
      BY <1>0, <1>1, <2>2, DueIs, AtWorkIs DEF HandleDecoderStopped, Runs, Media, IInv, Lives, Modes
    <3> QED BY <2>2, <3>1 DEF HandleDecoderStopped, Misses, Lends
  <2> QED BY <2>1, <2>2
<1> QED BY <1>0, <1>1, <1>2, <1>3, <1>4, <1>5, AsideKeeps DEF decoding, rest

\* The one step that may take from the service what it waits for or has: then it has
\* nothing left, and its wait is Lost.
LEMMA HandleDecoderStartKeeps ==
  ASSUME IInv, HandleDecoderStart PROVE IInv' /\ (Loans /\ Remember => Loans')
<1>0. /\ Types /\ Due("START") /\ appQ' = Tail(appQ) /\ app \in AppStates
      /\ UNCHANGED <<service, pcm, main, rest>>
      /\ refresh \in BOOLEAN /\ acts \in 0 .. MaxActs /\ remind \in RemindStates
  BY DEF IInv, Types, HandleDecoderStart, Hears
<1>1. decQ = <<>> /\ app.st \notin {"none", "Starting"}
  BY <1>0, DueIs
<1>2. MState # "None"
  BY <1>1 DEF IInv, Lives, Modes
<1>0m. "START" # "TASK_STOP" /\ Misses("START", remQ' = Append(remQ, "STOPPED"))
  BY DEF Misses
<1>0k. flags' = flags /\ Remember => Keeps
  BY DEF Remember, Keeps, Robs, Lent
<1>3. CASE /\ Runs /\ Free /\ decoder' = [st |-> "Initialized", by |-> "app"]
           /\ flags' = flags \ {"DecoderRemind", "DecoderSwitch"}
           /\ \E next \in {<<"PLAY">>, <<"PLAY", "PAUSE">>, <<"PLAY", "STOP">>} :
                /\ decQ' = decQ \o next
                /\ app' = [app EXCEPT !.sbc = TRUE, !.muted = next = <<"PLAY", "STOP">>]
  <2>1. PICK next \in {<<"PLAY">>, <<"PLAY", "PAUSE">>, <<"PLAY", "STOP">>} :
          /\ decQ' = decQ \o next
          /\ app' = [app EXCEPT !.sbc = TRUE, !.muted = next = <<"PLAY", "STOP">>]
    BY <1>3
  <2>2. decQ' = next
    BY <1>1, <2>1
  <2>3. decQ' \in Seq(DecoderMsgs) /\ Follow(decQ') /\ Call' \in {"none", "PLAY"}
    <3>1. CASE next = <<"PLAY">>
      BY <2>2, <3>1 DEF DecoderMsgs, Follow, Call
    <3>2. CASE next = <<"PLAY", "PAUSE">>
      BY <2>2, <3>2 DEF DecoderMsgs, Follow, Call
    <3>3. CASE next = <<"PLAY", "STOP">>
      BY <2>2, <3>3 DEF DecoderMsgs, Follow, Call
    <3> QED BY <3>1, <3>2, <3>3
  <2>4. (next = <<"PLAY", "STOP">>) \in BOOLEAN
    OBVIOUS
  <2>5. /\ app' \in AppStates /\ app'.kind = app.kind /\ app'.st = app.st /\ app'.wait = app.wait
    BY <1>0, <2>1, <2>4, AppSbcMuted
  <2>6. app'.st = "Running" /\ app'.wait = FALSE
    BY <1>0, <1>3, <2>5, AppFields DEF Runs, IInv, Lives, Modes
  <2>7. "START" \notin {"TASK_STOP", "NEED"}
    OBVIOUS
  <2>8. IInv' /\ ((AtWork /\ Sound => Unasked) => LoansKept)
    BY <1>0, <1>1, <1>3, <2>3, <2>5, <2>6, <2>7, TakesUpKeeps DEF rest
  <2>9. /\ In(appQ, "START") /\ (Begins => Begins') /\ (Wanted' => Wanted)
        /\ remind' = remind /\ ~Lends' /\ ~Switch' /\ ~Lent'
    <3>1. Loses(appQ, appQ', "START")
      BY <1>0, DueIs
    <3> QED BY <1>0, <1>3, <2>5, <3>1
         DEF Loses, service, main, Begins, Wanted, Lends, Switch, Lent
  <2>10. CASE Lent /\ ~Wanted /\ remind.st # "STANDBY"
    <3>1. Robs
      BY <2>9, <2>10 DEF Robs
    <3>2. Remember => robbed'
      BY <2>9, <2>10, <3>1 DEF Remember
    <3> QED BY <2>8, <2>9, <2>10, <3>2 DEF Loans, Lost
  <2>11. CASE ~Lent \/ Wanted \/ remind.st = "STANDBY"
    <3>1. Remember => Keeps
      BY <2>9, <2>11 DEF Remember, Keeps, Robs
    <3>2. ASSUME Begins, AtWork PROVE Unasked
      <4>1. Own
        BY <2>9, <3>2 DEF Begins, IInv, Lives, Modes
      <4>2. Cycle
        BY <3>2, <4>1, AtWorkIs
      <4> QED BY <2>11, <4>2, SwitchOff DEF Cycle, Unasked
    <3> QED BY <2>8, <3>1, <3>2 DEF Loans, LoansKept
  <2> QED BY <2>10, <2>11
<1>4. CASE app' = [app EXCEPT !.sbc = FALSE, !.muted = FALSE] /\ UNCHANGED <<decoder, decQ, flags>>
  <2>1. /\ app' \in AppStates /\ app'.kind = app.kind /\ app'.st = app.st /\ app'.wait = app.wait
    BY <1>0, <1>4, AppSbcMuted
  <2>2. IInv' /\ LoansKept
    BY <1>0, <1>2, <1>0m, <1>4, <2>1, AsideKeeps DEF service, rest
  <2> QED BY <1>0k, <1>4, <2>2 DEF LoansKept
<1>5. CASE UNCHANGED <<decoder, decQ, flags, app>>
  <2>1. IInv' /\ LoansKept
    BY <1>0, <1>2, <1>0m, <1>5, AsideKeeps DEF service, rest
  <2> QED BY <1>0k, <1>5, <2>1 DEF LoansKept
<1> QED BY <1>3, <1>4, <1>5 DEF HandleDecoderStart

\* The player changed, a stream came, or another task begins to have the stream stopped.
LEMMA StreamsKeep ==
  ASSUME IInv, PlayerChanges \/ RefreshBegins \/ StreamComes PROVE IInv' /\ LoansKept
<1>0. /\ Types /\ Act /\ MState # "None" /\ remind \in RemindStates /\ app \in AppStates
      /\ refresh \in BOOLEAN
  BY DEF IInv, Types, Lives, Modes, PlayerChanges, RefreshBegins, StreamComes, Runs
<1>1. acts' \in 0 .. MaxActs /\ modes' = modes
  BY <1>0, ActIs
<1>2. /\ UNCHANGED <<service, decoder, pcm, flags, main>> /\ refresh' \in BOOLEAN
      /\ appQ' = appQ \/ (appQ' = Append(appQ, "START") /\ Bt /\ ~Lent)
      /\ decQ' = decQ \/ (decQ = <<>> /\ decQ' = Told(decQ, "STOP"))
  BY <1>0 DEF PlayerChanges, RefreshBegins, StreamComes, Preempted, decoding
<1>3. /\ app' \in AppStates /\ app'.kind = app.kind /\ app'.st = app.st /\ app'.wait = app.wait
  <2>1. CASE app' = [app EXCEPT !.sbc = FALSE, !.muted = TRUE]
    BY <1>0, <2>1, AppSbcMuted
  <2>2. CASE app' = [app EXCEPT !.muted = TRUE]
    BY <1>0, <2>2, AppMuted
  <2>3. CASE app' = [app EXCEPT !.sbc = TRUE]
    BY <1>0, <2>3, AppSbc
  <2> QED BY <2>1, <2>2, <2>3 DEF PlayerChanges, RefreshBegins, StreamComes
<1> QED BY <1>0, <1>1, <1>2, <1>3, AsideKeeps DEF service

\* It ends 20 ms later, whatever the decoder was told, and is doing, meanwhile.
LEMMA RefreshEndsKeeps == ASSUME IInv, RefreshEnds PROVE IInv' /\ LoansKept
<1>0. /\ Types /\ app \in AppStates /\ decQ \in Seq(DecoderMsgs) /\ refresh' = FALSE
      /\ UNCHANGED <<service, decoder, pcm, flags, appQ, main, acts, modes>>
      /\ decQ' = Told(decQ, "STOP") /\ app' = [app EXCEPT !.sbc = app.sbc /\ Lent]
  BY DEF IInv, Types, RefreshEnds
<1>1. /\ app' \in AppStates /\ app'.kind = app.kind /\ app'.st = app.st /\ app'.wait = app.wait
  <2>1. PICK b \in BOOLEAN : app' = [app EXCEPT !.sbc = b]
    BY <1>0, AppFields
  <2> QED BY <1>0, <2>1, AppSbc
<1>2. MState = "None" => app' = NoMode /\ decQ' = decQ
  <2> SUFFICES ASSUME MState = "None" PROVE app' = NoMode /\ decQ' = decQ
    OBVIOUS
  <2>1. app = NoMode /\ decoder.st = "Absent"
    BY DEF IInv, Lives, Modes
  <2> QED BY <1>0, <2>1 DEF NoMode, Told
<1>3. CASE decoder.st = "Absent"
  <2>1. MState = "None"
    BY <1>3 DEF IInv, Lives, Modes
  <2>2. Types'
    BY <1>0, <1>1, <1>2, <2>1 DEF Types, service, main
  <2>3. Lives'
    BY <1>0, <1>1, <1>2, <2>1 DEF service, main, IInv, Lives, Modes, Ends, Resets, Calls,
       Mains, Ending, Call, Own, Lends, Switch, Lent, DecoderRuns
  <2>4. Hands'
    BY <1>0, <1>2, <2>1 DEF service, main, IInv, Hands, Shares, Cycle, Wanted, Owners,
       Asked, Ending, Call, Own, Lends, Switch, Lent, DecoderRuns, Active
  <2>5. LoansKept
    BY <1>0, <1>2, <2>1, LoansStay DEF service, main, IInv, Begins, AtWork, WillReset, WillStop,
       Wanted, Asked, Call, Lends, Switch, DecoderRuns
  <2> QED BY <2>2, <2>3, <2>4, <2>5 DEF IInv
<1>4. CASE decoder.st # "Absent"
  <2>1. /\ decQ' = Append(decQ, "STOP") /\ decQ' \in Seq(DecoderMsgs) /\ Gains(decQ, decQ', "STOP")
        /\ decQ' # <<>>
    BY <1>0, <1>4, Appended DEF Told, DecoderMsgs
  <2>2. Call' = IF decQ = <<>> THEN "STOP" ELSE Call
    BY <1>0, <2>1 DEF Call
  <2>3. Follow(decQ')
    <3>1. Follow(decQ)
      BY DEF IInv, Lives, Calls
    <3> QED BY <1>0, <2>1, <3>1 DEF Follow
  <2>4. MState # "None"
    BY <1>0, <1>4 DEF IInv, Lives, Modes
  <2>5. Call = "none" <=> decQ = <<>>
    BY <1>0 DEF Call, DecoderMsgs
  <2>6. Types'
    BY <1>0, <1>1, <2>1 DEF Types, service, main
  <2>7. /\ Asked' <=> Asked
        /\ Ending' <=> Ending
        /\ Call' = "RESUME" <=> Call = "RESUME"
        /\ In(decQ', "PAUSE") <=> In(decQ, "PAUSE")
    BY <2>1, <2>2, <2>5 DEF Asked, Ending, Gains
  <2>8. Modes' /\ Ends' /\ Resets' /\ Calls' /\ Mains'
    BY <1>0, <1>1, <2>3, <2>4, <2>7
    DEF service, main, IInv, Lives, Modes, Ends, Resets, Calls, Mains, Own, Lends, Switch,
        Lent, DecoderRuns
  <2>9. Hands'
    BY <1>0, <1>1, <2>7 DEF service, main, IInv, Hands, Shares, Cycle, Wanted, Owners,
       Own, Lends, Switch, DecoderRuns, Active
  <2>10. Call = "PLAY" => Call' = "PLAY"
    BY <2>2, <2>5
  <2>11. Begins => Begins'
    BY <1>0, <1>1 DEF Begins
  <2>12. LoansKept
    BY <1>0, <2>1, <2>7, <2>10, <2>11, LoansStay DEF Gains, service, main, AtWork, WillReset,
       WillStop, Wanted, DecoderRuns
  <2> QED BY <2>6, <2>8, <2>9, <2>12 DEF IInv, Lives
<1> QED BY <1>3, <1>4

\* The mode is to stop, and has the service and the decoder stop.
LEMMA HandleStopKeeps == ASSUME IInv, HandleStop PROVE IInv' /\ LoansKept
<1>0. /\ Types /\ Due("TASK_STOP") /\ appQ' = Tail(appQ) /\ app \in AppStates
      /\ app' = [app EXCEPT !.st = "Stopping"] /\ decQ' = Told(decQ, "TASK_STOP")
      /\ UNCHANGED <<remind, decoder, pcm, flags, main, rest>>
  BY DEF IInv, Types, HandleStop, Hears
<1>1. /\ appQ' \in Seq(AppMsgs) /\ Loses(appQ, appQ', "TASK_STOP") /\ decQ = <<>>
      /\ app.st \notin {"none", "Starting"}
  BY <1>0, DueIs
<1>2. MState # "None" /\ decoder.st # "Absent"
  BY <1>1 DEF IInv, Lives, Modes
<1>3. app.st \in {"Paused", "Running"} /\ DecoderRuns /\ MState = "Exit"
  BY <1>0, <1>1, <1>2 DEF Loses, Types, IInv, Lives, Ends
<1>4. remQ' = Append(remQ, "RESET")
  BY <1>3 DEF HandleStop, Runs, IInv, Lives, Modes
<1>5. remQ' \in Seq(RemindMsgs) /\ Gains(remQ, remQ', "RESET")
  BY <1>0, <1>4, RemindSent DEF RemindMsgs
<1>6. /\ decQ' \in Seq(DecoderMsgs) /\ Follow(decQ') /\ ~In(decQ', "PAUSE")
      /\ decQ' # <<>> /\ Head(decQ') = "TASK_STOP"
  BY <1>0, <1>1, <1>2, ToldIs DEF DecoderMsgs
<1>7. /\ app' \in AppStates /\ app'.kind = app.kind /\ app'.st = "Stopping" /\ app'.wait = app.wait
  BY <1>0, AppSt DEF AppSts
<1>8. Types'
  BY <1>0, <1>1, <1>5, <1>6, <1>7 DEF Types, main, rest
<1>9. Lives'
  BY <1>0, <1>1, <1>2, <1>3, <1>5, <1>6, <1>7 DEF Gains, Loses, main, IInv, Lives, Modes,
     Ends, Resets, Calls, Mains, Ending, Call, Own, Lends, Switch, DecoderRuns
<1>10. Owners'
  BY <1>0, <1>1 DEF IInv, Hands, Owners, Asked, Call, Own, Lends, Switch, DecoderRuns,
     Active
<1>11. Ending'
  BY <1>6 DEF Ending, Call
<1>12. LoansKept
  BY <1>0, <1>1, <1>5, <1>7, LoansFollow DEF Gains, Loses, Begins, AtWork, WillReset
<1> QED BY <1>8, <1>9, <1>10, <1>11, <1>12 DEF IInv, Hands, Shares

LEMMA HandleServiceStoppedKeeps == ASSUME IInv, HandleServiceStopped PROVE IInv' /\ LoansKept
<1>0. /\ Types /\ Due("SERVICE_STOPPED") /\ app \in AppStates
      /\ UNCHANGED <<service, decoding, flags, MState, rest>>
  BY DEF IInv, Types, HandleServiceStopped
<1>1. /\ Tail(appQ) \in Seq(AppMsgs) /\ Loses(appQ, Tail(appQ), "SERVICE_STOPPED") /\ decQ = <<>>
      /\ app.st \notin {"none", "Starting"}
  BY <1>0, DueIs
<1>2. MState = "Exit" /\ ~DecoderRuns /\ ~In(mainQ, "STOPPED") /\ ~In(appQ, "TASK_STOP")
  BY <1>1 DEF Loses, IInv, Lives, Ends
<1>3. CASE app.st = "Stopping"
  <2>1. /\ app' = [app EXCEPT !.st = "Stopped"] /\ appQ' = <<>>
        /\ mainQ' = mainQ \o (IF Bt THEN <<"FAIL", "STOPPED">> ELSE <<"STOPPED">>)
    BY <1>3 DEF HandleServiceStopped
  <2>2. PICK q : /\ q \in Seq(MainMsgs) /\ mainQ' = Append(q, "STOPPED")
                 /\ q = mainQ \/ q = Append(mainQ, "FAIL")
    <3>1. mainQ \in Seq(MainMsgs) /\ Append(mainQ, "FAIL") \in Seq(MainMsgs)
      BY <1>0 DEF Types, MainMsgs
    <3>2. /\ mainQ \o <<"STOPPED">> = Append(mainQ, "STOPPED")
          /\ mainQ \o <<"FAIL", "STOPPED">> = Append(Append(mainQ, "FAIL"), "STOPPED")
      BY <3>1
    <3> QED BY <2>1, <3>1, <3>2
  <2>3. q = mainQ \/ Gains(mainQ, q, "FAIL")
    BY <1>0, <2>2, Appended DEF Types
  <2>4. mainQ' \in Seq(MainMsgs) /\ Gains(q, mainQ', "STOPPED")
    <3>1. Append(q, "STOPPED") \in Seq(MainMsgs)
      BY <2>2 DEF MainMsgs
    <3> QED BY <2>2, <3>1, Appended
  <2>5. /\ app' \in AppStates /\ app'.kind = app.kind /\ app'.st = "Stopped" /\ app'.wait = app.wait
    BY <1>0, <2>1, AppSt DEF AppSts
  <2>6. appQ' \in Seq(AppMsgs)
    BY <2>1
  <2>7. Types'
    BY <1>0, <2>4, <2>5, <2>6 DEF Types, service, decoding, rest
  <2>8. ~Fresh(mainQ', MState', "FAIL")
    BY <1>0, <1>2, NotFresh
  <2>9. Lives'
    BY <1>0, <1>2, <1>3, <2>1, <2>3, <2>4, <2>5, <2>8, EmptyQueue
    DEF Gains, service, decoding, IInv, Lives, Modes, Ends, Resets, Calls, Mains, Ending,
       Call, Own, Lends, Switch, Lent, DecoderRuns
  <2>10. Hands'
    BY <1>0, <1>2 DEF decoding, Shares, IInv, Hands, Owners, Asked, Call, Own, Lends,
       Switch, DecoderRuns, Active
  <2>11. LoansKept
    BY <1>0, <1>2, <2>1, EmptyQueue, LoansFollow DEF Begins, AtWork, DecoderRuns
  <2> QED BY <2>7, <2>9, <2>10, <2>11 DEF IInv
<1>4. CASE app.st # "Stopping"
  <2>1. appQ' = Tail(appQ) /\ UNCHANGED <<app, mainQ>>
    BY <1>4 DEF HandleServiceStopped
  <2>2. "SERVICE_STOPPED" # "TASK_STOP" /\ remind \in RemindStates /\ refresh \in BOOLEAN
        /\ acts \in 0 .. MaxActs
    BY <1>0 DEF Types
  <2>3. Misses("SERVICE_STOPPED", remQ' = Append(remQ, "STOPPED"))
    BY DEF Misses
  <2> QED BY <1>0, <1>2, <2>1, <2>2, <2>3, AsideKeeps DEF service, decoding, main, rest
<1> QED BY <1>3, <1>4

-----------------------------------------------------------------------------
(* The steps of the media player. *)

LEMMA PlayerStartsIs ==
  ASSUME Types, decQ = <<>>, PlayerStarts
  PROVE  /\ app' \in AppStates /\ app'.kind = app.kind /\ app'.st = "Running" /\ app'.wait = FALSE
         /\ \/ /\ Free /\ decoder' = [st |-> "Initialized", by |-> "app"]
               /\ decQ' \in Seq(DecoderMsgs) /\ Follow(decQ') /\ Call' \in {"none", "PLAY"}
               /\ UNCHANGED mainQ
            \/ mainQ' = Append(mainQ, "FAILURE") /\ UNCHANGED <<decoder, decQ>>
<1>1. app \in AppStates /\ app.muted \in BOOLEAN
  BY AppFields DEF Types
<1>2. \A player \in PlayerSts, sync \in Syncs, muted \in BOOLEAN :
        LET a == Player("Running", player, sync, muted)
        IN  a \in AppStates /\ a.kind = app.kind /\ a.st = "Running" /\ a.wait = FALSE
  <2>1. "Running" \in AppSts
    BY DEF AppSts
  <2> QED BY <1>1, <2>1, Zenon DEF Player, AppStates
<1>3. {"play", "idle"} \subseteq PlayerSts /\ {"Initialized", "Deinitializing"} \subseteq Syncs
  BY DEF PlayerSts, Syncs
<1>4. CASE /\ Free /\ decoder' = [st |-> "Initialized", by |-> "app"] /\ decQ' = Told(decQ, "PLAY")
           /\ app' = Player("Running", "play", "Initialized", FALSE) /\ UNCHANGED mainQ
  <2>1. decQ' \in Seq(DecoderMsgs) /\ Follow(decQ') /\ Call' \in {"none", "PLAY"}
    BY <1>4, ToldToPlay
  <2> QED BY <1>2, <1>3, <1>4, <2>1
<1>5. CASE /\ app' = Player("Running", "idle", "Deinitializing", app.muted)
           /\ mainQ' = Append(mainQ, "FAILURE") /\ UNCHANGED <<decoder, decQ>>
  BY <1>1, <1>2, <1>3, <1>5
<1> QED BY <1>4, <1>5 DEF PlayerStarts

LEMMA SongPlaysIs ==
  ASSUME Types, decQ = <<>>, NEW a \in AppStates, SongPlays(a)
  PROVE  /\ app' \in AppStates /\ app'.kind = a.kind /\ app'.st = a.st /\ app'.wait = a.wait
         /\ Free /\ decoder' = [st |-> "Initialized", by |-> "app"]
         /\ flags' = flags \ {"DecoderRemind", "DecoderSwitch"}
         /\ decQ' \in Seq(DecoderMsgs) /\ Follow(decQ') /\ Call' \in {"none", "PLAY"}
<1>1. PICK player \in PlayerSts : app' = [a EXCEPT !.sync = "Initialized", !.player = player]
  <2>1. app' = [a EXCEPT !.sync = "Initialized",
                         !.player = IF a.player = "idle" THEN "pause" ELSE a.player]
    BY DEF SongPlays
  <2>2. (IF a.player = "idle" THEN "pause" ELSE a.player) \in PlayerSts
    BY AppFields DEF PlayerSts
  <2> QED BY <2>1, <2>2
<1>2. /\ app' \in AppStates /\ app'.kind = a.kind /\ app'.st = a.st /\ app'.wait = a.wait
  BY <1>1, AppSyncPlayer DEF Syncs
<1>3. decQ' = decQ \/ decQ' = Told(decQ, "PLAY")
  BY DEF SongPlays
<1>4. decQ' \in Seq(DecoderMsgs) /\ Follow(decQ') /\ Call' \in {"none", "PLAY"}
  BY <1>3, ToldToPlay
<1> QED BY <1>2, <1>4 DEF SongPlays

LEMMA SongFailsIs ==
  ASSUME Types, NEW a \in AppStates, SongFails(a)
  PROVE  /\ app' \in AppStates /\ app'.kind = a.kind /\ app'.st = a.st /\ app'.wait = a.wait
         /\ flags' = flags \ {"DecoderRemind", "DecoderSwitch"} /\ UNCHANGED <<decoder, decQ>>
<1>1. PICK sync : sync \in Syncs /\ app' = [a EXCEPT !.sync = sync]
  BY AppFields DEF SongFails, Syncs
<1> QED BY <1>1, AppSync DEF SongFails

LEMMA PlayerStopsIs ==
  ASSUME Types, NEW player \in PlayerSts, PlayerStops(player)
  PROVE  /\ app' \in AppStates /\ app'.kind = app.kind /\ app'.st = app.st /\ app'.wait = app.wait
         /\ decQ' = decQ \/ decQ' = Told(decQ, "STOP")
<1>0. app \in AppStates
  BY DEF Types
<1>1. \/ app' = [app EXCEPT !.sync = "Stop", !.muted = TRUE, !.player = player]
      \/ app' = [app EXCEPT !.player = player]
  BY Zenon DEF PlayerStops
<1>2. decQ' = decQ \/ decQ' = Told(decQ, "STOP")
  BY DEF PlayerStops
<1>3. CASE app' = [app EXCEPT !.sync = "Stop", !.muted = TRUE, !.player = player]
  BY <1>0, <1>2, <1>3, AppSyncMutedPlayer DEF Syncs
<1>4. CASE app' = [app EXCEPT !.player = player]
  BY <1>0, <1>2, <1>4, AppPlayer
<1> QED BY <1>1, <1>3, <1>4

\* A player that starts asks for its prompt and waits, or takes up its medium.
LEMMA MediaStartsKeeps == ASSUME IInv, MediaStarts PROVE IInv' /\ LoansKept
<1>0. /\ Types /\ app.st = "Starting" /\ Media /\ app \in AppStates /\ decQ = <<>>
      /\ MState # "None" /\ UNCHANGED <<pcm, flags, appQ, MState, rest>>
      /\ refresh \in BOOLEAN /\ acts \in 0 .. MaxActs
  BY DEF IInv, Types, Lives, Modes, MediaStarts, Preempted
<1>1. ~Lends /\ ~Switch /\ DecoderRuns
  BY <1>0 DEF Media, IInv, Lives, Modes, Ends
<1>2. flags' = flags \ {"DecoderRemind", "DecoderSwitch"}
  BY <1>0, <1>1 DEF Lends, Switch
<1>3. CASE ItemRequest(FALSE) /\ app' = [app EXCEPT !.st = "Paused", !.wait = TRUE]
           /\ UNCHANGED <<decoder, decQ, mainQ>>
  <2>1. /\ remind' \in RemindStates /\ remind'.st = remind.st /\ remind'.at = remind.at
        /\ remind'.blk = remind.blk /\ remQ' = Append(remQ, "REQUEST")
    BY <1>0, <1>3, Requested
  <2>2. remQ' \in Seq(RemindMsgs) /\ Gains(remQ, remQ', "REQUEST")
    BY <1>0, <2>1, RemindSent DEF RemindMsgs
  <2>3. TRUE \in BOOLEAN /\ "Paused" \in AppSts
    BY DEF AppSts
  <2>4. /\ app' \in AppStates /\ app'.kind = app.kind /\ app'.st = "Paused" /\ app'.wait = TRUE
    BY <1>0, <1>3, <2>3, Zenon DEF AppStates
  <2>5. Types'
    BY <1>0, <1>3, <2>1, <2>2, <2>4 DEF Types, rest
  <2>6. Lives'
    BY <1>0, <1>3, <2>1, <2>2, <2>4 DEF Gains, Media, IInv, Lives, Modes, Ends, Resets,
       Calls, Mains, Ending, Call, Own, Lends, Switch, DecoderRuns
  <2>7. Hands'
    BY <1>0, <1>3, <2>1, <2>2 DEF Gains, IInv, Hands, Shares, Cycle, Wanted, Owners, Asked,
       Ending, Call, Own, Lends, Switch, DecoderRuns, Active
  <2>8. LoansKept
    BY <1>0, <1>3, <2>1, <2>2, <2>4, LoansStay DEF Gains, IInv, Begins, AtWork, WillReset, WillStop,
       Wanted, Asked, Call, Lends, Switch, DecoderRuns
  <2> QED BY <2>5, <2>6, <2>7, <2>8 DEF IInv
<1>4. CASE PlayerStarts /\ UNCHANGED service
  <2>1. /\ app' \in AppStates /\ app'.kind = app.kind /\ app'.st = "Running" /\ app'.wait = FALSE
        /\ \/ /\ Free /\ decoder' = [st |-> "Initialized", by |-> "app"]
              /\ decQ' \in Seq(DecoderMsgs) /\ Follow(decQ') /\ Call' \in {"none", "PLAY"}
              /\ UNCHANGED mainQ
           \/ mainQ' = Append(mainQ, "FAILURE") /\ UNCHANGED <<decoder, decQ>>
    BY <1>0, <1>4, PlayerStartsIs
  <2>2. CASE /\ Free /\ decoder' = [st |-> "Initialized", by |-> "app"]
             /\ decQ' \in Seq(DecoderMsgs) /\ Follow(decQ') /\ Call' \in {"none", "PLAY"}
             /\ UNCHANGED mainQ
    BY <1>0, <1>1, <1>2, <1>4, <2>1, <2>2, TakesUpKeeps DEF main, rest, Unasked
  <2>3. CASE mainQ' = Append(mainQ, "FAILURE") /\ UNCHANGED <<decoder, decQ>>
    BY <1>0, <1>1, <1>2, <1>4, <2>1, <2>3, TakesBackKeeps DEF decoding, rest, Unasked
  <2> QED BY <2>1, <2>2, <2>3
<1> QED BY <1>3, <1>4 DEF MediaStarts

\* The player goes on to its next song: with its decoder, without a song to play, or
\* without a decoder that it could take.
LEMMA NextSongPlaysKeeps ==
  ASSUME IInv, Media, Runs, NEW a \in AppStates, NextSongPlays(a), a.kind = app.kind,
         a.st = app.st, a.wait = app.wait, NEW m, Due(m), m \notin {"TASK_STOP", "NEED"},
         AtWork => Unasked,
         Lends => ~Active("remind"), UNCHANGED <<service, pcm, main, refresh>>
  PROVE  IInv' /\ LoansKept
<1>0. /\ Types /\ app.st = "Running" /\ app.wait = FALSE /\ MState # "None" /\ decQ = <<>>
      /\ acts \in 0 .. MaxActs
  BY DueIs, AppFields DEF IInv, Types, Lives, Modes, Runs
<1>1. CASE /\ app' = a /\ appQ' = Tail(appQ) /\ flags' = flags \ {"DecoderRemind", "DecoderSwitch"}
           /\ UNCHANGED <<decoder, decQ, acts, modes>>
  BY <1>0, <1>1, TakesBackKeeps DEF service, decoding, main
<1>2. CASE SongPlays(a) /\ appQ' = Tail(appQ) /\ UNCHANGED <<acts, modes>>
  <2>1. /\ app' \in AppStates /\ app'.kind = app.kind /\ app'.st = "Running" /\ app'.wait = FALSE
        /\ Free /\ decoder' = [st |-> "Initialized", by |-> "app"]
        /\ flags' = flags \ {"DecoderRemind", "DecoderSwitch"}
        /\ decQ' \in Seq(DecoderMsgs) /\ Follow(decQ') /\ Call' \in {"none", "PLAY"}
    BY <1>0, <1>2, SongPlaysIs
  <2> QED BY <1>0, <1>2, <2>1, TakesUpKeeps
<1>3. CASE SongFails(a) /\ appQ' = Append(Tail(appQ), "NEXT")
           /\ (UNCHANGED <<acts, modes>> \/ Act)
  <2>1. /\ app' \in AppStates /\ app'.kind = app.kind /\ app'.st = app.st /\ app'.wait = app.wait
        /\ flags' = flags \ {"DecoderRemind", "DecoderSwitch"} /\ UNCHANGED <<decoder, decQ>>
    BY <1>0, <1>3, SongFailsIs
  <2>2. acts' \in 0 .. MaxActs /\ modes' = modes
    BY <1>0, <1>3, ActIs
  <2> QED BY <1>0, <1>3, <2>1, <2>2, TakesBackKeeps DEF service, decoding, main
<1> QED BY <1>1, <1>2, <1>3 DEF NextSongPlays

LEMMA MediaDecoderStoppedKeeps == ASSUME IInv, MediaDecoderStopped PROVE IInv' /\ LoansKept
<1> DEFINE off == [app EXCEPT !.sync = "None"]
<1>0. /\ Types /\ Media /\ Due("DECODER_STOPPED") /\ app \in AppStates /\ remind \in RemindStates
      /\ UNCHANGED <<remind, pcm, main, refresh>> /\ refresh \in BOOLEAN /\ acts \in 0 .. MaxActs
  BY DEF IInv, Types, MediaDecoderStopped
<1>1. off \in AppStates /\ off.kind = app.kind /\ off.st = app.st /\ off.wait = app.wait
  BY <1>0, AppSync DEF Syncs
<1>2. MState # "None" /\ "DECODER_STOPPED" \notin {"TASK_STOP", "NEED"}
  BY <1>0 DEF Media, IInv, Lives, Modes
<1>3. \/ /\ remQ' = Append(remQ, "STOPPED") /\ app' = off /\ appQ' = Tail(appQ)
         /\ UNCHANGED <<decoder, decQ, flags, acts, modes>>
      \/ /\ "DecoderRemind" \notin flags /\ app' = off /\ appQ' = Tail(appQ)
         /\ UNCHANGED <<remQ, decoder, decQ, flags, acts, modes>>
      \/ ~Lent /\ Runs /\ NextSongPlays(off) /\ UNCHANGED remQ
  BY Zenon DEF MediaDecoderStopped
<1> HIDE DEF off
<1>4. CASE \/ /\ remQ' = Append(remQ, "STOPPED") /\ app' = off /\ appQ' = Tail(appQ)
              /\ UNCHANGED <<decoder, decQ, flags, acts, modes>>
           \/ /\ "DecoderRemind" \notin flags /\ app' = off /\ appQ' = Tail(appQ)
              /\ UNCHANGED <<remQ, decoder, decQ, flags, acts, modes>>
  <2>1. Misses("DECODER_STOPPED", remQ' = Append(remQ, "STOPPED"))
    BY <1>4 DEF Misses, Lends
  <2> QED BY <1>0, <1>1, <1>2, <1>4, <2>1, AsideKeeps
<1>5. CASE ~Lent /\ Runs /\ NextSongPlays(off) /\ UNCHANGED remQ
  BY <1>0, <1>1, <1>2, <1>5, SwitchOff, NextSongPlaysKeeps DEF service, Unasked
<1> QED BY <1>3, <1>4, <1>5

\* The answer to a reset: the first prompt is over, the decoder goes out, or it comes back.
LEMMA MediaDecoderResetKeeps == ASSUME IInv, MediaDecoderReset PROVE IInv' /\ LoansKept
<1> DEFINE off == [app EXCEPT !.sync = "None"]
<1>0. /\ Types /\ Media /\ app \in AppStates /\ remind \in RemindStates
      /\ UNCHANGED <<remind, pcm, MState, refresh>> /\ refresh \in BOOLEAN /\ acts \in 0 .. MaxActs
  BY DEF IInv, Types, MediaDecoderReset
<1>1. Due("DECODER_RESET")
  <2>1. ~Due("FAIL")
    BY <1>0, DueIs DEF Loses, IInv, Lives, Mains
  <2> QED BY <2>1 DEF MediaDecoderReset
<1>2. off \in AppStates /\ off.kind = app.kind /\ off.st = app.st /\ off.wait = app.wait
  BY <1>0, AppSync DEF Syncs
<1>3. /\ Own /\ MState # "None" /\ "DECODER_RESET" # "TASK_STOP" /\ decQ = <<>>
      /\ ~Active("remind") /\ "DECODER_RESET" # "NEED" /\ (app.wait => ~Switch)
      /\ AtWork => remind.st \in {"STANDBY", "WAIT_DECODER"} /\ ~In(remQ, "PLAY")
  BY <1>0, <1>1, DueIs, BackFromPrompt, Answered DEF Media, IInv, Lives, Modes
<1>4. \/ /\ app.wait /\ PlayerStarts /\ flags' = flags \ {"DecoderRemind", "DecoderSwitch"}
         /\ appQ' = Tail(appQ) /\ UNCHANGED <<remQ, acts, modes>>
      \/ /\ Runs /\ "DecoderSwitch" \in flags
         /\ flags' = (flags \cup {"DecoderRemind"}) \ {"DecoderSwitch"}
         /\ remQ' = Append(remQ, "PLAY") /\ app' = off /\ appQ' = Tail(appQ)
         /\ UNCHANGED <<decoder, decQ, mainQ, acts, modes>>
      \/ Runs /\ "DecoderSwitch" \notin flags /\ NextSongPlays(off) /\ UNCHANGED <<remQ, mainQ>>
      \/ /\ ~app.wait /\ ~Runs /\ appQ' = Tail(appQ)
         /\ UNCHANGED <<remQ, decoder, decQ, flags, app, mainQ, acts, modes>>
  BY Zenon DEF MediaDecoderReset
<1> HIDE DEF off
<1>5. CASE /\ app.wait /\ PlayerStarts /\ flags' = flags \ {"DecoderRemind", "DecoderSwitch"}
           /\ appQ' = Tail(appQ) /\ UNCHANGED <<remQ, acts, modes>>
  <2>1. /\ app' \in AppStates /\ app'.kind = app.kind /\ app'.st = "Running" /\ app'.wait = FALSE
        /\ \/ /\ Free /\ decoder' = [st |-> "Initialized", by |-> "app"]
              /\ decQ' \in Seq(DecoderMsgs) /\ Follow(decQ') /\ Call' \in {"none", "PLAY"}
              /\ UNCHANGED mainQ
           \/ mainQ' = Append(mainQ, "FAILURE") /\ UNCHANGED <<decoder, decQ>>
    BY <1>0, <1>3, <1>5, PlayerStartsIs
  <2>2. CASE /\ Free /\ decoder' = [st |-> "Initialized", by |-> "app"]
             /\ decQ' \in Seq(DecoderMsgs) /\ Follow(decQ') /\ Call' \in {"none", "PLAY"}
             /\ UNCHANGED mainQ
    BY <1>0, <1>1, <1>3, <1>5, <2>1, <2>2, TakesUpKeeps DEF service, main, Unasked
  <2>3. CASE mainQ' = Append(mainQ, "FAILURE") /\ UNCHANGED <<decoder, decQ>>
    BY <1>0, <1>1, <1>3, <1>5, <2>1, <2>3, TakesBackKeeps DEF service, decoding, Unasked
  <2> QED BY <2>1, <2>2, <2>3
<1>6. CASE /\ Runs /\ "DecoderSwitch" \in flags
           /\ flags' = (flags \cup {"DecoderRemind"}) \ {"DecoderSwitch"}
           /\ remQ' = Append(remQ, "PLAY") /\ app' = off /\ appQ' = Tail(appQ)
           /\ UNCHANGED <<decoder, decQ, mainQ, acts, modes>>
  BY <1>0, <1>1, <1>2, <1>3, <1>6, GivesOutKeeps DEF Runs, Switch, decoding, main, rest
<1>7. CASE Runs /\ "DecoderSwitch" \notin flags /\ NextSongPlays(off) /\ UNCHANGED <<remQ, mainQ>>
  BY <1>0, <1>1, <1>2, <1>3, <1>7, NextSongPlaysKeeps DEF service, main, Switch, Unasked
<1>8. CASE /\ ~app.wait /\ ~Runs /\ appQ' = Tail(appQ)
           /\ UNCHANGED <<remQ, decoder, decQ, flags, app, mainQ, acts, modes>>
  <2>1. ~AtWork
    BY <1>0, <1>1, <1>8, DueIs, AtWorkIs DEF Runs
  <2> QED BY <1>0, <1>1, <1>3, <1>8, <2>1, AsideKeeps DEF main
<1> QED BY <1>4, <1>5, <1>6, <1>7, <1>8

LEMMA MediaGoesOnKeeps == ASSUME IInv, MediaGoesOn PROVE IInv' /\ LoansKept
<1>0. /\ Types /\ app \in AppStates /\ remind \in RemindStates
      /\ UNCHANGED <<decoder, pcm, flags, main, rest>> /\ refresh \in BOOLEAN /\ acts \in 0 .. MaxActs
      /\ {"play", "idle"} \subseteq PlayerSts
  BY DEF IInv, Types, MediaGoesOn, PlayerSts
<1>1. PICK m \in {"NEXT", "PLAY_END", "PLAYING"} : Due(m) /\ appQ' = Tail(appQ)
  BY DEF MediaGoesOn, Hears
<1>2. MState # "None" /\ decQ = <<>>
  BY <1>0, <1>1, DueIs DEF IInv, Lives, Modes
<1>3. /\ remind' \in RemindStates /\ remind'.st = remind.st /\ remind'.at = remind.at
      /\ remind'.blk = remind.blk /\ (remQ' = remQ \/ remQ' = Append(remQ, "REQUEST"))
  BY <1>0, Requested DEF MediaGoesOn, NextSong, service
<1>4. /\ app' \in AppStates /\ app'.kind = app.kind /\ app'.st = app.st /\ app'.wait = app.wait
      /\ decQ' = decQ \/ decQ' = Told(decQ, "STOP")
  <2>1. CASE \E player \in {"play", "idle"} : PlayerStops(player)
    BY <1>0, <2>1, PlayerStopsIs
  <2>2. CASE UNCHANGED <<app, decQ>>
    BY <1>0, <2>2
  <2>3. CASE app' = [app EXCEPT !.sync = "Play", !.muted = FALSE] /\ UNCHANGED decQ
    BY <1>0, <2>3, AppSyncMuted DEF Syncs
  <2> QED BY <2>1, <2>2, <2>3 DEF MediaGoesOn, NextSong
<1>5. m # "TASK_STOP" /\ Misses(m, remQ' = Append(remQ, "STOPPED"))
  BY <1>1 DEF Misses
<1> QED BY <1>0, <1>1, <1>2, <1>3, <1>4, <1>5, AsideKeeps DEF main, rest

\* The key PLAY/PAUSE tells the decoder nothing while a prompt has it.
LEMMA MediaPlayPauseKeeps ==
  ASSUME IInv, Media, Runs, MState = "Work", decQ = <<>>, Act, MediaPlayPause,
         UNCHANGED <<service, pcm, appQ, main, refresh>>
  PROVE  IInv' /\ LoansKept
<1>0. /\ Types /\ app \in AppStates /\ remind \in RemindStates /\ refresh \in BOOLEAN
      /\ acts' \in 0 .. MaxActs /\ modes' = modes /\ decoder.st # "Absent" /\ Own
      /\ DecoderRuns /\ app.wait = FALSE /\ app.st = "Running"
      /\ "play" \in PlayerSts /\ "pause" \in PlayerSts
  BY ActIs, AppFields DEF IInv, Types, Lives, Modes, Ends, Media, Runs, PlayerSts
<1>1. CASE /\ \E player \in {"play", "pause"} : app' = [app EXCEPT !.player = player]
           /\ \/ decQ' = decQ
              \/ ~Lent /\ decoder.st = "Play" /\ decQ' = Append(decQ, "PAUSE")
              \/ ~Lent /\ decQ' = Append(decQ, "RESUME")
           /\ UNCHANGED <<decoder, flags>>
  <2>1. /\ app' \in AppStates /\ app'.kind = app.kind /\ app'.st = app.st /\ app'.wait = app.wait
    BY <1>0, <1>1, AppPlayer
  <2>2. CASE decQ' = decQ
    BY <1>0, <1>1, <2>1, <2>2, AsideKeeps DEF service
  <2>3. ASSUME NEW m \in {"PAUSE", "RESUME"}, ~Lent, decQ' = Append(decQ, m),
               m = "PAUSE" => decoder.st = "Play"
        PROVE  IInv' /\ LoansKept
    <3>1. /\ decQ' \in Seq(DecoderMsgs) /\ Follow(decQ') /\ Call' = m
          /\ In(decQ', "PAUSE") <=> m = "PAUSE"
      <4>1. decQ' = Told(decQ, m)
        BY <1>0, <2>3 DEF Told
      <4> QED BY <1>0, <2>3, <4>1, ToldIs DEF DecoderMsgs, Call
    <3>2. m = "PAUSE" => decoder.by = "app"
      <4>1. ~Active("remind")
        BY <1>0, <2>3, SwitchOff DEF IInv, Hands, Owners
      <4>2. decoder.by \in Streams
        BY <1>0, DecoderFields DEF Types
      <4> QED BY <2>3, <4>1, <4>2 DEF Active, Streams, IInv, Lives, Calls
    <3>3. Types'
      BY <1>0, <1>1, <2>1, <3>1 DEF Types, service, main
    <3>4. Lives'
      BY <1>0, <1>1, <2>1, <2>3, <3>1, <3>2 DEF service, main, IInv, Lives, Modes, Ends,
         Resets, Calls, Mains, Ending, Own, Lends, Switch, Lent, DecoderRuns
    <3>5. Hands'
      BY <1>0, <1>1, <2>1, <3>1 DEF service, main, IInv, Hands, Shares, Cycle, Wanted,
         Owners, Asked, Ending, Call, Lends, Switch, DecoderRuns, Active
    <3>6. decQ = <<>> /\ ~In(decQ, "STOP") /\ Call = "none" /\ ~Asked /\ ~Asked'
      BY <3>1, EmptyQueue DEF Call, Asked
    <3>7. Begins => Begins'
      BY <1>0, <1>1, <2>1 DEF Begins
    <3>8. LoansKept
      BY <1>0, <1>1, <3>6, <3>7, LoansStay DEF service, main, AtWork, WillReset, WillStop, Wanted,
         DecoderRuns
    <3> QED BY <3>3, <3>4, <3>5, <3>8 DEF IInv
  <2> QED BY <1>1, <2>2, <2>3
<1>2. CASE \E a \in {[app EXCEPT !.player = "play"]} :
             \/ Lent /\ app' = a /\ UNCHANGED <<decoder, decQ, flags>>
             \/ ~Lent /\ (SongPlays(a) \/ SongFails(a))
  <2>1. PICK a : /\ a = [app EXCEPT !.player = "play"]
                 /\ \/ app' = a /\ UNCHANGED <<decoder, decQ, flags>>
                    \/ ~Lent /\ (SongPlays(a) \/ SongFails(a))
    BY <1>2
  <2>2. a \in AppStates /\ a.kind = app.kind /\ a.st = app.st /\ a.wait = app.wait
    BY <1>0, <2>1, AppPlayer
  <2>3. CASE app' = a /\ UNCHANGED <<decoder, decQ, flags>>
    BY <1>0, <2>2, <2>3, AsideKeeps DEF service
  <2>4. CASE ~Lent /\ SongPlays(a)
    <3>1. /\ app' \in AppStates /\ app'.kind = app.kind /\ app'.st = "Running" /\ app'.wait = FALSE
          /\ Free /\ decoder' = [st |-> "Initialized", by |-> "app"]
          /\ flags' = flags \ {"DecoderRemind", "DecoderSwitch"}
          /\ decQ' \in Seq(DecoderMsgs) /\ Follow(decQ') /\ Call' \in {"none", "PLAY"}
      BY <1>0, <2>2, <2>4, SongPlaysIs
    <3> QED BY <1>0, <2>1, <2>4, <3>1, TakesUpKeeps, SwitchOff DEF Unasked
  <2>5. CASE ~Lent /\ SongFails(a)
    <3>1. /\ app' \in AppStates /\ app'.kind = app.kind /\ app'.st = app.st /\ app'.wait = app.wait
          /\ flags' = flags \ {"DecoderRemind", "DecoderSwitch"} /\ UNCHANGED <<decoder, decQ>>
      BY <1>0, <2>2, <2>5, SongFailsIs
    <3>2. flags' = flags
      BY <2>5, <3>1 DEF Lent
    <3> QED BY <1>0, <3>1, <3>2, AsideKeeps DEF service
  <2> QED BY <2>1, <2>3, <2>4, <2>5
<1> QED BY <1>1, <1>2 DEF MediaPlayPause

LEMMA MediaKeyKeeps == ASSUME IInv, MediaKey PROVE IInv' /\ LoansKept
<1>0. /\ Types /\ Media /\ Runs /\ MState = "Work" /\ decQ = <<>> /\ Act
      /\ UNCHANGED <<pcm, appQ, main, refresh>> /\ remind \in RemindStates /\ refresh \in BOOLEAN
      /\ acts' \in 0 .. MaxActs /\ modes' = modes /\ {"play", "idle"} \subseteq PlayerSts
  BY ActIs DEF IInv, Types, MediaKey, Preempted, PlayerSts
<1>1. CASE /\ NextSong \/ (PlayerStops("idle") /\ UNCHANGED service)
           /\ UNCHANGED <<decoder, flags>>
  <2>1. /\ remind' \in RemindStates /\ remind'.st = remind.st /\ remind'.at = remind.at
        /\ remind'.blk = remind.blk /\ (remQ' = remQ \/ remQ' = Append(remQ, "REQUEST"))
    BY <1>0, <1>1, Requested DEF NextSong, service
  <2>2. /\ app' \in AppStates /\ app'.kind = app.kind /\ app'.st = app.st /\ app'.wait = app.wait
        /\ decQ' = decQ \/ decQ' = Told(decQ, "STOP")
    BY <1>0, <1>1, PlayerStopsIs DEF NextSong
  <2> QED BY <1>0, <1>1, <2>1, <2>2, AsideKeeps
<1>2. CASE MediaPlayPause /\ UNCHANGED service
  BY <1>0, <1>2, MediaPlayPauseKeeps
<1> QED BY <1>1, <1>2 DEF MediaKey

LEMMA ModeKeeps ==
  ASSUME IInv, ~HandleDecoderStart,
         ModeStep \/ Asks \/ MediaKey \/ PlayerChanges \/ StreamComes \/ RefreshBegins \/ RefreshEnds
  PROVE  IInv' /\ LoansKept
BY MediaStartsKeeps, MediaDecoderStoppedKeeps, MediaDecoderResetKeeps, MediaGoesOnKeeps,
   ModeStartsKeeps, HandleNeedKeeps, HandleDecoderResetKeeps, HeardAsideKeeps,
   HandleStopKeeps, HandleServiceStoppedKeeps, AsksKeeps, MediaKeyKeeps, StreamsKeep, RefreshEndsKeeps
DEF ModeStep

-----------------------------------------------------------------------------
(* The theorems. *)

\* Before the first mode there is no decoder, and nothing lies in a queue.
LEMMA First == Init => IInv /\ (robbed = FALSE => Loans)
<1> SUFFICES ASSUME Init PROVE IInv /\ Loans
  OBVIOUS
<1>1. /\ remind = Idle /\ decoder = [st |-> "Absent", by |-> "none"] /\ app = NoMode
      /\ flags = {} /\ remQ = <<>> /\ decQ = <<>> /\ appQ = <<>> /\ mainQ = <<>>
      /\ pcm = FALSE /\ MState = "None" /\ refresh = FALSE /\ acts = 0 /\ modes = 0
  BY DEF Init
<1>2. /\ remind \in RemindStates /\ remind.st = "STANDBY" /\ remind.at = "recv" /\ remind.blk = 0
  BY <1>1 DEF Idle, RemindStates, RemindSts, RemindAts
<1>3. /\ app \in AppStates /\ app.kind = "none" /\ app.st = "none" /\ app.wait = FALSE
  BY <1>1 DEF NoMode, AppStates, ModeKinds, AppSts, PlayerSts, Syncs
<1>4. decoder \in DecoderStates /\ decoder.st = "Absent" /\ decoder.by = "none"
  BY <1>1, DecoderFields DEF DecoderSts, Streams
<1>5. Types
  <2>1. remQ \in Seq(RemindMsgs) /\ decQ \in Seq(DecoderMsgs) /\ appQ \in Seq(AppMsgs)
    BY <1>1
  <2>2. mainQ \in Seq(MainMsgs) /\ MState \in {"None", "Enter", "Work", "Exit"}
    BY <1>1
  <2>3. flags \subseteq SoftFlags /\ pcm \in BOOLEAN /\ refresh \in BOOLEAN
    BY <1>1
  <2>4. acts \in 0 .. MaxActs /\ modes \in 0 .. MaxModes
    BY <1>1, BoundAssumption
  <2> QED BY <1>2, <1>3, <1>4, <2>1, <2>2, <2>3, <2>4, Zenon DEF Types
<1>6. \A m : ~Fresh(mainQ, MState, m)
  BY <1>1, NotFresh
<1>7. Lives
  BY <1>1, <1>2, <1>3, <1>4, <1>6, EmptyQueue DEF Lives, Modes, Ends, Resets, Calls, Mains,
     Ending, Call, Own, Lends, Switch
<1>8. Hands
  <2>1. ~DecoderRuns /\ ~Own
    BY <1>1 DEF DecoderRuns, Own
  <2>2. ~Lends /\ ~Switch /\ ~Active("app") /\ ~Active("remind")
    BY <1>1, <1>4 DEF Lends, Switch, Active
  <2> QED BY <2>1, <2>2 DEF Hands, Shares, Owners
<1>9. Loans
  BY <1>1, EmptyQueue DEF Loans, Begins, AtWork, DecoderRuns
<1> QED BY <1>5, <1>7, <1>8, <1>9 DEF IInv

LEMMA NextKeepsIt == IInv /\ Next => IInv' /\ (Loans /\ Remember => Loans')
<1> SUFFICES ASSUME IInv, Next PROVE IInv' /\ (Loans /\ Remember => Loans')
  OBVIOUS
<1>1. CASE HandleDecoderStart
  BY <1>1, HandleDecoderStartKeeps
<1>2. CASE ~HandleDecoderStart
  <2>1. Remember => Keeps
    BY <1>2 DEF Remember, Keeps, Robs
  <2>2. IInv' /\ LoansKept
    <3>1. CASE ServiceStep
      BY <3>1, ServiceKeeps
    <3>2. CASE DecoderStep \/ DecoderFills \/ ClipEnds \/ StreamDry \/ PcmPlays
      BY <3>2, DecoderKeeps
    <3>3. CASE MainStep \/ LeaveMode \/ \E kind \in Kinds : EnterMode(kind)
      BY <3>3, MainKeeps
    <3>4. CASE \/ ModeStep \/ Asks \/ MediaKey \/ PlayerChanges \/ StreamComes
               \/ RefreshBegins \/ RefreshEnds
      BY <1>2, <3>4, ModeKeeps
    <3> QED BY <3>1, <3>2, <3>3, <3>4, Zenon DEF Next
  <2> QED BY <2>1, <2>2 DEF LoansKept
<1> QED BY <1>1, <1>2

LEMMA RestKeepsIt == IInv /\ UNCHANGED vars => IInv' /\ (Loans /\ robbed' = robbed => Loans')
BY DEF vars, Loans, Lost, Begins, AtWork, Sound, OnWait, OnLoan, OnPlay, OnRest, SetUp, AtPlay,
   WillReset, WillStop, Types, Shares, Cycle, Wanted, IInv, Lives, Hands, Modes, Ends, Resets,
   Calls, Mains, Owners, Asked, Ending, Call, Own, Lends, Switch, Lent, DecoderRuns, Active

LEMMA StepsKeepIt == IInv /\ [Next]_vars => IInv'
BY NextKeepsIt, RestKeepsIt

LEMMA Kept == Spec => []IInv
BY First, StepsKeepIt, PTL DEF Spec

\* Every queue holds messages its task knows, the list of prompts never holds more than
\* it can, and the service, the decoder, the mode and the player are in states the code
\* names, whatever kinds of mode are entered and however many requests and streams come.
THEOREM PromptTypes == Spec => []TypeOK
<1>1. IInv => TypeOK
  BY Zenon DEF IInv, Types, TypeOK, RemindStates, RemindSts, RemindAts, DecoderStates,
     DecoderSts, Streams, ModeKinds, AppSts, PlayerSts, Syncs, AppStates, RemindMsgs,
     DecoderMsgs, AppMsgs, MainMsgs, SoftFlags
<1> QED BY Kept, <1>1, PTL

\* While Bluetooth play or the player runs, a decoder at work for a prompt has been given
\* out by the mode, and one that has been given out does not work for the phone's stream
\* or the song: what SoftFlagDecoderRemind tells the tasks is so.
THEOREM DecoderHasOneOwner == Spec => []OneOwner
<1>1. ASSUME IInv PROVE OneOwner
  <2>1. Types /\ Modes /\ Calls /\ Owners
    BY <1>1 DEF IInv, Lives, Hands
  <2>2. SUFFICES ASSUME Runs, Bt \/ Media, decoder.st \in {"Initialized", "Play", "Pause"}
                 PROVE  decoder.by = "remind" <=> Lends
    BY DEF OneOwner, Lends
  <2>3. Own
    BY <2>1, <2>2 DEF Modes, Bt, Media
  <2>4. decoder.by \in {"app", "remind"}
    BY <2>1, <2>2, DecoderFields DEF Types, Calls, Streams
  <2>5. Active(decoder.by)
    BY <2>2 DEF Active
  <2> QED BY <2>1, <2>3, <2>4, <2>5 DEF Owners
<1> QED BY Kept, <1>1, PTL

\* However streams, requests, songs, keys and ends of modes cross, and whatever kinds of
\* mode are entered, the one thing that can take from a hand-over what it waits for is the
\* SbcDecoderStart of a stream that begins meanwhile (bt_play_api.c 300).  But for that no
\* message that one side waits for is lost, dropped or used up by another: a service that
\* waits has its request, the reset or the decoder on the way to it, a prompt has the
\* decoder at work or its end on the way, and a decoder that is lent comes back.
THEOREM HandOversArrive == HSpec => []NoHandOverIsLost
<1>1. Init /\ robbed = FALSE => IInv /\ Loans
  BY First
<1>2. IInv /\ Loans /\ [Next /\ Remember]_<<vars, robbed>> => IInv' /\ Loans'
  BY NextKeepsIt, RestKeepsIt
<1>3. ASSUME IInv, Loans PROVE NoHandOverIsLost
  <2>1. /\ Types /\ Modes /\ Ends /\ Resets /\ Calls
        /\ AtWork => IF robbed THEN Lost ELSE Sound
    BY <1>3 DEF IInv, Lives, Loans
  <2>2. SUFFICES ASSUME ~WillReset
                 PROVE  /\ ~robbed =>
                             /\ remind.st = "WAIT_DECODER" => Waits
                             /\ remind.st = "PLAY" => PlaysOn
                             /\ remind.st = "STOPPING" => Lends /\ (remind.at = "stop" \/ WillStop)
                             /\ remind.st = "STOPPED" => Lends
                        /\ Lends /\ Own /\ DecoderRuns => ComesBack
    BY DEF NoHandOverIsLost
  <2>3. CASE ~DecoderRuns
    BY <2>1, <2>2, <2>3 DEF Resets, WillReset
  <2>5. CASE DecoderRuns /\ robbed
    BY <2>1, <2>2, <2>5 DEF AtWork, Lost
  <2>4. CASE DecoderRuns /\ ~robbed
    <3>1. Sound
      BY <2>1, <2>2, <2>4 DEF AtWork
    <3>2. /\ Asked => In(decQ, "RESET")
          /\ Call = "PLAY" => In(decQ, "PLAY")
      <4>1. decQ # <<>> => 1 \in DOMAIN decQ /\ Head(decQ) = decQ[1]
        BY <2>1 DEF Types
      <4> QED BY <4>1 DEF Asked, Call, In
    <3>3. AtPlay => decoder = [st |-> "Play", by |-> "remind"]
      BY <2>1, Zenon DEF Types, DecoderStates, AtPlay
    <3>4. remind.st = "WAIT_DECODER" => Waits
      BY <3>1, <3>2 DEF Sound, OnWait, Wanted, Waits
    <3>5. remind.st = "PLAY" => PlaysOn
      BY <3>1, <3>2, <3>3 DEF Sound, OnPlay, PlaysOn
    <3>6. Lends /\ Own => ComesBack
      BY <3>1, <3>2 DEF Sound, OnLoan, ComesBack
    <3> QED BY <3>1, <3>4, <3>5, <3>6 DEF Sound, OnPlay
  <2> QED BY <2>3, <2>4, <2>5
<1> QED BY <1>1, <1>2, <1>3, PTL DEF HSpec, HInit

=============================================================================
