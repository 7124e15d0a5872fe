----------------------------- MODULE RemindHistory -----------------------------
(***************************************************************************)
(* The prompts with a history variable, which no step reads.  A stream of   *)
(* the phone may begin while a prompt waits for the decoder or has it: its  *)
(* SbcDecoderStart withdraws the flags of the hand-over (bt_play_api.c 300) *)
(* and the service, which has no timeout, is left waiting for what will not *)
(* come until the mode ends.  robbed remembers that this has been done to   *)
(* the prompt at hand.                                                      *)
(***************************************************************************)
EXTENDS RemindSound

VARIABLE robbed

\* A stream takes what the service has been lent or promised.  A request that is still
\* under way will be answered as if nothing had happened.
Robs == HandleDecoderStart /\ Lent /\ ~Lent' /\ ~Wanted

Remember == robbed' = (remind'.st # "STANDBY" /\ (robbed \/ Robs))

HInit == Init /\ robbed = FALSE

HSpec == HInit /\ [][Next /\ Remember]_<<vars, robbed>>

HFairSpec == HSpec /\ Fairness

-------------------------------------------------------------------------------
\* The hand-over has no timeout: each of its five waits is ended by one message only,
\* and, but for a stream that robs the service of the decoder (bt_play_api.c 300), that
\* one is never lost or used up by another.  While the service waits its request,
\* the reset asked of the decoder, the answer or the decoder is under way; a prompt has the
\* decoder at work, or its end is under way; a decoder that is lent is used or comes back.
\* Where not, the mode ends and the service is reset.
NoHandOverIsLost ==
  \/ WillReset
  \/ /\ ~robbed => /\ remind.st = "WAIT_DECODER" => Waits
                   /\ remind.st = "PLAY" => PlaysOn
                   /\ remind.st = "STOPPING" => Lends /\ (remind.at = "stop" \/ WillStop)
                   /\ remind.st = "STOPPED" => Lends
     /\ Lends /\ Own /\ DecoderRuns => ComesBack

\* What RemindSoundServiceEntrance says of a service that is made to wait, "wait
\* for the app to give up the decoder": it does, and every prompt comes to an end, the
\* ones a stream robs of the decoder excepted.
ServiceRests == (remind.st # "STANDBY") ~> (remind.st = "STANDBY" \/ robbed)

\* A mode that was silenced to give its decoder out, or a player that has not begun for
\* the sake of its first prompt, is heard again, or ends: a player that is to play
\* decodes and is not muted, whatever songs, keys and prompts fell in between.  The reset
\* of a prompt that a stream has robbed stops the stream: then the mode waits for the next.
Heard == /\ ~app.wait /\ (Bt => ~app.muted \/ robbed)
         /\ Media /\ app.player = "play" =>
              decoder = [st |-> "Play", by |-> "app"] /\ ~app.muted
PlayerIsHeard ==
  (app.wait \/ (Runs /\ Switch)) ~> (Heard \/ app.st \notin {"Paused", "Running"})
================================================================================
