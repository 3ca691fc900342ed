------------------------------ MODULE Vintage ------------------------------
(***************************************************************************)
(* The historical-vintage gate of the withdrawn algorithm jcs-n            *)
(* (lib/cpb/vintage.py).  Evidence is opaque to the library: a callback of *)
(* the consuming profile authenticates it against the recomputed digest    *)
(* and returns a time.                                                     *)
(***************************************************************************)
EXTENDS Integers, JsonGate

CONSTANT
  Cutoff  \* JCS_N_WITHDRAWAL_CUTOFF, in hours of UTC

(* What a callback may return: an exception, something that is not a       *)
(* datetime, or a datetime: its wall clock and its UTC offset (None when   *)
(* it is naive).                                                           *)
Reply(kind, clock, offset) == [kind |-> kind, clock |-> clock, offset |-> offset]

(* Evidence binds one digest to a time; the callback raises for any other. *)
CallbackReply(evidence, digest) ==
  IF evidence.binds = digest THEN evidence.reply ELSE Reply("exception", 0, None)

(* Mutated form: the wall clock is compared as it stands.                  *)
WallClock(reply) == reply.clock

Utc(reply) == reply.clock - reply.offset

(* require_pre_cutoff_jcs_n_vintage returns.  The caller passes evidence,  *)
(* or None, and may or may not supply a callback.                          *)
IsPreCutoff(vintage, digest) ==
  /\ vintage.evidence # None
  /\ vintage.hasVerifier
  /\ LET reply == CallbackReply(vintage.evidence, digest) IN
     /\ reply.kind = "datetime"
     /\ reply.offset # None
     /\ Utc(reply) < Cutoff
=============================================================================
