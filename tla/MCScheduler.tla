---------------------------- MODULE MCScheduler ----------------------------
(***************************************************************************)
(* Small engines for TLC.  Token 0 is the stop token, and the prompts are  *)
(* chosen so that the pool is roomy, tight or squeezed (see the README).   *)
(***************************************************************************)
EXTENDS Scheduler

CONSTANTS r1, r2, r3, r4

MCHash == UNION {[1 .. n -> Token] : n \in 1 .. MaxCtx}
MCNoHash == <<>>

Three(a, b, c) == (r1 :> a) @@ (r2 :> b) @@ (r3 :> c)

(* Three share their first block, which is the whole of the second.  The  *)
(* fourth is a request too many for two slots and a queue of one.          *)
RoomyPrompts == Three(<<1, 1, 1>>, <<1, 1>>, <<1, 1, 0>>) @@ (r4 :> <<0>>)
RoomyLimits == Three(2, 2, 1) @@ (r4 :> 1)

(* A long prefill that a short request, whose prompt is its first block,   *)
(* overtakes and squeezes out, and a prompt that no pool of three blocks   *)
(* can hold.                                                               *)
TightPrompts == Three(<<1, 1, 1, 1, 1>>, <<1, 1>>, <<1, 1, 1, 1, 1, 1, 1>>)
TightLimits == Three(1, 3, 0)

(* A decode that keeps sampling beside two prefills that share its prefix, *)
(* in a pool that holds little more than one of them.                      *)
SqueezedPrompts == Three(<<1, 1, 1>>, <<1, 1, 1, 1>>, <<1, 1>>)
SqueezedLimits == Three(1, 1, 3)

(* A long prefill, a medium one and a request of one token. *)
MixedPrompts == Three(<<1, 1, 1, 1, 1>>, <<0, 1, 1>>, <<1>>)
MixedLimits == Three(1, 2, 1)
=============================================================================
