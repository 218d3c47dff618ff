------------------------------ MODULE MCLimiter ------------------------------
(***************************************************************************)
(* Two channels.  The left one has half-waves of both signs with peaks of  *)
(* 1.5, 2 and 3 (3.5 clipped) and zeros; the right one changes sign in     *)
(* other places, so that the channels let go of different numbers.         *)
(***************************************************************************)
EXTENDS Limiter

CONSTANTS left, right

StereoChannels == {left, right}

Stereo(l, r) == [c \in StereoChannels |-> IF c = left THEN l ELSE r]

StereoFrames ==
  {Stereo(-3, -1), Stereo(0, 3), Stereo(4, 3), Stereo(7, -1), Stereo(-3, 3)}
=============================================================================
