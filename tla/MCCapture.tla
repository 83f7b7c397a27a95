----------------------------- MODULE MCCapture -----------------------------
(* Instances of CaptureControl for TLC. *)
EXTENDS CaptureControl, TLC

TimerSymmetry == Permutations(TimerId)
=============================================================================
