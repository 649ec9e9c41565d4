------------------------------- MODULE MCDLQ -------------------------------
(***************************************************************************)
(* Instances of DLQ for TLC.                                               *)
(***************************************************************************)
EXTENDS DLQ

SomeIds == {<<"a">>, <<"b", "a">>}

\* The third failure meets one call at most, the second call two failures.
ThreeAtATime == count + calls <= 4
=============================================================================
