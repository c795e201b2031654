----------------------------- MODULE MCCockpit -----------------------------
(* Two calls that ask, a screen that fits one card, one restart of the     *)
(* daemon and one protected value.                                         *)
EXTENDS Cockpit

CONSTANTS pay, send

MCAsks == {pay, send}
=============================================================================
