---------------------------- MODULE MCSystemMode ----------------------------
(* Model values for SystemMode. *)
EXTENDS SystemMode

CONSTANTS d1, d2

\* One dashboard with two requests under way, the other with one.
MCSlots == {<<d1, 1>>, <<d1, 2>>, <<d2, 1>>}
=============================================================================
