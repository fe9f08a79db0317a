---------------------------- MODULE MCDocumented ----------------------------
(***************************************************************************)
(* The documented behaviours, on the savers of MCSavers.                   *)
(***************************************************************************)
EXTENDS MCSavers, DocumentedBehaviour

=============================================================================
