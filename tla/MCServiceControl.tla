-------------------------- MODULE MCServiceControl --------------------------
(***************************************************************************)
(* The service with up to two requests that wait at a time.                *)
(***************************************************************************)
EXTENDS ServiceControl
=============================================================================
