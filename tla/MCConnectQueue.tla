--------------------------- MODULE MCConnectQueue ---------------------------
(***************************************************************************)
(* Three pushers, and a popper that polls or waits.                        *)
(***************************************************************************)
EXTENDS ConnectQueue

=============================================================================
