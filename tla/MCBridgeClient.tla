--------------------------- MODULE MCBridgeClient ---------------------------
(* The small instances on which TLC checks BridgeClient. *)
EXTENDS BridgeClient

\* Two dispatched commands, a dev command and a shutdown_async.
CONSTANTS p, q, d, x
=============================================================================
