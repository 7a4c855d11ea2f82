--------------------------- MODULE MCDebugTunnel ---------------------------
(* A small instance of DebugTunnel.                                         *)
EXTENDS DebugTunnel
CONSTANTS x, y

Greeting == <<x, y>>
=============================================================================
