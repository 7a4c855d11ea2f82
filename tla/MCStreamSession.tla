-------------------------- MODULE MCStreamSession --------------------------
(* Small instances of StreamSession.                                        *)
EXTENDS StreamSession
CONSTANTS s1, x, y

XY == <<x, y>>
JustX == <<x>>
=============================================================================
