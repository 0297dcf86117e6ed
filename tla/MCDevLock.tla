------------------------------ MODULE MCDevLock ------------------------------
(* Instance of DevLock for TLC.                                            *)
EXTENDS DevLock

=============================================================================
