--------------------------- MODULE MCWaitForObject --------------------------
(* Small instances of WaitForObject for TLC; the cfgs give numbers.          *)
EXTENDS WaitForObject
=============================================================================
