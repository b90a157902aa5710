----------------------------- MODULE MCAioSetup -----------------------------
(* Any number of runs, of all commands, with edited settings in between.   *)
EXTENDS AioSetup
============================================================================
