------------------------------- MODULE MCContext ------------------------------
(* Two threads, each leaving one of two values in its registers.            *)
EXTENDS ContextSwitch

CONSTANTS t1, t2

MCThread == {t1, t2}
MCVersion == 0..1
===============================================================================
