------------------------------- MODULE MCEmitter ------------------------------
(* Two labels; jumps to the first are `jmp`, to the second `jcc`.           *)
EXTENDS Emitter

CONSTANTS l0, l1, l2

MCLongLen(l) == IF l = l1 THEN 5 ELSE 6
===============================================================================
