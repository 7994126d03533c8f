------------------------------ MODULE BranchLayout -----------------------------
(***************************************************************************)
(* What the emitter of src/src/mc/emit.rs promises: a program is a         *)
(* sequence of pieces, a label marks a place in it, and finishing it gives *)
(* every branch the short form if that can be, every field its value, and  *)
(* every label its position.                                               *)
(***************************************************************************)
EXTENDS PrefixSums, Sequences, SequencesExt

CONSTANTS Label, Unbound, Undefined, Unfinished

VARIABLES
  pieces,                 \* the program: code, branches and fields
  marks,                  \* the place every label is bound to
  result                  \* what finishing returned

vars == <<pieces, marks, result>>

(* A branch takes its long form, `len` bytes, or the short one, an opcode   *)
(* byte and a displacement of eight bits.                                   *)
ShortLen == 2
Rel8 == -128 .. 127

Branches == {j \in DOMAIN pieces : pieces[j].kind = "branch"}
Fields == {j \in DOMAIN pieces : pieces[j].kind = "pcrel"}

(* Where piece j starts when the branches `long` are long.                  *)
LengthIn(long, j) == IF j \in Branches \ long THEN ShortLen ELSE pieces[j].len
Start(long, j) == Sums([k \in DOMAIN pieces |-> LengthIn(long, k)], Len(pieces))[j - 1]

(* A place is a piece and a number of bytes into it.                        *)
Position(long, place) == Start(long, place[1]) + place[2]

Displacement(long, j) ==
  Position(long, marks[pieces[j].label]) - Start(long, j + 1)

(* Every short branch reaches its label.                                    *)
Reaches(long) == \A j \in Branches \ long : Displacement(long, j) \in Rel8

LeastLong ==
  CHOOSE long \in SUBSET Branches :
    /\ Reaches(long)
    /\ \A other \in SUBSET Branches : Reaches(other) => long \subseteq other

Layout ==
  LET long == LeastLong
  IN  [length |-> Start(long, Len(pieces) + 1),
       branches |-> {<<Start(long, j), j \in long, Displacement(long, j)>> : j \in Branches},
       fields |-> {<<Start(long, j), Displacement(long, j)>> : j \in Fields},
       labels |-> [l \in Label |-> IF marks[l] = Unbound THEN Unbound
                                   ELSE Position(long, marks[l])]]

-----------------------------------------------------------------------------

Init ==
  /\ pieces = <<>>
  /\ marks = [l \in Label |-> Unbound]
  /\ result = Unfinished

(* Pieces are only appended; a label may be bound to any place.             *)
Write ==
  /\ result = Unfinished
  /\ IsPrefix(pieces, pieces')
  /\ DOMAIN marks' = Label
  /\ UNCHANGED result

Finish ==
  /\ result = Unfinished
  /\ result' = IF \E j \in Branches \union Fields : marks[pieces[j].label] = Unbound
                 THEN Undefined ELSE Layout
  /\ UNCHANGED <<pieces, marks>>

Spec == Init /\ [][Write \/ Finish]_vars
===============================================================================
