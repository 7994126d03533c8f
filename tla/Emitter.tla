-------------------------------- MODULE Emitter -------------------------------
(***************************************************************************)
(* The emitter of src/src/mc/emit.rs: code is appended with every branch   *)
(* in its long form; finishing it sizes the branches, closes the gaps, and *)
(* moves labels and fixups to where they end up.                           *)
(*                                                                         *)
(* A byte is left out unless it is a displacement or a field.  Offsets are *)
(* too small here for a 32-bit field to overflow.                          *)
(***************************************************************************)
EXTENDS PrefixSums, Sequences, FiniteSets, SequencesExt

CONSTANTS
  Label,                  \* the labels the code creates, none bound at first
  FragmentLabel,          \* the one created for a field of a fragment
  Unbound,
  Undefined, Unfinished,  \* what finishing returns: an error, nothing yet
  CodeLen,                \* the lengths of plain code
  FragmentLen,            \* the lengths of a fragment before and after its field
  LongLen(_),             \* the long form of the branches to a label: 5 or 6
  MaxPieces, MaxFields    \* bounds on the program

ASSUME LabelAssumption == FragmentLabel \in Label
ASSUME UnboundAssumption == Unbound \notin Nat \union (Nat \X Nat)

VARIABLES
  buf,                    \* what was emitted
  labels,                 \* the offset each label is bound to
  fixups, relaxes,        \* the recorded fields and branches
  long,                   \* the branches relax has grown
  out,                    \* the finished buffer
  relocs,                 \* the relocations it needs
  phase,                  \* emit, relax, patch, done or failed
  marks                   \* history: the piece each label was bound at

vars == <<buf, labels, fixups, relaxes, long, out, relocs, phase, marks>>

ShortLen == 2
Rel8 == -128 .. 127
FieldLen == 4

(* The long form of a branch is the longer one.                             *)
ASSUME LengthAssumption ==
  /\ CodeLen \subseteq Nat /\ FragmentLen \subseteq Nat
  /\ \A l \in Label : LongLen(l) \in Nat /\ LongLen(l) > ShortLen

(* A field is patched with the distance to a label, or is the address of a  *)
(* place in the function, left to the linker.                               *)
Code(n) == [kind |-> "code", len |-> n]
Branch(l) == [kind |-> "branch", len |-> LongLen(l), label |-> l]
Pcrel(l) == [kind |-> "pcrel", len |-> FieldLen, label |-> l]
Absolute(place) == [kind |-> "abs", len |-> FieldLen, place |-> place]

(* The bytes up to the end of each piece, and of all.                       *)
Ends(s) == Sums([j \in DOMAIN s |-> s[j].len], Len(s))
Size(s) == Ends(s)[Len(s)]
Offset == Size(buf)

Init ==
  /\ buf = <<>> /\ out = <<>>
  /\ labels = [l \in Label |-> Unbound]
  /\ fixups = <<>> /\ relaxes = <<>> /\ relocs = {}
  /\ long = {}
  /\ phase = "emit"
  /\ marks = [l \in Label |-> Unbound]

-----------------------------------------------------------------------------
(* Emission.                                                                *)

Room(n) == phase = "emit" /\ Len(buf) + n <= MaxPieces

Bytes(n) ==
  /\ Room(1)
  /\ buf' = Append(buf, Code(n))
  /\ UNCHANGED <<labels, fixups, relaxes, long, out, relocs, phase, marks>>

BindLabel(l) ==
  /\ phase = "emit"
  /\ labels' = [labels EXCEPT ![l] = Offset]
  /\ marks' = [marks EXCEPT ![l] = <<Len(buf) + 1, 0>>]
  /\ UNCHANGED <<buf, fixups, relaxes, long, out, relocs, phase>>

(* Fault: the offset recorded is the one after the opcode.                  *)
BranchRecordedAfter(l) ==
  /\ Room(1)
  /\ buf' = Append(buf, Branch(l))
  /\ relaxes' = Append(relaxes, [at |-> Offset + 1, len |-> LongLen(l), label |-> l])
  /\ UNCHANGED <<labels, fixups, long, out, relocs, phase, marks>>

EmitBranch(l) ==
  /\ Room(1)
  /\ buf' = Append(buf, Branch(l))
  /\ relaxes' = Append(relaxes, [at |-> Offset, len |-> LongLen(l), label |-> l])
  /\ UNCHANGED <<labels, fixups, long, out, relocs, phase, marks>>

ToLabel(at, l) == [at |-> at, label |-> l]
ToFunction(at, addend) == [at |-> at, addend |-> addend]

Reference(l) ==
  /\ Room(1) /\ Len(fixups) < MaxFields
  /\ buf' = Append(buf, Pcrel(l))
  /\ fixups' = Append(fixups, ToLabel(Offset, l))
  /\ UNCHANGED <<labels, relaxes, long, out, relocs, phase, marks>>

(* splice (inline_asm.rs): an assembled fragment of `before` bytes, a field *)
(* that refers to the fragment's own offset `off`, and `after` bytes.  A    *)
(* PC-relative field gets a label of its own, an absolute one the offset    *)
(* from the function's symbol.                                              *)
FragmentPlace(before, off) ==
  LET first == Len(buf) + 1
  IN  CASE off < before -> <<first, off>>
        [] off \in before .. before + FieldLen - 1 -> <<first + 1, off - before>>
        [] OTHER -> <<first + 2, off - before - FieldLen>>

Splice(before, after, off) ==
  /\ Room(3) /\ Len(fixups) < MaxFields
  /\ off \in 0 .. before + FieldLen + after
  /\ LET at == Offset + before
         place == FragmentPlace(before, off)
     IN  \/ /\ labels[FragmentLabel] = Unbound
            /\ labels' = [labels EXCEPT ![FragmentLabel] = Offset + off]
            /\ marks' = [marks EXCEPT ![FragmentLabel] = place]
            /\ buf' = buf \o <<Code(before), Pcrel(FragmentLabel), Code(after)>>
            /\ fixups' = Append(fixups, ToLabel(at, FragmentLabel))
         \/ /\ buf' = buf \o <<Code(before), Absolute(place), Code(after)>>
            /\ fixups' = Append(fixups, ToFunction(at, Offset + off))
            /\ UNCHANGED <<labels, marks>>
  /\ UNCHANGED <<relaxes, long, out, relocs, phase>>

-----------------------------------------------------------------------------
(* relax.                                                                   *)

(* finish: without branches there is nothing to relax.                      *)
Finish ==
  /\ phase = "emit"
  /\ IF relaxes = <<>> THEN phase' = "patch" /\ out' = buf
                       ELSE phase' = "relax" /\ UNCHANGED out
  /\ UNCHANGED <<buf, labels, fixups, relaxes, long, relocs, marks>>

Saving(i) == IF i \in long THEN 0 ELSE relaxes[i].len - ShortLen

(* The bytes saved by the first branches.                                   *)
Shrink == Sums([i \in DOMAIN relaxes |-> Saving(i)], Len(relaxes))

(* The bytes saved by the branches before offset p.                         *)
SavedBefore(p) == Shrink[Cardinality({i \in DOMAIN relaxes : relaxes[i].at < p})]

Moved(p) == p - SavedBefore(p)

(* Fault: the distance is taken from where the branch starts.               *)
InReachOfStart(i) ==
  LET r == relaxes[i]
  IN  Moved(labels[r.label]) - Moved(r.at) \in Rel8

InReach(i) ==
  LET r == relaxes[i]
  IN  Moved(labels[r.label]) - (Moved(r.at) + ShortLen) \in Rel8

LabelsBound == \A i \in DOMAIN relaxes \ long : labels[relaxes[i].label] # Unbound

(* One pass over the short branches, all measured against the sizes the     *)
(* pass began with.                                                         *)
Grow ==
  /\ phase = "relax"
  /\ LabelsBound
  /\ long' = long \union {i \in DOMAIN relaxes \ long : ~InReach(i)}
  /\ long' # long
  /\ UNCHANGED <<buf, labels, fixups, relaxes, out, relocs, phase, marks>>

UndefinedTarget ==
  /\ phase = "relax"
  /\ ~LabelsBound
  /\ phase' = "failed"
  /\ UNCHANGED <<buf, labels, fixups, relaxes, long, out, relocs, marks>>

(* The branch at piece j of the buffer is the i-th one recorded.            *)
Recorded(j) == Cardinality({k \in 1 .. j : buf[k].kind = "branch"})

(* The length of piece j in the buffer that is rebuilt.                     *)
NewLen(j) ==
  IF buf[j].kind # "branch" THEN buf[j].len
  ELSE LET i == Recorded(j) IN IF i \in long THEN relaxes[i].len ELSE ShortLen

NewEnd(j) == Sums([k \in DOMAIN buf |-> NewLen(k)], Len(buf))[j]

MovedFixups == [k \in DOMAIN fixups |-> [fixups[k] EXCEPT !.at = Moved(fixups[k].at)]]

(* The pass that grows nothing ends the loop.  The bytes between branches   *)
(* move down, and each branch takes its form and the distance from its end. *)
Rebuild ==
  /\ phase = "relax"
  /\ LabelsBound
  /\ \A i \in DOMAIN relaxes \ long : InReach(i)
  /\ out' = [j \in DOMAIN buf |->
       IF buf[j].kind # "branch" THEN buf[j]
       ELSE [kind |-> "branch", len |-> NewLen(j), long |-> Recorded(j) \in long,
             disp |-> Moved(labels[relaxes[Recorded(j)].label]) - NewEnd(j)]]
  /\ labels' = [l \in Label |-> IF labels[l] = Unbound THEN Unbound ELSE Moved(labels[l])]
  /\ fixups' = MovedFixups
  /\ relaxes' = <<>>
  /\ phase' = "patch"
  /\ UNCHANGED <<buf, long, relocs, marks>>

-----------------------------------------------------------------------------
(* The rest of finish_with_labels.                                          *)

ToLabels == {k \in DOMAIN fixups : "label" \in DOMAIN fixups[k]}

PatchFixups ==
  /\ phase = "patch"
  /\ \A k \in ToLabels : labels[fixups[k].label] # Unbound
  /\ fixups' = [k \in DOMAIN fixups |->
       LET fx == fixups[k]
       IN  IF k \notin ToLabels THEN fx
           ELSE [at |-> fx.at, value |-> labels[fx.label] - (fx.at + FieldLen)]]
  /\ relocs' = {fixups[k] : k \in DOMAIN fixups \ ToLabels}
  /\ phase' = "done"
  /\ UNCHANGED <<buf, labels, relaxes, long, out, marks>>

UndefinedLabel ==
  /\ phase = "patch"
  /\ \E k \in ToLabels : labels[fixups[k].label] = Unbound
  /\ phase' = "failed"
  /\ UNCHANGED <<buf, labels, fixups, relaxes, long, out, relocs, marks>>

(* The emitter is consumed: nothing happens to it any more.                 *)
Returned == phase \in {"done", "failed"} /\ UNCHANGED vars

Next ==
  \/ Finish \/ Grow \/ UndefinedTarget \/ Rebuild \/ PatchFixups \/ UndefinedLabel \/ Returned
  \/ \E n \in CodeLen : Bytes(n)
  \/ \E l \in Label \ {FragmentLabel} : BindLabel(l) \/ EmitBranch(l) \/ Reference(l)
  \/ \E before, after \in FragmentLen : \E off \in 0 .. before + FieldLen + after :
       Splice(before, after, off)

Spec == Init /\ [][Next]_vars

-----------------------------------------------------------------------------

LabelFixup == [at : Nat, label : Label]
FunctionFixup == [at : Nat, addend : Nat]

(* Besides the types: as long as nothing has moved, a recorded branch or    *)
(* field is at the offset of its piece, in order.                           *)
TypeOK ==
  /\ phase \in {"emit", "relax", "patch", "done", "failed"}
  /\ labels \in [Label -> Nat \union {Unbound}]
  /\ relaxes \in Seq([at : Nat, len : Nat, label : Label])
  /\ long \subseteq 1 .. Len(buf)
  /\ relocs \subseteq FunctionFixup
  /\ \A k \in DOMAIN fixups :
       fixups[k] \in LabelFixup \union FunctionFixup \union [at : Nat, value : Int]
  /\ phase \in {"emit", "relax"} =>
       /\ {r.at : r \in Range(relaxes)} =
            {Ends(buf)[j - 1] : j \in {k \in DOMAIN buf : buf[k].kind = "branch"}}
       /\ \A i \in 1 .. Len(relaxes) - 1 : relaxes[i].at < relaxes[i + 1].at
  /\ phase \in {"patch", "done"} => Len(out) = Len(buf)

(* What the caller has after finish_with_labels.                            *)
Result ==
  CASE phase = "failed" -> Undefined
    [] phase = "done" ->
         [length |-> Size(out),
          branches |-> {<<Ends(out)[j - 1], out[j].long, out[j].disp>> :
                          j \in {k \in DOMAIN out : out[k].kind = "branch"}},
          fields |-> {<<fx.at, fx.value>> : fx \in {f \in Range(fixups) : "value" \in DOMAIN f}},
          labels |-> labels]
    [] OTHER -> Unfinished

Promise == INSTANCE BranchLayout WITH pieces <- buf, result <- Result

(* Growing branches until nothing changes and remapping every offset gives  *)
(* the layout with as few long branches as there can be, every displacement *)
(* and field leading to the place its label was bound to, and an error only *)
(* for a label that was never bound (emit.rs on relaxable branches).        *)
Implements == Promise!Spec

(* An absolute reference into a spliced fragment is to the function's own   *)
(* symbol at the right offset: that of the place it refers to, in the       *)
(* finished code (inline_asm.rs, splice).                                   *)
AbsoluteLands ==
  phase = "done" =>
    LET grown == {j \in DOMAIN out : out[j].kind = "branch" /\ out[j].long}
    IN  \A j \in DOMAIN out : out[j].kind = "abs" =>
          ToFunction(Ends(out)[j - 1], Promise!Position(grown, out[j].place)) \in relocs
===============================================================================
