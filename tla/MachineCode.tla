----------------------------- MODULE MachineCode -----------------------------
(***************************************************************************)
(* Machine code before register allocation, and what the allocator reads   *)
(* off it: which registers are live where.  Modelled from                   *)
(* src/src/codegen/regalloc.rs and src/src/codegen/mir.rs.               *)
(*                                                                         *)
(* A virtual register is a positive number, a physical one a member of      *)
(* PReg.  A machine function is kept in layout order: `insts` is the code   *)
(* point by point (the source counts points from 0, this module from 1)     *)
(* and blocks[b] says which points block b covers and which blocks follow.  *)
(* One register class is modelled; classes never share a register.          *)
(***************************************************************************)
EXTENDS Integers, Sequences, FiniteSets, SequencesExt, FiniteSetsExt

CONSTANT PReg       \* the physical registers

\* An instruction: its register operands in order, whether it is a plain
\* copy, which operands its first operand may share a register with (indices
\* of `ops`), and which operands the encoder's expansion reads after it has
\* written the first one.
Inst(ops, move, tied, late) == [ops |-> ops, move |-> move, tied |-> tied, late |-> late]
Def(r) == [kind |-> "def", reg |-> r]
Use(r) == [kind |-> "use", reg |-> r]

Touched(i, kind) == {i.ops[k].reg : k \in {k \in DOMAIN i.ops : i.ops[k].kind = kind}}
Defs(i) == Touched(i, "def")
Uses(i) == Touched(i, "use")
Virtuals(regs) == regs \ PReg

Points(mf) == DOMAIN mf.insts
BlockPoints(mf, b) == mf.blocks[b].first .. mf.blocks[b].last
DefPoints(mf, r) == {p \in Points(mf) : r \in Defs(mf.insts[p])}
UsePoints(mf, r) == {p \in Points(mf) : r \in Uses(mf.insts[p])}

-----------------------------------------------------------------------------
(* Liveness *)

\* v is read in block b before the block writes it.
Exposed(mf, v, b) ==
  \E p \in BlockPoints(mf, b) \intersect UsePoints(mf, v) :
    \A q \in mf.blocks[b].first .. (p - 1) : q \notin DefPoints(mf, v)

Written(mf, v, b) == BlockPoints(mf, b) \intersect DefPoints(mf, v) # {}

\* The blocks v is live out of when it is live into those of `in`.
LiveOutOf(mf, in) == {b \in DOMAIN mf.blocks : mf.blocks[b].succ \intersect in # {}}

\* The blocks v is live into: the least solution of the backward dataflow.
Solves(mf, v, in) ==
  \A b \in DOMAIN mf.blocks :
    Exposed(mf, v, b) \/ (b \in LiveOutOf(mf, in) /\ ~Written(mf, v, b)) => b \in in
LiveInto(mf, v) ==
  {b \in DOMAIN mf.blocks : \A in \in SUBSET DOMAIN mf.blocks : Solves(mf, v, in) => b \in in}

-----------------------------------------------------------------------------
(* Intervals, sets of intervals *)

Interval(s, e) == [start |-> s, end |-> e]
Covered(segs) == UNION {i.start .. i.end : i \in segs}

\* Where two sets of intervals overlap, piece by piece.
Common(i, j) == Interval(Max({i.start, j.start}), Min({i.end, j.end}))
Overlaps(a, b) == {o \in {Common(i, j) : i \in a, j \in b} : o.start <= o.end}

\* Overlapping intervals joined; intervals that only touch end to start stay
\* apart.
Merge(segs) ==
  LET firsts == {i.start : i \in {i \in segs : \A j \in segs : ~(j.start < i.start /\ i.start <= j.end)}}
      lasts  == {i.end : i \in {i \in segs : \A j \in segs : ~(j.start <= i.end /\ i.end < j.end)}}
  IN  {Interval(s, Min({e \in lasts : e >= s})) : s \in firsts}

\* Fault: being live out of a block does not count, only being touched.
HullWithoutLiveOut(mf, v, in) ==
  LET points == DefPoints(mf, v) \union UsePoints(mf, v)
                  \union {mf.blocks[b].first : b \in in}
  IN  IF points = {} THEN {} ELSE {Interval(Min(points), Max(points))}

\* The one interval that covers every point at which v is touched or live at
\* an edge of a block; none if v never is.
Hull(mf, v, in) ==
  LET points == DefPoints(mf, v) \union UsePoints(mf, v)
                  \union {mf.blocks[b].first : b \in in}
                  \union {mf.blocks[b].last : b \in LiveOutOf(mf, in)}
  IN  IF points = {} THEN {} ELSE {Interval(Min(points), Max(points))}

\* v's live stretches in block b: from each definition, or from the block's
\* start, to the last use before v is defined again, or to the block's end.
BlockSegments(mf, v, out, b) ==
  LET defs == BlockPoints(mf, b) \cap DefPoints(mf, v)
      uses == BlockPoints(mf, b) \cap UsePoints(mf, v)
      NextDefs(p) == {d \in defs : d > p}
      Reads(p) == IF NextDefs(p) # {} THEN {u \in uses : p < u /\ u <= Min(NextDefs(p))}
                  ELSE {u \in uses : p < u}
      EndFrom(p) == IF NextDefs(p) = {} /\ b \in out THEN {mf.blocks[b].last} ELSE Reads(p)
      entry == mf.blocks[b].first
  IN  {Interval(d, Max({d} \union EndFrom(d))) : d \in defs}
        \union {Interval(entry, e) : e \in IF EndFrom(entry - 1) = {} THEN {}
                                           ELSE {Max(EndFrom(entry - 1))}}

LiveSegments(mf, v, in) ==
  Merge(UNION {BlockSegments(mf, v, LiveOutOf(mf, in), b) : b \in DOMAIN mf.blocks})

-----------------------------------------------------------------------------
(* Physical registers the code names itself *)

\* The virtual register a copy at p moves to or from pr.
Partner(mf, pr, p) ==
  LET other == Virtuals(Defs(mf.insts[p]) \union Uses(mf.insts[p]))
  IN  IF mf.precise /\ mf.insts[p].move /\ other # {} THEN other ELSE {}

\* The live ranges of pr: from a definition to the last use before the next
\* definition, and from the start of the code to the last use before the
\* first one.  `from` is the register a copy that opens the range reads, `to`
\* the one a copy at its last point writes (sets of at most one).
FixedRanges(mf, pr) ==
  LET defs == DefPoints(mf, pr)
      uses == UsePoints(mf, pr)
      NextDefs(p) == {d \in defs : d > p}
      LastUse(p) ==
        IF NextDefs(p) = {} THEN Max({p} \union {u \in uses : u > p})
        ELSE Max({p} \union {u \in uses : p < u /\ u <= Min(NextDefs(p))})
      Closing(p) == IF LastUse(p) \in uses \ defs THEN Partner(mf, pr, LastUse(p)) ELSE {}
      Opened(p) == [iv |-> Interval(p, LastUse(p)),
                    from |-> IF p \in uses THEN {} ELSE Partner(mf, pr, p),
                    to |-> Closing(p)]
      incoming == uses # {} /\ \A d \in defs : Min(uses) <= d
  IN  {Opened(d) : d \in defs}
        \union IF incoming
               THEN {[iv |-> Interval(1, LastUse(0)), from |-> {}, to |-> Closing(0)]}
               ELSE {}

\* The (destination, source) pairs the instruction at p lets share a register.
Ties(mf, p) ==
  LET i == mf.insts[p]
  IN  IF ~mf.precise \/ i.ops = <<>> \/ i.ops[1].kind # "def" \/ i.ops[1].reg \in PReg THEN {}
      ELSE {<<i.ops[1].reg, i.ops[k].reg>> :
              k \in {k \in i.tied : i.ops[k].kind = "use" /\ i.ops[k].reg \notin PReg}}

-----------------------------------------------------------------------------
(* What the allocator knows about a function before it scans. *)
LivenessOf(mf, nv) ==
  LET in   == [v \in 1..nv |-> LiveInto(mf, v)]
      hull == [v \in 1..nv |-> Hull(mf, v, in[v])]
  IN  [hull |-> hull,
       segs |-> [v \in 1..nv |-> IF mf.precise THEN LiveSegments(mf, v, in[v]) ELSE hull[v]],
       defs |-> [v \in 1..nv |-> IF mf.precise THEN DefPoints(mf, v) ELSE {}],
       ties |-> [p \in Points(mf) |-> Ties(mf, p)],
       fixed |-> [pr \in PReg |-> FixedRanges(mf, pr)],
       \* the physical registers v is copied to or from, and its tied partners
       hints |-> [v \in 1..nv |->
                   UNION {(Defs(mf.insts[p]) \union Uses(mf.insts[p])) \cap PReg :
                            p \in {p \in DefPoints(mf, v) \union UsePoints(mf, v) : mf.insts[p].move}}],
       partners |-> [v \in 1..nv |->
                   {u \in 1..nv : u # v /\ \E p \in Points(mf) : {<<u, v>>, <<v, u>>} \cap Ties(mf, p) # {}}]]
=============================================================================
