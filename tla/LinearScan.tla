------------------------------ MODULE LinearScan ------------------------------
(***************************************************************************)
(* The linear scan of src/src/codegen/regalloc.rs (allocate_with): the virtual *)
(* registers are taken in the order their live ranges begin, each gets a    *)
(* free register, or takes one from a register that lives longer, or is     *)
(* spilled.                                                                  *)
(***************************************************************************)
EXTENDS MachineCode

CONSTANTS
  Allocatable,  \* the registers the scan may assign, in preference order
  None          \* not placed yet

ASSUME AllocatableAssumption == Allocatable \in Seq(PReg) /\ None \notin PReg \union Nat

\* Places are told apart: a stack slot is a number, a physical register is not.
ASSUME PRegAssumption == \A r \in PReg : r \notin Nat

VARIABLES
  mf,       \* the machine function, in layout order
  live,     \* what LivenessOf says of it
  queue,    \* the virtual registers the scan has not reached
  assign,   \* a physical register, a stack slot (a number) or None, by register
  active,   \* the assigned registers that may still be live, [vreg, preg, end]
  slots     \* how many stack slots were made

scanVars == <<mf, live, queue, assign, active, slots>>

VRegs == DOMAIN assign
HullOf(v) == CHOOSE i \in live.hull[v] : TRUE
Begins(v) == HullOf(v).start
Ends(v) == HullOf(v).end

-----------------------------------------------------------------------------
(* Who may not share a register *)

\* Fault: every instruction with a tied operand lets the two share, whether
\* or not the source lives on.
TiedEvenIfLive(u, v, p) == live.ties[p] \cap {<<u, v>>, <<v, u>>} # {}

\* The instruction at p lets u and v share: the one is born there, tied to
\* the other, which dies there.
TiedAt(u, v, p) ==
  \E pair \in live.ties[p] \cap {<<u, v>>, <<v, u>>} :
     /\ \E i \in live.segs[pair[1]] : i.start = p
     /\ \E i \in live.segs[pair[2]] : i.end = p

Interferes(u, v) ==
  \E o \in Overlaps(live.segs[u], live.segs[v]) : o.start = o.end => ~TiedAt(u, v, o.start)

\* v changes while the register it was copied to is still needed.
Redefined(v, r) ==
  \E d \in live.defs[v] : r.iv.start < d /\ d <= r.iv.end /\ ~(d = r.iv.end /\ v \in r.to)

\* v must keep clear of this live range of a physical register, except where
\* the range only carries v's own value.
Collides(v, r) ==
  IF v \in r.from THEN Redefined(v, r) /\ Overlaps(live.segs[v], {r.iv}) # {}
  ELSE IF v \in r.to
       THEN /\ r.iv.start < r.iv.end
            /\ Overlaps(live.segs[v], {Interval(r.iv.start, r.iv.end - 1)}) # {}
       ELSE Overlaps(live.segs[v], {r.iv}) # {}

FixedConflict(pr, v) == \E r \in live.fixed[pr] : Collides(v, r)

-----------------------------------------------------------------------------
(* The scan *)

\* The registers are taken by where they begin, then by number.
Current ==
  CHOOSE v \in queue : \A u \in queue :
    Begins(v) < Begins(u) \/ (Begins(v) = Begins(u) /\ v <= u)
\* The assigned registers that have not ended when the current one begins.
StillActive == {a \in active : a.end >= Begins(Current)}
Conflicts(pr) == {a \in StillActive : a.preg = pr /\ Interferes(Current, a.vreg)}
Free == {k \in DOMAIN Allocatable :
           ~FixedConflict(Allocatable[k], Current) /\ Conflicts(Allocatable[k]) = {}}

\* The registers a hint scores: copied to or from, or given to a partner.
Hinted == {k \in Free : \/ Allocatable[k] \in live.hints[Current]
                        \/ \E u \in live.partners[Current] : assign[u] = Allocatable[k]}

\* A precise scan takes the free register with the best hint, if any has one;
\* which hint scores best depends on loop depths and is left open.
Candidates == IF mf.precise /\ Hinted # {} THEN Hinted ELSE {k \in Free : \A j \in Free : k <= j}

Entry(pr) == [vreg |-> Current, preg |-> pr, end |-> Ends(Current)]

AssignFree ==
  /\ queue # {}
  /\ \E k \in Candidates :
       /\ assign' = [assign EXCEPT ![Current] = Allocatable[k]]
       /\ active' = StillActive \union {Entry(Allocatable[k])}
  /\ queue' = queue \ {Current}
  /\ UNCHANGED <<mf, live, slots>>

\* Fault: whoever keeps the current register out can be evicted, even from a
\* register that has other claims on it.
EvictableAny == {a \in StillActive : \E k \in DOMAIN Allocatable :
                   Allocatable[k] = a.preg /\ a \in Conflicts(a.preg)}

\* The active registers that alone keep the current one out of a register
\* that has no other claim on it.
Evictable == {a \in StillActive :
                \E k \in DOMAIN Allocatable :
                   /\ Allocatable[k] = a.preg
                   /\ ~FixedConflict(a.preg, Current)
                   /\ Conflicts(a.preg) = {a}}

Preference(a) == CHOOSE k \in DOMAIN Allocatable : Allocatable[k] = a.preg
\* The one that ends last, the first such register in preference order.
Victim == {a \in Evictable : \A b \in Evictable :
             \/ a.end > b.end
             \/ a.end = b.end /\ Preference(a) <= Preference(b)}

TakeFromVictim ==
  /\ queue # {}
  /\ Free = {}
  /\ \E a \in Victim :
       /\ a.end > Ends(Current)
       /\ assign' = [assign EXCEPT ![a.vreg] = slots + 1, ![Current] = a.preg]
       /\ active' = (StillActive \ {a}) \union {Entry(a.preg)}
  /\ slots' = slots + 1
  /\ queue' = queue \ {Current}
  /\ UNCHANGED <<mf, live>>

\* Fault: the slot is used but never added to the frame.
SpillUncounted ==
  /\ queue # {}
  /\ Free = {}
  /\ \A a \in Victim : a.end <= Ends(Current)
  /\ assign' = [assign EXCEPT ![Current] = slots + 1]
  /\ active' = StillActive
  /\ queue' = queue \ {Current}
  /\ UNCHANGED <<mf, live, slots>>

SpillCurrent ==
  /\ queue # {}
  /\ Free = {}
  /\ \A a \in Victim : a.end <= Ends(Current)
  /\ assign' = [assign EXCEPT ![Current] = slots + 1]
  /\ active' = StillActive
  /\ slots' = slots + 1
  /\ queue' = queue \ {Current}
  /\ UNCHANGED <<mf, live>>

ScanStep == AssignFree \/ TakeFromVictim \/ SpillCurrent

\* The scan of function m with n virtual registers begins.
BeginScan(m, n) ==
  /\ mf' = m
  /\ \E l \in {LivenessOf(m, n)} :
       live' = l /\ queue' = {v \in DOMAIN l.hull : l.hull[v] # {}}
  /\ assign' = [v \in 1..n |-> None]
  /\ active' = {}
  /\ slots' = 0

-----------------------------------------------------------------------------
(* The two views of liveness agree: a register lives only within the one     *)
(* interval by which the scan orders the registers and retires the active    *)
(* ones, and a register the scan never reaches lives nowhere.                *)
SegmentsInHull ==
  \A v \in VRegs :
    /\ live.hull[v] \subseteq [start : Nat, end : Nat]
    /\ \A i \in live.segs[v] : /\ i \in [start : Nat, end : Nat] /\ live.hull[v] # {}
                               /\ Begins(v) <= i.start /\ i.end <= Ends(v)

(* At every step of the scan, and so in its result: two registers that got  *)
(* the same physical register never need it at the same time, and neither   *)
(* needs it while the code itself uses it.  The scan only compares the       *)
(* current register with the active ones, and a victim is taken out of the   *)
(* middle of them (regalloc.rs:735-768).                                     *)
SharersNeverInterfere ==
  \A v \in VRegs : assign[v] \in PReg =>
     /\ ~FixedConflict(assign[v], v)
     /\ \A u \in VRegs : u # v /\ assign[u] = assign[v] => ~Interferes(u, v)
=============================================================================
