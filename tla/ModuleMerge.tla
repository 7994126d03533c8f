----------------------------- MODULE ModuleMerge -----------------------------
(***************************************************************************)
(* Linking IR modules into one: merge_modules and Module::link_module of     *)
(* src/src/ir/merge.rs.  Types and constants are interned without loss and *)
(* appear only through the references they carry; the joined attributes      *)
(* (visibility, secrecy, thread-locality) are one level, which only grows.   *)
(***************************************************************************)
EXTENDS Linker

VARIABLES
  units,      \* the modules to merge, in order
  taken,      \* how many have been merged
  self,       \* the combined module
  phase,
  \* while a module is linked in:
  globalMap, funcMap,  \* the incoming numbers resolved so far, to self's
  globalInstalls,      \* pairs <<target, incoming>> of globals to install
  bodyInstalls         \* pairs <<target, incoming>> of bodies to copy

mergeVars == <<units, taken, self, phase, globalMap, funcMap, globalInstalls, bodyInstalls>>

other == units[taken + 1]
Empty == [funcs |-> <<>>, globals |-> <<>>, layout |-> None]

\* How strongly a global defines its symbol.
DefRank(g) ==
  IF g.init = None THEN 0
  ELSE IF g.detached THEN 1
  ELSE IF g.linkage = "weak" THEN 2 ELSE 3
StrongRank == 3

Named(seq, n) == {i \in DOMAIN seq : seq[i].name = n}
Join(l, m) == Max({l, m})

-----------------------------------------------------------------------------
(* The layouts must agree; an empty module takes the other's. *)

IsEmpty(u) == u.funcs = <<>> /\ u.globals = <<>>

BeginLink ==
  /\ phase = "idle"
  /\ taken < Len(units)
  /\ IsEmpty(self) \/ self.layout = other.layout
  /\ self' = [self EXCEPT !.layout = other.layout]
  /\ phase' = "link"
  /\ UNCHANGED <<units, taken, globalMap, funcMap, globalInstalls, bodyInstalls>>

Fail == phase' = "failed" /\ UNCHANGED <<units, taken, self, globalMap, funcMap, globalInstalls, bodyInstalls>>

DataLayoutMismatch ==
  /\ phase = "idle"
  /\ taken < Len(units)
  /\ ~IsEmpty(self) /\ self.layout # other.layout
  /\ Fail

-----------------------------------------------------------------------------
(* The next incoming global is resolved by name. *)

MoreGlobals == phase = "link" /\ Len(globalMap) < Len(other.globals)
Gi == Len(globalMap) + 1
IncomingGlobal == other.globals[Gi]

AddGlobal ==
  /\ MoreGlobals
  /\ Named(self.globals, IncomingGlobal.name) = {}
  /\ LET id == Len(self.globals) + 1
     IN  /\ self' = [self EXCEPT !.globals = Append(@, [IncomingGlobal EXCEPT !.init = None])]
         /\ globalMap' = Append(globalMap, id)
         /\ globalInstalls' = globalInstalls \union {<<id, Gi>>}
  /\ UNCHANGED <<units, taken, phase, funcMap, bodyInstalls>>

\* Fault: a definition is kept against any later one.
UnifyGlobalKeepingFirst ==
  /\ MoreGlobals
  /\ \E i \in Named(self.globals, IncomingGlobal.name) :
       LET cur == self.globals[i]
       IN  /\ ~(DefRank(cur) = StrongRank /\ DefRank(IncomingGlobal) = StrongRank)
           /\ self' = [self EXCEPT !.globals[i].level = Join(cur.level, IncomingGlobal.level)]
           /\ globalMap' = Append(globalMap, i)
           /\ globalInstalls' = IF DefRank(cur) = 0 THEN globalInstalls \union {<<i, Gi>>}
                                ELSE globalInstalls
  /\ UNCHANGED <<units, taken, phase, funcMap, bodyInstalls>>

UnifyGlobal ==
  /\ MoreGlobals
  /\ \E i \in Named(self.globals, IncomingGlobal.name) :
       LET cur == self.globals[i]
       IN  /\ ~(DefRank(cur) = StrongRank /\ DefRank(IncomingGlobal) = StrongRank)
           /\ self' = [self EXCEPT !.globals[i].level = Join(cur.level, IncomingGlobal.level)]
           /\ globalMap' = Append(globalMap, i)
           /\ globalInstalls' = IF DefRank(IncomingGlobal) > DefRank(cur)
                                THEN globalInstalls \union {<<i, Gi>>} ELSE globalInstalls
  /\ UNCHANGED <<units, taken, phase, funcMap, bodyInstalls>>

DuplicateGlobal ==
  /\ MoreGlobals
  /\ \E i \in Named(self.globals, IncomingGlobal.name) :
       DefRank(self.globals[i]) = StrongRank /\ DefRank(IncomingGlobal) = StrongRank
  /\ Fail

-----------------------------------------------------------------------------
(* Then the functions. *)

MoreFunctions ==
  phase = "link" /\ Len(globalMap) = Len(other.globals) /\ Len(funcMap) < Len(other.funcs)
Fi == Len(funcMap) + 1
IncomingFunction == other.funcs[Fi]
ToInstall(id) == IF Defined(IncomingFunction) THEN bodyInstalls \union {<<id, Fi>>} ELSE bodyInstalls

AddFunction ==
  /\ MoreFunctions
  /\ Named(self.funcs, IncomingFunction.name) = {}
  /\ LET id == Len(self.funcs) + 1
     IN  /\ self' = [self EXCEPT !.funcs = Append(@, [IncomingFunction EXCEPT !.body = None])]
         /\ funcMap' = Append(funcMap, id)
         /\ bodyInstalls' = ToInstall(id)
  /\ UNCHANGED <<units, taken, phase, globalMap, globalInstalls>>

\* A definition meets a declaration, or two declarations meet: the
\* definition's linkage wins.
UnifyFunction ==
  /\ MoreFunctions
  /\ \E i \in Named(self.funcs, IncomingFunction.name) :
       /\ ~(Defined(self.funcs[i]) /\ Defined(IncomingFunction))
       /\ self' = [self EXCEPT !.funcs[i].level = Join(@, IncomingFunction.level),
                               !.funcs[i].linkage = IF Defined(IncomingFunction)
                                                    THEN IncomingFunction.linkage ELSE @]
       /\ funcMap' = Append(funcMap, i)
       /\ bodyInstalls' = ToInstall(i)
  /\ UNCHANGED <<units, taken, phase, globalMap, globalInstalls>>

DuplicateFunction ==
  /\ MoreFunctions
  /\ \E i \in Named(self.funcs, IncomingFunction.name) :
       Defined(self.funcs[i]) /\ Defined(IncomingFunction)
  /\ Fail

-----------------------------------------------------------------------------
(* With both maps complete, constants are remapped, globals and bodies       *)
(* installed.                                                                 *)

RemapItem(item) ==
  IF item.kind = "do" THEN item
  ELSE [item EXCEPT !.of = IF item.kind = "data" THEN globalMap[item.of] ELSE funcMap[item.of]]
Remap(body) == IF body = None THEN None ELSE [j \in DOMAIN body |-> RemapItem(body[j])]

Source(installs, i) == {p[2] : p \in {p \in installs : p[1] = i}}

\* Fault: the incoming attributes replace the joined ones.
InstalledGlobalOverriding(i) ==
  IF Source(globalInstalls, i) = {} THEN self.globals[i]
  ELSE LET g == other.globals[CHOOSE s \in Source(globalInstalls, i) : TRUE]
       IN  [g EXCEPT !.init = Remap(g.init)]

\* The attributes come with the definition, except what was joined.
InstalledGlobal(i) ==
  IF Source(globalInstalls, i) = {} THEN self.globals[i]
  ELSE LET g == other.globals[CHOOSE s \in Source(globalInstalls, i) : TRUE]
       IN  [g EXCEPT !.init = Remap(g.init), !.level = Join(g.level, self.globals[i].level)]

\* The attributes stay as they were resolved.
InstalledFunction(i) ==
  IF Source(bodyInstalls, i) = {} THEN self.funcs[i]
  ELSE [self.funcs[i] EXCEPT !.body = Remap(other.funcs[CHOOSE s \in Source(bodyInstalls, i) : TRUE].body)]

Install ==
  /\ phase = "link"
  /\ Len(globalMap) = Len(other.globals) /\ Len(funcMap) = Len(other.funcs)
  /\ self' = [self EXCEPT !.globals = <<>> \o [i \in DOMAIN self.globals |-> InstalledGlobal(i)],
                          !.funcs = <<>> \o [i \in DOMAIN self.funcs |-> InstalledFunction(i)]]
  /\ taken' = taken + 1
  /\ phase' = "idle"
  /\ globalMap' = <<>> /\ funcMap' = <<>> /\ globalInstalls' = {} /\ bodyInstalls' = {}
  /\ UNCHANGED units

-----------------------------------------------------------------------------
MergeInit ==
  /\ taken = 0
  /\ self = Empty
  /\ phase = "idle"
  /\ globalMap = <<>> /\ funcMap = <<>> /\ globalInstalls = {} /\ bodyInstalls = {}

MergeStep ==
  \/ BeginLink \/ DataLayoutMismatch
  \/ AddGlobal \/ UnifyGlobal \/ DuplicateGlobal
  \/ AddFunction \/ UnifyFunction \/ DuplicateFunction
  \/ Install

-----------------------------------------------------------------------------
Merged == {units[k] : k \in 1..taken}

\* Between two modules: every symbol of the combined module is at the highest
\* level any merged module gave it, whichever of them defined it and in which
\* order they came (merge.rs:165-170, 264-268: "either side's `secret` sticks").
LevelsJoin ==
  phase = "idle" =>
    /\ \A g \in ToSet(self.globals) :
         g.level = Max({h.level : h \in {h \in UNION {ToSet(u.globals) : u \in Merged} : h.name = g.name}})
    /\ \A f \in ToSet(self.funcs) :
         f.level = Max({h.level : h \in {h \in UNION {ToSet(u.funcs) : u \in Merged} : h.name = f.name}})

(* Clashes between the units up to k *)

StrongGlobal(u, n) == \E i \in Named(u.globals, n) : DefRank(u.globals[i]) = StrongRank
StrongFunction(u, n) == \E i \in Named(u.funcs, n) : Defined(u.funcs[i]) /\ u.funcs[i].linkage # "weak"
WeakFunction(u, n) == \E i \in Named(u.funcs, n) : Defined(u.funcs[i]) /\ u.funcs[i].linkage = "weak"

\* Two strong definitions of one name, external or internal ones (merge.rs:311):
\* an error by merge.rs:22-24.
StrongClash(k) ==
  \E n \in Name : \E i, j \in 1..k :
    /\ i # j
    /\ \/ StrongGlobal(units[i], n) /\ StrongGlobal(units[j], n)
       \/ StrongFunction(units[i], n) /\ StrongFunction(units[j], n)

\* A weak definition of a function beside another definition of it, weak or
\* strong.  ir-design.md:267-271, 319 and ir/mod.rs:114 let it yield;
\* merge.rs:203 asks only whether both are definitions.
WeakFunctionClash(k) ==
  \E n \in Name : \E i, j \in 1..k :
    /\ i # j
    /\ WeakFunction(units[i], n)
    /\ WeakFunction(units[j], n) \/ StrongFunction(units[j], n)

Disagree(k) ==
  \E i, j \in 1..k : ~IsEmpty(units[i]) /\ units[i].layout # units[j].layout /\ i < j

\* What is refused, in every order of the modules: merging fails only if two of
\* them define one name strongly, define one function of which one is weak, or
\* differ in layout; and no such pair gets through, whatever weaker definitions
\* and placeholders of the name came in between (merge.rs:119-127, 154-156, 203).
\* A weak global is no reason to refuse; that a weak function is one contradicts
\* what the documents say of it (README, finding 6).
RefusesClashes ==
  /\ phase = "failed" => StrongClash(taken + 1) \/ WeakFunctionClash(taken + 1) \/ Disagree(taken + 1)
  /\ phase = "idle" => ~StrongClash(taken) /\ ~WeakFunctionClash(taken) /\ ~Disagree(taken)
=============================================================================
