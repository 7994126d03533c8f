--------------------------------- MODULE Lto ---------------------------------
(***************************************************************************)
(* Link-time optimization: the modules are merged (ModuleMerge), a pass       *)
(* manager runs inlining and dead-function elimination over the result, and   *)
(* the one object that comes out is linked with objects compiled elsewhere.   *)
(* src/src/bin/lf.rs, src/src/pass/mod.rs, src/src/analysis/manager.rs,  *)
(* src/src/transform/inline.rs, src/src/transform/dead_functions.rs, src/src/ir/mod.rs. *)
(***************************************************************************)
EXTENDS ModuleMerge

CONSTANTS
  Programs,     \* the sequences of modules to merge
  Elsewhere,    \* the sequences of objects to link with the result
  MaxRuns,      \* bound: how often a pass is run
  MaxCached     \* bound: how many results are kept at a time

ASSUME BoundsAssumption == MaxRuns \in Nat /\ MaxCached \in Nat

\* The modules are typed, their references are handles of their own, and each
\* of them names its functions, and its globals, apart.
ASSUME ProgramsAssumption ==
  \A p \in Programs : /\ p \in Seq(Unit)
                      /\ \A u \in ToSet(p) : /\ ReferencesResolve(u)
                                             /\ NamesDiffer(u.funcs) /\ NamesDiffer(u.globals)

VARIABLES
  objects,      \* the objects compiled elsewhere
  runs,         \* how many passes were run
  cache,        \* AnalysisCache: the function a result was computed from, by FuncId
  wanted        \* history: what the modules do when linked one by one

vars == <<mergeVars, objects, runs, cache, wanted>>
passVars == <<units, taken, phase, globalMap, funcMap, globalInstalls, bodyInstalls, objects, wanted>>

FuncIds == DOMAIN self.funcs

-----------------------------------------------------------------------------
(* The merged module is handed to the pass manager *)

Merge == MergeStep /\ UNCHANGED <<objects, runs, cache, wanted>>

BeginPasses ==
  /\ phase = "idle"
  /\ taken = Len(units)
  /\ phase' = "optimize"
  /\ wanted' = Behaviour(units \o objects)
  /\ UNCHANGED <<units, taken, self, globalMap, funcMap, globalInstalls, bodyInstalls, objects, runs, cache>>

\* A pass that reports a change drops every cached result.
Report(changed) == IF changed THEN cache' = <<>> ELSE UNCHANGED cache

RunPass == phase = "optimize" /\ runs < MaxRuns /\ runs' = runs + 1

\* Between runs an analysis of function `id` is asked for, and kept.
GetOrCompute ==
  /\ phase = "optimize"
  /\ Cardinality(DOMAIN cache) < MaxCached
  /\ \E id \in FuncIds \ DOMAIN cache :
       /\ Defined(self.funcs[id])
       /\ cache' = [f \in DOMAIN cache \union {id} |-> IF f = id THEN self.funcs[id] ELSE cache[f]]
  /\ UNCHANGED <<passVars, self, runs>>

-----------------------------------------------------------------------------
(* Inlining *)

\* Fault: a weak body is taken for the one that will be called.
InlinableEvenWeak(caller, callee) == callee # caller /\ Defined(self.funcs[callee])

\* A known body that no other object may replace, and not the caller's own.
Inlinable(caller, callee) ==
  /\ callee # caller
  /\ Defined(self.funcs[callee])
  /\ self.funcs[callee].linkage # "weak"

Body(f) == self.funcs[f].body
CallSites ==
  {s \in UNION {{f} \X DOMAIN Body(f) : f \in {f \in FuncIds : Defined(self.funcs[f])}} :
     LET item == Body(s[1])[s[2]]
     IN  item.kind = "call" /\ Inlinable(s[1], item.of)}

\* The caller with those calls replaced by the bodies they call, as these
\* were before the run.
Spliced(f, sites) ==
  FlattenSeq([j \in DOMAIN Body(f) |->
    IF <<f, j>> \in sites THEN Body(Body(f)[j].of) ELSE <<Body(f)[j]>>])

\* Which calls are worth it (size, budgets, hints) is left open.
Inline ==
  /\ RunPass
  /\ \E sites \in SUBSET CallSites :
       /\ self' = [self EXCEPT !.funcs = <<>> \o
                     [f \in FuncIds |-> IF \E s \in sites : s[1] = f
                                        THEN [self.funcs[f] EXCEPT !.body = Spliced(f, sites)]
                                        ELSE self.funcs[f]]]
       /\ Report(sites # {})
  /\ UNCHANGED passVars

-----------------------------------------------------------------------------
(* Dead-function elimination *)

References(body) ==
  IF body = None THEN {} ELSE {i.of : i \in {i \in ToSet(body) : i.kind \in {"call", "addr"}}}

\* Every function others can call, whose address data holds, or that a global
\* of the same name stands for.
Roots ==
  {f \in FuncIds : \/ self.funcs[f].linkage # "internal"
                   \/ Named(self.globals, self.funcs[f].name) # {}}
    \union UNION {References(self.globals[g].init) : g \in DOMAIN self.globals}

\* What they lead to: the least set of functions that is closed under references.
ClosedUnderReferences(S) == \A f \in S : References(Body(f)) \subseteq S
Live == {f \in FuncIds : \A S \in SUBSET FuncIds : Roots \subseteq S /\ ClosedUnderReferences(S) => f \in S}

\* Module::remove_functions: the survivors keep their order and close ranks.
Renumbered(live, id) == Cardinality({f \in live : f <= id})
RenumberedBody(live, body) ==
  IF body = None THEN None
  ELSE [j \in DOMAIN body |-> IF body[j].kind \in {"call", "addr"}
                              THEN [body[j] EXCEPT !.of = Renumbered(live, @)] ELSE body[j]]
Survivor(live, k) == self.funcs[CHOOSE f \in live : Renumbered(live, f) = k]

\* Fault: the renumbering stops at the bodies, so initializers name the wrong
\* function.
RemoveFunctionsFromBodies(live) ==
  [self EXCEPT !.funcs = [k \in 1..Cardinality(live) |->
                            [Survivor(live, k) EXCEPT !.body = RenumberedBody(live, @)]]]

RemoveFunctions(live) ==
  [self EXCEPT !.funcs = [k \in 1..Cardinality(live) |->
                            [Survivor(live, k) EXCEPT !.body = RenumberedBody(live, @)]],
               !.globals = [g \in DOMAIN self.globals |->
                              [self.globals[g] EXCEPT !.init = RenumberedBody(live, @)]]]

\* Fault: only the removed functions lose their results, although the
\* survivors have new numbers.
DeadFunctionElimKeepingResults ==
  /\ RunPass
  /\ \E live \in {Live} :
       /\ self' = RemoveFunctions(live)
       /\ cache' = [id \in DOMAIN cache \intersect live |-> cache[id]]
  /\ UNCHANGED passVars

DeadFunctionElim ==
  /\ RunPass
  /\ \E live \in {Live} : self' = RemoveFunctions(live) /\ Report(live # FuncIds)
  /\ UNCHANGED passVars

-----------------------------------------------------------------------------
Init ==
  /\ MergeInit
  /\ units \in Programs
  /\ objects \in Elsewhere
  /\ runs = 0
  /\ cache = <<>>
  /\ wanted = None

Over ==
  /\ phase = "failed" \/ (phase = "optimize" /\ runs = MaxRuns)
  /\ UNCHANGED vars

Next == Merge \/ BeginPasses \/ GetOrCompute \/ Inline \/ DeadFunctionElim \/ Over

Spec == Init /\ [][Next]_vars

-----------------------------------------------------------------------------
\* Also between the steps of a merge and after a renumbering, no reference in
\* the module dangles.
TypeOK ==
  /\ phase \in {"idle", "link", "failed", "optimize"}
  /\ taken \in 0..Len(units) /\ runs \in 0..MaxRuns
  /\ self \in Unit /\ ReferencesResolve(self)
  /\ ToSet(globalMap) \subseteq DOMAIN self.globals /\ ToSet(funcMap) \subseteq FuncIds

\* At any point of the pipeline, linking the combined module does what linking
\* the separate ones does, whatever else it is linked with: the same
\* definition is behind every call, address and datum (merge.rs:16-24,
\* dead_functions.rs:42-48, inline.rs:30-35).
LinksAlike ==
  phase = "optimize" /\ ~DuplicateSymbol(units \o objects)
    => Behaviour(<<self>> \o objects) = wanted

\* A cached result is one of the function that has that number now
\* (manager.rs:78, pass/mod.rs:66-76).
CacheFresh == \A id \in DOMAIN cache : id \in FuncIds /\ cache[id] = self.funcs[id]
=============================================================================
