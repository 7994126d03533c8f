------------------------------- MODULE Linker -------------------------------
(***************************************************************************)
(* What a reference between objects means: the symbol resolution of         *)
(* src/src/link/image.rs, over objects kept as the IR modules they are compiled *)
(* from (src/src/codegen/linkage.rs and data.rs give each definition its *)
(* binding).                                                                 *)
(*                                                                         *)
(* A unit is a record [funcs, globals, layout].  A function                  *)
(* [name, linkage, level, body] is a declaration when its body is None; a    *)
(* global [name, linkage, level, detached, init] likewise.  A body, and an   *)
(* initializer, is a sequence of items [kind, of]: "do" an effect of its     *)
(* own, "call" and "addr" a call and any other use of function number `of`,  *)
(* "data" a use of global number `of`.  Every body starts with an effect.    *)
(***************************************************************************)
EXTENDS Integers, Sequences, FiniteSets, SequencesExt, FiniteSetsExt

CONSTANTS
  Name,         \* the symbols
  Effect,       \* what code can be seen doing
  Layout,       \* the data layouts
  None,         \* no body, no initializer, no layout yet
  MaxEvents     \* how many effects of a run are compared

Item == [kind : {"do"}, of : Effect] \union [kind : {"call", "addr", "data"}, of : Nat]
Function == [name : Name, linkage : {"external", "internal", "weak"}, level : Nat,
             body : Seq(Item) \union {None}]
Global == [name : Name, linkage : {"external", "internal", "weak"}, level : Nat,
           detached : BOOLEAN, init : Seq(Item) \union {None}]
Unit == [funcs : Seq(Function), globals : Seq(Global), layout : Layout \union {None}]

ASSUME MaxEventsAssumption == MaxEvents \in Nat
ASSUME NoneAssumption == None \notin Seq(Item)

\* The references of a body of unit u lead somewhere.
Resolves(u, body) ==
  body # None =>
    \A i \in ToSet(body) : /\ i.kind \in {"call", "addr"} => i.of \in DOMAIN u.funcs
                           /\ i.kind = "data" => i.of \in DOMAIN u.globals
ReferencesResolve(u) ==
  /\ \A f \in ToSet(u.funcs) : Resolves(u, f.body)
  /\ \A g \in ToSet(u.globals) : Resolves(u, g.init)

\* A name is used for one function, and for one global, at most.
NamesDiffer(seq) == \A i, j \in DOMAIN seq : seq[i].name = seq[j].name => i = j

Defined(f) == f.body # None
\* A detached global has an initializer, but its storage is elsewhere.
Stored(g) == g.init # None /\ ~g.detached

Sym(name, linkage, body) == [name |-> name, linkage |-> linkage, body |-> body]
Symbols(u) ==
  {Sym(f.name, f.linkage, f.body) : f \in {f \in ToSet(u.funcs) : Defined(f)}}
    \union {Sym(g.name, g.linkage, g.init) : g \in {g \in ToSet(u.globals) : Stored(g)}}

\* The definitions of name n that take part in the resolution, <<object, symbol>>.
Candidates(objs, n) ==
  UNION {{<<k, s>> : s \in {s \in Symbols(objs[k]) : s.name = n /\ s.linkage # "internal"}} :
           k \in DOMAIN objs}
Strong(defs) == {d \in defs : d[2].linkage = "external"}

\* A strong definition displaces a weak one; else the first definition stays.
Winner(objs, n) ==
  LET defs == Candidates(objs, n)
      best == IF Strong(defs) # {} THEN Strong(defs) ELSE defs
  IN  {d \in best : \A e \in best : d[1] <= e[1]}

NamesOf(objs) == UNION {{s.name : s \in Symbols(objs[k])} : k \in DOMAIN objs}
DuplicateSymbol(objs) == \E n \in NamesOf(objs) : Cardinality(Strong(Candidates(objs, n))) > 1

\* What a reference to n in object k denotes (a set of at most one).
SymbolAddress(objs, k, n) ==
  LET own == {s \in Symbols(objs[k]) : s.name = n /\ s.linkage = "internal"}
  IN  IF own # {} THEN {<<k, s>> : s \in own} ELSE Winner(objs, n)

-----------------------------------------------------------------------------
(* Running the linked program: the effects of calling a symbol, in order.    *)
(* Whatever an item refers to is run where it is used.                       *)

NameOf(u, item) == IF item.kind = "data" THEN u.globals[item.of].name ELSE u.funcs[item.of].name

Enter(def) == [j \in DOMAIN def[2].body |-> <<def[1], def[2].body[j]>>]

Step(objs, run) ==
  IF run.todo = <<>> \/ Len(run.events) = MaxEvents THEN run
  ELSE LET k == Head(run.todo)[1]
           item == Head(run.todo)[2]
           targets == IF item.kind = "do" THEN {} ELSE SymbolAddress(objs, k, NameOf(objs[k], item))
       IN  IF item.kind = "do"
           THEN [events |-> Append(run.events, item.of), todo |-> Tail(run.todo)]
           ELSE IF targets = {}
           THEN [events |-> Append(run.events, None), todo |-> Tail(run.todo)]
           ELSE [events |-> run.events,
                 todo |-> FlattenSeq(SetToSeq({Enter(d) : d \in targets})) \o Tail(run.todo)]

\* Entering a body takes a step, and the next one is an effect.
Events(objs, def) ==
  FoldLeft(LAMBDA run, k : Step(objs, run), [events |-> <<>>, todo |-> Enter(def)],
           [k \in 1..(2 * MaxEvents) |-> k]).events

\* The program as its users see it.
Behaviour(objs) ==
  UNION {{<<n, Events(objs, def)>> : def \in Winner(objs, n)} : n \in NamesOf(objs)}
=============================================================================
