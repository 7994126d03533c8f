------------------------------- MODULE LtoProofs -------------------------------
(***************************************************************************)
(* Proofs about link-time optimization: references never dangle, cached       *)
(* results are fresh, and what merging does with clashing names and with the *)
(* attributes that are joined.                                               *)
(***************************************************************************)
EXTENDS Lto, FiniteSetTheorems, InductionLemmas

(* Merging is under way, between two modules or within one.                 *)
Merging == phase \in {"idle", "link"}

(* What the maps and the pending installs have to do with the module that is *)
(* linked in.                                                               *)
MapsShape ==
  /\ globalMap \in Seq(DOMAIN self.globals) /\ funcMap \in Seq(FuncIds)
  /\ phase = "link" => /\ taken < Len(units)
                       /\ Len(globalMap) <= Len(other.globals) /\ Len(funcMap) <= Len(other.funcs)
  /\ phase \in {"idle", "optimize"} => globalMap = <<>> /\ funcMap = <<>>
  /\ globalInstalls \subseteq (DOMAIN self.globals) \X (DOMAIN globalMap)
  /\ bodyInstalls \subseteq FuncIds \X (DOMAIN funcMap)

LtoState ==
  /\ units \in Programs /\ taken \in 0..Len(units) /\ runs \in 0..MaxRuns
  /\ phase \in {"idle", "link", "failed", "optimize"}
  /\ self \in Unit /\ ReferencesResolve(self)
  /\ phase # "optimize" => cache = <<>>

LtoInv == LtoState /\ MapsShape /\ CacheFresh

-----------------------------------------------------------------------------
(* Sequences and units *)

LEMMA Elements ==
  ASSUME NEW S, NEW s \in Seq(S)
  PROVE  /\ DOMAIN s = 1..Len(s) /\ Len(s) \in Nat
         /\ \A i \in DOMAIN s : s[i] \in S
         /\ ToSet(s) \subseteq S
         /\ \A i \in DOMAIN s : s[i] \in ToSet(s)
BY DEF ToSet

LEMMA EmptyPrefix ==
  ASSUME NEW n \in Nat, NEW S, NEW s \in [1..n -> S]
  PROVE  <<>> \o s = s /\ s \in Seq(S) /\ Len(s) = n
OBVIOUS

LEMMA AppendedElements ==
  ASSUME NEW S, NEW s \in Seq(S), NEW e \in S
  PROVE  /\ Append(s, e) \in Seq(S) /\ ToSet(Append(s, e)) = ToSet(s) \union {e}
         /\ DOMAIN Append(s, e) = 1..(Len(s) + 1)
         /\ DOMAIN s \subseteq DOMAIN Append(s, e)
<1>1. /\ Append(s, e) \in Seq(S) /\ DOMAIN Append(s, e) = 1..(Len(s) + 1)
      /\ DOMAIN s = 1..Len(s) /\ Len(s) \in Nat
      /\ \A i \in DOMAIN s : Append(s, e)[i] = s[i]
      /\ Append(s, e)[Len(s) + 1] = e
  OBVIOUS
<1>2. DOMAIN Append(s, e) = DOMAIN s \union {Len(s) + 1}
  BY <1>1
<1>3. ToSet(Append(s, e)) = ToSet(s) \union {e}
  BY <1>1, <1>2, Zenon DEF ToSet
<1> QED BY <1>1, <1>2, <1>3

LEMMA UnitsTyped ==
  ASSUME units \in Programs, taken \in 0..Len(units), taken < Len(units)
  PROVE  /\ other \in Unit /\ ReferencesResolve(other)
         /\ NamesDiffer(other.funcs) /\ NamesDiffer(other.globals)
         /\ taken + 1 \in 1..Len(units)
<1>1. units \in Seq(Unit)
  BY ProgramsAssumption
<1>2. taken + 1 \in DOMAIN units
  BY <1>1
<1> QED BY <1>1, <1>2, Elements, ProgramsAssumption DEF other

LEMMA UnitFields ==
  ASSUME NEW u \in Unit
  PROVE  /\ u.funcs \in Seq(Function) /\ u.globals \in Seq(Global)
         /\ u.layout \in Layout \union {None}
         /\ DOMAIN u.funcs = 1..Len(u.funcs) /\ Len(u.funcs) \in Nat
         /\ DOMAIN u.globals = 1..Len(u.globals) /\ Len(u.globals) \in Nat
         /\ \A i \in DOMAIN u.funcs : u.funcs[i] \in Function
         /\ \A i \in DOMAIN u.globals : u.globals[i] \in Global
BY DEF Unit

(* References resolve in a unit with as many functions and globals or more. *)
LEMMA ResolvesMore ==
  ASSUME NEW u, NEW w, NEW body, Resolves(u, body),
         DOMAIN u.funcs \subseteq DOMAIN w.funcs, DOMAIN u.globals \subseteq DOMAIN w.globals
  PROVE  Resolves(w, body)
BY DEF Resolves

LEMMA ResolvedItem ==
  ASSUME NEW u, NEW body \in Seq(Item), Resolves(u, body), body # None, NEW j \in DOMAIN body
  PROVE  /\ body[j].kind \in {"call", "addr"} => body[j].of \in DOMAIN u.funcs
         /\ body[j].kind = "data" => body[j].of \in DOMAIN u.globals
<1>1. body[j] \in ToSet(body)
  BY Elements
<1> QED BY <1>1 DEF Resolves

LEMMA ResolveElements ==
  ASSUME NEW u \in Unit
  PROVE  ReferencesResolve(u) <=> /\ \A i \in DOMAIN u.funcs : Resolves(u, u.funcs[i].body)
                                  /\ \A i \in DOMAIN u.globals : Resolves(u, u.globals[i].init)
BY DEF ReferencesResolve, ToSet

LEMMA WiderSeq ==
  ASSUME NEW S, NEW T, S \subseteq T, NEW s \in Seq(S)
  PROVE  s \in Seq(T)
OBVIOUS

(* A unit that has the globals of u with an entry more, or one changed.     *)
LEMMA ResolvesKept ==
  ASSUME NEW u \in Unit, NEW w \in Unit, ReferencesResolve(u),
         DOMAIN u.funcs \subseteq DOMAIN w.funcs, DOMAIN u.globals \subseteq DOMAIN w.globals,
         \A i \in DOMAIN w.funcs : w.funcs[i].body = None \/ (i \in DOMAIN u.funcs /\ w.funcs[i].body = u.funcs[i].body),
         \A i \in DOMAIN w.globals : w.globals[i].init = None \/ (i \in DOMAIN u.globals /\ w.globals[i].init = u.globals[i].init)
  PROVE  ReferencesResolve(w)
<1>1. \A i \in DOMAIN w.funcs : Resolves(w, w.funcs[i].body)
  <2> TAKE i \in DOMAIN w.funcs
  <2>1. CASE w.funcs[i].body = None
    BY <2>1 DEF Resolves
  <2>2. CASE i \in DOMAIN u.funcs /\ w.funcs[i].body = u.funcs[i].body
    <3>1. Resolves(u, u.funcs[i].body)
      BY <2>2, ResolveElements
    <3> QED BY <2>2, <3>1, ResolvesMore
  <2> QED BY <2>1, <2>2
<1>2. \A i \in DOMAIN w.globals : Resolves(w, w.globals[i].init)
  <2> TAKE i \in DOMAIN w.globals
  <2>1. CASE w.globals[i].init = None
    BY <2>1 DEF Resolves
  <2>2. CASE i \in DOMAIN u.globals /\ w.globals[i].init = u.globals[i].init
    <3>1. Resolves(u, u.globals[i].init)
      BY <2>2, ResolveElements
    <3> QED BY <2>2, <3>1, ResolvesMore
  <2> QED BY <2>1, <2>2
<1> QED BY <1>1, <1>2, ResolveElements

LEMMA BeginLinkKeeps == LtoInv /\ BeginLink /\ UNCHANGED <<objects, runs, cache, wanted>> => LtoInv'
<1> SUFFICES ASSUME LtoInv, BeginLink, UNCHANGED <<objects, runs, cache, wanted>> PROVE LtoInv'
  OBVIOUS
<1>1. /\ units \in Programs /\ taken \in 0..Len(units) /\ taken < Len(units) /\ phase = "idle"
      /\ self \in Unit /\ ReferencesResolve(self) /\ cache = <<>>
  BY DEF LtoInv, LtoState, BeginLink
<1>2. other \in Unit
  BY <1>1, UnitsTyped
<1>3. /\ self'.funcs = self.funcs /\ self'.globals = self.globals /\ self' \in Unit
  BY <1>1, <1>2 DEF BeginLink, Unit
<1>4. ReferencesResolve(self')
  BY <1>1, <1>3, ResolvesKept
<1>5. LtoState'
  BY <1>1, <1>3, <1>4 DEF LtoInv, LtoState, BeginLink
<1>6. MapsShape'
  <2>1. globalMap = <<>> /\ funcMap = <<>>
    BY <1>1 DEF LtoInv, MapsShape
  <2>2. other' = other /\ Len(other.globals) \in Nat /\ Len(other.funcs) \in Nat
    BY <1>2, UnitFields DEF BeginLink, other
  <2> QED BY <1>1, <1>3, <2>1, <2>2 DEF LtoInv, MapsShape, BeginLink, FuncIds
<1>7. CacheFresh'
  BY <1>1 DEF CacheFresh
<1> QED BY <1>5, <1>6, <1>7 DEF LtoInv

LEMMA Grown ==
  ASSUME NEW S, NEW T, S \subseteq T, NEW s \in Seq(S), NEW e \in T
  PROVE  /\ Append(s, e) \in Seq(T) /\ Len(Append(s, e)) = Len(s) + 1 /\ Len(s) \in Nat
         /\ DOMAIN s = 1..Len(s) /\ DOMAIN Append(s, e) = 1..(Len(s) + 1)
         /\ DOMAIN s \subseteq DOMAIN Append(s, e) /\ Len(s) + 1 \in DOMAIN Append(s, e)
         /\ \A i \in DOMAIN s : Append(s, e)[i] = s[i]
         /\ Append(s, e)[Len(s) + 1] = e
         /\ s \in Seq(T)
<1>1. s \in Seq(T)
  BY WiderSeq
<1> QED BY <1>1

(* A step that resolves one more name keeps what is known of the module.    *)
LEMMA ResolveStep ==
  ASSUME LtoInv, phase = "link", phase' = "link", UNCHANGED <<units, taken, runs, cache>>,
         self' \in Unit,
         DOMAIN self.funcs \subseteq DOMAIN self'.funcs, DOMAIN self.globals \subseteq DOMAIN self'.globals,
         \A i \in DOMAIN self'.funcs :
            self'.funcs[i].body = None \/ (i \in DOMAIN self.funcs /\ self'.funcs[i].body = self.funcs[i].body),
         \A i \in DOMAIN self'.globals :
            self'.globals[i].init = None \/ (i \in DOMAIN self.globals /\ self'.globals[i].init = self.globals[i].init),
         \/ globalMap' = globalMap /\ globalInstalls' = globalInstalls
         \/ /\ Len(globalMap) < Len(other.globals)
            /\ \E id \in DOMAIN self'.globals :
                 /\ globalMap' = Append(globalMap, id)
                 /\ globalInstalls' \in {globalInstalls, globalInstalls \union {<<id, Len(globalMap) + 1>>}},
         \/ funcMap' = funcMap /\ bodyInstalls' = bodyInstalls
         \/ /\ Len(funcMap) < Len(other.funcs)
            /\ \E id \in DOMAIN self'.funcs :
                 /\ funcMap' = Append(funcMap, id)
                 /\ bodyInstalls' \in {bodyInstalls, bodyInstalls \union {<<id, Len(funcMap) + 1>>}}
  PROVE  LtoInv'
<1>1. /\ units \in Programs /\ taken \in 0..Len(units) /\ taken < Len(units)
      /\ self \in Unit /\ ReferencesResolve(self) /\ cache = <<>>
      /\ globalMap \in Seq(DOMAIN self.globals) /\ funcMap \in Seq(FuncIds)
      /\ globalInstalls \subseteq (DOMAIN self.globals) \X (DOMAIN globalMap)
      /\ bodyInstalls \subseteq FuncIds \X (DOMAIN funcMap)
      /\ Len(globalMap) <= Len(other.globals) /\ Len(funcMap) <= Len(other.funcs)
  BY DEF LtoInv, LtoState, MapsShape
<1>2. ReferencesResolve(self')
  <2> DEFINE w == self'
  <2>1. /\ w \in Unit /\ DOMAIN self.funcs \subseteq DOMAIN w.funcs /\ DOMAIN self.globals \subseteq DOMAIN w.globals
        /\ \A i \in DOMAIN w.funcs : w.funcs[i].body = None \/ (i \in DOMAIN self.funcs /\ w.funcs[i].body = self.funcs[i].body)
        /\ \A i \in DOMAIN w.globals : w.globals[i].init = None \/ (i \in DOMAIN self.globals /\ w.globals[i].init = self.globals[i].init)
    OBVIOUS
  <2> HIDE DEF w
  <2>2. ReferencesResolve(w)
    BY <1>1, <2>1, ResolvesKept
  <2> QED BY <2>2 DEF w
<1>3. LtoState'
  BY <1>1, <1>2 DEF LtoInv, LtoState
<1>4. other' = other /\ other \in Unit /\ Len(other.globals) \in Nat /\ Len(other.funcs) \in Nat
  BY <1>1, UnitsTyped, UnitFields DEF other
<1>5. /\ globalMap' \in Seq(DOMAIN self'.globals) /\ Len(globalMap') <= Len(other.globals)
      /\ globalInstalls' \subseteq (DOMAIN self'.globals) \X (DOMAIN globalMap')
  <2>1. CASE globalMap' = globalMap /\ globalInstalls' = globalInstalls
    BY <1>1, <2>1, WiderSeq
  <2>2. ASSUME Len(globalMap) < Len(other.globals), NEW id \in DOMAIN self'.globals,
               globalMap' = Append(globalMap, id),
               globalInstalls' \in {globalInstalls, globalInstalls \union {<<id, Len(globalMap) + 1>>}}
        PROVE  <1>5!1 /\ <1>5!2
    <3>1. /\ globalMap' \in Seq(DOMAIN self'.globals) /\ Len(globalMap') = Len(globalMap) + 1
          /\ Len(globalMap) \in Nat /\ DOMAIN globalMap \subseteq DOMAIN globalMap'
          /\ Len(globalMap) + 1 \in DOMAIN globalMap'
      BY <1>1, <2>2, Grown
    <3> QED BY <1>1, <1>4, <2>2, <3>1
  <2> QED BY <2>1, <2>2
<1>6. /\ funcMap' \in Seq(DOMAIN self'.funcs) /\ Len(funcMap') <= Len(other.funcs)
      /\ bodyInstalls' \subseteq (DOMAIN self'.funcs) \X (DOMAIN funcMap')
  <2>1. CASE funcMap' = funcMap /\ bodyInstalls' = bodyInstalls
    BY <1>1, <2>1, WiderSeq DEF FuncIds
  <2>2. ASSUME Len(funcMap) < Len(other.funcs), NEW id \in DOMAIN self'.funcs,
               funcMap' = Append(funcMap, id),
               bodyInstalls' \in {bodyInstalls, bodyInstalls \union {<<id, Len(funcMap) + 1>>}}
        PROVE  <1>6!1 /\ <1>6!2
    <3>1. /\ funcMap' \in Seq(DOMAIN self'.funcs) /\ Len(funcMap') = Len(funcMap) + 1
          /\ Len(funcMap) \in Nat /\ DOMAIN funcMap \subseteq DOMAIN funcMap'
          /\ Len(funcMap) + 1 \in DOMAIN funcMap'
      BY <1>1, <2>2, Grown DEF FuncIds
    <3> QED BY <1>1, <1>4, <2>2, <3>1 DEF FuncIds
  <2> QED BY <2>1, <2>2
<1>7. MapsShape'
  BY <1>1, <1>4, <1>5, <1>6 DEF MapsShape, FuncIds
<1>8. CacheFresh'
  BY <1>1 DEF CacheFresh
<1> QED BY <1>3, <1>7, <1>8 DEF LtoInv

-----------------------------------------------------------------------------
(* What resolving a name does to the module *)

LEMMA IncomingGlobalTyped ==
  ASSUME LtoInv, MoreGlobals
  PROVE  /\ phase = "link" /\ taken < Len(units) /\ units \in Programs /\ taken \in 0..Len(units)
         /\ self \in Unit /\ other \in Unit /\ Gi \in DOMAIN other.globals /\ Gi = Len(globalMap) + 1
         /\ Len(globalMap) < Len(other.globals) /\ IncomingGlobal = other.globals[Gi]
         /\ IncomingGlobal \in Global /\ DOMAIN globalMap = 1..Len(globalMap) /\ Len(globalMap) \in Nat
<1>1. /\ phase = "link" /\ taken < Len(units) /\ units \in Programs /\ taken \in 0..Len(units)
      /\ self \in Unit /\ globalMap \in Seq(DOMAIN self.globals) /\ Len(globalMap) < Len(other.globals)
  BY DEF LtoInv, LtoState, MapsShape, MoreGlobals
<1>2. other \in Unit
  BY <1>1, UnitsTyped
<1>3. DOMAIN globalMap = 1..Len(globalMap) /\ Len(globalMap) \in Nat
  BY <1>1
<1> QED BY <1>1, <1>2, <1>3, UnitFields DEF Gi, IncomingGlobal

LEMMA IncomingFunctionTyped ==
  ASSUME LtoInv, MoreFunctions
  PROVE  /\ phase = "link" /\ taken < Len(units) /\ units \in Programs /\ taken \in 0..Len(units)
         /\ self \in Unit /\ other \in Unit /\ Fi \in DOMAIN other.funcs /\ Fi = Len(funcMap) + 1
         /\ Len(funcMap) < Len(other.funcs) /\ IncomingFunction = other.funcs[Fi]
         /\ IncomingFunction \in Function /\ DOMAIN funcMap = 1..Len(funcMap) /\ Len(funcMap) \in Nat
<1>1. /\ phase = "link" /\ taken < Len(units) /\ units \in Programs /\ taken \in 0..Len(units)
      /\ self \in Unit /\ funcMap \in Seq(FuncIds) /\ Len(funcMap) < Len(other.funcs)
  BY DEF LtoInv, LtoState, MapsShape, MoreFunctions
<1>2. other \in Unit
  BY <1>1, UnitsTyped
<1>3. DOMAIN funcMap = 1..Len(funcMap) /\ Len(funcMap) \in Nat
  BY <1>1
<1> QED BY <1>1, <1>2, <1>3, UnitFields DEF Fi, IncomingFunction

LEMMA JoinedLevel ==
  ASSUME NEW l \in Nat, NEW m \in Nat
  PROVE  Join(l, m) \in {l, m} /\ Join(l, m) \in Nat /\ l <= Join(l, m) /\ m <= Join(l, m)
<1>1. \E x \in {l, m} : \A y \in {l, m} : x >= y
  OBVIOUS
<1> QED BY <1>1 DEF Join, Max

LEMMA AddGlobalEffect ==
  ASSUME LtoInv, AddGlobal
  PROVE  LET n == Len(self.globals) + 1
             new == [IncomingGlobal EXCEPT !.init = None]
         IN  /\ n \in Nat /\ DOMAIN self.globals = 1..(n - 1) /\ DOMAIN self'.globals = 1..n
             /\ self' \in Unit /\ self'.funcs = self.funcs /\ self'.layout = self.layout
             /\ \A i \in DOMAIN self.globals : self'.globals[i] = self.globals[i]
             /\ self'.globals[n] = new /\ new \in Global
             /\ globalMap' = Append(globalMap, n) /\ globalInstalls' = globalInstalls \union {<<n, Gi>>}
<1> DEFINE new == [IncomingGlobal EXCEPT !.init = None]
<1>1. self \in Unit /\ IncomingGlobal \in Global /\ MoreGlobals
  BY IncomingGlobalTyped DEF AddGlobal
<1>2. new \in Global
  BY <1>1 DEF Global
<1>3. /\ globalMap' = Append(globalMap, Len(self.globals) + 1)
      /\ globalInstalls' = globalInstalls \union {<<Len(self.globals) + 1, Gi>>}
      /\ self' = [self EXCEPT !.globals = Append(self.globals, new)]
  BY <1>1 DEF AddGlobal, Unit
<1> HIDE DEF new
<1>4. self'.funcs = self.funcs /\ self'.globals = Append(self.globals, new) /\ self'.layout = self.layout
  BY <1>1, <1>3 DEF Unit
<1>5. /\ self.globals \in Seq(Global) /\ Append(self.globals, new) \in Seq(Global)
      /\ DOMAIN self.globals = 1..Len(self.globals) /\ Len(self.globals) \in Nat
      /\ DOMAIN self'.globals = 1..(Len(self.globals) + 1)
      /\ \A i \in DOMAIN self.globals : self'.globals[i] = self.globals[i]
      /\ self'.globals[Len(self.globals) + 1] = new
  BY <1>1, <1>2, <1>4, UnitFields
<1>6. self' \in Unit
  BY <1>1, <1>3, <1>5 DEF Unit
<1> QED BY <1>2, <1>3, <1>4, <1>5, <1>6 DEF new

LEMMA UnifyGlobalEffect ==
  ASSUME LtoInv, UnifyGlobal
  PROVE  \E i \in Named(self.globals, IncomingGlobal.name) :
           LET cur == self.globals[i]
           IN  /\ ~(DefRank(cur) = StrongRank /\ DefRank(IncomingGlobal) = StrongRank)
               /\ DOMAIN self'.globals = DOMAIN self.globals
               /\ self' \in Unit /\ self'.funcs = self.funcs /\ self'.layout = self.layout
               /\ \A j \in DOMAIN self.globals : j # i => self'.globals[j] = self.globals[j]
               /\ self'.globals[i] = [cur EXCEPT !.level = Join(cur.level, IncomingGlobal.level)]
               /\ globalMap' = Append(globalMap, i)
               /\ globalInstalls' = IF DefRank(IncomingGlobal) > DefRank(cur)
                                    THEN globalInstalls \union {<<i, Gi>>} ELSE globalInstalls
<1>1. self \in Unit /\ IncomingGlobal \in Global /\ MoreGlobals
  BY IncomingGlobalTyped DEF UnifyGlobal
<1>2. PICK i \in Named(self.globals, IncomingGlobal.name) :
        LET cur == self.globals[i]
        IN  /\ ~(DefRank(cur) = StrongRank /\ DefRank(IncomingGlobal) = StrongRank)
            /\ self' = [self EXCEPT !.globals[i].level = Join(cur.level, IncomingGlobal.level)]
            /\ globalMap' = Append(globalMap, i)
            /\ globalInstalls' = IF DefRank(IncomingGlobal) > DefRank(cur)
                                 THEN globalInstalls \union {<<i, Gi>>} ELSE globalInstalls
  BY DEF UnifyGlobal
<1> DEFINE cur == self.globals[i]
           new == [cur EXCEPT !.level = Join(cur.level, IncomingGlobal.level)]
<1>3. i \in DOMAIN self.globals /\ cur \in Global
  BY <1>1, UnitFields DEF Named
<1>4. Join(cur.level, IncomingGlobal.level) \in Nat
  BY <1>1, <1>3, JoinedLevel DEF Global
<1>5. new \in Global
  BY <1>3, <1>4 DEF Global
<1>6. /\ self'.funcs = self.funcs /\ self'.layout = self.layout
      /\ self'.globals = [self.globals EXCEPT ![i] = new]
  BY <1>1, <1>2, <1>3 DEF Unit
<1> HIDE DEF cur, new
<1>7. self' = [funcs |-> self.funcs, globals |-> [self.globals EXCEPT ![i] = new], layout |-> self.layout]
  BY <1>1, <1>2, <1>3, <1>6 DEF Unit
<1>8. self.globals \in Seq(Global) /\ [self.globals EXCEPT ![i] = new] \in Seq(Global)
  BY <1>1, <1>3, <1>5, UnitFields
<1>9. self' \in Unit
  BY <1>1, <1>7, <1>8 DEF Unit
<1>10. /\ DOMAIN self'.globals = DOMAIN self.globals /\ self'.globals[i] = new
       /\ \A j \in DOMAIN self.globals : j # i => self'.globals[j] = self.globals[j]
  BY <1>3, <1>6
<1> QED BY <1>2, <1>6, <1>9, <1>10 DEF cur, new

LEMMA AddFunctionEffect ==
  ASSUME LtoInv, AddFunction
  PROVE  LET n == Len(self.funcs) + 1
             new == [IncomingFunction EXCEPT !.body = None]
         IN  /\ n \in Nat /\ DOMAIN self.funcs = 1..(n - 1) /\ DOMAIN self'.funcs = 1..n
             /\ self' \in Unit /\ self'.globals = self.globals /\ self'.layout = self.layout
             /\ \A i \in DOMAIN self.funcs : self'.funcs[i] = self.funcs[i]
             /\ self'.funcs[n] = new /\ new \in Function
             /\ funcMap' = Append(funcMap, n) /\ bodyInstalls' = ToInstall(n)
<1> DEFINE new == [IncomingFunction EXCEPT !.body = None]
<1>1. self \in Unit /\ IncomingFunction \in Function /\ MoreFunctions
  BY IncomingFunctionTyped DEF AddFunction
<1>2. new \in Function
  BY <1>1 DEF Function
<1>3. /\ funcMap' = Append(funcMap, Len(self.funcs) + 1)
      /\ bodyInstalls' = ToInstall(Len(self.funcs) + 1)
      /\ self' = [self EXCEPT !.funcs = Append(self.funcs, new)]
  BY <1>1 DEF AddFunction, Unit
<1> HIDE DEF new
<1>4. self'.globals = self.globals /\ self'.funcs = Append(self.funcs, new) /\ self'.layout = self.layout
  BY <1>1, <1>3 DEF Unit
<1>5. /\ self.funcs \in Seq(Function) /\ Append(self.funcs, new) \in Seq(Function)
      /\ DOMAIN self.funcs = 1..Len(self.funcs) /\ Len(self.funcs) \in Nat
      /\ DOMAIN self'.funcs = 1..(Len(self.funcs) + 1)
      /\ \A i \in DOMAIN self.funcs : self'.funcs[i] = self.funcs[i]
      /\ self'.funcs[Len(self.funcs) + 1] = new
  BY <1>1, <1>2, <1>4, UnitFields
<1>6. self' \in Unit
  BY <1>1, <1>3, <1>5 DEF Unit
<1> QED BY <1>2, <1>3, <1>4, <1>5, <1>6 DEF new

LEMMA UnifyFunctionEffect ==
  ASSUME LtoInv, UnifyFunction
  PROVE  \E i \in Named(self.funcs, IncomingFunction.name) :
           LET cur == self.funcs[i]
           IN  /\ ~(Defined(cur) /\ Defined(IncomingFunction))
               /\ DOMAIN self'.funcs = DOMAIN self.funcs
               /\ self' \in Unit /\ self'.globals = self.globals /\ self'.layout = self.layout
               /\ \A j \in DOMAIN self.funcs : j # i => self'.funcs[j] = self.funcs[j]
               /\ self'.funcs[i].name = cur.name /\ self'.funcs[i].body = cur.body
               /\ self'.funcs[i].level = Join(cur.level, IncomingFunction.level)
               /\ funcMap' = Append(funcMap, i) /\ bodyInstalls' = ToInstall(i)
<1>1. self \in Unit /\ IncomingFunction \in Function /\ MoreFunctions
  BY IncomingFunctionTyped DEF UnifyFunction
<1>2. PICK i \in Named(self.funcs, IncomingFunction.name) :
        /\ ~(Defined(self.funcs[i]) /\ Defined(IncomingFunction))
        /\ self' = [self EXCEPT !.funcs[i].level = Join(@, IncomingFunction.level),
                                !.funcs[i].linkage = IF Defined(IncomingFunction)
                                                     THEN IncomingFunction.linkage ELSE @]
        /\ funcMap' = Append(funcMap, i) /\ bodyInstalls' = ToInstall(i)
  BY DEF UnifyFunction
<1> DEFINE cur == self.funcs[i]
           new == [cur EXCEPT !.level = Join(cur.level, IncomingFunction.level),
                              !.linkage = IF Defined(IncomingFunction)
                                          THEN IncomingFunction.linkage ELSE cur.linkage]
<1>3. i \in DOMAIN self.funcs /\ cur \in Function
  BY <1>1, UnitFields DEF Named
<1>4. Join(cur.level, IncomingFunction.level) \in Nat
  BY <1>1, <1>3, JoinedLevel DEF Function
<1>5. /\ new \in Function /\ new.name = cur.name /\ new.body = cur.body
      /\ new.level = Join(cur.level, IncomingFunction.level)
  BY <1>1, <1>3, <1>4 DEF Function
<1>6. /\ self'.globals = self.globals /\ self'.layout = self.layout
      /\ self'.funcs = [self.funcs EXCEPT ![i] = new]
  BY <1>1, <1>2, <1>3 DEF Unit, Function
<1> HIDE DEF cur, new
<1>7. self' = [funcs |-> [self.funcs EXCEPT ![i] = new], globals |-> self.globals, layout |-> self.layout]
  BY <1>1, <1>2, <1>3, <1>6 DEF Unit
<1>8. self.funcs \in Seq(Function) /\ [self.funcs EXCEPT ![i] = new] \in Seq(Function)
  BY <1>1, <1>3, <1>5, UnitFields
<1>9. self' \in Unit
  BY <1>1, <1>7, <1>8 DEF Unit
<1>10. /\ DOMAIN self'.funcs = DOMAIN self.funcs /\ self'.funcs[i] = new
       /\ \A j \in DOMAIN self.funcs : j # i => self'.funcs[j] = self.funcs[j]
  BY <1>3, <1>6
<1> QED BY <1>2, <1>5, <1>6, <1>9, <1>10 DEF cur

-----------------------------------------------------------------------------
(* What the end of a link does *)

(* An item of a body that resolves in `other`, remapped.                    *)
LEMMA RemappedItem ==
  ASSUME LtoInv, phase = "link", Len(globalMap) = Len(other.globals), Len(funcMap) = Len(other.funcs),
         NEW item \in Item,
         item.kind \in {"call", "addr"} => item.of \in DOMAIN other.funcs,
         item.kind = "data" => item.of \in DOMAIN other.globals
  PROVE  /\ RemapItem(item) \in Item
         /\ RemapItem(item).kind \in {"call", "addr"} => RemapItem(item).of \in DOMAIN self.funcs
         /\ RemapItem(item).kind = "data" => RemapItem(item).of \in DOMAIN self.globals
<1>1. /\ units \in Programs /\ taken \in 0..Len(units) /\ taken < Len(units) /\ self \in Unit
      /\ globalMap \in Seq(DOMAIN self.globals) /\ funcMap \in Seq(DOMAIN self.funcs)
  BY DEF LtoInv, LtoState, MapsShape, FuncIds
<1>2. other \in Unit
  BY <1>1, UnitsTyped
<1>3. /\ DOMAIN other.funcs = DOMAIN funcMap /\ DOMAIN other.globals = DOMAIN globalMap
      /\ DOMAIN self.funcs \subseteq Nat /\ DOMAIN self.globals \subseteq Nat
  BY <1>1, <1>2, UnitFields
<1>4. /\ \A i \in DOMAIN funcMap : funcMap[i] \in DOMAIN self.funcs
      /\ \A i \in DOMAIN globalMap : globalMap[i] \in DOMAIN self.globals
  BY <1>1
<1>5. CASE item.kind = "do"
  BY <1>5 DEF RemapItem, Item
<1>6. CASE item.kind = "data"
  <2>1. item \in [kind : {"call", "addr", "data"}, of : Nat]
    BY <1>6 DEF Item
  <2>2. RemapItem(item) = [kind |-> "data", of |-> globalMap[item.of]]
    BY <1>6, <2>1 DEF RemapItem
  <2>3. globalMap[item.of] \in DOMAIN self.globals /\ globalMap[item.of] \in Nat
    BY <1>3, <1>4, <1>6
  <2> QED BY <2>2, <2>3 DEF Item
<1>7. CASE item.kind \in {"call", "addr"}
  <2>1. item \in [kind : {"call", "addr", "data"}, of : Nat]
    BY <1>7 DEF Item
  <2>2. RemapItem(item) = [kind |-> item.kind, of |-> funcMap[item.of]]
    BY <1>7, <2>1 DEF RemapItem
  <2>3. funcMap[item.of] \in DOMAIN self.funcs /\ funcMap[item.of] \in Nat
    BY <1>3, <1>4, <1>7
  <2> QED BY <1>7, <2>2, <2>3 DEF Item
<1> QED BY <1>5, <1>6, <1>7 DEF Item

LEMMA RemappedBody ==
  ASSUME LtoInv, phase = "link", Len(globalMap) = Len(other.globals), Len(funcMap) = Len(other.funcs),
         NEW body \in Seq(Item) \union {None}, Resolves(other, body),
         NEW w, DOMAIN w.funcs = DOMAIN self.funcs, DOMAIN w.globals = DOMAIN self.globals
  PROVE  /\ Remap(body) \in Seq(Item) \union {None} /\ Resolves(w, Remap(body))
         /\ Remap(body) = None <=> body = None
<1>1. CASE body = None
  BY <1>1 DEF Remap, Resolves
<1>2. CASE body # None
  <2>1. body \in Seq(Item) /\ Remap(body) = [j \in DOMAIN body |-> RemapItem(body[j])]
    BY <1>2 DEF Remap
  <2>2. ASSUME NEW j \in DOMAIN body
        PROVE  /\ RemapItem(body[j]) \in Item
               /\ RemapItem(body[j]).kind \in {"call", "addr"} => RemapItem(body[j]).of \in DOMAIN self.funcs
               /\ RemapItem(body[j]).kind = "data" => RemapItem(body[j]).of \in DOMAIN self.globals
    <3>1. body[j] \in Item /\ body[j] \in ToSet(body)
      BY <2>1, Elements
    <3>2. /\ body[j].kind \in {"call", "addr"} => body[j].of \in DOMAIN other.funcs
          /\ body[j].kind = "data" => body[j].of \in DOMAIN other.globals
      BY <1>2, <2>1, ResolvedItem
    <3> QED BY <3>1, <3>2, RemappedItem
  <2>3. DOMAIN body = 1..Len(body) /\ Len(body) \in Nat
    BY <2>1
  <2>4. Remap(body) \in Seq(Item)
    BY <2>1, <2>2, <2>3
  <2>5. \A i \in ToSet(Remap(body)) : \E j \in DOMAIN body : i = RemapItem(body[j])
    BY <2>1 DEF ToSet
  <2>6. Resolves(w, Remap(body))
    BY <2>2, <2>5 DEF Resolves
  <2> QED BY <1>2, <2>4, <2>6, NoneAssumption
<1> QED BY <1>1, <1>2

LEMMA InstallEffect ==
  ASSUME LtoInv, Install
  PROVE  /\ phase = "link" /\ taken < Len(units) /\ units \in Programs /\ taken \in 0..Len(units)
         /\ other \in Unit /\ self \in Unit
         /\ DOMAIN globalMap = DOMAIN other.globals /\ DOMAIN funcMap = DOMAIN other.funcs
         /\ DOMAIN self'.globals = DOMAIN self.globals /\ DOMAIN self'.funcs = DOMAIN self.funcs
         /\ \A i \in DOMAIN self.globals : self'.globals[i] = InstalledGlobal(i)
         /\ \A i \in DOMAIN self.funcs : self'.funcs[i] = InstalledFunction(i)
         /\ self' \in Unit /\ ReferencesResolve(self') /\ self'.layout = self.layout
         /\ \A i \in DOMAIN self.globals :
              \/ /\ \A s : <<i, s>> \notin globalInstalls
                 /\ self'.globals[i] = self.globals[i]
              \/ \E s \in DOMAIN other.globals :
                   LET g == other.globals[s]
                   IN  /\ <<i, s>> \in globalInstalls
                       /\ self'.globals[i].name = g.name /\ self'.globals[i].linkage = g.linkage
                       /\ self'.globals[i].detached = g.detached
                       /\ self'.globals[i].init = None <=> g.init = None
                       /\ self'.globals[i].level = Join(g.level, self.globals[i].level)
         /\ \A i \in DOMAIN self.funcs :
              /\ self'.funcs[i].name = self.funcs[i].name /\ self'.funcs[i].level = self.funcs[i].level
              /\ \/ /\ \A s : <<i, s>> \notin bodyInstalls
                    /\ self'.funcs[i] = self.funcs[i]
                 \/ \E s \in DOMAIN other.funcs :
                      /\ <<i, s>> \in bodyInstalls
                      /\ Defined(self'.funcs[i]) <=> Defined(other.funcs[s])
<1>1. /\ phase = "link" /\ taken < Len(units) /\ units \in Programs /\ taken \in 0..Len(units)
      /\ self \in Unit /\ ReferencesResolve(self)
      /\ globalMap \in Seq(DOMAIN self.globals) /\ funcMap \in Seq(DOMAIN self.funcs)
      /\ Len(globalMap) = Len(other.globals) /\ Len(funcMap) = Len(other.funcs)
      /\ globalInstalls \subseteq (DOMAIN self.globals) \X (DOMAIN globalMap)
      /\ bodyInstalls \subseteq (DOMAIN self.funcs) \X (DOMAIN funcMap)
  BY DEF LtoInv, LtoState, MapsShape, FuncIds, Install
<1>2. other \in Unit /\ ReferencesResolve(other)
  BY <1>1, UnitsTyped
<1>3. DOMAIN globalMap = DOMAIN other.globals /\ DOMAIN funcMap = DOMAIN other.funcs
  BY <1>1, <1>2, UnitFields
<1>4. ASSUME NEW i \in DOMAIN self.globals
      PROVE  /\ InstalledGlobal(i) \in Global
             /\ \A w : DOMAIN w.funcs = DOMAIN self.funcs /\ DOMAIN w.globals = DOMAIN self.globals
                         => Resolves(w, InstalledGlobal(i).init)
             /\ \/ /\ \A s : <<i, s>> \notin globalInstalls
                   /\ InstalledGlobal(i) = self.globals[i]
                \/ \E s \in DOMAIN other.globals :
                     LET g == other.globals[s]
                     IN  /\ <<i, s>> \in globalInstalls
                         /\ InstalledGlobal(i).name = g.name /\ InstalledGlobal(i).linkage = g.linkage
                         /\ InstalledGlobal(i).detached = g.detached
                         /\ InstalledGlobal(i).init = None <=> g.init = None
                         /\ InstalledGlobal(i).level = Join(g.level, self.globals[i].level)
  <2>1. self.globals[i] \in Global /\ Resolves(self, self.globals[i].init)
    BY <1>1, UnitFields, ResolveElements
  <2>2. CASE Source(globalInstalls, i) = {}
    <3>1. \A s : <<i, s>> \notin globalInstalls
      BY <2>2 DEF Source
    <3>2. InstalledGlobal(i) = self.globals[i]
      BY <2>2 DEF InstalledGlobal
    <3> QED BY <2>1, <3>1, <3>2, ResolvesMore
  <2>3. CASE Source(globalInstalls, i) # {}
    <3> DEFINE s == CHOOSE s \in Source(globalInstalls, i) : TRUE
               g == other.globals[s]
               new == [g EXCEPT !.init = Remap(g.init), !.level = Join(g.level, self.globals[i].level)]
    <3>1. s \in Source(globalInstalls, i)
      BY <2>3
    <3>2. <<i, s>> \in globalInstalls /\ s \in DOMAIN other.globals
      <4> HIDE DEF s
      <4>1. PICK p \in globalInstalls : p[1] = i /\ p[2] = s
        BY <3>1 DEF Source
      <4>2. p \in (DOMAIN self.globals) \X (DOMAIN globalMap)
        BY <1>1, <4>1
      <4>3. p = <<i, s>> /\ s \in DOMAIN globalMap
        BY <4>1, <4>2
      <4> QED BY <4>1, <4>3, <1>3
    <3>3. InstalledGlobal(i) = new
      BY <2>3 DEF InstalledGlobal
    <3> HIDE DEF s
    <3>4. g \in Global /\ Resolves(other, g.init) /\ g.init \in Seq(Item) \union {None}
      BY <1>2, <3>2, UnitFields, ResolveElements DEF Global
    <3>5. /\ Remap(g.init) \in Seq(Item) \union {None} /\ (Remap(g.init) = None <=> g.init = None)
          /\ \A w : DOMAIN w.funcs = DOMAIN self.funcs /\ DOMAIN w.globals = DOMAIN self.globals
                      => Resolves(w, Remap(g.init))
      BY <1>1, <3>4, RemappedBody
    <3>6. Join(g.level, self.globals[i].level) \in Nat
      BY <2>1, <3>4, JoinedLevel DEF Global
    <3>7. /\ new \in Global /\ new.name = g.name /\ new.linkage = g.linkage /\ new.detached = g.detached
          /\ new.init = Remap(g.init) /\ new.level = Join(g.level, self.globals[i].level)
      BY <3>4, <3>5, <3>6 DEF Global
    <3> HIDE DEF g, new
    <3> QED BY <3>2, <3>3, <3>5, <3>7 DEF g
  <2> QED BY <2>2, <2>3
<1>5. ASSUME NEW i \in DOMAIN self.funcs
      PROVE  /\ InstalledFunction(i) \in Function
             /\ InstalledFunction(i).name = self.funcs[i].name
             /\ InstalledFunction(i).level = self.funcs[i].level
             /\ \A w : DOMAIN w.funcs = DOMAIN self.funcs /\ DOMAIN w.globals = DOMAIN self.globals
                         => Resolves(w, InstalledFunction(i).body)
             /\ \/ /\ \A s : <<i, s>> \notin bodyInstalls
                   /\ InstalledFunction(i) = self.funcs[i]
                \/ \E s \in DOMAIN other.funcs :
                     /\ <<i, s>> \in bodyInstalls
                     /\ Defined(InstalledFunction(i)) <=> Defined(other.funcs[s])
  <2>1. self.funcs[i] \in Function /\ Resolves(self, self.funcs[i].body)
    BY <1>1, UnitFields, ResolveElements
  <2>2. CASE Source(bodyInstalls, i) = {}
    <3>1. \A s : <<i, s>> \notin bodyInstalls
      BY <2>2 DEF Source
    <3>2. InstalledFunction(i) = self.funcs[i]
      BY <2>2 DEF InstalledFunction
    <3> QED BY <2>1, <3>1, <3>2, ResolvesMore
  <2>3. CASE Source(bodyInstalls, i) # {}
    <3> DEFINE s == CHOOSE s \in Source(bodyInstalls, i) : TRUE
               body == other.funcs[s].body
               new == [self.funcs[i] EXCEPT !.body = Remap(body)]
    <3>1. s \in Source(bodyInstalls, i)
      BY <2>3
    <3>2. <<i, s>> \in bodyInstalls /\ s \in DOMAIN other.funcs
      <4> HIDE DEF s
      <4>1. PICK p \in bodyInstalls : p[1] = i /\ p[2] = s
        BY <3>1 DEF Source
      <4>2. p \in (DOMAIN self.funcs) \X (DOMAIN funcMap)
        BY <1>1, <4>1
      <4>3. p = <<i, s>> /\ s \in DOMAIN funcMap
        BY <4>1, <4>2
      <4> QED BY <4>1, <4>3, <1>3
    <3>3. InstalledFunction(i) = new
      BY <2>3 DEF InstalledFunction
    <3> HIDE DEF s
    <3>4. Resolves(other, body) /\ body \in Seq(Item) \union {None}
      BY <1>2, <3>2, UnitFields, ResolveElements DEF Function
    <3> HIDE DEF body
    <3>5. /\ Remap(body) \in Seq(Item) \union {None} /\ (Remap(body) = None <=> body = None)
          /\ \A w : DOMAIN w.funcs = DOMAIN self.funcs /\ DOMAIN w.globals = DOMAIN self.globals
                      => Resolves(w, Remap(body))
      BY <1>1, <3>4, RemappedBody
    <3>6. /\ new \in Function /\ new.name = self.funcs[i].name /\ new.level = self.funcs[i].level
          /\ new.body = Remap(body)
      BY <2>1, <3>5 DEF Function
    <3> HIDE DEF new
    <3> QED BY <3>2, <3>3, <3>5, <3>6 DEF Defined, body
  <2> QED BY <2>2, <2>3
<1> DEFINE gs == [i \in DOMAIN self.globals |-> InstalledGlobal(i)]
           fs == [i \in DOMAIN self.funcs |-> InstalledFunction(i)]
<1>6. /\ gs \in [1..Len(self.globals) -> Global] /\ Len(self.globals) \in Nat
      /\ fs \in [1..Len(self.funcs) -> Function] /\ Len(self.funcs) \in Nat
      /\ DOMAIN self.globals = 1..Len(self.globals) /\ DOMAIN self.funcs = 1..Len(self.funcs)
  BY <1>1, <1>4, <1>5, UnitFields
<1> HIDE DEF gs, fs
<1>7. /\ <<>> \o gs = gs /\ gs \in Seq(Global) /\ <<>> \o fs = fs /\ fs \in Seq(Function)
  BY <1>6, EmptyPrefix
<1>8. self' = [self EXCEPT !.globals = <<>> \o gs, !.funcs = <<>> \o fs]
  BY DEF Install, gs, fs
<1>9. self'.globals = gs /\ self'.funcs = fs /\ self'.layout = self.layout /\ self' \in Unit
  BY <1>1, <1>7, <1>8 DEF Unit
<1>10. /\ DOMAIN self'.globals = DOMAIN self.globals /\ DOMAIN self'.funcs = DOMAIN self.funcs
       /\ \A i \in DOMAIN self.globals : self'.globals[i] = InstalledGlobal(i)
       /\ \A i \in DOMAIN self.funcs : self'.funcs[i] = InstalledFunction(i)
  BY <1>9 DEF gs, fs
<1>11. ReferencesResolve(self')
  <2> DEFINE w == self'
  <2>1. w \in Unit /\ DOMAIN w.globals = DOMAIN self.globals /\ DOMAIN w.funcs = DOMAIN self.funcs
    BY <1>9, <1>10
  <2>2. /\ \A i \in DOMAIN w.funcs : Resolves(w, w.funcs[i].body)
        /\ \A i \in DOMAIN w.globals : Resolves(w, w.globals[i].init)
    BY <1>4, <1>5, <1>10, <2>1
  <2> HIDE DEF w
  <2>3. ReferencesResolve(w)
    BY <2>1, <2>2, ResolveElements
  <2> QED BY <2>3 DEF w
<1>12. \A i \in DOMAIN self.globals :
         \/ /\ \A s : <<i, s>> \notin globalInstalls
            /\ self'.globals[i] = self.globals[i]
         \/ \E s \in DOMAIN other.globals :
              LET g == other.globals[s]
              IN  /\ <<i, s>> \in globalInstalls
                  /\ self'.globals[i].name = g.name /\ self'.globals[i].linkage = g.linkage
                  /\ self'.globals[i].detached = g.detached
                  /\ self'.globals[i].init = None <=> g.init = None
                  /\ self'.globals[i].level = Join(g.level, self.globals[i].level)
  <2> TAKE i \in DOMAIN self.globals
  <2>1. self'.globals[i] = InstalledGlobal(i)
    BY <1>10
  <2> QED BY <1>4, <2>1
<1>13. \A i \in DOMAIN self.funcs :
         /\ self'.funcs[i].name = self.funcs[i].name /\ self'.funcs[i].level = self.funcs[i].level
         /\ \/ /\ \A s : <<i, s>> \notin bodyInstalls
               /\ self'.funcs[i] = self.funcs[i]
            \/ \E s \in DOMAIN other.funcs :
                 /\ <<i, s>> \in bodyInstalls
                 /\ Defined(self'.funcs[i]) <=> Defined(other.funcs[s])
  <2> TAKE i \in DOMAIN self.funcs
  <2>1. self'.funcs[i] = InstalledFunction(i)
    BY <1>10
  <2> QED BY <1>5, <2>1
<1> QED BY <1>1, <1>2, <1>3, <1>9, <1>10, <1>11, <1>12, <1>13

-----------------------------------------------------------------------------
(* Every step of a merge keeps the invariant *)

LEMMA AddGlobalKeeps == ASSUME LtoInv, AddGlobal, UNCHANGED <<objects, runs, cache, wanted>> PROVE LtoInv'
<1> DEFINE n == Len(self.globals) + 1
<1>1. MoreGlobals /\ UNCHANGED <<units, taken, phase, funcMap, bodyInstalls>>
  BY DEF AddGlobal
<1>2. /\ n \in Nat /\ DOMAIN self.globals = 1..(n - 1) /\ DOMAIN self'.globals = 1..n
      /\ self' \in Unit /\ self'.funcs = self.funcs
      /\ \A i \in DOMAIN self.globals : self'.globals[i] = self.globals[i]
      /\ self'.globals[n] = [IncomingGlobal EXCEPT !.init = None]
      /\ globalMap' = Append(globalMap, n) /\ globalInstalls' = globalInstalls \union {<<n, Gi>>}
  BY AddGlobalEffect
<1>3. /\ phase = "link" /\ Gi = Len(globalMap) + 1 /\ Len(globalMap) < Len(other.globals)
      /\ IncomingGlobal \in Global /\ n >= 1
  BY <1>1, <1>2, IncomingGlobalTyped, UnitFields
<1> HIDE DEF n
<1>4. /\ n \in DOMAIN self'.globals /\ DOMAIN self.globals \subseteq DOMAIN self'.globals
      /\ \A i \in DOMAIN self'.globals : i = n \/ i \in DOMAIN self.globals
      /\ self'.globals[n].init = None
  BY <1>2, <1>3 DEF Global
<1>5. \A i \in DOMAIN self'.globals :
        self'.globals[i].init = None \/ (i \in DOMAIN self.globals /\ self'.globals[i].init = self.globals[i].init)
  BY <1>2, <1>4
<1> QED BY <1>1, <1>2, <1>3, <1>4, <1>5, ResolveStep

LEMMA UnifyGlobalKeeps == ASSUME LtoInv, UnifyGlobal, UNCHANGED <<objects, runs, cache, wanted>> PROVE LtoInv'
<1>1. MoreGlobals /\ UNCHANGED <<units, taken, phase, funcMap, bodyInstalls>>
  BY DEF UnifyGlobal
<1>2. PICK i \in Named(self.globals, IncomingGlobal.name) :
        /\ DOMAIN self'.globals = DOMAIN self.globals
        /\ self' \in Unit /\ self'.funcs = self.funcs
        /\ \A j \in DOMAIN self.globals : j # i => self'.globals[j] = self.globals[j]
        /\ self'.globals[i] = [self.globals[i] EXCEPT !.level = Join(self.globals[i].level, IncomingGlobal.level)]
        /\ globalMap' = Append(globalMap, i)
        /\ globalInstalls' = IF DefRank(IncomingGlobal) > DefRank(self.globals[i])
                             THEN globalInstalls \union {<<i, Gi>>} ELSE globalInstalls
  BY UnifyGlobalEffect
<1>3. /\ phase = "link" /\ Gi = Len(globalMap) + 1 /\ Len(globalMap) < Len(other.globals) /\ self \in Unit
  BY <1>1, IncomingGlobalTyped
<1>4. i \in DOMAIN self.globals /\ self.globals[i] \in Global
  BY <1>3, UnitFields DEF Named
<1>5. self'.globals[i].init = self.globals[i].init
  BY <1>2, <1>4 DEF Global
<1>6. \A j \in DOMAIN self'.globals : j \in DOMAIN self.globals /\ self'.globals[j].init = self.globals[j].init
  BY <1>2, <1>5
<1>7. /\ i \in DOMAIN self'.globals /\ globalMap' = Append(globalMap, i)
      /\ globalInstalls' \in {globalInstalls, globalInstalls \union {<<i, Len(globalMap) + 1>>}}
  BY <1>2, <1>3, <1>4
<1> QED BY <1>1, <1>2, <1>3, <1>6, <1>7, ResolveStep

LEMMA AddFunctionKeeps == ASSUME LtoInv, AddFunction, UNCHANGED <<objects, runs, cache, wanted>> PROVE LtoInv'
<1> DEFINE n == Len(self.funcs) + 1
<1>1. MoreFunctions /\ UNCHANGED <<units, taken, phase, globalMap, globalInstalls>>
  BY DEF AddFunction
<1>2. /\ n \in Nat /\ DOMAIN self.funcs = 1..(n - 1) /\ DOMAIN self'.funcs = 1..n
      /\ self' \in Unit /\ self'.globals = self.globals
      /\ \A i \in DOMAIN self.funcs : self'.funcs[i] = self.funcs[i]
      /\ self'.funcs[n] = [IncomingFunction EXCEPT !.body = None]
      /\ funcMap' = Append(funcMap, n) /\ bodyInstalls' = ToInstall(n)
  BY AddFunctionEffect
<1>3. /\ phase = "link" /\ Fi = Len(funcMap) + 1 /\ Len(funcMap) < Len(other.funcs)
      /\ IncomingFunction \in Function /\ n >= 1
  BY <1>1, <1>2, IncomingFunctionTyped, UnitFields
<1> HIDE DEF n
<1>4. /\ n \in DOMAIN self'.funcs /\ DOMAIN self.funcs \subseteq DOMAIN self'.funcs
      /\ \A i \in DOMAIN self'.funcs : i = n \/ i \in DOMAIN self.funcs
      /\ self'.funcs[n].body = None
  BY <1>2, <1>3 DEF Function
<1>5. \A i \in DOMAIN self'.funcs :
        self'.funcs[i].body = None \/ (i \in DOMAIN self.funcs /\ self'.funcs[i].body = self.funcs[i].body)
  BY <1>2, <1>4
<1>6. bodyInstalls' \in {bodyInstalls, bodyInstalls \union {<<n, Len(funcMap) + 1>>}}
  BY <1>2, <1>3 DEF ToInstall
<1> QED BY <1>1, <1>2, <1>3, <1>4, <1>5, <1>6, ResolveStep

LEMMA UnifyFunctionKeeps == ASSUME LtoInv, UnifyFunction, UNCHANGED <<objects, runs, cache, wanted>> PROVE LtoInv'
<1>1. MoreFunctions /\ UNCHANGED <<units, taken, phase, globalMap, globalInstalls>>
  BY DEF UnifyFunction
<1>2. PICK i \in Named(self.funcs, IncomingFunction.name) :
        /\ DOMAIN self'.funcs = DOMAIN self.funcs
        /\ self' \in Unit /\ self'.globals = self.globals
        /\ \A j \in DOMAIN self.funcs : j # i => self'.funcs[j] = self.funcs[j]
        /\ self'.funcs[i].body = self.funcs[i].body
        /\ funcMap' = Append(funcMap, i) /\ bodyInstalls' = ToInstall(i)
  BY UnifyFunctionEffect
<1>3. /\ phase = "link" /\ Fi = Len(funcMap) + 1 /\ Len(funcMap) < Len(other.funcs) /\ self \in Unit
  BY <1>1, IncomingFunctionTyped
<1>4. i \in DOMAIN self.funcs
  BY DEF Named
<1>5. \A j \in DOMAIN self'.funcs : j \in DOMAIN self.funcs /\ self'.funcs[j].body = self.funcs[j].body
  BY <1>2
<1>6. /\ i \in DOMAIN self'.funcs /\ funcMap' = Append(funcMap, i)
      /\ bodyInstalls' \in {bodyInstalls, bodyInstalls \union {<<i, Len(funcMap) + 1>>}}
  BY <1>2, <1>3, <1>4 DEF ToInstall
<1> QED BY <1>1, <1>2, <1>3, <1>5, <1>6, ResolveStep

LEMMA InstallKeeps == ASSUME LtoInv, Install, UNCHANGED <<objects, runs, cache, wanted>> PROVE LtoInv'
<1>1. /\ phase = "link" /\ taken < Len(units) /\ units \in Programs /\ taken \in 0..Len(units)
      /\ self' \in Unit /\ ReferencesResolve(self')
  BY InstallEffect
<1>2. /\ phase' = "idle" /\ taken' = taken + 1 /\ units' = units
      /\ globalMap' = <<>> /\ funcMap' = <<>> /\ globalInstalls' = {} /\ bodyInstalls' = {}
  BY DEF Install
<1>3. cache' = <<>>
  BY <1>1 DEF LtoInv, LtoState
<1>4. LtoState'
  <2>1. Len(units) \in Nat
    BY <1>1
  <2> QED BY <1>1, <1>2, <1>3, <2>1 DEF LtoInv, LtoState
<1>5. MapsShape'
  BY <1>2 DEF MapsShape
<1>6. CacheFresh'
  BY <1>3 DEF CacheFresh
<1> QED BY <1>4, <1>5, <1>6 DEF LtoInv

LEMMA FailKeeps == ASSUME LtoInv, Fail, UNCHANGED <<objects, runs, cache, wanted>>, phase # "optimize" PROVE LtoInv'
<1>1. /\ phase' = "failed" /\ UNCHANGED <<units, taken, self, globalMap, funcMap, globalInstalls, bodyInstalls>>
  BY DEF Fail
<1>2. cache' = <<>>
  BY DEF LtoInv, LtoState
<1> QED BY <1>1, <1>2 DEF LtoInv, LtoState, MapsShape, CacheFresh, FuncIds

LEMMA MergeKeeps == ASSUME LtoInv, Merge PROVE LtoInv'
<1>1. UNCHANGED <<objects, runs, cache, wanted>> /\ MergeStep
  BY DEF Merge
<1>2. CASE BeginLink
  BY <1>1, <1>2, BeginLinkKeeps
<1>3. CASE AddGlobal
  BY <1>1, <1>3, AddGlobalKeeps
<1>4. CASE UnifyGlobal
  BY <1>1, <1>4, UnifyGlobalKeeps
<1>5. CASE AddFunction
  BY <1>1, <1>5, AddFunctionKeeps
<1>6. CASE UnifyFunction
  BY <1>1, <1>6, UnifyFunctionKeeps
<1>7. CASE Install
  BY <1>1, <1>7, InstallKeeps
<1>8. CASE DataLayoutMismatch \/ DuplicateGlobal \/ DuplicateFunction
  <2>1. Fail /\ phase \in {"idle", "link"}
    BY <1>8 DEF DataLayoutMismatch, DuplicateGlobal, DuplicateFunction, MoreGlobals, MoreFunctions
  <2> QED BY <1>1, <2>1, FailKeeps
<1> QED BY <1>1, <1>2, <1>3, <1>4, <1>5, <1>6, <1>7, <1>8 DEF MergeStep

LEMMA BeginPassesKeeps == ASSUME LtoInv, BeginPasses PROVE LtoInv'
<1>1. /\ phase = "idle" /\ phase' = "optimize"
      /\ UNCHANGED <<units, taken, self, globalMap, funcMap, globalInstalls, bodyInstalls, objects, runs, cache>>
  BY DEF BeginPasses
<1> QED BY <1>1 DEF LtoInv, LtoState, MapsShape, CacheFresh, FuncIds

LEMMA GetOrComputeKeeps == ASSUME LtoInv, GetOrCompute PROVE LtoInv'
<1>1. /\ phase = "optimize"
      /\ UNCHANGED <<units, taken, self, phase, globalMap, funcMap, globalInstalls, bodyInstalls, runs>>
  BY DEF GetOrCompute, passVars
<1>2. PICK id \in FuncIds \ DOMAIN cache :
        cache' = [f \in DOMAIN cache \union {id} |-> IF f = id THEN self.funcs[id] ELSE cache[f]]
  BY DEF GetOrCompute
<1>3. CacheFresh'
  BY <1>1, <1>2 DEF LtoInv, CacheFresh, FuncIds
<1> QED BY <1>1, <1>3 DEF LtoInv, LtoState, MapsShape, FuncIds

-----------------------------------------------------------------------------
(* Inlining *)

(* The items whose references lead somewhere in u: a body resolves when it   *)
(* is a sequence of these.                                                  *)
Resolving(u) == {i \in Item : /\ i.kind \in {"call", "addr"} => i.of \in DOMAIN u.funcs
                              /\ i.kind = "data" => i.of \in DOMAIN u.globals}

LEMMA ResolvingSeq ==
  ASSUME NEW u, NEW body \in Seq(Item)
  PROVE  Resolves(u, body) <=> body \in Seq(Resolving(u))
<1>1. body # None
  BY NoneAssumption
<1>2. ASSUME Resolves(u, body) PROVE body \in Seq(Resolving(u))
  <2>1. \A j \in DOMAIN body : body[j] \in Resolving(u)
    BY <1>1, <1>2, ResolvedItem, Elements DEF Resolving
  <2>2. DOMAIN body = 1..Len(body) /\ Len(body) \in Nat /\ body = [j \in DOMAIN body |-> body[j]]
    OBVIOUS
  <2> QED BY <2>1, <2>2
<1>3. ASSUME body \in Seq(Resolving(u)) PROVE Resolves(u, body)
  <2>1. ToSet(body) \subseteq Resolving(u)
    BY <1>3, Elements
  <2> QED BY <2>1 DEF Resolves, Resolving
<1> QED BY <1>2, <1>3

LEMMA SplicedTyped ==
  ASSUME self \in Unit, ReferencesResolve(self), NEW sites \in SUBSET CallSites,
         NEW f \in FuncIds, Defined(self.funcs[f])
  PROVE  Spliced(f, sites) \in Seq(Item) /\ Resolves(self, Spliced(f, sites))
<1> DEFINE R == Resolving(self)
           piece(j) == IF <<f, j>> \in sites THEN Body(Body(f)[j].of) ELSE <<Body(f)[j]>>
<1>1. ASSUME NEW g \in FuncIds, Defined(self.funcs[g]) PROVE Body(g) \in Seq(R) /\ Body(g) \in Seq(Item)
  <2>1. self.funcs[g] \in Function /\ Resolves(self, self.funcs[g].body)
    BY UnitFields, ResolveElements DEF FuncIds
  <2>2. self.funcs[g].body \in Seq(Item)
    BY <1>1, <2>1 DEF Function, Defined
  <2> QED BY <2>1, <2>2, ResolvingSeq DEF Body
<1>2. Body(f) \in Seq(R)
  BY <1>1
<1>3. ASSUME NEW j \in DOMAIN Body(f) PROVE piece(j) \in Seq(R)
  <2>1. Body(f)[j] \in R
    BY <1>2
  <2>2. CASE <<f, j>> \in sites
    <3>1. LET item == Body(<<f, j>>[1])[<<f, j>>[2]]
          IN  item.kind = "call" /\ Inlinable(<<f, j>>[1], item.of)
      BY <2>2 DEF CallSites
    <3>2. Body(f)[j].kind = "call" /\ Defined(self.funcs[Body(f)[j].of])
      BY <3>1 DEF Inlinable
    <3>3. Body(f)[j].of \in FuncIds
      BY <2>1, <3>2 DEF Resolving, FuncIds
    <3> QED BY <1>1, <2>2, <3>2, <3>3
  <2>3. CASE <<f, j>> \notin sites
    BY <2>1, <2>3
  <2> QED BY <2>2, <2>3
<1> DEFINE pieces == [j \in DOMAIN Body(f) |-> piece(j)]
<1>4. DOMAIN Body(f) = 1..Len(Body(f)) /\ Len(Body(f)) \in Nat
  BY <1>2
<1> HIDE DEF piece, R
<1>5. pieces \in [1..Len(Body(f)) -> Seq(R)]
  BY <1>3, <1>4
<1>6. pieces \in Seq(Seq(R))
  BY <1>4, <1>5
<1>7. Spliced(f, sites) = FlattenSeq(pieces)
  BY DEF Spliced, piece
<1> HIDE DEF pieces
<1>8. Spliced(f, sites) \in Seq(R)
  BY <1>6, <1>7, FlattenTyped
<1>9. R \subseteq Item
  BY DEF R, Resolving
<1>10. Spliced(f, sites) \in Seq(Item)
  BY <1>8, <1>9, WiderSeq
<1> QED BY <1>8, <1>10, ResolvingSeq DEF R

LEMMA InlineKeeps == ASSUME LtoInv, Inline PROVE LtoInv'
<1>1. /\ phase = "optimize" /\ runs < MaxRuns /\ runs' = runs + 1
      /\ UNCHANGED <<units, taken, phase, globalMap, funcMap, globalInstalls, bodyInstalls>>
  BY DEF Inline, RunPass, passVars
<1>2. PICK sites \in SUBSET CallSites :
        /\ self' = [self EXCEPT !.funcs = <<>> \o
                      [f \in FuncIds |-> IF \E s \in sites : s[1] = f
                                         THEN [self.funcs[f] EXCEPT !.body = Spliced(f, sites)]
                                         ELSE self.funcs[f]]]
        /\ Report(sites # {})
  BY DEF Inline
<1> DEFINE fun(f) == IF \E s \in sites : s[1] = f
                     THEN [self.funcs[f] EXCEPT !.body = Spliced(f, sites)] ELSE self.funcs[f]
           fs == [f \in FuncIds |-> fun(f)]
<1>3. /\ self \in Unit /\ ReferencesResolve(self) /\ runs \in 0..MaxRuns
      /\ FuncIds = 1..Len(self.funcs) /\ Len(self.funcs) \in Nat
  BY UnitFields DEF LtoInv, LtoState, FuncIds
<1>4. ASSUME NEW f \in FuncIds PROVE fun(f) \in Function /\ Resolves(self, fun(f).body)
  <2>1. self.funcs[f] \in Function /\ Resolves(self, self.funcs[f].body)
    BY <1>3, UnitFields, ResolveElements DEF FuncIds
  <2>2. CASE \E s \in sites : s[1] = f
    <3>1. Defined(self.funcs[f])
      <4>1. PICK s \in CallSites : s[1] = f
        BY <2>2
      <4>2. PICK g \in {g \in FuncIds : Defined(self.funcs[g])} : s \in {g} \X DOMAIN Body(g)
        BY DEF CallSites
      <4>3. s[1] = g
        BY <4>2
      <4> QED BY <4>1, <4>2, <4>3
    <3>2. Spliced(f, sites) \in Seq(Item) /\ Resolves(self, Spliced(f, sites))
      BY <1>3, <3>1, SplicedTyped
    <3> QED BY <2>1, <2>2, <3>2 DEF Function
  <2>3. CASE ~ \E s \in sites : s[1] = f
    BY <2>1, <2>3
  <2> QED BY <2>2, <2>3
<1> HIDE DEF fun
<1>5. fs \in [1..Len(self.funcs) -> Function]
  BY <1>3, <1>4
<1>6. self' = [self EXCEPT !.funcs = <<>> \o fs]
  BY <1>2 DEF fun
<1>7. <<>> \o fs = fs /\ fs \in Seq(Function) /\ DOMAIN fs = FuncIds
  <2> HIDE DEF fs
  <2>1. <<>> \o fs = fs /\ fs \in Seq(Function) /\ DOMAIN fs = 1..Len(self.funcs)
    BY <1>3, <1>5, EmptyPrefix
  <2> QED BY <1>3, <2>1
<1>8. self'.funcs = fs /\ self'.globals = self.globals /\ self' \in Unit /\ FuncIds' = FuncIds
  <2> HIDE DEF fs
  <2> QED BY <1>3, <1>6, <1>7 DEF Unit, FuncIds
<1>9. ReferencesResolve(self')
  <2> DEFINE w == self'
  <2>1. \A f \in FuncIds : self'.funcs[f] = fun(f)
    BY <1>8
  <2>2. /\ w \in Unit /\ DOMAIN w.funcs = DOMAIN self.funcs /\ w.globals = self.globals
        /\ \A f \in DOMAIN w.funcs : Resolves(self, w.funcs[f].body)
    BY <1>4, <1>8, <2>1 DEF FuncIds
  <2> HIDE DEF w
  <2>3. /\ \A f \in DOMAIN w.funcs : Resolves(w, w.funcs[f].body)
        /\ \A g \in DOMAIN w.globals : Resolves(w, w.globals[g].init)
    BY <1>3, <2>2, ResolvesMore, ResolveElements
  <2>4. ReferencesResolve(w)
    BY <2>2, <2>3, ResolveElements
  <2> QED BY <2>4 DEF w
<1>10. LtoState'
  BY <1>1, <1>3, <1>8, <1>9, BoundsAssumption DEF LtoInv, LtoState
<1>11. MapsShape'
  <2>1. DOMAIN self'.globals = DOMAIN self.globals
    BY <1>8
  <2> QED BY <1>1, <1>8, <2>1 DEF LtoInv, MapsShape
<1>12. CacheFresh'
  <2>1. CASE sites # {}
    BY <1>2, <2>1 DEF Report, CacheFresh
  <2>2. CASE sites = {}
    <3>1. cache' = cache /\ \A f \in FuncIds : self'.funcs[f] = self.funcs[f]
      BY <1>2, <1>8, <2>2 DEF Report, fun
    <3> QED BY <1>8, <3>1 DEF LtoInv, CacheFresh
  <2> QED BY <2>1, <2>2
<1> QED BY <1>10, <1>11, <1>12 DEF LtoInv

-----------------------------------------------------------------------------
(* Dead-function elimination *)

(* Every number up to the size of a set is the new number of a member: the   *)
(* renumbering leaves no gap.                                               *)
LEMMA NumbersDense ==
  ASSUME NEW n \in Nat, NEW live \in SUBSET (1..n)
  PROVE  /\ Cardinality(live) \in Nat
         /\ \A f \in live : Renumbered(live, f) \in 1..Cardinality(live)
         /\ \A k \in 1..Cardinality(live) : \E f \in live : Renumbered(live, f) = k
<1> DEFINE upto(m) == {f \in live : f <= m}
<1>1. IsFiniteSet(live) /\ Cardinality(live) \in Nat
  <2>1. IsFiniteSet(1..n)
    BY FS_Interval
  <2> QED BY <2>1, FS_Subset, FS_CardinalityType
<1>2. ASSUME NEW m \in Nat
      PROVE  /\ IsFiniteSet(upto(m)) /\ Cardinality(upto(m)) \in Nat
             /\ Cardinality(upto(m)) <= Cardinality(live) /\ Renumbered(live, m) = Cardinality(upto(m))
  <2>1. upto(m) \in SUBSET live
    OBVIOUS
  <2>2. Renumbered(live, m) = Cardinality(upto(m))
    BY DEF Renumbered
  <2> HIDE DEF upto
  <2> QED BY <1>1, <2>1, <2>2, FS_Subset, FS_CardinalityType
<1>3. ASSUME NEW f \in live PROVE Renumbered(live, f) \in 1..Cardinality(live)
  <2>1. f \in Nat /\ f \in upto(f)
    OBVIOUS
  <2>2. Cardinality(upto(f)) # 0
    <3> HIDE DEF upto
    <3> QED BY <1>2, <2>1, FS_EmptySet
  <2> HIDE DEF upto
  <2> QED BY <1>1, <1>2, <2>1, <2>2
<1>4. ASSUME NEW k \in 1..Cardinality(live) PROVE \E f \in live : Renumbered(live, f) = k
  <2> DEFINE T == {m \in Nat : Cardinality(upto(m)) >= k}
  <2>1. upto(n) = live /\ upto(0) = {}
    <3>1. \A f \in live : f \in Nat /\ f <= n /\ ~(f <= 0)
      OBVIOUS
    <3> QED BY <3>1
  <2>2. n \in T /\ 0 \notin T
    <3>1. Cardinality(upto(n)) = Cardinality(live) /\ Cardinality(upto(0)) = 0
      BY <2>1, FS_EmptySet
    <3> HIDE DEF upto
    <3> QED BY <1>1, <3>1
  <2>3. PICK m \in T : \A x \in T : m <= x
    <3> HIDE DEF upto
    <3>1. T \subseteq Nat
      OBVIOUS
    <3> HIDE DEF T
    <3> QED BY <2>2, <3>1, LeastNat
  <2>4. m \in Nat /\ m - 1 \in Nat /\ m - 1 \notin T
    <3>1. T \subseteq Nat
      OBVIOUS
    <3> HIDE DEF T
    <3> QED BY <2>2, <2>3, <3>1
  <2>5. m \in live /\ upto(m) = upto(m - 1) \union {m} /\ m \notin upto(m - 1)
    <3>1. upto(m) = upto(m - 1) \union (IF m \in live THEN {m} ELSE {}) /\ m \notin upto(m - 1)
      <4>1. \A f \in live : f \in Nat /\ (f <= m <=> f <= m - 1 \/ f = m)
        BY <2>4
      <4>2. ~(m <= m - 1)
        BY <2>4
      <4> QED BY <4>1, <4>2, Zenon
    <3>2. m \in live
      BY <2>3, <2>4, <3>1
    <3> QED BY <3>1, <3>2
  <2> DEFINE low == upto(m - 1)
  <2>6. IsFiniteSet(low) /\ Cardinality(low) \in Nat /\ Cardinality(low) < k
    <3>1. Cardinality(low) \in Nat /\ IsFiniteSet(low) /\ ~(Cardinality(low) >= k)
      BY <1>2, <2>4
    <3> HIDE DEF low
    <3> QED BY <3>1
  <2>7. Cardinality(upto(m)) = Cardinality(low) + 1
    <3>1. upto(m) = low \union {m} /\ m \notin low
      BY <2>5
    <3> HIDE DEF low, upto
    <3> QED BY <2>6, <3>1, FS_AddElement
  <2>8. Cardinality(upto(m)) = k
    <3>1. Cardinality(upto(m)) >= k
      BY <2>3
    <3> HIDE DEF low, upto
    <3> QED BY <2>6, <2>7, <3>1
  <2> QED BY <1>2, <2>4, <2>5, <2>8
<1> QED BY <1>1, <1>3, <1>4

(* When every function is live, they keep their numbers.                    *)
LEMMA NumbersKept ==
  ASSUME NEW n \in Nat, NEW k \in 1..n
  PROVE  Renumbered(1..n, k) = k
<1>1. {f \in 1..n : f <= k} = 1..k
  OBVIOUS
<1>2. Cardinality(1..k) = k
  BY FS_Interval
<1> QED BY <1>1, <1>2 DEF Renumbered

(* What is live is there, has the roots and is closed under references.     *)
LEMMA LiveClosed ==
  ASSUME self \in Unit, ReferencesResolve(self)
  PROVE  Live \subseteq FuncIds /\ Roots \subseteq Live /\ ClosedUnderReferences(Live)
<1>1. ASSUME NEW body \in Seq(Item) \union {None}, Resolves(self, body) PROVE References(body) \subseteq FuncIds
  <2>1. CASE body = None
    BY <2>1 DEF References
  <2>2. CASE body # None
    <3>1. \A i \in ToSet(body) : i.kind \in {"call", "addr"} => i.of \in DOMAIN self.funcs
      BY <1>1, <2>2 DEF Resolves
    <3> QED BY <2>2, <3>1 DEF References, FuncIds
  <2> QED BY <2>1, <2>2
<1>2. Live \subseteq FuncIds
  BY DEF Live
<1>3. \A g \in DOMAIN self.globals : References(self.globals[g].init) \subseteq FuncIds
  <2> TAKE g \in DOMAIN self.globals
  <2>1. self.globals[g] \in Global /\ Resolves(self, self.globals[g].init)
    BY UnitFields, ResolveElements
  <2> QED BY <1>1, <2>1 DEF Global
<1>4. Roots \subseteq FuncIds
  BY <1>3 DEF Roots
<1>5. Roots \subseteq Live
  BY <1>4 DEF Live
<1>6. ASSUME NEW f \in Live, NEW r \in References(Body(f)) PROVE r \in Live
  <2>1. f \in FuncIds
    BY <1>2
  <2>2. self.funcs[f] \in Function /\ Resolves(self, self.funcs[f].body)
    BY <2>1, UnitFields, ResolveElements DEF FuncIds
  <2>3. r \in FuncIds
    BY <1>1, <2>2 DEF Function, Body
  <2>4. ASSUME NEW S \in SUBSET FuncIds, Roots \subseteq S, ClosedUnderReferences(S) PROVE r \in S
    <3>1. f \in S
      BY <2>4 DEF Live
    <3> QED BY <2>4, <3>1 DEF ClosedUnderReferences
  <2> QED BY <2>3, <2>4 DEF Live
<1>7. ClosedUnderReferences(Live)
  BY <1>6 DEF ClosedUnderReferences
<1> QED BY <1>2, <1>5, <1>7

(* A body that refers to live functions only, renumbered.                    *)
LEMMA RenumberedTyped ==
  ASSUME NEW n \in Nat, NEW live \in SUBSET (1..n), NEW u, NEW body \in Seq(Item) \union {None},
         Resolves(u, body), References(body) \subseteq live,
         NEW w, DOMAIN w.funcs = 1..Cardinality(live), DOMAIN w.globals = DOMAIN u.globals
  PROVE  /\ RenumberedBody(live, body) \in Seq(Item) \union {None}
         /\ Resolves(w, RenumberedBody(live, body))
<1>1. CASE body = None
  BY <1>1 DEF RenumberedBody, Resolves
<1>2. CASE body # None
  <2> DEFINE new(j) == IF body[j].kind \in {"call", "addr"}
                       THEN [body[j] EXCEPT !.of = Renumbered(live, body[j].of)] ELSE body[j]
             nb == [j \in DOMAIN body |-> new(j)]
  <2>1. body \in Seq(Item) /\ DOMAIN body = 1..Len(body) /\ Len(body) \in Nat
    BY <1>2
  <2>2. RenumberedBody(live, body) = nb
    BY <1>2 DEF RenumberedBody
  <2>3. ASSUME NEW j \in DOMAIN body PROVE new(j) \in Resolving(w)
    <3>1. /\ body[j] \in Item /\ body[j] \in ToSet(body)
          /\ body[j].kind = "data" => body[j].of \in DOMAIN u.globals
      BY <1>2, <2>1, ResolvedItem, Elements
    <3>2. CASE body[j].kind \in {"call", "addr"}
      <4>1. body[j].of \in live
        BY <1>2, <3>1, <3>2 DEF References
      <4>2. Renumbered(live, body[j].of) \in 1..Cardinality(live) /\ Cardinality(live) \in Nat
        BY <4>1, NumbersDense
      <4>3. new(j) = [kind |-> body[j].kind, of |-> Renumbered(live, body[j].of)]
        BY <3>1, <3>2 DEF Item
      <4> HIDE DEF new
      <4> QED BY <3>2, <4>2, <4>3 DEF Resolving, Item
    <3>3. CASE body[j].kind \notin {"call", "addr"}
      BY <3>1, <3>3 DEF Resolving
    <3> QED BY <3>2, <3>3
  <2> HIDE DEF new
  <2>4. nb \in Seq(Resolving(w))
    BY <2>1, <2>3
  <2>5. Resolving(w) \subseteq Item
    BY DEF Resolving
  <2> HIDE DEF nb
  <2>6. nb \in Seq(Item)
    BY <2>4, <2>5, WiderSeq
  <2> QED BY <2>2, <2>4, <2>6, ResolvingSeq
<1> QED BY <1>1, <1>2

LEMMA DeadFunctionElimKeeps == ASSUME LtoInv, DeadFunctionElim PROVE LtoInv'
<1> DEFINE live == Live
           n == Len(self.funcs)
           size == Cardinality(live)
           fun(k) == [Survivor(live, k) EXCEPT !.body = RenumberedBody(live, Survivor(live, k).body)]
           glo(g) == [self.globals[g] EXCEPT !.init = RenumberedBody(live, self.globals[g].init)]
           fs == [k \in 1..size |-> fun(k)]
           gs == [g \in DOMAIN self.globals |-> glo(g)]
           w == self'
<1>1. /\ phase = "optimize" /\ runs < MaxRuns /\ runs' = runs + 1
      /\ UNCHANGED <<units, taken, phase, globalMap, funcMap, globalInstalls, bodyInstalls>>
      /\ self' = RemoveFunctions(live) /\ Report(live # FuncIds)
  BY DEF DeadFunctionElim, RunPass, passVars
<1>2. /\ self \in Unit /\ ReferencesResolve(self) /\ runs \in 0..MaxRuns
      /\ FuncIds = 1..n /\ n \in Nat /\ DOMAIN self.funcs = 1..n
      /\ DOMAIN self.globals = 1..Len(self.globals) /\ Len(self.globals) \in Nat
  BY UnitFields DEF LtoInv, LtoState, FuncIds
<1>3. live \in SUBSET (1..n) /\ Roots \subseteq live /\ ClosedUnderReferences(live)
  BY <1>2, LiveClosed
<1>4. self' = [self EXCEPT !.funcs = fs, !.globals = gs]
  BY <1>1 DEF RemoveFunctions
<1> HIDE DEF live
<1>5. /\ size \in Nat /\ \A k \in 1..size : \E f \in live : Renumbered(live, f) = k
  BY <1>2, <1>3, NumbersDense
<1>6. ASSUME NEW k \in 1..size
      PROVE  \E f \in live : f \in FuncIds /\ Survivor(live, k) = self.funcs[f] /\ Renumbered(live, f) = k
  BY <1>2, <1>3, <1>5 DEF Survivor
<1>7. \A g \in DOMAIN self.globals : References(self.globals[g].init) \subseteq live
  BY <1>3 DEF Roots
<1>8. \A f \in live : References(self.funcs[f].body) \subseteq live
  BY <1>3 DEF ClosedUnderReferences, Body
<1> PICK u : DOMAIN u.funcs = 1..size /\ DOMAIN u.globals = DOMAIN self.globals
  <2>1. LET u == [funcs |-> [k \in 1..size |-> 0], globals |-> self.globals]
        IN  DOMAIN u.funcs = 1..size /\ DOMAIN u.globals = DOMAIN self.globals
    OBVIOUS
  <2> QED BY <2>1
<1>9. ASSUME NEW k \in 1..size
      PROVE  /\ fun(k) \in Function
             /\ \A v : DOMAIN v.funcs = 1..size /\ DOMAIN v.globals = DOMAIN self.globals => Resolves(v, fun(k).body)
  <2>1. PICK f \in live : f \in FuncIds /\ Survivor(live, k) = self.funcs[f]
    BY <1>6
  <2>2. self.funcs[f] \in Function /\ Resolves(self, self.funcs[f].body)
    BY <1>2, <2>1, UnitFields, ResolveElements DEF FuncIds
  <2> DEFINE body == self.funcs[f].body
             nb == RenumberedBody(live, body)
  <2>3. body \in Seq(Item) \union {None} /\ References(body) \subseteq live /\ Resolves(self, body)
    BY <1>8, <2>2 DEF Function
  <2> HIDE DEF body
  <2>4. /\ nb \in Seq(Item) \union {None}
        /\ \A v : DOMAIN v.funcs = 1..size /\ DOMAIN v.globals = DOMAIN self.globals => Resolves(v, nb)
    <3> HIDE DEF n
    <3>1. ASSUME NEW v, DOMAIN v.funcs = 1..size, DOMAIN v.globals = DOMAIN self.globals
          PROVE  nb \in Seq(Item) \union {None} /\ Resolves(v, nb)
      BY <1>2, <1>3, <2>3, <3>1, RenumberedTyped
    <3> QED BY <3>1
  <2>5. fun(k) = [self.funcs[f] EXCEPT !.body = nb]
    BY <2>1 DEF body
  <2> HIDE DEF nb, fun
  <2>6. fun(k) \in Function /\ fun(k).body = nb
    BY <2>2, <2>4, <2>5 DEF Function
  <2> QED BY <2>4, <2>6
<1>10. ASSUME NEW g \in DOMAIN self.globals
       PROVE  /\ glo(g) \in Global
              /\ \A v : DOMAIN v.funcs = 1..size /\ DOMAIN v.globals = DOMAIN self.globals => Resolves(v, glo(g).init)
  <2>1. self.globals[g] \in Global /\ Resolves(self, self.globals[g].init)
    BY <1>2, UnitFields, ResolveElements
  <2> DEFINE body == self.globals[g].init
             nb == RenumberedBody(live, body)
  <2>2. body \in Seq(Item) \union {None} /\ References(body) \subseteq live /\ Resolves(self, body)
    BY <1>7, <2>1 DEF Global
  <2>3. glo(g) = [self.globals[g] EXCEPT !.init = nb]
    OBVIOUS
  <2> HIDE DEF body
  <2>4. /\ nb \in Seq(Item) \union {None}
        /\ \A v : DOMAIN v.funcs = 1..size /\ DOMAIN v.globals = DOMAIN self.globals => Resolves(v, nb)
    <3> HIDE DEF n
    <3>1. ASSUME NEW v, DOMAIN v.funcs = 1..size, DOMAIN v.globals = DOMAIN self.globals
          PROVE  nb \in Seq(Item) \union {None} /\ Resolves(v, nb)
      BY <1>2, <1>3, <2>2, <3>1, RenumberedTyped
    <3> QED BY <3>1
  <2> HIDE DEF nb, glo
  <2>5. glo(g) \in Global /\ glo(g).init = nb
    BY <2>1, <2>3, <2>4 DEF Global
  <2> QED BY <2>4, <2>5
<1> HIDE DEF fun, glo, size
<1>11. /\ fs \in Seq(Function) /\ gs \in Seq(Global)
       /\ DOMAIN fs = 1..size /\ DOMAIN gs = DOMAIN self.globals
       /\ \A k \in 1..size : fs[k] = fun(k)
       /\ \A g \in DOMAIN self.globals : gs[g] = glo(g)
  BY <1>2, <1>5, <1>9, <1>10
<1> HIDE DEF fs, gs
<1>12. self'.funcs = fs /\ self'.globals = gs /\ self' \in Unit
  BY <1>2, <1>4, <1>11 DEF Unit
<1>13. ReferencesResolve(w)
  <2>1. /\ w \in Unit /\ DOMAIN w.funcs = 1..size /\ DOMAIN w.globals = DOMAIN self.globals
        /\ \A k \in 1..size : w.funcs[k] = fun(k)
        /\ \A g \in DOMAIN self.globals : w.globals[g] = glo(g)
    BY <1>11, <1>12
  <2> HIDE DEF w
  <2>2. /\ \A k \in DOMAIN w.funcs : Resolves(w, w.funcs[k].body)
        /\ \A g \in DOMAIN w.globals : Resolves(w, w.globals[g].init)
    BY <1>9, <1>10, <2>1
  <2> QED BY <2>1, <2>2, ResolveElements
<1>14. LtoState'
  BY <1>1, <1>2, <1>12, <1>13, BoundsAssumption DEF LtoInv, LtoState
<1>15. MapsShape'
  <2>1. globalMap = <<>> /\ funcMap = <<>> /\ globalInstalls = {} /\ bodyInstalls = {}
    BY <1>1 DEF LtoInv, MapsShape
  <2> QED BY <1>1, <2>1 DEF MapsShape
<1>16. CacheFresh'
  <2>1. CASE live # FuncIds
    BY <1>1, <2>1 DEF Report, CacheFresh
  <2>2. CASE live = FuncIds
    <3>1. cache' = cache /\ size = n
      <4>1. Cardinality(1..n) = n
        <5> HIDE DEF n
        <5> QED BY <1>2, FS_Interval
      <4> QED BY <1>1, <1>2, <2>2, <4>1 DEF Report, size
    <3>2. ASSUME NEW k \in 1..n PROVE fun(k) = self.funcs[k]
      <4>1. PICK f \in live : f \in FuncIds /\ Survivor(live, k) = self.funcs[f] /\ Renumbered(live, f) = k
        BY <1>6, <3>1
      <4>2. f = k
        BY <1>2, <2>2, <4>1, NumbersKept
      <4> DEFINE body == self.funcs[k].body
      <4>3. self.funcs[k] \in Function /\ Resolves(self, body)
        BY <1>2, UnitFields, ResolveElements
      <4>4. RenumberedBody(live, body) = body
        <5>1. CASE body = None
          BY <5>1 DEF RenumberedBody
        <5>2. CASE body # None
          <6>1. body \in Seq(Item) /\ body = [j \in DOMAIN body |-> body[j]]
            BY <4>3, <5>2 DEF Function
          <6>2. ASSUME NEW j \in DOMAIN body, body[j].kind \in {"call", "addr"}
                PROVE  [body[j] EXCEPT !.of = Renumbered(live, body[j].of)] = body[j]
            <7>1. body[j].of \in 1..n /\ body[j] \in Item
              BY <1>2, <4>3, <5>2, <6>1, <6>2, ResolvedItem, Elements
            <7>2. Renumbered(live, body[j].of) = body[j].of
              BY <1>2, <2>2, <7>1, NumbersKept
            <7> QED BY <6>2, <7>1, <7>2 DEF Item
          <6> HIDE DEF body
          <6> QED BY <5>2, <6>1, <6>2 DEF RenumberedBody
        <5> QED BY <5>1, <5>2
      <4>5. fun(k) = [self.funcs[k] EXCEPT !.body = body]
        BY <4>1, <4>2, <4>4 DEF fun
      <4> QED BY <4>3, <4>5 DEF Function
    <3>3. FuncIds' = FuncIds /\ \A k \in FuncIds : self'.funcs[k] = self.funcs[k]
      BY <1>2, <1>11, <1>12, <3>1, <3>2 DEF FuncIds
    <3> QED BY <3>1, <3>3 DEF LtoInv, CacheFresh
  <2> QED BY <2>1, <2>2
<1> QED BY <1>14, <1>15, <1>16 DEF LtoInv

-----------------------------------------------------------------------------
LEMMA InitLto == Init => LtoInv
<1> SUFFICES ASSUME Init PROVE LtoInv
  OBVIOUS
<1>1. /\ units \in Programs /\ taken = 0 /\ runs = 0 /\ phase = "idle" /\ cache = <<>>
      /\ self = Empty /\ globalMap = <<>> /\ funcMap = <<>> /\ globalInstalls = {} /\ bodyInstalls = {}
  BY DEF Init, MergeInit
<1>2. Len(units) \in Nat
  BY <1>1, ProgramsAssumption
<1>3. Empty \in Unit /\ ReferencesResolve(Empty)
  <2>1. ToSet(Empty.funcs) = {} /\ ToSet(Empty.globals) = {}
    BY DEF Empty, ToSet
  <2> QED BY <2>1 DEF Empty, Unit, ReferencesResolve
<1> QED BY <1>1, <1>2, <1>3, BoundsAssumption DEF LtoInv, LtoState, MapsShape, CacheFresh

LEMMA NextLto == LtoInv /\ [Next]_vars => LtoInv'
<1> SUFFICES ASSUME LtoInv, [Next]_vars PROVE LtoInv'
  OBVIOUS
<1>1. CASE Merge
  BY <1>1, MergeKeeps
<1>2. CASE BeginPasses
  BY <1>2, BeginPassesKeeps
<1>3. CASE GetOrCompute
  BY <1>3, GetOrComputeKeeps
<1>4. CASE Inline
  BY <1>4, InlineKeeps
<1>5. CASE DeadFunctionElim
  BY <1>5, DeadFunctionElimKeeps
<1>6. CASE UNCHANGED vars
  BY <1>6 DEF vars, mergeVars, LtoInv, LtoState, MapsShape, CacheFresh, FuncIds, other
<1> QED BY <1>1, <1>2, <1>3, <1>4, <1>5, <1>6 DEF Next, Over

(* The module the passes work on is well formed, and what the caches hold    *)
(* was computed from it: the invariant of merging, inlining and renumbering  *)
(* that the next two theorems rest on.                                       *)
THEOREM LtoInvariant == Spec => []LtoInv
BY InitLto, NextLto, PTL DEF Spec

(* No reference in the module dangles: not between the steps of a merge, in  *)
(* which bodies wait for their references, not after a body was put in the   *)
(* place of a call, and not after dead functions are gone and the rest have  *)
(* new numbers (merge.rs, inline.rs, Module::remove_functions of ir/mod.rs). *)
THEOREM NothingDangles == Spec => []TypeOK
<1>1. LtoInv => TypeOK
  BY Elements DEF LtoInv, LtoState, MapsShape, TypeOK, FuncIds
<1> QED BY <1>1, LtoInvariant, PTL

(* A cached result is of the function that has its number: the passes that  *)
(* change bodies or numbers say so, and the pass manager drops what it has   *)
(* (manager.rs:78, pass/mod.rs:66-76).                                      *)
THEOREM CachedIsCurrent == Spec => []CacheFresh
<1>1. LtoInv => CacheFresh
  BY DEF LtoInv
<1> QED BY <1>1, LtoInvariant, PTL

-----------------------------------------------------------------------------
(* What a merge keeps track of, alike for globals and functions *)

Kinds == {"global", "func"}
Of(kind, u) == IF kind = "global" THEN u.globals ELSE u.funcs
MapOf(kind) == IF kind = "global" THEN globalMap ELSE funcMap
InstallsOf(kind) == IF kind = "global" THEN globalInstalls ELSE bodyInstalls

(* Who brings an item that no second module may bring under the same name:   *)
(* strong definitions of globals, and definitions of functions, weak or not. *)
Claims(k, n) ==
  UNION {{<<j, "global">> : i \in {i \in Named(units[j].globals, n) : DefRank(units[j].globals[i]) = StrongRank}}
         \union {<<j, "func">> : i \in {i \in Named(units[j].funcs, n) : Defined(units[j].funcs[i])}} :
           j \in 1..k}
Contested(k) == \E n \in Name : \E a, b \in Claims(k, n) : a # b /\ a[2] = b[2]
Claiming(kind, x) == IF kind = "global" THEN DefRank(x) = StrongRank ELSE Defined(x)

(* What was taken in: the items of the merged modules, and those of the      *)
(* module being linked in whose names are resolved.                         *)
Brought(kind) == [k \in 1..taken |-> ToSet(Of(kind, units[k]))]
Seen(kind) == (UNION {Brought(kind)[k] : k \in 1..taken})
                \union {Of(kind, other)[i] : i \in DOMAIN MapOf(kind)}

(* Every name seen is there once, at the highest level it was seen at.       *)
LevelsKept(mine, seen) ==
  /\ NamesDiffer(mine)
  /\ \A h \in seen : \E j \in DOMAIN mine : mine[j].name = h.name /\ h.level <= mine[j].level
  /\ \A j \in DOMAIN mine : \E h \in seen : h.name = mine[j].name /\ h.level = mine[j].level

(* No two of the merged modules claim one name, and the names they claim are *)
(* those the combined module does.                                          *)
ClaimedOnce(kind, brought) ==
  \A k, l \in DOMAIN brought : \A g \in brought[k], h \in brought[l] :
    g.name = h.name /\ Claiming(kind, g) /\ Claiming(kind, h) => k = l
ClaimsKept(kind, mine, brought) ==
  /\ ClaimedOnce(kind, brought)
  /\ \A k \in DOMAIN brought : \A h \in brought[k] : Claiming(kind, h) =>
       \E j \in DOMAIN mine : mine[j].name = h.name /\ Claiming(kind, mine[j])
  /\ \A j \in DOMAIN mine : Claiming(kind, mine[j]) =>
       \E k \in DOMAIN brought : \E h \in brought[k] : h.name = mine[j].name /\ Claiming(kind, h)

(* What waits to be installed has the name of what it replaces, and does not *)
(* meet a claim; every claim among the names resolved is waiting.            *)
InstallsFit(kind, mine, theirs, map, installs) ==
  /\ \A p \in installs : mine[p[1]].name = theirs[p[2]].name /\ ~Claiming(kind, mine[p[1]])
  /\ \A i \in DOMAIN map : Claiming(kind, theirs[i]) =>
       \E j \in DOMAIN mine : <<j, i>> \in installs

(* The combined module has the layout of every module that brought anything. *)
LayoutKept ==
  /\ \A k \in 1..taken : ~IsEmpty(units[k]) => self.layout = units[k].layout
  /\ phase = "link" => self.layout = other.layout
  /\ ~Disagree(taken)

KindInv(kind) ==
  /\ LevelsKept(Of(kind, self), Seen(kind))
  /\ ClaimsKept(kind, Of(kind, self), Brought(kind))
  /\ InstallsFit(kind, Of(kind, self), Of(kind, other), MapOf(kind), InstallsOf(kind))

MergeInv ==
  /\ LtoInv
  /\ Merging => LayoutKept /\ KindInv("global") /\ KindInv("func")
  /\ phase = "failed" => Contested(taken + 1) \/ Disagree(taken + 1)

-----------------------------------------------------------------------------
(* How each step of a merge changes the levels and the claims *)

LEMMA LevelsAdded ==
  ASSUME NEW mine, NEW seen, NEW mine2, NEW h, NEW n \in Nat, LevelsKept(mine, seen),
         DOMAIN mine = 1..(n - 1), DOMAIN mine2 = 1..n, n >= 1,
         \A j \in DOMAIN mine : mine2[j] = mine[j],
         mine2[n].name = h.name, mine2[n].level = h.level, h.level \in Nat,
         \A j \in DOMAIN mine : mine[j].name # h.name
  PROVE  LevelsKept(mine2, seen \union {h})
<1>1. DOMAIN mine2 = DOMAIN mine \union {n} /\ n \notin DOMAIN mine /\ h.level <= h.level
  OBVIOUS
<1>2. NamesDiffer(mine2)
  BY <1>1 DEF LevelsKept, NamesDiffer
<1>3. \A g \in seen \union {h} : \E j \in DOMAIN mine2 : mine2[j].name = g.name /\ g.level <= mine2[j].level
  BY <1>1 DEF LevelsKept
<1>4. \A j \in DOMAIN mine2 : \E g \in seen \union {h} : g.name = mine2[j].name /\ g.level = mine2[j].level
  BY <1>1 DEF LevelsKept
<1> QED BY <1>2, <1>3, <1>4 DEF LevelsKept

LEMMA LevelsJoined ==
  ASSUME NEW mine, NEW seen, NEW mine2, NEW h, NEW i \in DOMAIN mine, LevelsKept(mine, seen),
         DOMAIN mine2 = DOMAIN mine, \A j \in DOMAIN mine : j # i => mine2[j] = mine[j],
         h.name = mine[i].name, mine2[i].name = mine[i].name,
         mine2[i].level = Join(mine[i].level, h.level),
         h.level \in Nat, mine[i].level \in Nat, \A g \in seen : g.level \in Nat
  PROVE  LevelsKept(mine2, seen \union {h})
<1>1. /\ mine2[i].level \in {mine[i].level, h.level} /\ mine2[i].level \in Nat
      /\ mine[i].level <= mine2[i].level /\ h.level <= mine2[i].level
  BY JoinedLevel
<1>2. \A j \in DOMAIN mine : mine2[j].name = mine[j].name
  OBVIOUS
<1>3. NamesDiffer(mine2)
  BY <1>2 DEF LevelsKept, NamesDiffer
<1>4. ASSUME NEW g \in seen \union {h}
      PROVE  \E j \in DOMAIN mine2 : mine2[j].name = g.name /\ g.level <= mine2[j].level
  <2>1. CASE g = h
    BY <1>1, <2>1
  <2>2. CASE g \in seen
    <3>1. PICK j \in DOMAIN mine : mine[j].name = g.name /\ g.level <= mine[j].level
      BY <2>2 DEF LevelsKept
    <3>2. j = i => g.level <= mine2[i].level
      BY <1>1, <2>2, <3>1
    <3> QED BY <1>2, <3>1, <3>2
  <2> QED BY <2>1, <2>2
<1>5. ASSUME NEW j \in DOMAIN mine2
      PROVE  \E g \in seen \union {h} : g.name = mine2[j].name /\ g.level = mine2[j].level
  <2>1. PICK g \in seen : g.name = mine[j].name /\ g.level = mine[j].level
    BY DEF LevelsKept
  <2> QED BY <1>1, <1>2, <2>1
<1> QED BY <1>3, <1>4, <1>5 DEF LevelsKept

LEMMA LevelsSame ==
  ASSUME NEW mine, NEW seen, NEW mine2, LevelsKept(mine, seen), DOMAIN mine2 = DOMAIN mine,
         \A j \in DOMAIN mine : mine2[j].name = mine[j].name /\ mine2[j].level = mine[j].level
  PROVE  LevelsKept(mine2, seen)
BY DEF LevelsKept, NamesDiffer

(* A new entry that makes no claim.                                         *)
LEMMA ClaimsAdded ==
  ASSUME NEW kind, NEW mine, NEW mine2, NEW brought, NEW n, ClaimsKept(kind, mine, brought),
         DOMAIN mine2 = DOMAIN mine \union {n}, n \notin DOMAIN mine, ~Claiming(kind, mine2[n]),
         \A j \in DOMAIN mine : mine2[j] = mine[j]
  PROVE  ClaimsKept(kind, mine2, brought)
BY DEF ClaimsKept

LEMMA ClaimsSame ==
  ASSUME NEW kind, NEW mine, NEW mine2, NEW brought, ClaimsKept(kind, mine, brought),
         DOMAIN mine2 = DOMAIN mine,
         \A j \in DOMAIN mine : /\ mine2[j].name = mine[j].name
                                /\ Claiming(kind, mine2[j]) <=> Claiming(kind, mine[j])
  PROVE  ClaimsKept(kind, mine2, brought)
BY DEF ClaimsKept

(* One more name is resolved, to entry n of mine2.                          *)
LEMMA InstallsResolved ==
  ASSUME NEW kind, NEW mine, NEW mine2, NEW theirs, NEW map, NEW map2, NEW installs, NEW installs2,
         NEW n \in DOMAIN mine2, NEW m,
         InstallsFit(kind, mine, theirs, map, installs),
         installs \subseteq (DOMAIN mine) \X (DOMAIN map),
         DOMAIN mine \subseteq DOMAIN mine2, DOMAIN map2 = DOMAIN map \union {m},
         \A j \in DOMAIN mine : /\ mine2[j].name = mine[j].name
                                /\ Claiming(kind, mine2[j]) <=> Claiming(kind, mine[j]),
         mine2[n].name = theirs[m].name,
         \/ installs2 = installs \union {<<n, m>>} /\ ~Claiming(kind, mine2[n])
         \/ installs2 = installs /\ ~Claiming(kind, theirs[m])
  PROVE  InstallsFit(kind, mine2, theirs, map2, installs2)
<1>1. ASSUME NEW p \in installs2
      PROVE  mine2[p[1]].name = theirs[p[2]].name /\ ~Claiming(kind, mine2[p[1]])
  <2>1. CASE p \in installs
    <3>1. p \in (DOMAIN mine) \X (DOMAIN map)
      BY <2>1
    <3>2. p[1] \in DOMAIN mine
      BY <3>1
    <3> QED BY <2>1, <3>2 DEF InstallsFit
  <2>2. CASE p \notin installs
    <3>1. p = <<n, m>> /\ ~Claiming(kind, mine2[n])
      BY <2>2
    <3>2. p[1] = n /\ p[2] = m
      BY <3>1
    <3> QED BY <3>1, <3>2
  <2> QED BY <2>1, <2>2
<1>2. \A i \in DOMAIN map2 : Claiming(kind, theirs[i]) => \E j \in DOMAIN mine2 : <<j, i>> \in installs2
  BY DEF InstallsFit
<1> QED BY <1>1, <1>2 DEF InstallsFit

(* At the end of a link, what waited is installed.                          *)
LEMMA ClaimsInstalled ==
  ASSUME NEW kind, NEW mine, NEW mine2, NEW theirs, NEW map, NEW installs,
         NEW brought, NEW brought2, NEW t,
         NamesDiffer(mine), NamesDiffer(theirs),
         ClaimsKept(kind, mine, brought), InstallsFit(kind, mine, theirs, map, installs),
         DOMAIN map = DOMAIN theirs, DOMAIN mine2 = DOMAIN mine,
         \A j \in DOMAIN mine : mine2[j].name = mine[j].name,
         \A j \in DOMAIN mine :
           \/ /\ \A s : <<j, s>> \notin installs
              /\ Claiming(kind, mine2[j]) <=> Claiming(kind, mine[j])
           \/ \E s \in DOMAIN theirs : /\ <<j, s>> \in installs
                                       /\ Claiming(kind, mine2[j]) <=> Claiming(kind, theirs[s]),
         DOMAIN brought2 = DOMAIN brought \union {t}, t \notin DOMAIN brought,
         \A k \in DOMAIN brought : brought2[k] = brought[k],
         brought2[t] = ToSet(theirs)
  PROVE  ClaimsKept(kind, mine2, brought2)
<1>1. ASSUME NEW j, NEW s, <<j, s>> \in installs
      PROVE  mine[j].name = theirs[s].name /\ ~Claiming(kind, mine[j])
  BY <1>1 DEF InstallsFit
(* What is claimed by the module linked in is claimed by an entry that       *)
(* claimed nothing.                                                         *)
<1>2. ASSUME NEW i \in DOMAIN theirs, Claiming(kind, theirs[i])
      PROVE  \E j \in DOMAIN mine : /\ mine[j].name = theirs[i].name
                                    /\ ~Claiming(kind, mine[j]) /\ Claiming(kind, mine2[j])
  <2>1. PICK j \in DOMAIN mine : <<j, i>> \in installs
    BY <1>2 DEF InstallsFit
  <2>2. PICK s \in DOMAIN theirs : /\ <<j, s>> \in installs
                                   /\ Claiming(kind, mine2[j]) <=> Claiming(kind, theirs[s])
    BY <2>1
  <2>3. s = i
    <3>1. mine[j].name = theirs[i].name /\ mine[j].name = theirs[s].name
      BY <1>1, <2>1, <2>2
    <3> QED BY <3>1 DEF NamesDiffer
  <2> QED BY <1>1, <1>2, <2>1, <2>2, <2>3
<1>3. \A j \in DOMAIN mine : Claiming(kind, mine[j]) => Claiming(kind, mine2[j])
  BY <1>1
<1>4. DOMAIN brought2 = DOMAIN brought \union {t} /\ t \notin DOMAIN brought
  OBVIOUS
<1>5. \A h \in ToSet(theirs) : \E i \in DOMAIN theirs : h = theirs[i]
  BY DEF ToSet
<1>6. ASSUME NEW k \in DOMAIN brought, NEW g \in brought[k], NEW h \in ToSet(theirs), g.name = h.name,
             Claiming(kind, g), Claiming(kind, h)
      PROVE  FALSE
  <2>1. PICK j \in DOMAIN mine : mine[j].name = g.name /\ Claiming(kind, mine[j])
    BY <1>6 DEF ClaimsKept
  <2>2. PICK l \in DOMAIN mine : mine[l].name = h.name /\ ~Claiming(kind, mine[l])
    BY <1>2, <1>5, <1>6
  <2> QED BY <1>6, <2>1, <2>2 DEF NamesDiffer
<1>7. ClaimedOnce(kind, brought2)
  <2> SUFFICES ASSUME NEW k \in DOMAIN brought2, NEW l \in DOMAIN brought2,
                      NEW g \in brought2[k], NEW h \in brought2[l],
                      g.name = h.name, Claiming(kind, g), Claiming(kind, h)
               PROVE  k = l
    BY DEF ClaimedOnce
  <2>1. CASE k \in DOMAIN brought /\ l \in DOMAIN brought
    BY <2>1 DEF ClaimsKept, ClaimedOnce
  <2>2. CASE k \in DOMAIN brought /\ l = t
    BY <1>6, <2>2
  <2>3. CASE k = t /\ l \in DOMAIN brought
    BY <1>6, <2>3
  <2> QED BY <1>4, <2>1, <2>2, <2>3
<1>8. ASSUME NEW k \in DOMAIN brought2, NEW h \in brought2[k], Claiming(kind, h)
      PROVE  \E j \in DOMAIN mine2 : mine2[j].name = h.name /\ Claiming(kind, mine2[j])
  <2>1. CASE k \in DOMAIN brought
    BY <1>3, <1>8, <2>1 DEF ClaimsKept
  <2>2. CASE k = t
    BY <1>2, <1>5, <1>8, <2>2
  <2> QED BY <1>4, <2>1, <2>2
<1>9. ASSUME NEW j \in DOMAIN mine2, Claiming(kind, mine2[j])
      PROVE  \E k \in DOMAIN brought2 : \E h \in brought2[k] : h.name = mine2[j].name /\ Claiming(kind, h)
  <2>1. CASE Claiming(kind, mine[j])
    <3>1. PICK k \in DOMAIN brought : \E h \in brought[k] : h.name = mine[j].name /\ Claiming(kind, h)
      BY <2>1 DEF ClaimsKept
    <3> QED BY <1>4, <3>1
  <2>2. CASE ~Claiming(kind, mine[j])
    <3>1. PICK s \in DOMAIN theirs : <<j, s>> \in installs /\ Claiming(kind, theirs[s])
      BY <1>9, <2>2
    <3>2. theirs[s] \in brought2[t] /\ theirs[s].name = mine2[j].name
      BY <1>1, <3>1 DEF ToSet
    <3> QED BY <1>4, <3>1, <3>2
  <2> QED BY <2>1, <2>2
<1> QED BY <1>7, <1>8, <1>9 DEF ClaimsKept

-----------------------------------------------------------------------------
LEMMA UnitOf ==
  ASSUME LtoInv, NEW k \in 1..Len(units)
  PROVE  /\ units[k] \in Unit
         /\ NamesDiffer(units[k].funcs) /\ NamesDiffer(units[k].globals)
<1>1. units \in Seq(Unit) /\ units \in Programs
  BY ProgramsAssumption DEF LtoInv, LtoState
<1>2. k \in DOMAIN units
  BY <1>1
<1> QED BY <1>1, <1>2, Elements, ProgramsAssumption

LEMMA ItemsTyped ==
  ASSUME NEW kind \in Kinds, NEW u \in Unit
  PROVE  \A x \in ToSet(Of(kind, u)) : x.level \in Nat /\ x.name \in Name
<1>1. \A x \in ToSet(u.globals) : x.level \in Nat /\ x.name \in Name
  BY UnitFields DEF ToSet, Global
<1>2. \A x \in ToSet(u.funcs) : x.level \in Nat /\ x.name \in Name
  BY UnitFields DEF ToSet, Function
<1> QED BY <1>1, <1>2 DEF Of

LEMMA SeenTyped ==
  ASSUME LtoInv, Merging, NEW kind \in Kinds
  PROVE  \A g \in Seen(kind) : g.level \in Nat
<1> SUFFICES ASSUME NEW g \in Seen(kind) PROVE g.level \in Nat
  OBVIOUS
<1>1. CASE \E k \in 1..taken : g \in ToSet(Of(kind, units[k]))
  <2>1. PICK k \in 1..taken : g \in ToSet(Of(kind, units[k]))
    BY <1>1
  <2>2. k \in 1..Len(units)
    BY ProgramsAssumption DEF LtoInv, LtoState
  <2> QED BY <2>1, <2>2, UnitOf, ItemsTyped
<1>2. CASE \E i \in DOMAIN MapOf(kind) : g = Of(kind, other)[i]
  <2>1. PICK i \in DOMAIN MapOf(kind) : g = Of(kind, other)[i]
    BY <1>2
  <2>2. phase = "link"
    <3>1. phase # "idle"
      BY <2>1 DEF LtoInv, MapsShape, MapOf
    <3> QED BY <3>1 DEF Merging
  <2>3. other \in Unit /\ taken < Len(units)
    BY <2>2, UnitsTyped DEF LtoInv, LtoState, MapsShape
  <2>4. i \in DOMAIN Of(kind, other)
    <3>1. /\ globalMap \in Seq(DOMAIN self.globals) /\ funcMap \in Seq(FuncIds)
          /\ Len(globalMap) <= Len(other.globals) /\ Len(funcMap) <= Len(other.funcs)
      BY <2>2 DEF LtoInv, MapsShape
    <3>2. /\ DOMAIN globalMap \subseteq DOMAIN other.globals
          /\ DOMAIN funcMap \subseteq DOMAIN other.funcs
      BY <2>3, <3>1, UnitFields
    <3> QED BY <2>1, <3>2 DEF MapOf, Of
  <2>5. g \in ToSet(Of(kind, other))
    BY <2>1, <2>4 DEF ToSet
  <2> QED BY <2>3, <2>5, ItemsTyped
<1> QED BY <1>1, <1>2 DEF Seen, Brought

LEMMA SeenGrows ==
  ASSUME NEW kind \in Kinds, NEW m, UNCHANGED <<units, taken>>,
         DOMAIN MapOf(kind)' = DOMAIN MapOf(kind) \union {m}
  PROVE  Seen(kind)' = Seen(kind) \union {Of(kind, other)[m]} /\ Brought(kind)' = Brought(kind)
<1>1. Brought(kind)' = Brought(kind) /\ Of(kind, other)' = Of(kind, other)
  BY DEF Brought, Of, other
<1>2. Seen(kind)' = (UNION {Brought(kind)[k] : k \in 1..taken})
                      \union {Of(kind, other)[i] : i \in DOMAIN MapOf(kind) \union {m}}
  BY <1>1 DEF Seen
<1> QED BY <1>1, <1>2 DEF Seen

(* The kind that a step does not touch.                                     *)
LEMMA KindSame ==
  ASSUME NEW kind \in Kinds, KindInv(kind), UNCHANGED <<units, taken>>,
         Of(kind, self)' = Of(kind, self), MapOf(kind)' = MapOf(kind), InstallsOf(kind)' = InstallsOf(kind)
  PROVE  KindInv(kind)'
<1>1. Brought(kind)' = Brought(kind) /\ Of(kind, other)' = Of(kind, other)
  BY DEF Brought, Of, other
<1>2. Seen(kind)' = Seen(kind)
  BY <1>1 DEF Seen
<1> QED BY <1>1, <1>2 DEF KindInv

(* A name seen for the first time.                                          *)
LEMMA KindAdded ==
  ASSUME NEW kind \in Kinds, KindInv(kind), UNCHANGED <<units, taken>>,
         NEW n \in Nat, n >= 1, NEW m,
         Of(kind, other)[m].level \in Nat,
         DOMAIN Of(kind, self) = 1..(n - 1), DOMAIN Of(kind, self)' = 1..n,
         \A j \in DOMAIN Of(kind, self) : /\ Of(kind, self)'[j] = Of(kind, self)[j]
                                          /\ Of(kind, self)[j].name # Of(kind, other)[m].name,
         Of(kind, self)'[n].name = Of(kind, other)[m].name,
         Of(kind, self)'[n].level = Of(kind, other)[m].level,
         ~Claiming(kind, Of(kind, self)'[n]),
         DOMAIN MapOf(kind)' = DOMAIN MapOf(kind) \union {m},
         InstallsOf(kind) \subseteq (DOMAIN Of(kind, self)) \X (DOMAIN MapOf(kind)),
         \/ InstallsOf(kind)' = InstallsOf(kind) \union {<<n, m>>}
         \/ InstallsOf(kind)' = InstallsOf(kind) /\ ~Claiming(kind, Of(kind, other)[m])
  PROVE  KindInv(kind)'
<1> DEFINE mine == Of(kind, self)
           mine2 == Of(kind, self)'
           theirs == Of(kind, other)
           map == MapOf(kind)
           map2 == MapOf(kind)'
           installs == InstallsOf(kind)
           installs2 == InstallsOf(kind)'
           seen == Seen(kind)
           brought == Brought(kind)
<1>1. /\ LevelsKept(mine, seen) /\ ClaimsKept(kind, mine, brought)
      /\ InstallsFit(kind, mine, theirs, map, installs)
  BY DEF KindInv
<1>2. Seen(kind)' = seen \union {theirs[m]} /\ Brought(kind)' = brought /\ Of(kind, other)' = theirs
  BY SeenGrows DEF Of, other
<1>3. /\ theirs[m].level \in Nat /\ DOMAIN mine = 1..(n - 1) /\ DOMAIN mine2 = 1..n
      /\ \A j \in DOMAIN mine : mine2[j] = mine[j] /\ mine[j].name # theirs[m].name
      /\ mine2[n].name = theirs[m].name /\ mine2[n].level = theirs[m].level
      /\ ~Claiming(kind, mine2[n]) /\ DOMAIN map2 = DOMAIN map \union {m}
      /\ installs \subseteq (DOMAIN mine) \X (DOMAIN map)
      /\ \/ installs2 = installs \union {<<n, m>>}
         \/ installs2 = installs /\ ~Claiming(kind, theirs[m])
  OBVIOUS
<1> HIDE DEF mine, mine2, theirs, map, map2, installs, installs2, seen, brought
<1>4. /\ DOMAIN mine2 = DOMAIN mine \union {n} /\ n \notin DOMAIN mine /\ n \in DOMAIN mine2
      /\ DOMAIN mine \subseteq DOMAIN mine2
  BY <1>3
<1>5. LevelsKept(mine2, seen \union {theirs[m]})
  BY <1>1, <1>3, LevelsAdded
<1>6. ClaimsKept(kind, mine2, brought)
  BY <1>1, <1>3, <1>4, ClaimsAdded
<1>7. InstallsFit(kind, mine2, theirs, map2, installs2)
  <2>1. \A j \in DOMAIN mine : /\ mine2[j].name = mine[j].name
                               /\ Claiming(kind, mine2[j]) <=> Claiming(kind, mine[j])
    BY <1>3
  <2>2. \/ installs2 = installs \union {<<n, m>>} /\ ~Claiming(kind, mine2[n])
        \/ installs2 = installs /\ ~Claiming(kind, theirs[m])
    BY <1>3
  <2>3. /\ mine2[n].name = theirs[m].name /\ DOMAIN map2 = DOMAIN map \union {m}
        /\ installs \subseteq (DOMAIN mine) \X (DOMAIN map)
    BY <1>3
  <2> QED BY <1>1, <1>4, <2>1, <2>2, <2>3, InstallsResolved, SMTT(20)
<1> QED BY <1>2, <1>5, <1>6, <1>7 DEF KindInv, mine2, theirs, map2, installs2, seen, brought

(* A name that was seen before.                                             *)
LEMMA KindJoined ==
  ASSUME NEW kind \in Kinds, KindInv(kind), UNCHANGED <<units, taken>>,
         NEW i \in DOMAIN Of(kind, self), NEW m,
         \A g \in Seen(kind) : g.level \in Nat,
         Of(kind, other)[m].level \in Nat, Of(kind, self)[i].level \in Nat,
         Of(kind, other)[m].name = Of(kind, self)[i].name,
         DOMAIN Of(kind, self)' = DOMAIN Of(kind, self),
         \A j \in DOMAIN Of(kind, self) : j # i => Of(kind, self)'[j] = Of(kind, self)[j],
         Of(kind, self)'[i].name = Of(kind, self)[i].name,
         Of(kind, self)'[i].level = Join(Of(kind, self)[i].level, Of(kind, other)[m].level),
         Claiming(kind, Of(kind, self)'[i]) <=> Claiming(kind, Of(kind, self)[i]),
         DOMAIN MapOf(kind)' = DOMAIN MapOf(kind) \union {m},
         InstallsOf(kind) \subseteq (DOMAIN Of(kind, self)) \X (DOMAIN MapOf(kind)),
         \/ /\ InstallsOf(kind)' = InstallsOf(kind) \union {<<i, m>>}
            /\ ~Claiming(kind, Of(kind, self)[i])
         \/ InstallsOf(kind)' = InstallsOf(kind) /\ ~Claiming(kind, Of(kind, other)[m])
  PROVE  KindInv(kind)'
<1> DEFINE mine == Of(kind, self)
           mine2 == Of(kind, self)'
           theirs == Of(kind, other)
           map == MapOf(kind)
           map2 == MapOf(kind)'
           installs == InstallsOf(kind)
           installs2 == InstallsOf(kind)'
           seen == Seen(kind)
           brought == Brought(kind)
<1>1. /\ LevelsKept(mine, seen) /\ ClaimsKept(kind, mine, brought)
      /\ InstallsFit(kind, mine, theirs, map, installs)
  BY DEF KindInv
<1>2. Seen(kind)' = seen \union {theirs[m]} /\ Brought(kind)' = brought /\ Of(kind, other)' = theirs
  BY SeenGrows DEF Of, other
<1>3. /\ i \in DOMAIN mine /\ DOMAIN mine2 = DOMAIN mine
      /\ \A j \in DOMAIN mine : j # i => mine2[j] = mine[j]
      /\ \A g \in seen : g.level \in Nat
      /\ theirs[m].level \in Nat /\ mine[i].level \in Nat /\ theirs[m].name = mine[i].name
      /\ mine2[i].name = mine[i].name /\ mine2[i].level = Join(mine[i].level, theirs[m].level)
      /\ Claiming(kind, mine2[i]) <=> Claiming(kind, mine[i])
      /\ DOMAIN map2 = DOMAIN map \union {m}
      /\ installs \subseteq (DOMAIN mine) \X (DOMAIN map)
      /\ \/ installs2 = installs \union {<<i, m>>} /\ ~Claiming(kind, mine[i])
         \/ installs2 = installs /\ ~Claiming(kind, theirs[m])
  OBVIOUS
<1> HIDE DEF mine, mine2, theirs, map, map2, installs, installs2, seen, brought
<1>4. LevelsKept(mine2, seen \union {theirs[m]})
  BY <1>1, <1>3, LevelsJoined
<1>5. \A j \in DOMAIN mine : /\ mine2[j].name = mine[j].name
                             /\ Claiming(kind, mine2[j]) <=> Claiming(kind, mine[j])
  BY <1>3
<1>6. ClaimsKept(kind, mine2, brought)
  BY <1>1, <1>3, <1>5, ClaimsSame
<1>7. InstallsFit(kind, mine2, theirs, map2, installs2)
  BY <1>1, <1>3, <1>5, InstallsResolved
<1> QED BY <1>2, <1>4, <1>6, <1>7 DEF KindInv, mine2, theirs, map2, installs2, seen, brought

LEMMA KindFields ==
  /\ "global" \in Kinds /\ "func" \in Kinds
  /\ \A u : Of("global", u) = u.globals /\ Of("func", u) = u.funcs
  /\ Of("global", self)' = self'.globals /\ Of("func", self)' = self'.funcs
  /\ MapOf("global") = globalMap /\ MapOf("global")' = globalMap'
  /\ MapOf("func") = funcMap /\ MapOf("func")' = funcMap'
  /\ InstallsOf("global") = globalInstalls /\ InstallsOf("global")' = globalInstalls'
  /\ InstallsOf("func") = bodyInstalls /\ InstallsOf("func")' = bodyInstalls'
  /\ \A x : /\ Claiming("global", x) <=> DefRank(x) = StrongRank
            /\ Claiming("func", x) <=> Defined(x)
BY DEF Kinds, Of, MapOf, InstallsOf, Claiming

LEMMA LayoutSame ==
  ASSUME LayoutKept, UNCHANGED <<units, taken, phase>>, self'.layout = self.layout
  PROVE  LayoutKept'
BY DEF LayoutKept, Disagree, other

LEMMA Ranks == \A g : DefRank(g) \in 0..3 /\ (g.init = None => DefRank(g) = 0)
BY DEF DefRank

LEMMA AddGlobalMerges == ASSUME MergeInv, Merge, AddGlobal PROVE MergeInv'
<1> DEFINE n == Len(self.globals) + 1
<1>1. /\ LtoInv /\ LtoInv' /\ MoreGlobals
      /\ UNCHANGED <<units, taken, phase, funcMap, bodyInstalls>>
  BY MergeKeeps DEF MergeInv, AddGlobal
<1>2. /\ n \in Nat /\ DOMAIN self.globals = 1..(n - 1) /\ DOMAIN self'.globals = 1..n
      /\ self'.funcs = self.funcs /\ self'.layout = self.layout
      /\ \A i \in DOMAIN self.globals : self'.globals[i] = self.globals[i]
      /\ self'.globals[n] = [IncomingGlobal EXCEPT !.init = None]
      /\ globalInstalls' = globalInstalls \union {<<n, Gi>>}
  BY <1>1, AddGlobalEffect
<1>3. /\ phase = "link" /\ self \in Unit /\ IncomingGlobal = other.globals[Gi] /\ IncomingGlobal \in Global
      /\ Gi = Len(globalMap) + 1 /\ Len(globalMap) \in Nat /\ DOMAIN globalMap = 1..Len(globalMap)
  BY <1>1, IncomingGlobalTyped
<1>4. LayoutKept /\ KindInv("global") /\ KindInv("func")
  BY <1>3 DEF MergeInv, Merging
<1>5. KindInv("func")'
  BY <1>1, <1>2, <1>4, KindFields, KindSame
<1>6. KindInv("global")'
  <2>1. n >= 1
    BY <1>3, UnitFields
  <2>2. /\ self'.globals[n].name = other.globals[Gi].name /\ self'.globals[n].level = other.globals[Gi].level
        /\ other.globals[Gi].level \in Nat /\ DefRank(self'.globals[n]) # StrongRank
    <3>1. /\ self'.globals[n].name = other.globals[Gi].name /\ self'.globals[n].level = other.globals[Gi].level
          /\ other.globals[Gi].level \in Nat /\ self'.globals[n].init = None
      BY <1>2, <1>3 DEF Global
    <3> QED BY <3>1, Ranks DEF StrongRank
  <2>3. \A j \in DOMAIN self.globals : self.globals[j].name # other.globals[Gi].name
    BY <1>3 DEF AddGlobal, Named
  <2>4. DOMAIN globalMap' = DOMAIN globalMap \union {Gi}
    <3>1. globalMap' = Append(globalMap, n) /\ globalMap \in Seq(DOMAIN self.globals)
      BY <1>1, AddGlobalEffect DEF LtoInv, MapsShape
    <3>2. DOMAIN globalMap' = 1..(Len(globalMap) + 1)
      BY <3>1
    <3> QED BY <1>3, <3>2
  <2>5. globalInstalls \subseteq (DOMAIN self.globals) \X (DOMAIN globalMap)
    BY <1>1 DEF LtoInv, MapsShape
  <2> HIDE DEF n
  <2>6. /\ DOMAIN Of("global", self) = 1..(n - 1) /\ DOMAIN Of("global", self)' = 1..n
        /\ \A j \in DOMAIN Of("global", self) : /\ Of("global", self)'[j] = Of("global", self)[j]
                                                /\ Of("global", self)[j].name # Of("global", other)[Gi].name
        /\ Of("global", self)'[n].name = Of("global", other)[Gi].name
        /\ Of("global", self)'[n].level = Of("global", other)[Gi].level
        /\ Of("global", other)[Gi].level \in Nat
        /\ ~Claiming("global", Of("global", self)'[n])
        /\ DOMAIN MapOf("global")' = DOMAIN MapOf("global") \union {Gi}
        /\ InstallsOf("global") \subseteq (DOMAIN Of("global", self)) \X (DOMAIN MapOf("global"))
        /\ InstallsOf("global")' = InstallsOf("global") \union {<<n, Gi>>}
    BY <1>2, <2>2, <2>3, <2>4, <2>5, KindFields
  <2> QED BY <1>1, <1>2, <1>4, <2>1, <2>6, KindFields, KindAdded
<1>7. LayoutKept'
  BY <1>1, <1>2, <1>4, LayoutSame
<1> QED BY <1>1, <1>3, <1>5, <1>6, <1>7 DEF MergeInv

LEMMA UnifyGlobalMerges == ASSUME MergeInv, Merge, UnifyGlobal PROVE MergeInv'
<1>1. /\ LtoInv /\ LtoInv' /\ MoreGlobals
      /\ UNCHANGED <<units, taken, phase, funcMap, bodyInstalls>>
  BY MergeKeeps DEF MergeInv, UnifyGlobal
<1>2. PICK i \in Named(self.globals, IncomingGlobal.name) :
        /\ ~(DefRank(self.globals[i]) = StrongRank /\ DefRank(IncomingGlobal) = StrongRank)
        /\ DOMAIN self'.globals = DOMAIN self.globals
        /\ self'.funcs = self.funcs /\ self'.layout = self.layout
        /\ \A j \in DOMAIN self.globals : j # i => self'.globals[j] = self.globals[j]
        /\ self'.globals[i] = [self.globals[i] EXCEPT !.level = Join(self.globals[i].level, IncomingGlobal.level)]
        /\ globalMap' = Append(globalMap, i)
        /\ globalInstalls' = IF DefRank(IncomingGlobal) > DefRank(self.globals[i])
                             THEN globalInstalls \union {<<i, Gi>>} ELSE globalInstalls
  BY <1>1, UnifyGlobalEffect
<1>3. /\ phase = "link" /\ self \in Unit /\ IncomingGlobal = other.globals[Gi] /\ IncomingGlobal \in Global
      /\ Gi = Len(globalMap) + 1 /\ Len(globalMap) \in Nat /\ DOMAIN globalMap = 1..Len(globalMap)
  BY <1>1, IncomingGlobalTyped
<1>4. LayoutKept /\ KindInv("global") /\ KindInv("func")
  BY <1>3 DEF MergeInv, Merging
<1>5. KindInv("func")'
  BY <1>1, <1>2, <1>4, KindFields, KindSame
<1>6. KindInv("global")'
  <2>1. i \in DOMAIN self.globals /\ self.globals[i].name = other.globals[Gi].name /\ self.globals[i] \in Global
    BY <1>3, UnitFields DEF Named
  <2>2. /\ self'.globals[i].name = self.globals[i].name
        /\ self'.globals[i].level = Join(self.globals[i].level, other.globals[Gi].level)
        /\ other.globals[Gi].level \in Nat /\ self.globals[i].level \in Nat
        /\ DefRank(self'.globals[i]) = DefRank(self.globals[i])
    BY <1>2, <1>3, <2>1 DEF Global, DefRank
  <2>3. DOMAIN globalMap' = DOMAIN globalMap \union {Gi}
    <3>1. globalMap' = Append(globalMap, i) /\ globalMap \in Seq(DOMAIN self.globals)
      BY <1>1, <1>2 DEF LtoInv, MapsShape
    <3>2. DOMAIN globalMap' = 1..(Len(globalMap) + 1)
      BY <3>1
    <3> QED BY <1>3, <3>2
  <2>4. globalInstalls \subseteq (DOMAIN self.globals) \X (DOMAIN globalMap)
    BY <1>1 DEF LtoInv, MapsShape
  <2>5. \/ /\ globalInstalls' = globalInstalls \union {<<i, Gi>>}
           /\ DefRank(self.globals[i]) # StrongRank
        \/ globalInstalls' = globalInstalls /\ DefRank(other.globals[Gi]) # StrongRank
    <3>1. /\ DefRank(self.globals[i]) \in 0..3 /\ DefRank(other.globals[Gi]) \in 0..3
      BY Ranks
    <3> QED BY <1>2, <1>3, <3>1 DEF StrongRank
  <2>6. \A g \in Seen("global") : g.level \in Nat
    BY <1>1, <1>3, SeenTyped, KindFields DEF Merging
  <2>7. /\ i \in DOMAIN Of("global", self)
        /\ Of("global", other)[Gi].level \in Nat /\ Of("global", self)[i].level \in Nat
        /\ Of("global", other)[Gi].name = Of("global", self)[i].name
        /\ DOMAIN Of("global", self)' = DOMAIN Of("global", self)
        /\ \A j \in DOMAIN Of("global", self) : j # i => Of("global", self)'[j] = Of("global", self)[j]
        /\ Of("global", self)'[i].name = Of("global", self)[i].name
        /\ Of("global", self)'[i].level = Join(Of("global", self)[i].level, Of("global", other)[Gi].level)
        /\ Claiming("global", Of("global", self)'[i]) <=> Claiming("global", Of("global", self)[i])
        /\ DOMAIN MapOf("global")' = DOMAIN MapOf("global") \union {Gi}
        /\ InstallsOf("global") \subseteq (DOMAIN Of("global", self)) \X (DOMAIN MapOf("global"))
        /\ \/ /\ InstallsOf("global")' = InstallsOf("global") \union {<<i, Gi>>}
              /\ ~Claiming("global", Of("global", self)[i])
           \/ InstallsOf("global")' = InstallsOf("global") /\ ~Claiming("global", Of("global", other)[Gi])
    BY <1>2, <2>1, <2>2, <2>3, <2>4, <2>5, KindFields
  <2> QED BY <1>1, <1>4, <2>6, <2>7, KindFields, KindJoined
<1>7. LayoutKept'
  BY <1>1, <1>2, <1>4, LayoutSame
<1> QED BY <1>1, <1>3, <1>5, <1>6, <1>7 DEF MergeInv

LEMMA AddFunctionMerges == ASSUME MergeInv, Merge, AddFunction PROVE MergeInv'
<1> DEFINE n == Len(self.funcs) + 1
<1>1. /\ LtoInv /\ LtoInv' /\ MoreFunctions
      /\ UNCHANGED <<units, taken, phase, globalMap, globalInstalls>>
  BY MergeKeeps DEF MergeInv, AddFunction
<1>2. /\ n \in Nat /\ DOMAIN self.funcs = 1..(n - 1) /\ DOMAIN self'.funcs = 1..n
      /\ self'.globals = self.globals /\ self'.layout = self.layout
      /\ \A i \in DOMAIN self.funcs : self'.funcs[i] = self.funcs[i]
      /\ self'.funcs[n] = [IncomingFunction EXCEPT !.body = None]
      /\ bodyInstalls' = ToInstall(n)
  BY <1>1, AddFunctionEffect
<1>3. /\ phase = "link" /\ self \in Unit /\ IncomingFunction = other.funcs[Fi] /\ IncomingFunction \in Function
      /\ Fi = Len(funcMap) + 1 /\ Len(funcMap) \in Nat /\ DOMAIN funcMap = 1..Len(funcMap)
  BY <1>1, IncomingFunctionTyped
<1>4. LayoutKept /\ KindInv("global") /\ KindInv("func")
  BY <1>3 DEF MergeInv, Merging
<1>5. KindInv("global")'
  BY <1>1, <1>2, <1>4, KindFields, KindSame
<1>6. KindInv("func")'
  <2>1. n >= 1
    BY <1>3, UnitFields
  <2>2. /\ self'.funcs[n].name = other.funcs[Fi].name /\ self'.funcs[n].level = other.funcs[Fi].level
        /\ other.funcs[Fi].level \in Nat /\ ~Defined(self'.funcs[n])
    BY <1>2, <1>3 DEF Function, Defined
  <2>3. \A j \in DOMAIN self.funcs : self.funcs[j].name # other.funcs[Fi].name
    BY <1>3 DEF AddFunction, Named
  <2>4. DOMAIN funcMap' = DOMAIN funcMap \union {Fi}
    <3>1. funcMap' = Append(funcMap, n) /\ funcMap \in Seq(FuncIds)
      BY <1>1, AddFunctionEffect DEF LtoInv, MapsShape
    <3>2. DOMAIN funcMap' = 1..(Len(funcMap) + 1)
      BY <3>1
    <3> QED BY <1>3, <3>2
  <2>5. bodyInstalls \subseteq (DOMAIN self.funcs) \X (DOMAIN funcMap)
    BY <1>1 DEF LtoInv, MapsShape, FuncIds
  <2>6. \/ bodyInstalls' = bodyInstalls \union {<<n, Fi>>}
        \/ bodyInstalls' = bodyInstalls /\ ~Defined(other.funcs[Fi])
    BY <1>2, <1>3 DEF ToInstall
  <2> HIDE DEF n
  <2>7. /\ DOMAIN Of("func", self) = 1..(n - 1) /\ DOMAIN Of("func", self)' = 1..n
        /\ \A j \in DOMAIN Of("func", self) : /\ Of("func", self)'[j] = Of("func", self)[j]
                                              /\ Of("func", self)[j].name # Of("func", other)[Fi].name
        /\ Of("func", self)'[n].name = Of("func", other)[Fi].name
        /\ Of("func", self)'[n].level = Of("func", other)[Fi].level
        /\ Of("func", other)[Fi].level \in Nat
        /\ ~Claiming("func", Of("func", self)'[n])
        /\ DOMAIN MapOf("func")' = DOMAIN MapOf("func") \union {Fi}
        /\ InstallsOf("func") \subseteq (DOMAIN Of("func", self)) \X (DOMAIN MapOf("func"))
        /\ \/ InstallsOf("func")' = InstallsOf("func") \union {<<n, Fi>>}
           \/ InstallsOf("func")' = InstallsOf("func") /\ ~Claiming("func", Of("func", other)[Fi])
    BY <1>2, <2>2, <2>3, <2>4, <2>5, <2>6, KindFields
  <2> QED BY <1>1, <1>2, <1>4, <2>1, <2>7, KindFields, KindAdded
<1>7. LayoutKept'
  BY <1>1, <1>2, <1>4, LayoutSame
<1> QED BY <1>1, <1>3, <1>5, <1>6, <1>7 DEF MergeInv

LEMMA UnifyFunctionMerges == ASSUME MergeInv, Merge, UnifyFunction PROVE MergeInv'
<1>1. /\ LtoInv /\ LtoInv' /\ MoreFunctions
      /\ UNCHANGED <<units, taken, phase, globalMap, globalInstalls>>
  BY MergeKeeps DEF MergeInv, UnifyFunction
<1>2. PICK i \in Named(self.funcs, IncomingFunction.name) :
        /\ ~(Defined(self.funcs[i]) /\ Defined(IncomingFunction))
        /\ DOMAIN self'.funcs = DOMAIN self.funcs
        /\ self'.globals = self.globals /\ self'.layout = self.layout
        /\ \A j \in DOMAIN self.funcs : j # i => self'.funcs[j] = self.funcs[j]
        /\ self'.funcs[i].name = self.funcs[i].name /\ self'.funcs[i].body = self.funcs[i].body
        /\ self'.funcs[i].level = Join(self.funcs[i].level, IncomingFunction.level)
        /\ funcMap' = Append(funcMap, i) /\ bodyInstalls' = ToInstall(i)
  BY <1>1, UnifyFunctionEffect
<1>3. /\ phase = "link" /\ self \in Unit /\ IncomingFunction = other.funcs[Fi] /\ IncomingFunction \in Function
      /\ Fi = Len(funcMap) + 1 /\ Len(funcMap) \in Nat /\ DOMAIN funcMap = 1..Len(funcMap)
  BY <1>1, IncomingFunctionTyped
<1>4. LayoutKept /\ KindInv("global") /\ KindInv("func")
  BY <1>3 DEF MergeInv, Merging
<1>5. KindInv("global")'
  BY <1>1, <1>2, <1>4, KindFields, KindSame
<1>6. KindInv("func")'
  <2>1. i \in DOMAIN self.funcs /\ self.funcs[i].name = other.funcs[Fi].name /\ self.funcs[i] \in Function
    BY <1>3, UnitFields DEF Named
  <2>2. /\ other.funcs[Fi].level \in Nat /\ self.funcs[i].level \in Nat
        /\ self'.funcs[i].level = Join(self.funcs[i].level, other.funcs[Fi].level)
        /\ Defined(self'.funcs[i]) <=> Defined(self.funcs[i])
    BY <1>2, <1>3, <2>1 DEF Function, Defined
  <2>3. DOMAIN funcMap' = DOMAIN funcMap \union {Fi}
    <3>1. funcMap' = Append(funcMap, i) /\ funcMap \in Seq(FuncIds)
      BY <1>1, <1>2 DEF LtoInv, MapsShape
    <3>2. DOMAIN funcMap' = 1..(Len(funcMap) + 1)
      BY <3>1
    <3> QED BY <1>3, <3>2
  <2>4. bodyInstalls \subseteq (DOMAIN self.funcs) \X (DOMAIN funcMap)
    BY <1>1 DEF LtoInv, MapsShape, FuncIds
  <2>5. \/ /\ bodyInstalls' = bodyInstalls \union {<<i, Fi>>}
           /\ ~Defined(self.funcs[i])
        \/ bodyInstalls' = bodyInstalls /\ ~Defined(other.funcs[Fi])
    BY <1>2, <1>3 DEF ToInstall
  <2>6. \A g \in Seen("func") : g.level \in Nat
    BY <1>1, <1>3, SeenTyped, KindFields DEF Merging
  <2>7. /\ i \in DOMAIN Of("func", self)
        /\ Of("func", other)[Fi].level \in Nat /\ Of("func", self)[i].level \in Nat
        /\ Of("func", other)[Fi].name = Of("func", self)[i].name
        /\ DOMAIN Of("func", self)' = DOMAIN Of("func", self)
        /\ \A j \in DOMAIN Of("func", self) : j # i => Of("func", self)'[j] = Of("func", self)[j]
        /\ Of("func", self)'[i].name = Of("func", self)[i].name
        /\ Of("func", self)'[i].level = Join(Of("func", self)[i].level, Of("func", other)[Fi].level)
        /\ Claiming("func", Of("func", self)'[i]) <=> Claiming("func", Of("func", self)[i])
        /\ DOMAIN MapOf("func")' = DOMAIN MapOf("func") \union {Fi}
        /\ InstallsOf("func") \subseteq (DOMAIN Of("func", self)) \X (DOMAIN MapOf("func"))
        /\ \/ /\ InstallsOf("func")' = InstallsOf("func") \union {<<i, Fi>>}
              /\ ~Claiming("func", Of("func", self)[i])
           \/ InstallsOf("func")' = InstallsOf("func") /\ ~Claiming("func", Of("func", other)[Fi])
    BY <1>2, <2>1, <2>2, <2>3, <2>4, <2>5, KindFields
  <2> QED BY <1>1, <1>4, <2>6, <2>7, KindFields, KindJoined
<1>7. LayoutKept'
  BY <1>1, <1>2, <1>4, LayoutSame
<1> QED BY <1>1, <1>3, <1>5, <1>6, <1>7 DEF MergeInv

-----------------------------------------------------------------------------
(* The beginning and the end of a link *)

LEMMA KindInstalled ==
  ASSUME NEW kind \in Kinds, KindInv(kind), taken \in Nat, taken' = taken + 1, units' = units,
         MapOf(kind)' = <<>>, InstallsOf(kind)' = {},
         DOMAIN MapOf(kind) = DOMAIN Of(kind, other), NamesDiffer(Of(kind, other)),
         DOMAIN Of(kind, self)' = DOMAIN Of(kind, self),
         \A j \in DOMAIN Of(kind, self) : /\ Of(kind, self)'[j].name = Of(kind, self)[j].name
                                          /\ Of(kind, self)'[j].level = Of(kind, self)[j].level,
         \A j \in DOMAIN Of(kind, self) :
           \/ /\ \A s : <<j, s>> \notin InstallsOf(kind)
              /\ Claiming(kind, Of(kind, self)'[j]) <=> Claiming(kind, Of(kind, self)[j])
           \/ \E s \in DOMAIN Of(kind, other) :
                /\ <<j, s>> \in InstallsOf(kind)
                /\ Claiming(kind, Of(kind, self)'[j]) <=> Claiming(kind, Of(kind, other)[s])
  PROVE  KindInv(kind)'
<1> DEFINE mine == Of(kind, self)
           mine2 == Of(kind, self)'
           theirs == Of(kind, other)
           map == MapOf(kind)
           installs == InstallsOf(kind)
           seen == Seen(kind)
           brought == Brought(kind)
           brought2 == Brought(kind)'
<1>1. /\ LevelsKept(mine, seen) /\ ClaimsKept(kind, mine, brought)
      /\ InstallsFit(kind, mine, theirs, map, installs)
  BY DEF KindInv
<1>2. /\ DOMAIN brought = 1..taken /\ DOMAIN brought2 = 1..(taken + 1)
      /\ \A k \in 1..taken : brought2[k] = brought[k]
      /\ brought2[taken + 1] = ToSet(theirs)
  <2>1. brought2 = [k \in 1..(taken + 1) |-> ToSet(Of(kind, units[k]))]
    BY DEF Brought, Of
  <2>2. brought = [k \in 1..taken |-> ToSet(Of(kind, units[k]))] /\ theirs = Of(kind, units[taken + 1])
    BY DEF Brought, other
  <2> HIDE DEF brought, brought2, theirs
  <2> QED BY <2>1, <2>2
<1>3. Seen(kind)' = seen
  <2>1. Seen(kind)' = UNION {brought2[k] : k \in 1..(taken + 1)}
    BY DEF Seen
  <2>2. seen = (UNION {brought[k] : k \in 1..taken}) \union {theirs[i] : i \in DOMAIN theirs}
    BY DEF Seen
  <2>3. ToSet(theirs) = {theirs[i] : i \in DOMAIN theirs}
    BY DEF ToSet
  <2>4. 1..(taken + 1) = (1..taken) \union {taken + 1}
    OBVIOUS
  <2> HIDE DEF brought, brought2, theirs, seen
  <2>5. \A x : (\E k \in 1..(taken + 1) : x \in brought2[k])
                <=> (\E k \in 1..taken : x \in brought[k]) \/ x \in ToSet(theirs)
    BY <1>2, <2>4
  <2> QED BY <2>1, <2>2, <2>3, <2>5, ZenonT(30)
<1>4. /\ DOMAIN map = DOMAIN theirs /\ NamesDiffer(theirs) /\ DOMAIN mine2 = DOMAIN mine
      /\ \A j \in DOMAIN mine : mine2[j].name = mine[j].name /\ mine2[j].level = mine[j].level
      /\ \A j \in DOMAIN mine :
           \/ /\ \A s : <<j, s>> \notin installs
              /\ Claiming(kind, mine2[j]) <=> Claiming(kind, mine[j])
           \/ \E s \in DOMAIN theirs : /\ <<j, s>> \in installs
                                       /\ Claiming(kind, mine2[j]) <=> Claiming(kind, theirs[s])
  OBVIOUS
<1>5. InstallsFit(kind, Of(kind, self), Of(kind, other), MapOf(kind), InstallsOf(kind))'
  BY DEF InstallsFit
<1> HIDE DEF mine, mine2, theirs, map, installs, seen, brought, brought2
<1>6. NamesDiffer(mine)
  BY <1>1 DEF LevelsKept
<1>7. LevelsKept(mine2, seen)
  BY <1>1, <1>4, LevelsSame
<1>8. ClaimsKept(kind, mine2, brought2)
  <2>1. /\ NamesDiffer(mine) /\ NamesDiffer(theirs)
        /\ ClaimsKept(kind, mine, brought) /\ InstallsFit(kind, mine, theirs, map, installs)
    BY <1>1, <1>4, <1>6
  <2>2. /\ DOMAIN map = DOMAIN theirs /\ DOMAIN mine2 = DOMAIN mine
        /\ \A j \in DOMAIN mine : mine2[j].name = mine[j].name
    BY <1>4
  <2>3. \A j \in DOMAIN mine :
           \/ /\ \A s : <<j, s>> \notin installs
              /\ Claiming(kind, mine2[j]) <=> Claiming(kind, mine[j])
           \/ \E s \in DOMAIN theirs : /\ <<j, s>> \in installs
                                       /\ Claiming(kind, mine2[j]) <=> Claiming(kind, theirs[s])
    BY <1>4
  <2> DEFINE t == taken + 1
  <2>4. /\ DOMAIN brought2 = DOMAIN brought \union {t} /\ t \notin DOMAIN brought
        /\ \A k \in DOMAIN brought : brought2[k] = brought[k]
        /\ brought2[t] = ToSet(theirs)
    BY <1>2
  <2> HIDE DEF t
  <2> QED BY <2>1, <2>2, <2>3, <2>4, ClaimsInstalled
<1> QED BY <1>3, <1>5, <1>7, <1>8 DEF KindInv, mine2, seen, brought2

LEMMA InstallMerges == ASSUME MergeInv, Merge, Install PROVE MergeInv'
<1>1. /\ LtoInv /\ LtoInv'
      /\ phase' = "idle" /\ taken' = taken + 1 /\ units' = units
      /\ globalMap' = <<>> /\ funcMap' = <<>> /\ globalInstalls' = {} /\ bodyInstalls' = {}
  BY MergeKeeps DEF MergeInv, Install
<1>2. /\ phase = "link" /\ taken < Len(units) /\ units \in Programs /\ taken \in 0..Len(units) /\ taken \in Nat
      /\ self \in Unit /\ other \in Unit
      /\ DOMAIN globalMap = DOMAIN other.globals /\ DOMAIN funcMap = DOMAIN other.funcs
      /\ DOMAIN self'.globals = DOMAIN self.globals /\ DOMAIN self'.funcs = DOMAIN self.funcs
      /\ self'.layout = self.layout
  BY <1>1, InstallEffect
<1>3. NamesDiffer(other.funcs) /\ NamesDiffer(other.globals) /\ taken + 1 \in 1..Len(units)
  BY <1>2, UnitsTyped
<1>4. LayoutKept /\ KindInv("global") /\ KindInv("func")
  BY <1>2 DEF MergeInv, Merging
<1>5. KindInv("global")'
  <2>1. ASSUME NEW i \in DOMAIN self.globals
        PROVE  /\ self'.globals[i].name = self.globals[i].name /\ self'.globals[i].level = self.globals[i].level
               /\ \/ /\ \A s : <<i, s>> \notin globalInstalls
                     /\ DefRank(self'.globals[i]) = DefRank(self.globals[i])
                  \/ \E s \in DOMAIN other.globals :
                       <<i, s>> \in globalInstalls /\ DefRank(self'.globals[i]) = DefRank(other.globals[s])
    <3>1. CASE (\A s : <<i, s>> \notin globalInstalls) /\ self'.globals[i] = self.globals[i]
      BY <3>1
    <3>2. ASSUME NEW s \in DOMAIN other.globals,
                 LET g == other.globals[s]
                 IN  /\ <<i, s>> \in globalInstalls
                     /\ self'.globals[i].name = g.name /\ self'.globals[i].linkage = g.linkage
                     /\ self'.globals[i].detached = g.detached
                     /\ self'.globals[i].init = None <=> g.init = None
                     /\ self'.globals[i].level = Join(g.level, self.globals[i].level)
          PROVE  <2>1!2
      <4> DEFINE g == other.globals[s]
      <4>1. DefRank(self'.globals[i]) = DefRank(g)
        BY <3>2 DEF DefRank
      <4>2. self.globals[i].name = g.name
        <5>1. \A p \in globalInstalls : self.globals[p[1]].name = other.globals[p[2]].name
          BY <1>4, KindFields DEF KindInv, InstallsFit
        <5>2. <<i, s>>[1] = i /\ <<i, s>>[2] = s
          OBVIOUS
        <5> QED BY <3>2, <5>1, <5>2
      <4>3. self.globals[i].level \in Nat /\ g.level \in Nat
        BY <1>2, UnitFields DEF Global
      <4>4. g.level <= self.globals[i].level
        <5>1. g \in Seen("global")
          BY <1>2, KindFields DEF Seen
        <5>2. PICK j \in DOMAIN self.globals : self.globals[j].name = g.name /\ g.level <= self.globals[j].level
          BY <1>4, <5>1, KindFields DEF KindInv, LevelsKept
        <5>3. NamesDiffer(self.globals)
          BY <1>4, KindFields DEF KindInv, LevelsKept
        <5> QED BY <4>2, <5>2, <5>3 DEF NamesDiffer
      <4>5. Join(g.level, self.globals[i].level) = self.globals[i].level
        <5> HIDE DEF g
        <5>1. /\ Join(g.level, self.globals[i].level) \in {g.level, self.globals[i].level}
              /\ self.globals[i].level <= Join(g.level, self.globals[i].level)
          BY <4>3, JoinedLevel
        <5> QED BY <4>3, <4>4, <5>1
      <4> QED BY <3>2, <4>1, <4>2, <4>5
    <3> QED BY <1>1, <3>1, <3>2, InstallEffect
  <2>2. /\ DOMAIN MapOf("global") = DOMAIN Of("global", other) /\ NamesDiffer(Of("global", other))
        /\ MapOf("global")' = <<>> /\ InstallsOf("global")' = {}
        /\ DOMAIN Of("global", self)' = DOMAIN Of("global", self)
        /\ \A j \in DOMAIN Of("global", self) : /\ Of("global", self)'[j].name = Of("global", self)[j].name
                                                /\ Of("global", self)'[j].level = Of("global", self)[j].level
        /\ \A j \in DOMAIN Of("global", self) :
             \/ /\ \A s : <<j, s>> \notin InstallsOf("global")
                /\ Claiming("global", Of("global", self)'[j]) <=> Claiming("global", Of("global", self)[j])
             \/ \E s \in DOMAIN Of("global", other) :
                  /\ <<j, s>> \in InstallsOf("global")
                  /\ Claiming("global", Of("global", self)'[j]) <=> Claiming("global", Of("global", other)[s])
    BY <1>1, <1>2, <1>3, <2>1, KindFields
  <2> QED BY <1>1, <1>2, <1>4, <2>2, KindFields, KindInstalled
<1>6. KindInv("func")'
  <2>1. ASSUME NEW i \in DOMAIN self.funcs
        PROVE  /\ self'.funcs[i].name = self.funcs[i].name /\ self'.funcs[i].level = self.funcs[i].level
               /\ \/ /\ \A s : <<i, s>> \notin bodyInstalls
                     /\ Defined(self'.funcs[i]) <=> Defined(self.funcs[i])
                  \/ \E s \in DOMAIN other.funcs :
                       <<i, s>> \in bodyInstalls /\ (Defined(self'.funcs[i]) <=> Defined(other.funcs[s]))
    BY <1>1, InstallEffect
  <2>2. /\ DOMAIN MapOf("func") = DOMAIN Of("func", other) /\ NamesDiffer(Of("func", other))
        /\ MapOf("func")' = <<>> /\ InstallsOf("func")' = {}
        /\ DOMAIN Of("func", self)' = DOMAIN Of("func", self)
        /\ \A j \in DOMAIN Of("func", self) : /\ Of("func", self)'[j].name = Of("func", self)[j].name
                                              /\ Of("func", self)'[j].level = Of("func", self)[j].level
        /\ \A j \in DOMAIN Of("func", self) :
             \/ /\ \A s : <<j, s>> \notin InstallsOf("func")
                /\ Claiming("func", Of("func", self)'[j]) <=> Claiming("func", Of("func", self)[j])
             \/ \E s \in DOMAIN Of("func", other) :
                  /\ <<j, s>> \in InstallsOf("func")
                  /\ Claiming("func", Of("func", self)'[j]) <=> Claiming("func", Of("func", other)[s])
    BY <1>1, <1>2, <1>3, <2>1, KindFields
  <2> QED BY <1>1, <1>2, <1>4, <2>2, KindFields, KindInstalled
<1>7. LayoutKept'
  <2>1. \A k \in 1..(taken + 1) : k \in 1..taken \/ (k = taken + 1 /\ units[k] = other)
    BY <1>2 DEF other
  <2>2. \A k \in 1..(taken + 1) : ~IsEmpty(units[k]) => self.layout = units[k].layout
    BY <1>2, <1>4, <2>1 DEF LayoutKept
  <2>3. ~Disagree(taken + 1)
    <3> SUFFICES ASSUME NEW i \in 1..(taken + 1), NEW j \in 1..(taken + 1),
                        ~IsEmpty(units[i]), units[i].layout # units[j].layout, i < j
                 PROVE  FALSE
      BY DEF Disagree
    <3>1. i \in 1..taken
      BY <1>2
    <3>2. CASE j \in 1..taken
      BY <1>4, <3>1, <3>2 DEF LayoutKept, Disagree
    <3>3. CASE units[j] = other
      BY <1>2, <1>4, <3>1, <3>3 DEF LayoutKept
    <3> QED BY <2>1, <3>2, <3>3
  <2>4. Disagree(taken)' = Disagree(taken + 1)
    BY <1>1 DEF Disagree
  <2> QED BY <1>1, <1>2, <2>2, <2>3, <2>4 DEF LayoutKept
<1> QED BY <1>1, <1>5, <1>6, <1>7 DEF MergeInv

(* The combined module is empty as long as all that was merged is.          *)
LEMMA NothingSeen ==
  ASSUME NEW kind \in Kinds, KindInv(kind), LtoInv, phase = "idle"
  PROVE  Of(kind, self) = <<>> <=> \A k \in 1..taken : Of(kind, units[k]) = <<>>
<1>1. /\ MapOf(kind) = <<>> /\ self \in Unit
      /\ \A k \in 1..taken : k \in 1..Len(units)
  BY ProgramsAssumption DEF LtoInv, LtoState, MapsShape, MapOf
<1>2. ASSUME NEW u \in Unit PROVE Of(kind, u) = <<>> <=> DOMAIN Of(kind, u) = {}
  BY UnitFields DEF Of
<1>3. Seen(kind) = UNION {ToSet(Of(kind, units[k])) : k \in 1..taken}
  BY <1>1 DEF Seen, Brought
<1>4. ASSUME Of(kind, self) = <<>>, NEW k \in 1..taken PROVE Of(kind, units[k]) = <<>>
  <2>1. \A i \in DOMAIN Of(kind, units[k]) : Of(kind, units[k])[i] \in Seen(kind)
    BY <1>3 DEF ToSet
  <2>2. DOMAIN Of(kind, self) = {}
    BY <1>4
  <2>3. DOMAIN Of(kind, units[k]) = {}
    BY <2>1, <2>2 DEF KindInv, LevelsKept
  <2> QED BY <1>1, <1>2, <2>3, UnitOf
<1>5. ASSUME \A k \in 1..taken : Of(kind, units[k]) = <<>> PROVE Of(kind, self) = <<>>
  <2>1. \A k \in 1..taken : ToSet(Of(kind, units[k])) = {}
    BY <1>5 DEF ToSet
  <2>2. Seen(kind) = {}
    BY <1>3, <2>1
  <2>3. DOMAIN Of(kind, self) = {}
    BY <2>2 DEF KindInv, LevelsKept
  <2> QED BY <1>1, <1>2, <2>3
<1> QED BY <1>4, <1>5

LEMMA EmptyUntilBrought ==
  ASSUME MergeInv, phase = "idle"
  PROVE  IsEmpty(self) <=> \A k \in 1..taken : IsEmpty(units[k])
<1>1. LtoInv /\ KindInv("global") /\ KindInv("func")
  BY DEF MergeInv, Merging
<1>2. self.globals = <<>> <=> \A k \in 1..taken : units[k].globals = <<>>
  BY <1>1, NothingSeen, KindFields
<1>3. self.funcs = <<>> <=> \A k \in 1..taken : units[k].funcs = <<>>
  BY <1>1, NothingSeen, KindFields
<1> QED BY <1>2, <1>3 DEF IsEmpty

LEMMA BeginLinkMerges == ASSUME MergeInv, Merge, BeginLink PROVE MergeInv'
<1>1. /\ LtoInv /\ LtoInv' /\ phase = "idle" /\ phase' = "link"
      /\ UNCHANGED <<units, taken, globalMap, funcMap, globalInstalls, bodyInstalls>>
      /\ IsEmpty(self) \/ self.layout = other.layout
      /\ self' = [self EXCEPT !.layout = other.layout]
  BY MergeKeeps DEF MergeInv, BeginLink
<1>2. /\ self'.globals = self.globals /\ self'.funcs = self.funcs /\ self'.layout = other.layout
      /\ other' = other
  BY <1>1 DEF LtoInv, LtoState, Unit, other
<1>3. LayoutKept /\ KindInv("global") /\ KindInv("func")
  BY <1>1 DEF MergeInv, Merging
<1>4. KindInv("global")' /\ KindInv("func")'
  BY <1>1, <1>2, <1>3, KindFields, KindSame
<1>5. \A k \in 1..taken : ~IsEmpty(units[k]) => other.layout = units[k].layout
  BY <1>1, <1>3, EmptyUntilBrought DEF LayoutKept
<1>6. LayoutKept'
  <2>1. Disagree(taken)' = Disagree(taken)
    BY <1>1 DEF Disagree
  <2> QED BY <1>1, <1>2, <1>3, <1>5, <2>1 DEF LayoutKept
<1> QED BY <1>1, <1>4, <1>6 DEF MergeInv

-----------------------------------------------------------------------------
(* When merging goes wrong *)

LEMMA ClaimsOf ==
  ASSUME NEW t, NEW n, NEW a
  PROVE  a \in Claims(t, n) <=>
           \E j \in 1..t : \/ /\ a = <<j, "global">>
                              /\ \E x \in ToSet(units[j].globals) : x.name = n /\ Claiming("global", x)
                           \/ /\ a = <<j, "func">>
                              /\ \E x \in ToSet(units[j].funcs) : x.name = n /\ Claiming("func", x)
BY DEF Claims, Named, ToSet, Claiming

(* Two claims on one name are a clash of strong definitions, or one of       *)
(* functions of which one is weak.                                          *)
LEMMA ContestedMeans ==
  ASSUME NEW t
  PROVE  Contested(t) <=> StrongClash(t) \/ WeakFunctionClash(t)
<1> DEFINE G(j, n) == StrongGlobal(units[j], n)
           F(j, n) == StrongFunction(units[j], n) \/ WeakFunction(units[j], n)
           Both(i, j, n) == (G(i, n) /\ G(j, n)) \/ (F(i, n) /\ F(j, n))
<1>1. ASSUME NEW n
      PROVE  /\ \A j : <<j, "global">> \in Claims(t, n) <=> j \in 1..t /\ G(j, n)
             /\ \A j : <<j, "func">> \in Claims(t, n) <=> j \in 1..t /\ F(j, n)
             /\ \A a \in Claims(t, n) : \E j \in 1..t : a = <<j, "global">> \/ a = <<j, "func">>
  BY DEF Claims, StrongGlobal, StrongFunction, WeakFunction
<1>2. ASSUME NEW n, NEW i, NEW j
      PROVE  Both(i, j, n) <=>
               \/ (StrongGlobal(units[i], n) /\ StrongGlobal(units[j], n))
               \/ (StrongFunction(units[i], n) /\ StrongFunction(units[j], n))
               \/ (WeakFunction(units[i], n) /\ F(j, n))
               \/ (WeakFunction(units[j], n) /\ F(i, n))
  OBVIOUS
<1>3. StrongClash(t) \/ WeakFunctionClash(t) <=> \E n \in Name : \E i, j \in 1..t : i # j /\ Both(i, j, n)
  <2> HIDE DEF Both
  <2> QED BY <1>2 DEF StrongClash, WeakFunctionClash
<1> HIDE DEF G, F
<1>4. ASSUME NEW n \in Name, NEW a \in Claims(t, n), NEW b \in Claims(t, n), a # b, a[2] = b[2]
      PROVE  \E i, j \in 1..t : i # j /\ Both(i, j, n)
  <2>1. PICK i \in 1..t : a = <<i, "global">> \/ a = <<i, "func">>
    BY <1>1
  <2>2. PICK j \in 1..t : b = <<j, "global">> \/ b = <<j, "func">>
    BY <1>1
  <2>3. /\ i # j
        /\ \/ a = <<i, "global">> /\ b = <<j, "global">>
           \/ a = <<i, "func">> /\ b = <<j, "func">>
    BY <1>4, <2>1, <2>2
  <2>4. Both(i, j, n)
    BY <1>1, <2>3
  <2> QED BY <2>3, <2>4
<1>5. ASSUME NEW n \in Name, NEW i \in 1..t, NEW j \in 1..t, i # j, Both(i, j, n)
      PROVE  Contested(t)
  <2>1. CASE G(i, n) /\ G(j, n)
    <3>1. <<i, "global">> \in Claims(t, n) /\ <<j, "global">> \in Claims(t, n)
      BY <1>1, <2>1
    <3> QED BY <1>5, <3>1 DEF Contested
  <2>2. CASE F(i, n) /\ F(j, n)
    <3>1. <<i, "func">> \in Claims(t, n) /\ <<j, "func">> \in Claims(t, n)
      BY <1>1, <2>2
    <3> QED BY <1>5, <3>1 DEF Contested
  <2> QED BY <1>5, <2>1, <2>2
<1>6. Contested(t) <=> \E n \in Name : \E i, j \in 1..t : i # j /\ Both(i, j, n)
  <2> HIDE DEF Both
  <2> QED BY <1>4, <1>5 DEF Contested
<1> QED BY <1>3, <1>6

(* As long as no step refused, no two merged modules claim one name.        *)
LEMMA NotContested ==
  ASSUME KindInv("global"), KindInv("func")
  PROVE  ~Contested(taken)
<1> SUFFICES ASSUME NEW n, NEW a \in Claims(taken, n), NEW b \in Claims(taken, n), a # b, a[2] = b[2]
             PROVE  FALSE
  BY DEF Contested
<1>1. ASSUME NEW k \in 1..taken, NEW l \in 1..taken,
             NEW g \in ToSet(units[k].globals), NEW h \in ToSet(units[l].globals),
             g.name = h.name, Claiming("global", g), Claiming("global", h)
      PROVE  k = l
  <2>1. /\ k \in DOMAIN Brought("global") /\ l \in DOMAIN Brought("global")
        /\ g \in Brought("global")[k] /\ h \in Brought("global")[l]
    BY KindFields DEF Brought
  <2> QED BY <1>1, <2>1 DEF KindInv, ClaimsKept, ClaimedOnce
<1>2. ASSUME NEW k \in 1..taken, NEW l \in 1..taken,
             NEW g \in ToSet(units[k].funcs), NEW h \in ToSet(units[l].funcs),
             g.name = h.name, Claiming("func", g), Claiming("func", h)
      PROVE  k = l
  <2>1. /\ k \in DOMAIN Brought("func") /\ l \in DOMAIN Brought("func")
        /\ g \in Brought("func")[k] /\ h \in Brought("func")[l]
    BY KindFields DEF Brought
  <2> QED BY <1>2, <2>1 DEF KindInv, ClaimsKept, ClaimedOnce
<1>3. PICK k \in 1..taken :
        \/ a = <<k, "global">> /\ \E x \in ToSet(units[k].globals) : x.name = n /\ Claiming("global", x)
        \/ a = <<k, "func">> /\ \E x \in ToSet(units[k].funcs) : x.name = n /\ Claiming("func", x)
  BY ClaimsOf
<1>4. PICK l \in 1..taken :
        \/ b = <<l, "global">> /\ \E x \in ToSet(units[l].globals) : x.name = n /\ Claiming("global", x)
        \/ b = <<l, "func">> /\ \E x \in ToSet(units[l].funcs) : x.name = n /\ Claiming("func", x)
  BY ClaimsOf
<1>5. CASE a[2] = "global"
  <2>1. a = <<k, "global">> /\ \E x \in ToSet(units[k].globals) : x.name = n /\ Claiming("global", x)
    BY <1>3, <1>5
  <2>2. b = <<l, "global">> /\ \E x \in ToSet(units[l].globals) : x.name = n /\ Claiming("global", x)
    <3>1. b[2] = "global"
      BY <1>5
    <3> QED BY <1>4, <3>1
  <2> QED BY <1>1, <2>1, <2>2
<1>6. CASE a[2] = "func"
  <2>1. a = <<k, "func">> /\ \E x \in ToSet(units[k].funcs) : x.name = n /\ Claiming("func", x)
    BY <1>3, <1>6
  <2>2. b = <<l, "func">> /\ \E x \in ToSet(units[l].funcs) : x.name = n /\ Claiming("func", x)
    <3>1. b[2] = "func"
      BY <1>6
    <3> QED BY <1>4, <3>1
  <2> QED BY <1>2, <2>1, <2>2
<1> QED BY <1>3, <1>5, <1>6

LEMMA DuplicateGlobalContested == ASSUME MergeInv, DuplicateGlobal PROVE Contested(taken + 1)
<1>1. LtoInv /\ MoreGlobals
  BY DEF MergeInv, DuplicateGlobal
<1>2. /\ phase = "link" /\ Gi \in DOMAIN other.globals /\ IncomingGlobal = other.globals[Gi]
      /\ IncomingGlobal \in Global /\ taken \in Nat
  BY <1>1, IncomingGlobalTyped
<1>3. PICK i \in DOMAIN self.globals : /\ self.globals[i].name = IncomingGlobal.name
                                       /\ DefRank(self.globals[i]) = StrongRank
                                       /\ DefRank(IncomingGlobal) = StrongRank
  BY DEF DuplicateGlobal, Named
<1>4. PICK k \in DOMAIN Brought("global") : \E h \in Brought("global")[k] :
        h.name = self.globals[i].name /\ Claiming("global", h)
  <2>1. KindInv("global")
    BY <1>2 DEF MergeInv, Merging
  <2> QED BY <1>3, <2>1, KindFields DEF KindInv, ClaimsKept
<1>5. k \in 1..taken /\ \E h \in ToSet(units[k].globals) : h.name = IncomingGlobal.name /\ Claiming("global", h)
  BY <1>3, <1>4, KindFields DEF Brought
<1>6. \E h \in ToSet(units[taken + 1].globals) : h.name = IncomingGlobal.name /\ Claiming("global", h)
  BY <1>2, <1>3, KindFields DEF other, ToSet
<1>7. k \in 1..(taken + 1) /\ taken + 1 \in 1..(taken + 1) /\ k # taken + 1
  BY <1>2, <1>5
<1>8. /\ <<k, "global">> \in Claims(taken + 1, IncomingGlobal.name)
      /\ <<taken + 1, "global">> \in Claims(taken + 1, IncomingGlobal.name)
  BY <1>5, <1>6, <1>7, ClaimsOf
<1>9. IncomingGlobal.name \in Name
  BY <1>2 DEF Global
<1> QED BY <1>7, <1>8, <1>9 DEF Contested

LEMMA DuplicateFunctionContested == ASSUME MergeInv, DuplicateFunction PROVE Contested(taken + 1)
<1>1. LtoInv /\ MoreFunctions
  BY DEF MergeInv, DuplicateFunction
<1>2. /\ phase = "link" /\ Fi \in DOMAIN other.funcs /\ IncomingFunction = other.funcs[Fi]
      /\ IncomingFunction \in Function /\ taken \in Nat
  BY <1>1, IncomingFunctionTyped
<1>3. PICK i \in DOMAIN self.funcs : /\ self.funcs[i].name = IncomingFunction.name
                                     /\ Defined(self.funcs[i]) /\ Defined(IncomingFunction)
  BY DEF DuplicateFunction, Named
<1>4. PICK k \in DOMAIN Brought("func") : \E h \in Brought("func")[k] :
        h.name = self.funcs[i].name /\ Claiming("func", h)
  <2>1. KindInv("func")
    BY <1>2 DEF MergeInv, Merging
  <2> QED BY <1>3, <2>1, KindFields DEF KindInv, ClaimsKept
<1>5. k \in 1..taken /\ \E h \in ToSet(units[k].funcs) : h.name = IncomingFunction.name /\ Claiming("func", h)
  BY <1>3, <1>4, KindFields DEF Brought
<1>6. \E h \in ToSet(units[taken + 1].funcs) : h.name = IncomingFunction.name /\ Claiming("func", h)
  BY <1>2, <1>3, KindFields DEF other, ToSet
<1>7. k \in 1..(taken + 1) /\ taken + 1 \in 1..(taken + 1) /\ k # taken + 1
  BY <1>2, <1>5
<1>8. /\ <<k, "func">> \in Claims(taken + 1, IncomingFunction.name)
      /\ <<taken + 1, "func">> \in Claims(taken + 1, IncomingFunction.name)
  BY <1>5, <1>6, <1>7, ClaimsOf
<1>9. IncomingFunction.name \in Name
  BY <1>2 DEF Function
<1> QED BY <1>7, <1>8, <1>9 DEF Contested

LEMMA LayoutMismatchDisagrees == ASSUME MergeInv, DataLayoutMismatch PROVE Disagree(taken + 1)
<1>1. /\ phase = "idle" /\ ~IsEmpty(self) /\ self.layout # other.layout
      /\ LayoutKept /\ taken \in Nat
  BY ProgramsAssumption DEF MergeInv, Merging, DataLayoutMismatch, LtoInv, LtoState
<1>2. PICK k \in 1..taken : ~IsEmpty(units[k])
  BY <1>1, EmptyUntilBrought
<1>3. self.layout = units[k].layout
  BY <1>1, <1>2 DEF LayoutKept
<1>4. k \in 1..(taken + 1) /\ taken + 1 \in 1..(taken + 1) /\ k < taken + 1
  BY <1>1
<1> QED BY <1>1, <1>2, <1>3, <1>4 DEF Disagree, other

LEMMA FailMerges ==
  ASSUME MergeInv, Merge, DataLayoutMismatch \/ DuplicateGlobal \/ DuplicateFunction
  PROVE  MergeInv'
<1>1. /\ LtoInv' /\ phase' = "failed" /\ units' = units /\ taken' = taken
  BY MergeKeeps DEF MergeInv, DataLayoutMismatch, DuplicateGlobal, DuplicateFunction, Fail
<1>2. Contested(taken + 1) \/ Disagree(taken + 1)
  BY DuplicateGlobalContested, DuplicateFunctionContested, LayoutMismatchDisagrees
<1>3. /\ Contested(taken + 1)' <=> Contested(taken + 1)
      /\ Disagree(taken + 1)' <=> Disagree(taken + 1)
  BY <1>1 DEF Contested, Claims, Disagree
<1>4. (Contested(taken + 1) \/ Disagree(taken + 1))'
  BY <1>2, <1>3
<1> QED BY <1>1, <1>4 DEF MergeInv, Merging

-----------------------------------------------------------------------------
LEMMA InitMerges == Init => MergeInv
<1> SUFFICES ASSUME Init PROVE MergeInv
  OBVIOUS
<1>1. /\ taken = 0 /\ phase = "idle" /\ self = Empty
      /\ globalMap = <<>> /\ funcMap = <<>> /\ globalInstalls = {} /\ bodyInstalls = {}
  BY DEF Init, MergeInit
<1>2. \A kind \in Kinds : Of(kind, self) = <<>> /\ MapOf(kind) = <<>> /\ InstallsOf(kind) = {}
  BY <1>1 DEF Of, MapOf, InstallsOf, Empty
<1>3. \A kind \in Kinds : Seen(kind) = {} /\ DOMAIN Brought(kind) = {}
  BY <1>1, <1>2 DEF Seen, Brought
<1>4. \A kind \in Kinds : KindInv(kind)
  BY <1>2, <1>3 DEF KindInv, LevelsKept, NamesDiffer, ClaimsKept, ClaimedOnce, InstallsFit
<1>5. LayoutKept
  BY <1>1 DEF LayoutKept, Disagree
<1> QED BY <1>1, <1>4, <1>5, InitLto, KindFields DEF MergeInv

LEMMA NextMerges == MergeInv /\ [Next]_vars => MergeInv'
<1> SUFFICES ASSUME MergeInv, [Next]_vars PROVE MergeInv'
  OBVIOUS
<1>1. LtoInv /\ LtoInv'
  BY NextLto DEF MergeInv
<1>2. CASE Merge
  <2>1. CASE BeginLink
    BY <1>2, <2>1, BeginLinkMerges
  <2>2. CASE AddGlobal
    BY <1>2, <2>2, AddGlobalMerges
  <2>3. CASE UnifyGlobal
    BY <1>2, <2>3, UnifyGlobalMerges
  <2>4. CASE AddFunction
    BY <1>2, <2>4, AddFunctionMerges
  <2>5. CASE UnifyFunction
    BY <1>2, <2>5, UnifyFunctionMerges
  <2>6. CASE Install
    BY <1>2, <2>6, InstallMerges
  <2>7. CASE DataLayoutMismatch \/ DuplicateGlobal \/ DuplicateFunction
    BY <1>2, <2>7, FailMerges
  <2> QED BY <1>2, <2>1, <2>2, <2>3, <2>4, <2>5, <2>6, <2>7 DEF Merge, MergeStep
<1>3. CASE BeginPasses \/ GetOrCompute \/ Inline \/ DeadFunctionElim
  <2>1. phase' = "optimize"
    BY <1>3 DEF BeginPasses, GetOrCompute, Inline, DeadFunctionElim, RunPass, passVars
  <2> QED BY <1>1, <2>1 DEF MergeInv, Merging
<1>4. CASE UNCHANGED vars
  <2>1. UNCHANGED <<units, taken, self, phase, globalMap, funcMap, globalInstalls, bodyInstalls>>
    BY <1>4 DEF vars, mergeVars
  <2>2. KindInv("global")' <=> KindInv("global")
    BY <2>1 DEF KindInv, Of, MapOf, InstallsOf, Seen, Brought, other
  <2>3. KindInv("func")' <=> KindInv("func")
    BY <2>1 DEF KindInv, Of, MapOf, InstallsOf, Seen, Brought, other
  <2>4. LayoutKept' <=> LayoutKept
    BY <2>1 DEF LayoutKept, Disagree, other
  <2>5. (Contested(taken + 1) \/ Disagree(taken + 1))' <=> (Contested(taken + 1) \/ Disagree(taken + 1))
    BY <2>1 DEF Contested, Claims, Disagree
  <2> QED BY <1>1, <2>1, <2>2, <2>3, <2>4, <2>5 DEF MergeInv, Merging
<1> QED BY <1>2, <1>3, <1>4 DEF Next, Over

(* What the merged module owes to the modules merged so far: who defined     *)
(* each name, what is still to be installed, and what was joined (merge.rs:99-280). *)
THEOREM MergeInvariant == Spec => []MergeInv
BY InitMerges, NextMerges, PTL DEF Spec

(* What merging refuses, and all it refuses, for every set of modules in      *)
(* every order: two strong definitions of one name, two definitions of one   *)
(* function of which one is weak, and layouts that differ.  No such pair is  *)
(* merged, whatever came in between, and nothing else makes merging fail     *)
(* (merge.rs:119-127, 154-156, 203).                                        *)
THEOREM ClashesAreRefused == Spec => []RefusesClashes
<1>1. MergeInv => RefusesClashes
  <2> SUFFICES ASSUME MergeInv PROVE RefusesClashes
    OBVIOUS
  <2>1. ASSUME phase = "idle" PROVE ~Contested(taken) /\ ~Disagree(taken)
    BY <2>1, NotContested DEF MergeInv, Merging, LayoutKept
  <2>2. phase = "failed" => Contested(taken + 1) \/ Disagree(taken + 1)
    BY DEF MergeInv
  <2>3. /\ Contested(taken) <=> StrongClash(taken) \/ WeakFunctionClash(taken)
        /\ Contested(taken + 1) <=> StrongClash(taken + 1) \/ WeakFunctionClash(taken + 1)
    BY ContestedMeans
  <2> QED BY <2>1, <2>2, <2>3 DEF RefusesClashes
<1> QED BY <1>1, MergeInvariant, PTL

(* A bound that is attained is the maximum.                                 *)
LEMMA AttainedMax ==
  ASSUME NEW S \in SUBSET Nat, NEW m \in S, \A x \in S : x <= m
  PROVE  m = Max(S)
<1>1. \E x \in S : \A y \in S : x >= y
  OBVIOUS
<1>2. Max(S) \in S /\ \A y \in S : Max(S) >= y
  BY <1>1 DEF Max
<1>3. Max(S) >= m /\ m >= Max(S) /\ Max(S) \in Nat
  BY <1>2
<1> QED BY <1>3

LEMMA LevelIsMax ==
  ASSUME NEW mine, NEW seen, LevelsKept(mine, seen), \A h \in seen : h.level \in Nat, NEW g \in ToSet(mine)
  PROVE  g.level = Max({h.level : h \in {h \in seen : h.name = g.name}})
<1> DEFINE S == {h.level : h \in {h \in seen : h.name = g.name}}
<1>1. PICK j \in DOMAIN mine : g = mine[j]
  BY DEF ToSet
<1>2. S \in SUBSET Nat
  OBVIOUS
<1>3. g.level \in S
  BY <1>1 DEF LevelsKept
<1>4. ASSUME NEW h \in seen, h.name = g.name PROVE h.level <= g.level
  BY <1>1, <1>4 DEF LevelsKept, NamesDiffer
<1>5. \A x \in S : x <= g.level
  BY <1>4
<1> HIDE DEF S
<1>6. g.level = Max(S)
  BY <1>2, <1>3, <1>5, AttainedMax
<1> QED BY <1>6 DEF S

(* Between two modules, every symbol has the highest level at which any of   *)
(* the merged modules has it: secrecy and thread-locality are never lost,   *)
(* whoever defines the symbol and in which order the modules come           *)
(* (merge.rs:165-170, 264-268).                                             *)
THEOREM LevelsAreJoined == Spec => []LevelsJoin
<1>1. MergeInv => LevelsJoin
  <2> SUFFICES ASSUME MergeInv, phase = "idle" PROVE LevelsJoin
    BY DEF LevelsJoin
  <2>1. LtoInv /\ Merging /\ KindInv("global") /\ KindInv("func") /\ globalMap = <<>> /\ funcMap = <<>>
    BY DEF MergeInv, Merging, LtoInv, MapsShape
  <2>2. /\ Seen("global") = UNION {ToSet(u.globals) : u \in Merged}
        /\ Seen("func") = UNION {ToSet(u.funcs) : u \in Merged}
    BY <2>1, KindFields DEF Seen, Brought, Merged
  <2>3. \A h \in Seen("global") \union Seen("func") : h.level \in Nat
    BY <2>1, SeenTyped, KindFields
  <2>4. LevelsKept(self.globals, Seen("global")) /\ LevelsKept(self.funcs, Seen("func"))
    BY <2>1, KindFields DEF KindInv
  <2>5. ASSUME NEW g \in ToSet(self.globals)
        PROVE  g.level = Max({h.level : h \in {h \in Seen("global") : h.name = g.name}})
    BY <2>3, <2>4, LevelIsMax
  <2>6. ASSUME NEW f \in ToSet(self.funcs)
        PROVE  f.level = Max({h.level : h \in {h \in Seen("func") : h.name = f.name}})
    BY <2>3, <2>4, LevelIsMax
  <2> QED BY <2>2, <2>5, <2>6 DEF LevelsJoin
<1> QED BY <1>1, MergeInvariant, PTL

===============================================================================
