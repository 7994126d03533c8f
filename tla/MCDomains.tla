------------------------------- MODULE MCDomains ------------------------------
(* Instances of DomainWalk: every opcode, on integers of up to three bits.  *)
EXTENDS DomainWalk

MCLiteral == {IntConst(1, v) : v \in {0, 1}} \union {IntConst(2, v) : v \in {-2, 1, 3}}
             \union {IntConst(3, v) : v \in {-4, 0, 1, 2, 3, 7}}

Wide == {Op(k, w, {}) : k \in Binary \ Compare, w \in 2..3}
MCOpcode ==
  Wide \union {Op(k, 1, {}) : k \in Logic \union Compare}
       \union {Op(k, 3, {f}) : k \in Arith, f \in {"nsw", "nuw"}}
       \union {Op(k, 3, {"exact"}) : k \in {"lshr", "udiv"}}
       \union {Op(k, 2, {}) : k \in Casts \union {"freeze", "load"}}
       \union {Op(k, 3, {}) : k \in {"zext", "sext", "select"}}
       \union {Op("trunc", 1, {})}

MCGuard == {CondIs(TRUE), CondIs(FALSE), CondEquals(1), CondNotAnyOf({0, 1})}
===============================================================================
