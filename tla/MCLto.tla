-------------------------------- MODULE MCLto --------------------------------
(* Three modules in every order: one calls f and reads d, one defines them   *)
(* with a helper of its own, one brings further claims on both names.        *)
EXTENDS Lto

Do(t) == [kind |-> "do", of |-> t]
Call(i) == [kind |-> "call", of |-> i]
Addr(i) == [kind |-> "addr", of |-> i]
Data(i) == [kind |-> "data", of |-> i]
Fn(n, link, lev, body) == [name |-> n, linkage |-> link, level |-> lev, body |-> body]
Gl(n, link, lev, det, init) == [name |-> n, linkage |-> link, level |-> lev, detached |-> det, init |-> init]
Mod(funcs, globals, lay) == [funcs |-> funcs, globals |-> globals, layout |-> lay]

mcNames == {"main", "f", "d", "h", "k", "g", "e"}
mcEffects == {"main", "f", "d", "h", "k", "g", "d1", "d3", "d4", "f3", "f4", "own"}
mcLayouts == {1, 2}

\* The user of f and d, which may bring a weak d.
User(lev, link, init) ==
  Mod(<<Fn("main", "external", 0, <<Do("main"), Call(2), Data(1)>>), Fn("f", "external", lev, None)>>,
       <<Gl("d", link, 0, FALSE, init)>>, 1)
Users == {User(1, "external", None), User(0, "weak", <<Do("d1")>>)}

\* The definer: h is its own, reached from f, from d or through a global of
\* its name.
HelperReached(link, fbody, dinit, alias) ==
  Mod(<<Fn("h", "internal", 0, <<Do("h")>>), Fn("f", link, 0, fbody), Fn("k", "internal", 0, <<Do("k")>>)>>,
       <<Gl("d", "external", 0, FALSE, dinit)>> \o alias, 1)
Alias == <<Gl("h", "external", 0, FALSE, None)>>
Definers ==
  {HelperReached(link, <<Do("f"), Call(1)>>, <<Do("d"), Addr(3)>>, <<>>) : link \in {"external", "weak"}}
    \union {HelperReached(link, <<Do("f"), Data(2), Call(3)>>, None, Alias) : link \in {"external", "weak"}}

\* The third: a declaration of f, and any claim on d.
Third(lev, link, det, init) ==
  Mod(<<Fn("f", "external", 0, None), Fn("g", "external", 0, <<Do("g"), Call(1)>>)>>,
       <<Gl("d", link, lev, det, init)>>, 1)
Thirds ==
  {Third(1, "external", FALSE, None), Third(1, "weak", FALSE, <<Do("d3")>>),
   Third(0, "external", FALSE, <<Do("d3")>>), Third(0, "external", TRUE, <<Do("d3")>>),
   Mod(<<>>, <<>>, 2), Mod(<<Fn("f", "external", 0, <<Do("f3")>>)>>, <<>>, 1),
   Mod(<<Fn("f", "weak", 0, <<Do("f3")>>)>>, <<>>, 1),
   Mod(<<>>, <<Gl("d", "weak", 0, FALSE, <<Do("d3")>>), Gl("e", "external", 0, FALSE, None)>>, 2)}

Orders(three) == {<<three[p[1]], three[p[2]], three[p[3]]>> : p \in Permutations(1..3)}
mcPrograms == UNION {Orders(<<u, v, w>>) : u \in Users, v \in Definers, w \in Thirds}

\* Objects from elsewhere: none, one that replaces a weak f, one that
\* replaces a weak d.
mcElsewhere == {<<>>, <<Mod(<<Fn("f", "external", 0, <<Do("f4")>>)>>, <<>>, 1)>>,
                <<Mod(<<>>, <<Gl("d", "external", 0, FALSE, <<Do("d4")>>)>>, 1)>>}

\* A definer whose f is its own, beside a module that exports an f.
Private == Mod(<<Fn("f", "internal", 0, <<Do("own")>>), Fn("g", "external", 0, <<Do("g"), Call(1)>>)>>, <<>>, 1)
Exporter == Mod(<<Fn("f", "external", 0, <<Do("f")>>)>>, <<>>, 1)
mcPrivate == {<<u, Private>> : u \in Users} \union {<<Private, u>> : u \in Users}
mcExporter == {<<Exporter>>}
=============================================================================
