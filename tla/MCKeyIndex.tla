----------------------------- MODULE MCKeyIndex -----------------------------
(***************************************************************************)
(* KeyIndex over a small registry: objects of a resource p with and        *)
(* without a namespace n, of a group g. and its resource c, a neighbour    *)
(* p0 of p, a key that stops at its resource, and a key outside.           *)
(***************************************************************************)
EXTENDS KeyIndex

c == 99
g == 103
n == 110
p == 112
x == 120

Resource == Registry \o <<p, Slash>>
Group == Registry \o <<g, Dot, Slash>>

MCKeys ==
  {Resource \o <<x>>, Resource \o <<n, Slash, x>>, Registry \o <<p>>,
   Registry \o <<p, Zero, Slash, x>>, Group \o <<c, Slash, x>>,
   Group \o <<c, Slash, n, Slash, x>>, <<x>>}

MCDirectories ==
  {Registry, Resource, Resource \o <<n, Slash>>, Group, Group \o <<c, Slash>>,
   Group \o <<c, Slash, n, Slash>>}

MCStarts == MCDirectories \cup {Resource \o <<x>>, Registry \o <<p>>, <<x>>}

MCEnds ==
  {<<>>, <<0>>, Resource \o <<x, 0>>, Resource \o <<x>>, <<x, x>>, Registry \o <<p, 0>>}
    \cup {After(s) : s \in MCDirectories}
=============================================================================
