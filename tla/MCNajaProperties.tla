-------------------------- MODULE MCNajaProperties --------------------------
(* Bounds: three objects; a private property, two groups and two          *)
(* relations that compete for one name, two proxies under the reserved one.*)
EXTENDS NajaProperties, TLC

CONSTANTS o1, o2, o3, priv, grp1, grp2, rel1, rel2, proxy1, proxy2, n1, py

MCObject == {o1, o2, o3}
MCProp == {priv, grp1, grp2, rel1, rel2, proxy1, proxy2}
MCKindOf == (priv :> "private") @@ (grp1 :> "shared") @@ (grp2 :> "shared")
              @@ (rel1 :> "relation") @@ (rel2 :> "relation")
              @@ (proxy1 :> "python") @@ (proxy2 :> "python")
MCNameOf == [p \in MCProp |-> IF MCKindOf[p] = "python" THEN py ELSE n1]
MCPropName == {n1, py}
Symmetry == Permutations(MCObject) \cup Permutations({grp1, grp2})
              \cup Permutations({rel1, rel2}) \cup Permutations({proxy1, proxy2})
=============================================================================
