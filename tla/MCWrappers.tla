----------------------------- MODULE MCWrappers -----------------------------
(* Values of the constants of Wrappers for model checking.                 *)
EXTENDS Wrappers, TLC

CONSTANTS k1, k2, c1, c2

TwoObjects == {k1, k2}
TwoConns == {c1, c2}
Same == Permutations(TwoObjects)

OfGroup == GroupSlots \cup {"group_stop"}

\* Every plan for a server and every plan for a group
EveryPlan ==
  { p \in Plan :
      /\ None \notin {p.on["stop"], p.on["group_stop"]}
      /\ \/ /\ p.uses = {"srv"} /\ \A slot \in OfGroup : p.on[slot] = Function
            /\ p.on["started"] = Function \/ p.user_data = Null
         \/ /\ p.uses = {"srv_manager"} /\ \A slot \in Slots \ OfGroup : p.on[slot] = Function
            /\ p.on["group_started"] = Function \/ p.user_data = Null }

\* The plan of the example is one of them.
ASSUME ExampleIncluded == Example \in EveryPlan
=============================================================================
