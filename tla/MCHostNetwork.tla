--------------------------- MODULE MCHostNetwork ---------------------------
(* Two plans for one interface, a plain address and one on a VLAN.          *)
EXTENDS HostNetwork

CONSTANTS e0, a1, a2, v7

TwoPlans == {[iface |-> e0, vlan |-> NoVlan, addr |-> a1],
             [iface |-> e0, vlan |-> v7, addr |-> a2]}

OnVlan == {p \in TwoPlans : p.vlan # NoVlan}
=============================================================================
