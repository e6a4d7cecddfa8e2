-------------------------- MODULE MCProxyClearance --------------------------
(* Model values and configurations for checking ProxyClearance.            *)
EXTENDS ProxyClearance, TLC

CONSTANTS r1, r2, r3, u1, u2

Conf(egress, clearance, nodes, resource) ==
    [egress |-> egress, clearance |-> clearance, nodes |-> nodes,
     resource |-> resource, mark |-> 0]

\* A managed pool of two nodes, one node alone, the same with the operator's
\* cookies, and no clearance.
Reloads == {Conf("pool", "flaresolverr", <<u1, u2>>, {}),
            Conf("single", "flaresolverr", <<u1>>, {}),
            Conf("single", "manual", <<u1>>, {}),
            Conf("pool", "none", <<u2, u1>>, {})}

PoolOnly == {Conf("pool", "flaresolverr", <<u1, u2>>, {})}

Symmetry == Permutations(Requests)
=============================================================================
