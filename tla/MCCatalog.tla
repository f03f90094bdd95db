------------------------------ MODULE MCCatalog ------------------------------
(* Small instances of Catalog: the seeds of the repository, one of a kind. *)
EXTENDS Catalog, TLC

CONSTANTS s1, s2, u1, u2

Loadouts == [n \in Agents |-> Skills]
\* Users rename their skills, and a seeded name is among the new ones.
Names == [agent |-> Agents, skill |-> {"mine"} \cup Skills, conversation |-> {}]
\* Users of an earlier build left nothing, or an agent of a seed's name.
Tables == {{}} \cup {{Row(1, "agent", name, FALSE)} : name \in Agents}
Symmetry == Permutations(Servers) \cup Permutations(Clients)
=============================================================================
