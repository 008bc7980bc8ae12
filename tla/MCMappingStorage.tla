------------------------- MODULE MCMappingStorage --------------------------
(* Small instances of MappingStorage for TLC. *)
EXTENDS MappingStorage, TLC

CONSTANTS r1, r2

BothCaches == {"identity", "external"}
IdentityCache == {"identity"}

(* lookups on one replica, binds on another *)
Apart == [c \in Readers \cup Binders |-> IF c \in Readers THEN r1 ELSE r2]
(* everything on one replica *)
Together == [c \in Readers \cup Binders |-> r1]

(* Lookups and binds are interchangeable; replicas and users are not, for  *)
(* the locals of an idle call are chosen among them.                       *)
Symmetry == Permutations(Readers) \cup Permutations(Binders)

(* Where binds are the subject, lookups wait until no bind is in flight and *)
(* no bind follows them: a bind reads nothing that a lookup writes.         *)
LookupsAfterBinds ==
  (\E t \in Readers : rpc[t] # "idle") => \A b \in Binders : bpc[b] = "idle"
=============================================================================
