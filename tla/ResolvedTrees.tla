--------------------------- MODULE ResolvedTrees ---------------------------
(***************************************************************************)
(* The trees in which cargo-mutants and rustc look for a module in the     *)
(* same directory.  There are others: where src/lib.rs has                 *)
(* `#[path = "odd.rs"] mod q;` and src/odd.rs has `mod c;`, rustc reads    *)
(* src/c.rs and find_mod_source of src/visit.rs looks for src/odd/c.rs.    *)
(***************************************************************************)
EXTENDS DiscoveryProperties

ASSUME ModulesAssumption ==
    \A tree \in DOMAIN Workspaces : IsResolved(Workspaces[tree])

=============================================================================
