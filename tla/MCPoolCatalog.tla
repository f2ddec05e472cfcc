--------------------------- MODULE MCPoolCatalog ---------------------------
(* Small instances of PoolCatalog: the names "a" and "b", and the paths made *)
(* of them.  A constant is the byte it is named after.                       *)
EXTENDS PoolCatalog

CONSTANTS a, b

OnePath == {<<a>>}
FlatPaths == {<<a>>, <<b>>}
NestedPaths == {<<a>>, <<b>>, <<a, Slash, b>>}
MarkedPaths == NestedPaths \cup {<<b, At, a>>}

HandleSymmetry == Permutations(Handles)

=============================================================================
