--------------------------- MODULE MCTransaction ---------------------------
(* Transaction on a small instance: an edge that leaves node 2, and node 1 *)
(* on the same connection or on another.                                   *)
EXTENDS Transaction, TLC

Symmetry == Permutations(Connections)

\* One object is changed in the ways that flag attributes, the other also in
\* the way that does not.
MCSetters == [o \in Objs |->
    CASE o = 1 -> {"SetOrCreateAttribute", "SetValue"}
      [] o = 2 -> {"SetOrCreateAttribute", "SetAttribute"}
      [] OTHER -> {}]

MCEnds == [e \in Edges |-> {2}]
=============================================================================
