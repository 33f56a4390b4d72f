----------------------------- MODULE MCCatFeeder -----------------------------
(***************************************************************************)
(* CatFeeder for TLC. Connection threads are interchangeable, which the    *)
(* runs of safety properties with several of them use.                     *)
(***************************************************************************)
EXTENDS CatFeeder, TLC

Symmetry == Permutations(Conns)
==============================================================================
