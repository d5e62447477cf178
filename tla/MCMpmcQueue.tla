---------------------------- MODULE MCMpmcQueue -----------------------------
(***************************************************************************)
(* The queue with places in memory that are all alike, followed until a    *)
(* writer uses a deleted node: two writers and a reader can bring that     *)
(* about, and what such a step does is undefined.                          *)
(***************************************************************************)
EXTENDS MpmcQueue, TLC

Places == Permutations(Nodes)
=============================================================================
