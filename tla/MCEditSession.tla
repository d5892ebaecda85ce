---------------------------- MODULE MCEditSession -----------------------------
(* One file of each kind that can be edited, and a string table with one text *)
(* that editors empty, write again and add anew.  Windows are interchangeable. *)
EXTENDS EditSession, TLC

MCHandler == [f \in Files |-> f]
MCOriginal == [i \in Ids |-> "game"]
Symmetric == Permutations(Pages)
=============================================================================
