-------------------------- MODULE MCKnowledgeBase --------------------------
(* An instance of KnowledgeBase: a workbook of three chunks in batches of two, an .xls
   and a file that is refused.  A workbook whose analysis cannot be stored goes no other
   way than one whose row cannot be written (Breaks at "meta"), and is left out. *)
EXTENDS KnowledgeBase, TLC

CONSTANTS plain, xls, bad, p1, p2, p3, u1, u2

ChunksConst == (plain :> 3) @@ (xls :> 0) @@ (bad :> 0)
Symmetric == Permutations(Task) \cup Permutations(User)
=============================================================================
