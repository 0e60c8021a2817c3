--------------------------- MODULE DirectoryScan ---------------------------
(***************************************************************************)
(* directory_contents.cpp of the worker and of the backend: the recursive  *)
(* scan, with a stack that is cut when it gets long.  A tree is a function *)
(* from directories to the sequences of their subdirectories.              *)
(***************************************************************************)
EXTENDS Naturals, Sequences, SequencesExt

(* traverse: what is in a directory is listed, and put on the stack.       *)
Traverse(w, tree) ==
  LET d == w.dirStack[w.i + 1]
  IN [w EXCEPT !.dirStack = @ \o tree[d], !.listed = Append(@, d)]

(* A slip: the directory the index is at goes with those before it.        *)
DecreaseAll(w, shortening) ==
  IF Len(w.dirStack) > shortening /\ w.i >= shortening \div 4
  THEN [w EXCEPT !.dirStack = SubSeq(@, w.i + 2, Len(@)), !.i = 0]
  ELSE w

(* What is in front of the index is erased.                                *)
Decrease(w, shortening) ==
  IF Len(w.dirStack) > shortening /\ w.i >= shortening \div 4
  THEN [w EXCEPT !.dirStack = SubSeq(@, w.i + 1, Len(@)), !.i = 0]
  ELSE w

(* The loop, until the index is behind the stack.                          *)
Iterate(w, tree, shortening) ==
  IF w.i = Len(w.dirStack) THEN w
  ELSE [Decrease(Traverse(w, tree), shortening) EXCEPT !.i = @ + 1]

(* The directories in the order they are listed by scan(true).             *)
Scan(tree, root, shortening) ==
  LET walk[n \in 0 .. Len(SetToSeq(DOMAIN tree))] ==
        IF n = 0 THEN [dirStack |-> <<root>>, i |-> 0, listed |-> <<>>]
        ELSE Iterate(walk[n - 1], tree, shortening)
  IN walk[Len(SetToSeq(DOMAIN tree))].listed
=============================================================================
