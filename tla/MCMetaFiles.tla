---------------------------- MODULE MCMetaFiles ----------------------------
(* Values for model checking MetaFiles.                                    *)
EXTENDS MetaFiles

CONSTANTS s1, p1, p2, e0, e1, t1, t2, r1, r2, r3

(* What comes second is longer in each of the files.                       *)
Lengths == p1 :> 1 @@ p2 :> 2 @@ e0 :> 1 @@ e1 :> 2 @@ t1 :> 1 @@ t2 :> 2

(* Each changes one flag, of the first values or of the defaults.          *)
OneFlag == {"splitSourceAndInclude" :> FALSE, "ignoreSeemingSplit" :> TRUE}

NoFiles == [f \in Files |-> Text(f, Missing)]

Used == [f \in Files |->
  Text(f, CASE f = WorkspaceFile -> p1
            [] f = SettingsFile -> e1
            [] f[1] = "project" -> [k \in Flags |-> TRUE]
            [] OTHER -> t2)]

(* A first start, and one where all files were written before.             *)
NewOrUsed == {NoFiles, Used}

Symmetry == Permutations(Requests)
=============================================================================
