---------------------------- MODULE Environments ----------------------------
(***************************************************************************)
(* environment.cpp and PublicSettings::compileEnvironment of the worker:   *)
(* an environment with those it inherits from is turned into the variables *)
(* of a process.  A directory is a pair of a rank and a spelling: of those *)
(* with one rank the names differ only in case.                            *)
(***************************************************************************)
EXTENDS Naturals, Sequences, FiniteSets, SequencesExt

(* What pop_back of an empty string leaves.                                *)
Undefined == <<"undefined">>

(* Failures of compileEnvironment.                                         *)
NotThere == "nullopt"
InheritsUnknown == "exception"

SamePath(d, e) == d[1] = e[1]

(* Insertion into a set that is ordered without regard to case.            *)
Insert(set, d) == IF \E e \in set : SamePath(d, e) THEN set ELSE set \cup {d}

(* The set in its order.                                                   *)
Ordered(set) ==
  CHOOSE s \in [1 .. Cardinality(set) -> set] : \A m, n \in DOMAIN s : m < n => s[m][1] < s[n][1]

(* What is in f, and what else is in g.                                    *)
Over(f, g) == [x \in DOMAIN f \cup DOMAIN g |-> IF x \in DOMAIN f THEN f[x] ELSE g[x]]

(* A slip: the variables of the environment that is merged into win.       *)
MergeKeeps(this, other) ==
  [path |-> Ordered(FoldLeft(Insert, {}, this.path \o other.path)),
   variables |-> Over(this.variables, other.variables),
   inherits |-> <<>>]

(* Environment::merge, with pathsAreCaseInsensitive as it is passed when   *)
(* the system is not Windows; nothing is inherited by what is merged.      *)
Merge(this, other) ==
  [path |-> Ordered(FoldLeft(Insert, {}, this.path \o other.path)),
   variables |-> Over(other.variables, this.variables),
   inherits |-> <<>>]

MergePath(path) == IF path = <<>> THEN Undefined ELSE path

(* Environment::compile: a variable PATH does not replace the path.        *)
Compile(env) == Over([v \in {"PATH"} |-> MergePath(env.path)], env.variables)

(* Those an environment inherits from take it over, one after the other.   *)
Inherited(environs, env) ==
  FoldLeft(LAMBDA e, inherits : Merge(environs[inherits], e), env, env.inherits)

CompileEnvironment(environs, name) ==
  IF name \notin DOMAIN environs THEN NotThere
  ELSE LET env == environs[name]
       IN IF \E n \in DOMAIN env.inherits : env.inherits[n] \notin DOMAIN environs
          THEN InheritsUnknown
          ELSE Compile(Inherited(environs, env))
=============================================================================
