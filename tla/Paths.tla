------------------------------- MODULE Paths -------------------------------
(***************************************************************************)
(* Paths of a workspace: verifyPath and toggleSourceHeader of the          *)
(* Workspace of the worker and of the backend, and the jails they use.  A  *)
(* path that begins with / is a sequence of names; one that does not is    *)
(* the sequence of its names as well, below no directory yet.  There are   *)
(* no symbolic links.                                                      *)
(***************************************************************************)
EXTENDS Naturals, Sequences, FiniteSets, SequencesExt

Refused == <<"refused">>

(* One name further.                                                       *)
Enter(p, name) ==
  IF name = "." THEN p
  ELSE IF name # ".." THEN Append(p, name)
  ELSE IF p = <<>> THEN p
  ELSE Front(p)

(* weakly_canonical or lexically_normal of a path below a directory.       *)
Below(directory, path) == FoldLeft(Enter, directory, path)

(* The names that lead from base to path: what is left of path, or "..".   *)
LexicallyRelative(path, base) ==
  IF IsPrefix(base, path) THEN SubSeq(path, Len(base) + 1, Len(path)) ELSE <<"..">>

(* A relative path without a directory: it may lead out of where it begins.*)
EnterOrLeave(s, name) ==
  IF name = ".." /\ s.down = <<>> THEN [s EXCEPT !.out = TRUE]
  ELSE [s EXCEPT !.down = Enter(@, name)]

LexicallyNormal(path) ==
  LET up == FoldLeft(EnterOrLeave, [down |-> <<>>, out |-> FALSE], path)
  IN IF up.out THEN <<"..">> ELSE up.down

(* proximate, which looks whether the path exists below the directory of   *)
(* the process.                                                            *)
Proximate(path, base, cwd, exists) ==
  IF Append(cwd, Head(path)) \in exists
  THEN LexicallyRelative(Below(cwd, path), base)
  ELSE LexicallyNormal(path)

(* A slip: the way out of the jail is not looked for.                      *)
RelativeToRootOpen(jailRoot, path, cwd, exists) ==
  Below(jailRoot, Proximate(path, jailRoot, cwd, exists))

(* Jail::relativeToRoot of the worker, below its root.                     *)
RelativeToRoot(jailRoot, path, cwd, exists) ==
  LET proxi == Proximate(path, jailRoot, cwd, exists)
  IN IF \E n \in DOMAIN proxi : proxi[n] = ".." THEN Refused ELSE jailRoot \o proxi

(* Jail::relativeToRoot of the backend.                                    *)
BackendRelativeToRoot(jailRoot, path) ==
  LET proxi == LexicallyRelative(Below(jailRoot, path), jailRoot)
  IN IF \E n \in DOMAIN proxi : proxi[n] = ".." THEN Refused ELSE jailRoot \o proxi

(* The name begins with that of the root; Longer are those that go on.     *)
BeginsLike(name, rootFilename, Longer) == name = rootFilename \/ name \in Longer

(* A path that was given no value.                                         *)
NoPath == <<"">>

(* exists of a path as it is given: every directory on its way is there.   *)
Leads(directory, path, exists) ==
  \A n \in DOMAIN path : Below(directory, SubSeq(path, 1, n)) \in exists

(* What relativeToRoot, of the directory the root is in, made of the path, *)
(* if the path is not the name of the root and begins like it.             *)
InWorkspace(path, root, Longer, jailed) ==
  IF path = <<Last(root)>> THEN root
  ELSE IF BeginsLike(Head(path), Last(root), Longer) THEN jailed
  ELSE Refused

(* verifyPath, without a leading /, of a workspace at root; asked has its  *)
(* parameters.  Unless it is enforced that the path is in the workspace, a *)
(* path that leaves the jail is taken as it is, below the directory of the *)
(* process, and one that does not begin like the root is left empty.       *)
VerifyPath(path, asked, root, Longer, cwd, exists, jailed) ==
  LET inWorkspace == InWorkspace(path, root, Longer, jailed)
      asGiven == BeginsLike(Head(path), Last(root), Longer)
      result == IF inWorkspace # Refused \/ asked.enforceWorkspaceRelative THEN inWorkspace
                ELSE IF asGiven THEN Below(cwd, path)
                ELSE NoPath
      there == IF inWorkspace # Refused THEN inWorkspace \in exists
               ELSE asGiven /\ Leads(cwd, path, exists)
  IN IF asked.mustExist /\ ~there THEN Refused ELSE result

WorkerVerifyPath(path, asked, root, Longer, cwd, exists) ==
  VerifyPath(path, asked, root, Longer, cwd, exists, RelativeToRoot(Front(root), path, cwd, exists))

BackendVerifyPath(path, asked, root, Longer, cwd, exists) ==
  VerifyPath(path, asked, root, Longer, cwd, exists, BackendRelativeToRoot(Front(root), path))

------------------------------------------------------------------------------
(* Extensions, as their first letter and what follows it.                  *)
SourceExtensions ==
  {<<"c", rest>> : rest \in {"pp", "", "xx", "c", "++", "p"}}
    \cup {<<"i", "i">>, <<"i", "">>, <<"m", "">>, <<"m", "i">>, <<"m", "m">>, <<"m", "ii">>}

HeaderExtensions ==
  {<<"h", rest>> : rest \in {"h", "", "p", "pp", "xx", "++"}} \cup {<<"t", "cc">>, <<"t", "xx">>}

(* What the handler has for an extension that is not given.                *)
AutoExtension == <<"auto">>

Unrecognised == <<"unrecognised">>

(* Some with capital letters, and what tolower makes of an extension.      *)
Capitals == {<<"C", "">>, <<"C", "PP">>, <<"H", "">>}

Lower(extension) ==
  IF extension = <<"C", "">> THEN <<"c", "">>
  ELSE IF extension = <<"C", "PP">> THEN <<"c", "pp">>
  ELSE IF extension = <<"H", "">> THEN <<"h", "">>
  ELSE extension

(* The handler's choice of targetExtension: what the body has for the      *)
(* header goes into the extension of the source.                           *)
TargetExtension(extension, sourceExtension, headerExtension) ==
  LET lower == Lower(extension)
      ofSource == IF headerExtension # AutoExtension THEN headerExtension ELSE sourceExtension
      auto == IF lower[1] = "h" THEN <<"c", lower[2]>> ELSE <<"c", "pp">>
  IN IF lower \in SourceExtensions THEN <<"h", IF lower[1] = "c" THEN lower[2] ELSE "">>
     ELSE IF lower \notin HeaderExtensions THEN Unrecognised
     ELSE IF ofSource # AutoExtension THEN ofSource ELSE auto

SpecialNames(isSource) == IF isSource THEN {"source", "sources", "src"} ELSE {"include", "headers"}

(* Where the partner may be, in the order it is looked for.                *)
PartnerNames(isSource) == IF isSource THEN <<"include", "headers">> ELSE <<"source", "src", "sources">>

(* The way up to the last special directory above the file, 0 if none.     *)
Reduced(directory, isSource) ==
  SelectLastInSeq(directory, LAMBDA name : name \in SpecialNames(isSource))

(* A slip: the last of them that exists is taken.                          *)
SpecialDirLast(parent, isSource, exists) ==
  LET names == PartnerNames(isSource)
      n == SelectLastInSeq(names, LAMBDA name : Append(parent, name) \in exists)
  IN Append(parent, names[IF n = 0 THEN 1 ELSE n])

(* Which of the names is the first that exists below parent, 0 if none is. *)
FirstThere(names, parent, exists) ==
  SelectInSeq(names, LAMBDA name : Append(parent, name) \in exists)

(* The first that exists, else the first name.                             *)
SpecialDir(parent, isSource, exists) ==
  LET names == PartnerNames(isSource)
      n == FirstThere(names, parent, exists)
  IN Append(parent, names[IF n = 0 THEN 1 ELSE n])

(* toggleSourceHeader: a file is its directory, stem and extension.        *)
ToggleSourceHeader(file, isSource, targetExtension, exists) ==
  LET n == Reduced(file.directory, isSource)
      parent == SubSeq(file.directory, 1, n - 1)
      special == SpecialDir(parent, isSource, exists)
  IN [specialDirPartner |->
        IF n = 0 THEN {}
        ELSE {[file EXCEPT !.directory = special \o SubSeq(@, n + 1, Len(@)),
                           !.extension = targetExtension]},
      samePlacePartner |-> [file EXCEPT !.extension = targetExtension],
      specialExists |-> n # 0 /\ special \in exists,
      anyFound |-> n # 0]
=============================================================================
