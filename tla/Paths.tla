------------------------------- MODULE Paths -------------------------------
(***************************************************************************)
(* The functions of core/fio.c that deal with a path's text: joining,      *)
(* splitting, what two paths have in common at the start.                  *)
(***************************************************************************)
EXTENDS Words

\* Mutant: a slash is put in even where there is one.
JoinAlways(path, arg) == path \o <<"/">> \o arg

\* What one more argument of path_join_many makes of the path so far.
Join(path, arg) ==
  LET bare == IF StartsWith(arg, <<".", "/">>) THEN Offset(arg, 2) ELSE arg
      slashed == IsSuffix(<<"/">>, path)
  IN  IF slashed /\ StartsWith(arg, <<"/">>) THEN path \o Tail(arg)
      ELSE IF slashed \/ StartsWith(arg, <<"/">>) THEN path \o bare
      ELSE path \o <<"/">> \o bare

\* The first argument is the path so far even where it is empty: a slash comes next.
JoinMany(args) == FoldLeft(Join, Head(args), Tail(args))

PathSplit(path) == SplitByChar(path, "/", RemoveEmpty)
PathDepth(path) == Len(PathSplit(path))

\* It has no slash at the start, and if nothing is common it is no C string at all.
GreatestCommonPath(path1, path2) ==
  LET splits1 == PathSplit(path1)  splits2 == PathSplit(path2)
      length == Max({n \in 0..Min({Len(splits1), Len(splits2)}) :
                       SubSeq(splits1, 1, n) = SubSeq(splits2, 1, n)})
  IN  [cstr |-> length > 0,
       text |-> FlattenSeq([n \in 1..length |->
                  (IF n = 1 THEN <<>> ELSE <<"/">>) \o splits1[n]])]

=============================================================================
