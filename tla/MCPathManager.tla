--------------------------- MODULE MCPathManager ---------------------------
(* Instances of PathManager: one name, a configuration of its own and the  *)
(* regular expression "all", which matches it.                             *)
EXTENDS PathManager

CONSTANTS a, all, x, y, q1, q2, q3, c1

AllMatches == {all} \X Names
YRestricted == {<<y, "publish">>}

=============================================================================
