---------------------------- MODULE MCIkdRebuild ----------------------------
(* Nine points in nine cells, so that both sons of the root are large      *)
(* enough for the rebuild thread and their sons are not.                   *)
EXTENDS IkdRebuild

MCInitial == {2, 4, 6, 8, 10, 12, 14, 16, 18}
MCQueries == {3, 11, 20}
Box(min, max) == [min |-> min, max |-> max]
MCCalls ==
  {[kind |-> "add", arg |-> p] : p \in {21}}
    \cup {[kind |-> "insert", arg |-> p] : p \in {5, 6}}
    \cup {[kind |-> "delete", arg |-> b] : b \in {Box(2, 7), Box(3, 13)}}
=============================================================================
