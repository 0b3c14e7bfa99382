---------------------------- MODULE MCSaveSeries ----------------------------
(* SaveSeries with two ids and two characters, for TLC. *)
EXTENDS SaveSeries

\* Of one character both figures have the same uid, of the other each its own.
MCUids == {1, 2}
MCUid  == [x \in {1, 2} \X {"one", "other"} |-> IF x[2] = "one" THEN 1 ELSE x[1]]
=============================================================================
