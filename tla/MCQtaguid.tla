----------------------------- MODULE MCQtaguid -----------------------------
(* Model values of Qtaguid for TLC.                                        *)
EXTENDS Qtaguid, TLC

CONSTANTS p1, p2, u1, u2

(* Two processes of one uid, or a process and a privileged one of another. *)
MCProcs  == {p1, p2}
MCProc   == {p1}
MCUid1   == p1 :> u1
OneUid   == p1 :> u1 @@ p2 :> u1
TwoUids  == p1 :> u1 @@ p2 :> u2

(* Bound: behaviours are not followed beyond an interrupted unlocked       *)
(* update, after which the counts may drift without end.                   *)
Explored == "unlocked" \notin excuse
=============================================================================
