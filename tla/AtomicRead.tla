------------------------------- MODULE AtomicRead -------------------------------
(***************************************************************************)
(* What GetColumn() promises: one step takes the call to an error, or to   *)
(* an array that holds exactly the elements selected, after which nothing  *)
(* touches the array.                                                      *)
(***************************************************************************)
CONSTANTS NoResult, Failed
VARIABLES expected, result

Init == result = NoResult

Return ==
  /\ result = NoResult
  /\ result' \in {Failed, expected}
  /\ UNCHANGED expected

Spec == Init /\ [][Return]_<<expected, result>>
=============================================================================
