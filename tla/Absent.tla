------------------------------- MODULE Absent -------------------------------
(* What is not there: a field without a value, a row that was not found, a step not begun.     *)
CONSTANT None
=============================================================================
