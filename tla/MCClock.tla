------------------------------ MODULE MCClock ------------------------------
(***************************************************************************)
(* A clock of eleven seconds, two minutes and two hours (day, month and    *)
(* year are read, and go wrong, as the hour does).                         *)
(***************************************************************************)
EXTENDS Clock

MCRadix == <<11, 2, 2>>
=============================================================================
