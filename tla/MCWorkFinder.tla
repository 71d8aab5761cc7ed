---------------------------- MODULE MCWorkFinder ----------------------------
(***************************************************************************)
(* WorkFinder with two workers that race, and with one and a longer queue  *)
(* of tasks.                                                               *)
(***************************************************************************)
EXTENDS WorkFinder

MCMaxFinds == <<3, 2>>

============================================================================
