----------------------------- MODULE MCDetached -----------------------------
(***************************************************************************)
(* Values of DetachedMode's constants for TLC.                             *)
(***************************************************************************)
EXTENDS DetachedMode, TLC

\* Jobs are interchangeable; instances are too, but NewInstances already picks.
Sym == Permutations(Jobs)
=============================================================================
