-------------------------- MODULE MCOptionsRouter --------------------------
(* One combo of two lots, placed by two callers at once or one after the *)
(* other, or again after a disconnect.                                 *)
EXTENDS OptionsRouter
=============================================================================
