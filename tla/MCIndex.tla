------------------------------- MODULE MCIndex -------------------------------
(* Instances of Index: indexers i and j, a reader r that locks and a reader  *)
(* l that does not.                                                          *)
EXTENDS Index

CONSTANTS i, j, r, l
=============================================================================
