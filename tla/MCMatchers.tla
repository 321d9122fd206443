----------------------------- MODULE MCMatchers -----------------------------
(* Small instances of Matchers.tla.                                         *)
EXTENDS Matchers

\* Five postings: a skip after the second and the fourth, and one more to come.
MCLongPostings == {<<"postings", <<1..5>>>>, <<"postings", <<1..5, {1}>>>>}
=============================================================================
