------------------------------- MODULE MCLock -------------------------------
(* Instances of Lock: three Lock objects in two or three processes.         *)
EXTENDS Lock, FiniteSets, TLC

CONSTANTS a, b, c, p, q, r, host1, host2

\* Two Lock objects of process p, one of process q.
TwoProcs == a :> p @@ b :> p @@ c :> q
\* One Lock object per process.
ThreeProcs == a :> p @@ b :> q @@ c :> r
=============================================================================
