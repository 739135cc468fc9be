------------------------------ MODULE MCFileLock ------------------------------
(***************************************************************************)
(* Instances of FileLock.  Caller g is the last call of a process that     *)
(* exited before the run and may have left its files behind; the others    *)
(* run in live processes.                                                  *)
(***************************************************************************)
EXTENDS FileLock, TLC

CONSTANTS a, b, d, g, pa, pb, pd, pg

TwoProcOf == (a :> pa) @@ (b :> pb) @@ (g :> pg)
ThreeProcOf == TwoProcOf @@ (d :> pd)
===============================================================================
