------------------------------ MODULE AtomicLock ------------------------------
(***************************************************************************)
(* What withExclusiveFileLock promises its callers                         *)
(* (packages/core/src/io.ts): at any moment at most one caller runs its    *)
(* `work` callback.  A caller may leave the critical section by finishing  *)
(* the callback or by the death of its process; both free the section.     *)
(***************************************************************************)
CONSTANT Callers          \* the calls that contend for one lock file

VARIABLE holders          \* the callers inside their `work` callback

Init == holders = {}

Acquire(c) == /\ holders = {}
              /\ holders' = {c}

\* One caller finishes, or a process with one holder (or none) dies.
Leave(c) == /\ c \in holders
            /\ holders' = holders \ {c}

Next == \E c \in Callers : Acquire(c) \/ Leave(c)

Spec == Init /\ [][Next]_holders

-------------------------------------------------------------------------------
AtMostOneHolder == \A c, d \in holders : c = d
===============================================================================
