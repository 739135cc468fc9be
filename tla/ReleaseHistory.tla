------------------------------ MODULE ReleaseHistory ------------------------------
(***************************************************************************)
(* What a release channel promises: its history only grows, an attempt     *)
(* leaves "active" once and for good, and a new attempt starts either on a *)
(* free channel or as the successor of the attempt that holds it.          *)
(* Every verb is one step here; module ReleaseChannel writes files.        *)
(***************************************************************************)
EXTENDS Naturals, Sequences

CONSTANTS Channels, Owners

VARIABLES
  history,   \* per channel, its attempts so far, oldest first
  held       \* the channels with a lease

vars == <<history, held>>

Init ==
  /\ history = [c \in Channels |-> <<>>]
  /\ held = {}

Fresh(o) == [owner |-> o, outcome |-> "active"]

Acquire(c, o) ==
  /\ c \notin held
  /\ history' = [history EXCEPT ![c] = Append(@, Fresh(o))]
  /\ held' = held \cup {c}

\* A failed attempt keeps its outcome; an active one is archived as superseded.
Archive(h) ==
  [i \in 1..Len(h) |-> IF i = Len(h) /\ h[i].outcome = "active"
                       THEN [owner |-> h[i].owner, outcome |-> "superseded"] ELSE h[i]]

Supersede(c, o) ==
  /\ c \in held /\ history[c] # <<>>
  /\ history' = [history EXCEPT ![c] = Append(Archive(history[c]), Fresh(o))]
  /\ UNCHANGED held

\* A failure keeps the channel, a success clears it.
Settle(c, outcome) ==
  LET n == Len(history[c])
  IN  /\ c \in held /\ n > 0
      /\ history[c][n].outcome = "active"
      /\ history' = [history EXCEPT ![c][n].outcome = outcome]
      /\ held' = IF outcome = "released" THEN held \ {c} ELSE held

Next ==
  \E c \in Channels :
    \/ \E o \in Owners : Acquire(c, o) \/ Supersede(c, o)
    \/ Settle(c, "failed") \/ Settle(c, "released")

Spec == Init /\ [][Next]_vars
===================================================================================
