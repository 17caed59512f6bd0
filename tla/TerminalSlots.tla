----------------------------- MODULE TerminalSlots -----------------------------
(***************************************************************************)
(* What the terminal registry promises a user, without workspaces, tokens, *)
(* handlers or clocks: selections of switches are acquired and given up as *)
(* a whole (both switches of a VPC pair or neither), no switch is held     *)
(* twice, and a user holds at most MaxTerminals switches.                  *)
(***************************************************************************)
EXTENDS Naturals, FiniteSets

CONSTANTS
  Users,
  Offers,        \* user -> the selections the user may ask for
  MaxTerminals

VARIABLE held    \* user -> the selections the user has terminals on

Init == held = [u \in Users |-> {}]

\* Terminals may close at any time, those of several users together.
GiveUp(u) == held'[u] \subseteq held[u]

\* A user gets all of T, or nothing.
Acquire(u, T) ==
  \E kept \in SUBSET held[u] :
    /\ (UNION kept) \cap T = {}
    /\ Cardinality(UNION kept) + Cardinality(T) <= MaxTerminals
    /\ held'[u] = kept \cup {T}

Next ==
  /\ held' = [u \in Users |-> held'[u]]
  /\ \/ \A u \in Users : GiveUp(u)
     \/ \E u \in Users :
          /\ \A v \in Users \ {u} : GiveUp(v)
          /\ \E T \in Offers[u] : Acquire(u, T)

Spec == Init /\ [][Next]_held
==============================================================================
