------------------------------ MODULE Flights ------------------------------
(***************************************************************************)
(* What request coalescing promises: each key has at most one flight, led  *)
(* by one member; others may board while it is in the air, and when it     *)
(* lands everyone on board is served at once.  QueryPath and               *)
(* BatchProcessor are shown to implement this.                             *)
(***************************************************************************)
CONSTANTS Members, Keys, Nobody

VARIABLES
    leader,   \* who leads the flight of each key, if there is one
    aboard    \* who waits for it to land

Init ==
    /\ leader = [k \in Keys |-> Nobody]
    /\ aboard = [k \in Keys |-> {}]

TakeOff(k, m) ==
    /\ leader[k] = Nobody
    /\ leader' = [leader EXCEPT ![k] = m]
    /\ UNCHANGED aboard

Board(k, m) ==
    /\ leader[k] # Nobody
    /\ m \notin aboard[k]
    /\ aboard' = [aboard EXCEPT ![k] = @ \cup {m}]
    /\ UNCHANGED leader

Land(k) ==
    /\ leader[k] # Nobody
    /\ leader' = [leader EXCEPT ![k] = Nobody]
    /\ aboard' = [aboard EXCEPT ![k] = {}]

\* A member may give up on its flight before it lands.
Leave(k, m) ==
    /\ m \in aboard[k]
    /\ aboard' = [aboard EXCEPT ![k] = @ \ {m}]
    /\ UNCHANGED leader

Next ==
    \E k \in Keys :
        \/ Land(k)
        \/ \E m \in Members : TakeOff(k, m) \/ Board(k, m) \/ Leave(k, m)

Spec == Init /\ [][Next]_<<leader, aboard>>
=============================================================================
