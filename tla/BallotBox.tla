------------------------------ MODULE BallotBox ------------------------------
(***************************************************************************)
(* What the Election contract promises, without its counters: a box that   *)
(* takes at most one ballot of each voter until it is closed, and keeps    *)
(* every ballot it took.                                                   *)
(***************************************************************************)
CONSTANTS Hashes,   \* the voter hashes
          Ids       \* the candidate ids

VARIABLES cast,     \* the ballots taken: pairs <<hash, candidate id>>
          closed    \* the election is over

vars == <<cast, closed>>

TypeOK == cast \subseteq (Hashes \X Ids) /\ closed \in BOOLEAN

Init == cast = {} /\ closed = FALSE

HasCast(h) == \E id \in Ids : <<h, id>> \in cast

Cast(h, id) ==
    /\ ~closed
    /\ ~HasCast(h)
    /\ cast' = cast \cup {<<h, id>>}
    /\ UNCHANGED closed

Close ==
    /\ closed' = TRUE
    /\ UNCHANGED cast

Next == Close \/ \E h \in Hashes, id \in Ids : Cast(h, id)

Spec == Init /\ [][Next]_vars
=============================================================================
