------------------------------ MODULE MediaLife -----------------------------
(***************************************************************************)
(* What the media component promises of each file: it is stored before its *)
(* row makes it known, its row is given up before it is erased, and a file  *)
(* that is gone stays gone.  Only the route that deletes an object by its   *)
(* key may take a file away from under its row, or before it has one.      *)
(***************************************************************************)
CONSTANT Keys

VARIABLES
    life,       \* where each file is in its life
    byHand      \* the files that the route was asked to delete

Moves == {
    <<"absent", "stored">>,  \* uploaded to S3
    <<"stored", "kept">>,    \* its row is committed
    <<"kept", "stored">>,    \* its row is deleted
    <<"stored", "gone">>,    \* its object is deleted
    <<"lost", "gone">>}      \* the row of a lost file is deleted

Move(k) ==
    \/ life'[k] = life[k]
    \/ <<life[k], life'[k]>> \in Moves
    \/ k \in byHand /\ life[k] \in {"kept", "gone"} /\ life'[k] = "lost"

Init == life = [k \in Keys |-> "absent"] /\ byHand = {}

Next ==
    /\ life' \in [Keys -> {"absent", "stored", "kept", "lost", "gone"}]
    /\ \A k \in Keys : Move(k)
    /\ byHand \subseteq byHand'

Spec == Init /\ [][Next]_<<life, byHand>>
=============================================================================
