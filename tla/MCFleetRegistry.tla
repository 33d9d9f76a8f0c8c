--------------------------- MODULE MCFleetRegistry ---------------------------
(***************************************************************************)
(* Small instances of FleetRegistry: which codes and serials the request    *)
(* slots may carry.                                                         *)
(***************************************************************************)
EXTENDS FleetRegistry, TLC

CONSTANTS s1, s2, s3, c1, c2, p1, p2, r1, r2

(* Each Pi waits for its answer before it asks again. *)
OneSerial   == p1 :> {s1}
OwnPiSlots  == p1 :> {s1, s3} @@ p2 :> {s2}

(* One customer, and one that repeats a request that timed out while the     *)
(* first is still running.                                                   *)
OneSlot     == r1 :> {c1}
SharedSlots == r1 :> {c1} @@ r2 :> {c1, c2}
==============================================================================
