----------------------------- MODULE AddressBook -----------------------------
(***************************************************************************)
(* What the coordinator promises of an address pool, whatever requests do:  *)
(* the n-th owner that ever joins gets the n-th address of the pool, nobody *)
(* else gets it, and it is the owner's for good ("stable IP assignment",    *)
(* coordinator/README.md).  FleetRegistry is shown to implement it twice,   *)
(* with its table pis and with its table customers.                         *)
(***************************************************************************)
EXTENDS Integers, FiniteSets

CONSTANTS
  Owners,  \* who may hold an address
  Cap      \* how many addresses the pool has

VARIABLE book  \* owner -> index of its address, for the owners that joined

Joined == Cardinality(DOMAIN book)

BookInit == book = [x \in {} |-> 0]

Assign(x) ==
  /\ x \notin DOMAIN book
  /\ Joined < Cap
  /\ book' = [y \in DOMAIN book \cup {x} |-> IF y = x THEN Joined ELSE book[y]]

BookNext == \E x \in Owners : Assign(x)

BookSpec == BookInit /\ [][BookNext]_book
==============================================================================
