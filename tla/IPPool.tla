------------------------------- MODULE IPPool -------------------------------
(***************************************************************************)
(* The two VPN address pools of the coordinator (coordinator/db.go).       *)
(*                                                                         *)
(* Pis and customers get addresses 10.100.c.d/32.  An address is the pair  *)
(* <<c, d>>: the prefix 10.100 is the same for both pools.  The next       *)
(* address of a pool is computed from the number of rows its table holds,  *)
(* and rows are never deleted, so the state is the two row counts.         *)
(***************************************************************************)
EXTENDS Integers

CONSTANTS
  MaxPis,       \* bound of the model: rows the pis table may reach
  MaxCustomers  \* bound of the model: rows the customers table may reach

ASSUME BoundsAssumption == MaxPis \in Nat /\ MaxCustomers \in Nat

VARIABLES
  pis,        \* SELECT COUNT(*) FROM pis
  customers   \* SELECT COUNT(*) FROM customers

vars == <<pis, customers>>

-----------------------------------------------------------------------------
(* The capacities handed to seqIP by nextPiIP and nextCustomerIP. *)
PiCap       == 2540
CustomerCap == 61950

(* seqIP: the n-th address after 10.100.startC.startD, 254 hosts to a row. *)
SeqIP(startC, startD, n) ==
  LET total == startC * 254 + (startD - 1) + n
  IN  <<total \div 254, (total % 254) + 1>>

(* An off-by-one: the pool starts one address late. *)
PiIPLate(n) == SeqIP(0, 3, n)

PiIP(n)       == SeqIP(0, 2, n)
CustomerIP(n) == SeqIP(10, 1, n)

-----------------------------------------------------------------------------
Init == pis = 0 /\ customers = 0

(* The capacity is compared with > instead of >=. *)
AddPiPastCap ==
  /\ pis <= PiCap /\ pis < MaxPis
  /\ pis' = pis + 1
  /\ UNCHANGED customers

(* A Pi registers: nextPiIP refuses at the cap, otherwise a row is added. *)
AddPi ==
  /\ pis < PiCap /\ pis < MaxPis
  /\ pis' = pis + 1
  /\ UNCHANGED customers

(* A customer registers: the same with nextCustomerIP. *)
AddCustomer ==
  /\ customers < CustomerCap /\ customers < MaxCustomers
  /\ customers' = customers + 1
  /\ UNCHANGED pis

Next == AddPi \/ AddCustomer

Spec == Init /\ [][Next]_vars

-----------------------------------------------------------------------------
TypeOK ==
  /\ pis \in Nat /\ pis <= PiCap
  /\ customers \in Nat /\ customers <= CustomerCap

(* The ranges the comment above nextPiIP and nextCustomerIP documents. *)
PiRange       == {a \in (0..9)    \X (1..254) : a # <<0, 1>>}
CustomerRange == (10..254) \X (1..254)

(* The newest Pi's address was never handed to an earlier Pi: the pool is  *)
(* walked without coming back to an address (seqIP, nextPiIP).             *)
PiAddressesDistinct ==
  \A i \in 0..(pis - 2) : PiIP(i) # PiIP(pis - 1)

(* Every customer address lies in the documented customer range, to the    *)
(* last one the capacity 61950 lets through (nextCustomerIP).              *)
CustomersInRange ==
  customers > 0 => CustomerIP(customers - 1) \in CustomerRange

(* No Pi holds the address of a customer, as long as the last place of the  *)
(* Pi pool is not in use (index 2539 is 10.100.10.1, the first customer's): *)
(* the pools meet without a gap and must not overlap otherwise (seqIP).     *)
PoolsDisjoint ==
  pis > 0 /\ pis < PiCap =>
    \A j \in 0..(customers - 1) : PiIP(pis - 1) # CustomerIP(j)

(* Both: the newest Pi's address is nobody else's, short of the last place. *)
NewestPiApart == PiAddressesDistinct /\ PoolsDisjoint
=============================================================================
