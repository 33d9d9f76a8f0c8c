---------------------------- MODULE IPPoolProofs ----------------------------
(***************************************************************************)
(* What IPPool says for pools of every size, proved: seqIP walks each pool  *)
(* without repeating an address, customers stay in their documented range,  *)
(* and the two pools are disjoint exactly up to the Pi of index 2538.       *)
(***************************************************************************)
EXTENDS IPPool, TLAPS

(* seqIP is injective: different row counts give different addresses. *)
LEMMA SeqIPInjective ==
  ASSUME NEW c \in Nat, NEW d \in 1..254, NEW m \in Nat, NEW n \in Nat,
         SeqIP(c, d, m) = SeqIP(c, d, n)
  PROVE  m = n
<1> DEFINE tm == c * 254 + (d - 1) + m
           tn == c * 254 + (d - 1) + n
<1>1. tm \in Nat /\ tn \in Nat
  OBVIOUS
<1>2. tm \div 254 = tn \div 254 /\ tm % 254 = tn % 254
  <2>1. (tm % 254) \in Int /\ (tn % 254) \in Int
    BY <1>1
  <2>2. tm \div 254 = tn \div 254 /\ (tm % 254) + 1 = (tn % 254) + 1
    BY DEF SeqIP
  <2> QED
    BY <2>1, <2>2
<1>3. tm = tn
  <2>1. tm = 254 * (tm \div 254) + (tm % 254)
    BY <1>1
  <2>2. tn = 254 * (tn \div 254) + (tn % 254)
    BY <1>1
  <2> QED
    BY <2>1, <2>2, <1>2
<1> QED
  BY <1>3

(* Below the last place of the pool, a Pi's address is in a row below the   *)
(* customers' first row, 10: it lies in the documented Pi range.            *)
LEMMA PiIPInRange ==
  ASSUME NEW n \in 0..(PiCap - 2)
  PROVE  PiIP(n) \in PiRange
<1>1. n \in Nat /\ n <= 2538
  BY DEF PiCap
<1> DEFINE t == 0 * 254 + (2 - 1) + n
<1>2. t \in 1..2539
  BY <1>1
<1>3. t \div 254 \in 0..9 /\ (t % 254) + 1 \in 1..254
  BY <1>2
<1>4. <<t \div 254, (t % 254) + 1>> # <<0, 1>>
  BY <1>2
<1> QED
  BY <1>3, <1>4 DEF PiIP, SeqIP, PiRange

(* The address of every customer below the cap is in the customer range. *)
LEMMA CustomerIPInRange ==
  ASSUME NEW n \in Nat, n < CustomerCap
  PROVE  CustomerIP(n) \in CustomerRange
<1> DEFINE t == 10 * 254 + (1 - 1) + n
<1>1. n <= 61949
  BY DEF CustomerCap
<1>2. t \in Nat /\ 2540 <= t /\ t <= 64489
  BY <1>1
<1>3. t \div 254 \in 10..254 /\ (t % 254) + 1 \in 1..254
  BY <1>2
<1> QED
  BY <1>3 DEF CustomerIP, SeqIP, CustomerRange

(* The last place of the Pi pool is the first customer's address: the cap   *)
(* 2540 of nextPiIP is one too large for the range its comment documents.   *)
THEOREM PoolsMeetAtPiCap == PiIP(PiCap - 1) = CustomerIP(0)
<1>1. PiIP(2539) = <<2540 \div 254, (2540 % 254) + 1>>
  BY DEF PiIP, SeqIP
<1>2. CustomerIP(0) = <<2540 \div 254, (2540 % 254) + 1>>
  BY DEF CustomerIP, SeqIP
<1> QED
  BY <1>1, <1>2 DEF PiCap

-----------------------------------------------------------------------------
(* The row counts never pass the capacities of their pools. *)
THEOREM TypeCorrect == Spec => []TypeOK
<1>1. Init => TypeOK
  BY DEF Init, TypeOK, PiCap, CustomerCap
<1>2. TypeOK /\ [Next]_vars => TypeOK'
  <2> SUFFICES ASSUME TypeOK, [Next]_vars
               PROVE  TypeOK'
    OBVIOUS
  <2>1. CASE AddPi
    BY <2>1, BoundsAssumption DEF AddPi, TypeOK, PiCap
  <2>2. CASE AddCustomer
    BY <2>2, BoundsAssumption DEF AddCustomer, TypeOK, CustomerCap
  <2>3. CASE UNCHANGED vars
    BY <2>3 DEF vars, TypeOK
  <2> QED
    BY <2>1, <2>2, <2>3 DEF Next
<1> QED
  BY <1>1, <1>2, PTL DEF Spec

(* No two Pis are given the same address, however many register. *)
THEOREM PiAddressesNeverRepeat == Spec => []PiAddressesDistinct
<1>1. TypeOK => PiAddressesDistinct
  <2> SUFFICES ASSUME TypeOK, NEW i \in 0..(pis - 2), PiIP(i) = PiIP(pis - 1)
               PROVE  FALSE
    BY DEF PiAddressesDistinct
  <2>1. i \in Nat /\ pis - 1 \in Nat /\ i # pis - 1
    BY DEF TypeOK, PiCap
  <2>2. i = pis - 1
    BY <2>1, SeqIPInjective, 0 \in Nat, 2 \in 1..254 DEF PiIP
  <2> QED
    BY <2>1, <2>2
<1> QED
  BY <1>1, TypeCorrect, PTL

(* Every customer's address lies in the documented customer range. *)
THEOREM CustomerAddressesInRange == Spec => []CustomersInRange
<1>1. TypeOK => CustomersInRange
  <2> SUFFICES ASSUME TypeOK, customers > 0
               PROVE  CustomerIP(customers - 1) \in CustomerRange
    BY DEF CustomersInRange
  <2>1. customers - 1 \in Nat /\ customers - 1 < CustomerCap
    BY DEF TypeOK, CustomerCap
  <2> QED
    BY <2>1, CustomerIPInRange
<1> QED
  BY <1>1, TypeCorrect, PTL

(* Until the last place of the Pi pool is taken, no Pi has the address of a *)
(* customer; with PoolsMeetAtPiCap the bound is exact.                      *)
THEOREM PoolsStayDisjoint == Spec => []PoolsDisjoint
<1>1. TypeOK => PoolsDisjoint
  <2> SUFFICES ASSUME TypeOK, pis > 0, pis < PiCap,
                      NEW j \in 0..(customers - 1),
                      PiIP(pis - 1) = CustomerIP(j)
               PROVE  FALSE
    BY DEF PoolsDisjoint
  <2>1. pis - 1 \in 0..(PiCap - 2)
    BY DEF TypeOK, PiCap
  <2>2. j \in Nat /\ j < CustomerCap
    BY DEF TypeOK, CustomerCap
  <2>3. PiIP(pis - 1) \in PiRange /\ CustomerIP(j) \in CustomerRange
    BY <2>1, <2>2, PiIPInRange, CustomerIPInRange
  <2>4. PiRange \cap CustomerRange = {}
    BY DEF PiRange, CustomerRange
  <2> QED
    BY <2>3, <2>4
<1> QED
  BY <1>1, TypeCorrect, PTL

(* An address that nextPiIP gives out is nobody else's, Pi or customer. *)
THEOREM NewestPiStaysApart == Spec => []NewestPiApart
<1>1. PiAddressesDistinct /\ PoolsDisjoint => NewestPiApart
  BY DEF NewestPiApart
<1> QED
  BY <1>1, PiAddressesNeverRepeat, PoolsStayDisjoint, PTL
=============================================================================
